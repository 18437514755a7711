---------------------------- MODULE MCWheelFilter ---------------------------
(* A library wheel and the device wheel; members of every kind that the    *)
(* scripts treat differently.                                              *)
EXTENDS WheelFilter, TLC

CONSTANTS first, second, plain, excluded, mentioned, quoted, kernels, cut
MCRuns == {first, second}
MCDevice == {1}
MCMembers == {plain, excluded, mentioned, quoted, kernels, cut}

Dir == [before |-> "", word |-> "none", after |-> "text"]
Named(before, after) == [before |-> before, word |-> "exact", after |-> after]
Plain(m) == [path |-> <<Dir, Dir>>, comma |-> m = quoted,
             target |-> m = kernels, hollow |-> m = cut]

(* hipsparselt/library/gfx906.dat, and include/hipsparselt_version.h *)
MCFacts == [m \in MCMembers |->
  CASE m = excluded -> [path |-> <<Named("", ""), Dir>>, comma |-> FALSE,
                        target |-> TRUE, hollow |-> FALSE]
    [] m = mentioned -> [Plain(m) EXCEPT !.path = <<Dir, Named("", "text")>>]
    [] OTHER -> Plain(m)]

Wheel(members, rows) ==
  [state |-> "whole", members |-> members, rows |-> rows, oneRecord |-> TRUE]

(* Sound wheels, with and without excluded members, and one of each flaw:  *)
(* a RECORD that misses members, none at all, an empty binary, a member    *)
(* that is only mentioned.                                                 *)
MCUpstream ==
  {Wheel(c, c) : c \in {{plain}, {kernels, quoted}, {kernels, excluded},
                        {plain, excluded}, {kernels, quoted, excluded},
                        {kernels, cut}, {kernels, excluded, mentioned}}}
    \cup {Wheel({kernels}, {}), Wheel({kernels, excluded}, {}),
          [Wheel({kernels, excluded}, {}) EXCEPT !.oneRecord = FALSE]}

MCSymmetry == Permutations(MCRuns)
=============================================================================
