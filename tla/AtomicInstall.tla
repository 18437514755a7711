---------------------------- MODULE AtomicInstall ----------------------------
(***************************************************************************)
(* What the installer promises in its docstring and in README.md, and what *)
(* is left of it when a run is broken off: the installation under the      *)
(* prefix switches in one step from what it was to a complete new tree,    *)
(* and what it replaces is kept.  A run that fails changes nothing.  Only  *)
(* a run that is killed or interrupted, or whose rollback itself fails,    *)
(* may leave nothing or a tree that is not complete, and even then what    *)
(* was installed is kept.                                                  *)
(***************************************************************************)
CONSTANTS
  Trees,
  CompleteTrees,  \* those with all of rocm/, mi50-env.sh and mi50-install.json
  NoTree          \* nothing is installed

VARIABLES
  live,           \* what is installed
  kept            \* the trees that were replaced

Init ==
  /\ live \in CompleteTrees \cup {NoTree}
  /\ kept = {}

Keep == kept' = kept \cup ({live} \ {NoTree})

Replace == live' \in CompleteTrees /\ Keep

BreakOff == live' \in (Trees \ CompleteTrees) \cup {NoTree} /\ Keep

Next == Replace \/ BreakOff

Spec == Init /\ [][Next]_<<live, kept>>
=============================================================================
