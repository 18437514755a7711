----------------------------- MODULE Exclusion ------------------------------
(***************************************************************************)
(* The payloads that this distribution leaves out (hipSPARSELt, rocWMMA,   *)
(* hipTensor, Composable Kernel, rocprofiler-compute) are recognised by    *)
(* name in three places: the wheel filter, the wheel validator and the     *)
(* packager of the archive.  Each looks for something else in a path.      *)
(*                                                                         *)
(* A path is the sequence of its components.  Of a component it matters    *)
(* whether it mentions an excluded payload, in the spelling of the list or *)
(* in another one (case, `_' for `-'), and what stands before and after.   *)
(***************************************************************************)
EXTENDS Naturals, Sequences

Component == [before : {"", "lib", "text"},
              word : {"none", "exact", "variant"},
              after : {"", ".", "text"}]

Path == Seq(Component)

Mentions(c) == c.word # "none"

(* _is_excluded of the wheel filter: the name itself, or with a suffix     *)
(* that starts with a dot, then also as a library.  Spellings are          *)
(* normalised.                                                             *)
FilterExcludes(path) ==
  \E i \in DOMAIN path :
    /\ Mentions(path[i])
    /\ \/ path[i].before = "" /\ path[i].after = ""
       \/ path[i].before \in {"", "lib"} /\ path[i].after = "."

(* The validator finds the name anywhere in the normalised path.           *)
ValidatorExcludes(path) == \E i \in DOMAIN path : Mentions(path[i])

(* tar --exclude=rocm/**/NAME* and rocm/**/libNAME*, for the spelling of   *)
(* the list, below at least one directory; what follows is not looked at.  *)
PackagerExcludes(path) ==
  \E i \in DOMAIN path :
    /\ i > 1
    /\ path[i].word = "exact" /\ path[i].before \in {"", "lib"}
=============================================================================
