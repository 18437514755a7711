--------------------------- MODULE MCPyTorchBuild ---------------------------
(* Two invocations, two build directories, one of them reached through a   *)
(* parent that is a symbolic link, the two patches of the queue.           *)
EXTENDS PyTorchBuild, TLC

CONSTANTS first, second, default, linked, elsewhere
MCRuns == {first, second}
MCBuildDirs == {default, linked}
MCReal == [d \in MCBuildDirs |-> IF d = linked THEN elsewhere ELSE d]

(* No run is told apart from another.                                      *)
MCSymmetry == Permutations(MCRuns)
=============================================================================
