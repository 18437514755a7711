------------------------------ MODULE Delivery ------------------------------
(***************************************************************************)
(* scripts/build_therock_gfx906.sh from the finished Ninja build to the    *)
(* artifact directory, with package_rocm_gfx906.py, the wheel filter and   *)
(* the validators it calls.  Runs follow each other on one build directory *)
(* and one artifact directory, with settings that may differ from run to   *)
(* run; `set -e` ends a run at the first command that fails, and a run may *)
(* be killed.  What a file is made from is the edition of its run: the     *)
(* sources and settings that build-provenance.json records.                *)
(***************************************************************************)
EXTENDS Naturals

CONSTANTS
  Editions,   \* the sources and settings that runs are started with
  MaxFaults   \* bound: how often a command fails or a run is killed

ASSUME DeliveryAssumption == MaxFaults \in Nat

(* dist/rocm and the archive hold files of two kinds: therock-dist writes  *)
(* the target-specific tree, artifact-flatten the generic files.  A        *)
(* directory or an archive that does not exist is the empty set.           *)
Kinds == {"target", "generic"}
Parts == Kinds \X Editions
Of(tree) == {part[2] : part \in tree}

NoWheels == [edition |-> {}, filtered |-> FALSE]

VARIABLES
  listed,    \* the targets that grep recognises in `cmake --target help`
  edition,   \* what the current run builds
  python,    \* MI50_BUILD_PYTHON_PACKAGES=ON, and TheRock has the script
  pc,        \* its stage, or how it ended
  dist,      \* dist/rocm in the build directory
  archive,   \* the release archive
  info,      \* the archive whose digest dist_info.json gives
  wheels,    \* python/dist
  shown,     \* the editions of the provenance and lock reports
  verdict,   \* artifact-validation.json
  features,  \* mi50_features.json
  faults

vars == <<listed, edition, python, pc, dist, archive, info, wheels, shown, verdict, features, faults>>
run == <<listed, edition, python>>
artifacts == <<archive, info, wheels, shown, verdict, features>>

(* What the two greps look for.  They want white space or the end of the   *)
(* line after the name, and Ninja's list has "therock-dist: phony"; under  *)
(* pipefail a match does not count either if grep -q stops reading a list  *)
(* that is still being written.  So any answer is possible in any run.     *)
Targets == {"therock-dist", "dist-rocm+expunge"}

Stages == {"build", "dist", "flatten", "gate", "package", "metadata",
           "wheels", "filter", "check wheels", "publish", "validate", "features"}
Stopped == {"idle", "failed", "delivered"}

(* What the validator examined; its report says "pass" or "fail". *)
Verdicts == [status : {"none", "pass", "fail"}, archive : SUBSET Parts, shown : SUBSET Editions]

Init ==
  /\ listed \in SUBSET Targets
  /\ edition \in Editions /\ python \in BOOLEAN
  /\ pc = "idle"
  /\ dist = {} /\ archive = {} /\ info = {} /\ wheels = NoWheels /\ shown = {}
  /\ verdict = [status |-> "none", archive |-> {}, shown |-> {}]
  /\ features = "none"
  /\ faults = 0

-----------------------------------------------------------------------------
(* The stages of a run *)

(* A run may be given another build directory, or a cleared one, with the  *)
(* artifact directory of the run before.                                   *)
Start ==
  /\ pc \in Stopped
  /\ listed' \in SUBSET Targets
  /\ edition' \in Editions /\ python' \in BOOLEAN
  /\ dist' \in {dist, {}}
  /\ pc' = "build"
  /\ UNCHANGED <<artifacts, faults>>

(* Configure, heal, cmake --build, --strict repair and the ROCr gate: the  *)
(* slices they leave are the run's own.  Whether the default target also   *)
(* writes dist/rocm is TheRock's choice.                                   *)
Build ==
  /\ pc = "build"
  /\ dist' \in {dist, dist \cup {<<"target", edition>>}}
  /\ pc' = "dist"
  /\ UNCHANGED <<run, artifacts, faults>>

(* Mutant: the distribution is built over the previous one. *)
NotExpunged == dist

Expunged == {}

(* therock-dist, after dist-rocm+expunge, as far as they are recognised.   *)
Cleared == IF "dist-rocm+expunge" \in listed THEN Expunged ELSE dist

Distribute ==
  /\ pc = "dist"
  /\ dist' = IF "therock-dist" \in listed THEN Cleared \cup {<<"target", edition>>} ELSE dist
  /\ pc' = "flatten"
  /\ UNCHANGED <<run, artifacts, faults>>

(* The stages inside `if [[ -d "$DIST_ROOT" ]]`. *)
AfterFlatten == IF dist = {} THEN "wheels" ELSE "gate"

Flatten ==
  /\ pc = "flatten"
  /\ dist' = IF dist = {} THEN {} ELSE dist \cup {<<"generic", edition>>}
  /\ pc' = AfterFlatten
  /\ UNCHANGED <<run, artifacts, faults>>

(* The list of artifacts comes from a process substitution: its failure is *)
(* not seen, and an empty list skips artifact-flatten.                     *)
FlattenNothing ==
  /\ pc = "flatten" /\ dist # {} /\ faults < MaxFaults
  /\ pc' = AfterFlatten /\ faults' = faults + 1
  /\ UNCHANGED <<run, dist, artifacts>>

(* validate_dist_contents.py, validate_elf_dependencies.py and the source  *)
(* checks of package_tree: the compiler and the runtime come with the      *)
(* generic files, the rocBLAS and MIOpen data with the target's.           *)
PassesGate(tree) == {part[1] : part \in tree} = Kinds

(* Mutant: the reports are written, and --strict is not given. *)
AfterLenientGate == "package"

AfterGate == IF PassesGate(dist) THEN "package" ELSE "failed"

Gate ==
  /\ pc = "gate"
  /\ pc' = AfterGate
  /\ UNCHANGED <<run, dist, artifacts, faults>>

(* tar and gzip into a temporary file, then os.replace. *)
Package ==
  /\ pc = "package"
  /\ archive' = dist
  /\ pc' = "metadata"
  /\ UNCHANGED <<run, dist, info, wheels, shown, verdict, features, faults>>

(* dist_info.json, again through a temporary file. *)
WriteMetadata ==
  /\ pc = "metadata"
  /\ info' = archive
  /\ pc' = "wheels"
  /\ UNCHANGED <<run, dist, archive, wheels, shown, verdict, features, faults>>

(* found=1: a tree was packaged, or the build directory held archives or   *)
(* wheels of TheRock's own, which the loop before has copied.              *)
Found == {TRUE} \cup {dist # {}}

(* Without python packages the directory of an earlier run is left alone;  *)
(* a run that has found nothing to distribute exits with status 4.         *)
SkipWheels ==
  /\ pc = "wheels" /\ ~python
  /\ \E found \in Found : pc' = IF found THEN "publish" ELSE "failed"
  /\ UNCHANGED <<run, dist, artifacts, faults>>

BuildWheels ==
  /\ pc = "wheels" /\ python
  /\ wheels' = [edition |-> {edition}, filtered |-> FALSE]
  /\ pc' = "filter"
  /\ UNCHANGED <<run, dist, archive, info, shown, verdict, features, faults>>

FilterWheels ==
  /\ pc = "filter"
  /\ wheels' = [wheels EXCEPT !.filtered = TRUE]
  /\ pc' = "check wheels"
  /\ UNCHANGED <<run, dist, archive, info, shown, verdict, features, faults>>

(* validate_python_packages.py rejects every excluded component.           *)
CheckWheels ==
  /\ pc = "check wheels"
  /\ pc' = IF wheels.filtered THEN "publish" ELSE "failed"
  /\ UNCHANGED <<run, dist, artifacts, faults>>

(* Four reports are copied into the artifact directory. *)
Publish ==
  /\ pc = "publish"
  /\ shown' = {edition}
  /\ pc' = "validate"
  /\ UNCHANGED <<run, dist, archive, info, wheels, verdict, features, faults>>

(* Mutant: a report of an earlier run in the tree counts as a finding. *)
RejectsReports == features # "torn" /\ info # {} /\ verdict.status # "fail"

(* The feature policy it checks is the one that the previous run left; the *)
(* rocBLAS and MIOpen markers it looks for are in dist_info.json.          *)
Valid == features # "torn" /\ info # {}

(* validate_artifacts.py writes its report whatever it says. *)
Validate ==
  /\ pc = "validate"
  /\ verdict' = [status |-> IF Valid THEN "pass" ELSE "fail",
                 archive |-> archive, shown |-> shown]
  /\ pc' = IF Valid THEN "features" ELSE "failed"
  /\ UNCHANGED <<run, dist, archive, info, wheels, shown, features, faults>>

(* mi50_features.py, redirected into the file the validator reads. *)
WriteFeatures ==
  /\ pc = "features"
  /\ features' = "whole"
  /\ pc' = "delivered"
  /\ UNCHANGED <<run, dist, archive, info, wheels, shown, verdict, faults>>

-----------------------------------------------------------------------------
(* A command fails, or the run is killed *)

(* Mutant: the archive is written under its own name. *)
HalfWritten == {<<"torn", edition>>}

(* What is at the archive's name when tar or gzip did not finish. *)
Unreplaced == archive

(* What else than before a file may be when the stage was not finished. *)
CutShort(stage, outcomes) == IF pc = stage THEN outcomes ELSE {}

(* The expunge removes file after file; what it has not reached is there.  *)
HalfDistributed ==
  IF "therock-dist" \notin listed THEN {}
  ELSE {Cleared \cup {<<"target", edition>>}} \cup IF Cleared = {} THEN SUBSET dist ELSE {}

Cut ==
  /\ pc \in Stages /\ faults < MaxFaults
  /\ pc' = "failed" /\ faults' = faults + 1
  /\ dist' \in {dist}
       \cup CutShort("build", {dist \cup {<<"target", edition>>}})
       \cup CutShort("dist", HalfDistributed)
       \cup (IF dist # {} THEN CutShort("flatten", {dist \cup {<<"generic", edition>>}}) ELSE {})
  /\ archive' = IF pc = "package" THEN Unreplaced ELSE archive
  /\ wheels' \in {wheels} \cup
       IF python
       THEN CutShort("wheels", {NoWheels, [edition |-> {edition}, filtered |-> FALSE]})
       ELSE {}
  /\ shown' \in {shown} \cup CutShort("publish", {shown \cup {edition}})
  /\ verdict' \in {verdict} \cup
       CutShort("validate", {[status |-> "fail", archive |-> archive, shown |-> shown]})
  /\ features' \in {features} \cup CutShort("features", {"torn"})
  /\ UNCHANGED <<run, info>>

RunStep ==
  \/ Build \/ Distribute \/ Flatten \/ Gate \/ Package \/ WriteMetadata
  \/ SkipWheels \/ BuildWheels \/ FilterWheels \/ CheckWheels
  \/ Publish \/ Validate \/ WriteFeatures

Next == Start \/ RunStep \/ FlattenNothing \/ Cut

Spec == Init /\ [][Next]_vars

(* The shell goes on to the next command; a run that failed is repeated. *)
FairSpec == Spec /\ WF_vars(RunStep) /\ WF_vars(Start /\ pc # "delivered")

-----------------------------------------------------------------------------
(* Properties *)

(* Every variable has its type. *)
TypeOK ==
  /\ listed \in SUBSET Targets /\ edition \in Editions /\ python \in BOOLEAN
  /\ pc \in Stages \cup Stopped
  /\ dist \in SUBSET Parts /\ archive \in SUBSET Parts /\ info \in SUBSET Parts
  /\ wheels \in [edition : SUBSET Editions, filtered : BOOLEAN]
  /\ shown \in SUBSET Editions
  /\ verdict \in Verdicts
  /\ features \in {"none", "torn", "whole"}
  /\ faults \in 0 .. MaxFaults

(* The release archive, which an installer may open at any moment, has the *)
(* generic and the target-specific files: no kill, failed command or       *)
(* unseen failure of the artifact list leaves a hollow one there.          *)
ArchiveUsable == archive # {} => PassesGate(archive)

(* "artifacts written to": when a run exits 0, the reports, the verdict of *)
(* the validator and the wheels it was asked for are that run's, whatever  *)
(* earlier runs left behind; so are the archive and the digest in          *)
(* dist_info.json where the run had a distribution tree, which it has if   *)
(* therock-dist was recognised; and if both targets were, every file       *)
(* archived is of that run.  A run without a tree delivers wheels or files *)
(* of TheRock's own, beside whatever archive and digest it found.          *)
DeliveredTogether ==
  pc = "delivered" =>
    /\ shown = {edition}
    /\ verdict = [status |-> "pass", archive |-> archive, shown |-> shown]
    /\ python => wheels = [edition |-> {edition}, filtered |-> TRUE]
    /\ dist # {} => archive = dist /\ info = archive
    /\ "therock-dist" \in listed => dist # {} /\ edition \in Of(archive)
    /\ listed = Targets => Of(archive) = {edition}

(* Neither the default target nor therock-dist has written the tree.       *)
Unwritten == pc = "flatten" /\ <<"target", edition>> \notin dist

(* Repeating a failed run comes to an end, unless one was cut off between  *)
(* the shell's truncation of mi50_features.json and the write of it, or    *)
(* TheRock again and again writes no distribution tree (exit status 4,     *)
(* "no distributable artifacts found").                                    *)
DeliversUnlessTorn ==
  <>[]~Unwritten => <>(pc = "delivered" \/ features = "torn")

(* "This prevents a changed configuration ... from leaking stale files     *)
(* into the next release archive": a run archives nothing of another one.  *)
NoStaleFiles == pc = "metadata" => Of(archive) \subseteq {edition}
=============================================================================
