----------------------------- MODULE PatchQueue -----------------------------
(***************************************************************************)
(* apply_patch_queue() of scripts/build_therock_gfx906.sh and the source   *)
(* lock check after it.  Every build, and every resume of one, offers each *)
(* patch to the TheRock checkout and to its submodules, and infers from    *)
(* `git apply --check`, forward and then reverse, whether the patch has    *)
(* still to be applied.  The tree is the only record of what was applied,  *)
(* and a run may be cut off while git is writing it.                       *)
(***************************************************************************)
EXTENDS Integers

CONSTANTS
  Last,        \* the patches are 1 .. Last, in the order of the shell glob
  Submodules,  \* the submodule roots are 1 .. Submodules, in the order tried
  Home,        \* Home[p]: the root that the paths in patch p are relative to
  Site,        \* Site[p]: the checkout that owns the files patch p changes
  Files,       \* Files[p]: the files patch p modifies
  Extends,     \* <<q, p>>: patch p inserts lines into a hunk of patch q
  Supersedes,  \* <<q, p>>: the script lets patch p satisfy patch q
  Narrow,      \* the superseded patches whose rule looks in SOURCE_ROOT only
  MaxKills     \* bound: how often a run is cut off

SOURCE_ROOT == 0
Patches == 1 .. Last
Roots == SOURCE_ROOT .. Submodules

ASSUME QueueAssumption ==
  /\ Last \in Nat /\ Submodules \in Nat /\ MaxKills \in Nat
  /\ Home \in [Patches -> Roots] /\ Site \in [Patches -> Roots]
  /\ \A p \in Patches : Home[p] \in {SOURCE_ROOT, Site[p]}
  /\ DOMAIN Files = Patches /\ \A p \in Patches : Files[p] # {}

(* What the script's comments say of the patches it has a rule for: the    *)
(* later one extends a hunk of the earlier one, in the same file of the    *)
(* same checkout; and no other patch, the later one included, loses its    *)
(* reverse check to another.                                               *)
ASSUME RuleAssumption ==
  /\ Extends \subseteq Patches \X Patches
  /\ Supersedes = Extends
  /\ \A e \in Extends :
       /\ e[1] < e[2] /\ Files[e[1]] \subseteq Files[e[2]]
       /\ Home[e[1]] = Home[e[2]] /\ Site[e[1]] = Site[e[2]]
       /\ e[1] \in Narrow => Home[e[2]] = SOURCE_ROOT
  /\ \A e, f \in Extends : e[2] # f[1]

VARIABLES
  checkout,  \* checkout[r]: what is at submodule root r
  applied,   \* applied[p]: the files that carry the change of patch p
  missing,   \* the files that an interrupted `git apply` has removed
  cur,       \* patch_file of the run, Last + 1 after the loop
  progress,  \* where the run is, or how it ended
  kills

queueVars == <<checkout, applied, missing, cur, progress, kills>>
tree == <<applied, missing>>

(* A directory that is no checkout of its own belongs to SOURCE_ROOT's.    *)
Checkouts == {"absent", "directory", "locked"}

Ready(r) == r = SOURCE_ROOT \/ checkout[r] = "locked"
AllReady == \A r \in Roots : Ready(r)

Complete(p) == applied[p] = Files[p] /\ Files[p] \cap missing = {}

QueueInit ==
  /\ checkout \in [Roots -> Checkouts] /\ checkout[SOURCE_ROOT] = "locked"
  /\ applied = [p \in Patches |-> {}]
  /\ missing = {}
  /\ cur = 1
  /\ progress = "queue"
  /\ kills = 0

-----------------------------------------------------------------------------
(* git apply (external) *)

(* In a directory below a checkout git skips the paths that lie outside    *)
(* the directory, and a patch with nothing left to check passes.           *)
Skipped(r, p) ==
  /\ r # SOURCE_ROOT /\ checkout[r] = "directory"
  /\ ~(Home[p] = SOURCE_ROOT /\ Site[p] = r)

Reaches(r, p) == r = Home[p] /\ Ready(r) /\ Ready(Site[p])

(* git apply --check: no file carries the change and the context is there. *)
ForwardOK(r, p) ==
  \/ Skipped(r, p)
  \/ /\ Reaches(r, p)
     /\ applied[p] = {} /\ Files[p] \cap missing = {}
     /\ \A e \in Extends : e[2] = p => applied[e[1]] = Files[e[1]]

(* git apply --reverse --check: no later patch may split the hunks. *)
ReverseOK(r, p) ==
  \/ Skipped(r, p)
  \/ /\ Reaches(r, p)
     /\ Complete(p)
     /\ \A e \in Extends : e[1] = p => applied[e[2]] = {}

-----------------------------------------------------------------------------
(* apply_patch_queue() *)

(* Mutant: every patch is offered to the superproject only. *)
SuperprojectOnly == {SOURCE_ROOT}

(* patch_roots: a submodule that is not there is not probed. *)
patch_roots == {r \in Roots : r = SOURCE_ROOT \/ checkout[r] # "absent"}

(* Mutant: "already applied" is not recognised. *)
AcceptingForward(p) == {r \in patch_roots : ForwardOK(r, p)}

Accepting(p) == {r \in patch_roots : ForwardOK(r, p) \/ ReverseOK(r, p)}

(* r is the root the loop breaks at. *)
BreaksAt(r, p) == r \in Accepting(p) /\ \A r2 \in Accepting(p) : r <= r2

(* Mutant: the rules look for the later patch in the superproject only. *)
SupersededInSource(p) ==
  \E e \in Supersedes : e[1] = p /\ ReverseOK(SOURCE_ROOT, e[2])

Superseded(p) ==
  \E e \in Supersedes : e[1] = p /\
    \E r \in IF p \in Narrow THEN {SOURCE_ROOT} ELSE patch_roots : ReverseOK(r, e[2])

AtPatch == progress = "queue" /\ cur \in Patches

(* Mutant: a patch that was applied makes the loop skip the next one. *)
ApplyPatchAndSkip ==
  /\ AtPatch
  /\ \E r \in Roots : BreaksAt(r, cur) /\ ForwardOK(r, cur)
  /\ applied' = [applied EXCEPT ![cur] = Files[cur]]
  /\ cur' = cur + 2
  /\ UNCHANGED <<checkout, missing, progress, kills>>

ApplyPatch ==
  /\ AtPatch
  /\ \E r \in Roots :
       /\ BreaksAt(r, cur) /\ ForwardOK(r, cur)
       /\ applied' = IF Skipped(r, cur) THEN applied
                     ELSE [applied EXCEPT ![cur] = Files[cur]]
  /\ cur' = cur + 1
  /\ UNCHANGED <<checkout, missing, progress, kills>>

(* "already applied" or "superseded" *)
PassPatch ==
  /\ AtPatch
  /\ \/ \E r \in Roots : BreaksAt(r, cur) /\ ~ForwardOK(r, cur)
     \/ Accepting(cur) = {} /\ Superseded(cur)
  /\ cur' = cur + 1
  /\ UNCHANGED <<checkout, tree, progress, kills>>

(* exit 6 *)
RejectPatch ==
  /\ AtPatch
  /\ Accepting(cur) = {} /\ ~Superseded(cur)
  /\ progress' = "rejected"
  /\ UNCHANGED <<checkout, tree, cur, kills>>

(* Mutant: the report is written but --strict is not given. *)
LockIgnored == TRUE

(* verify_source_lock.py --strict: HEAD at each submodule path must be the *)
(* locked commit; in a plain directory git reports SOURCE_ROOT's HEAD.     *)
LockMatches == AllReady

VerifyLock ==
  /\ progress = "queue" /\ cur = Last + 1
  /\ progress' = IF LockMatches THEN "configured" ELSE "mismatched"
  /\ UNCHANGED <<checkout, tree, cur, kills>>

-----------------------------------------------------------------------------
(* Faults and the operator *)

(* Killed, or failing on a full disk, while git writes: it first removes   *)
(* all the files it modifies, then creates them one by one.                *)
CutOffApply ==
  /\ AtPatch /\ kills < MaxKills
  /\ \E r \in Roots : BreaksAt(r, cur) /\ ForwardOK(r, cur) /\ ~Skipped(r, cur)
  /\ \E gone, done \in SUBSET Files[cur] :
       /\ done = {} \/ gone = Files[cur] \ done
       /\ applied' = [applied EXCEPT ![cur] = done]
       /\ missing' = missing \cup gone
  /\ progress' = "down" /\ kills' = kills + 1
  /\ UNCHANGED <<checkout, cur>>

CutOff ==
  /\ progress = "queue" /\ kills < MaxKills
  /\ progress' = "down" /\ kills' = kills + 1
  /\ UNCHANGED <<checkout, tree, cur>>

(* The operator runs `git submodule update --init` between two runs. *)
InitSubmodule ==
  /\ progress # "queue"
  /\ \E r \in Roots : ~Ready(r) /\ checkout' = [checkout EXCEPT ![r] = "locked"]
  /\ UNCHANGED <<tree, cur, progress, kills>>

(* The build script is started again on the same source tree. *)
Rerun ==
  /\ progress # "queue"
  /\ progress' = "queue" /\ cur' = 1
  /\ UNCHANGED <<checkout, tree, kills>>

QueueStep == ApplyPatch \/ PassPatch \/ RejectPatch \/ VerifyLock
QueueNext == QueueStep \/ CutOffApply \/ CutOff \/ InitSubmodule \/ Rerun

QueueSpec == QueueInit /\ [][QueueNext]_queueVars

(* The shell goes on to the next command, and a run that has stopped short *)
(* of configuring is started again.                                        *)
FairQueueSpec ==
  /\ QueueSpec
  /\ WF_queueVars(QueueStep) /\ WF_queueVars(Rerun /\ progress # "configured")

-----------------------------------------------------------------------------
(* Properties *)

(* Every variable has its type. *)
QueueTypeOK ==
  /\ checkout \in [Roots -> Checkouts]
  /\ applied \in [Patches -> SUBSET UNION {Files[p] : p \in Patches}]
  /\ \A p \in Patches : applied[p] \subseteq Files[p]
  /\ missing \subseteq UNION {Files[p] : p \in Patches}
  /\ cur \in 1 .. Last + 1
  /\ progress \in {"queue", "rejected", "mismatched", "configured", "down"}
  /\ kills \in 0 .. MaxKills

(* CMake is never configured on a tree that lacks a change of the queue:   *)
(* not after a resume that inferred the state of a half-written patch, not *)
(* after a rule that let a later patch stand for an earlier one, and not   *)
(* after git skipped a patch in a submodule that was never checked out.    *)
ConfiguredComplete == progress = "configured" => \A p \in Patches : Complete(p)

Torn == missing # {} \/ \E p \in Patches : applied[p] \notin {{}, Files[p]}

(* "this keeps reruns idempotent": a queue that is wholly applied is never *)
(* changed by another run, and never rejected.                             *)
AllComplete == \A p \in Patches : Complete(p)
Idempotent ==
  [][AllComplete => UNCHANGED tree /\ (progress' = "rejected" => progress = "rejected")]_queueVars

(* A patch is rejected only if its files are not checked out or an earlier *)
(* run was cut off while git was writing: the inference from the two       *)
(* checks never mistakes a sound tree for a bad one.                       *)
RejectionIsReal ==
  [][(progress = "queue" /\ progress' = "rejected") => Torn \/ ~Ready(Site[cur])]_queueVars

(* With the submodules checked out, a build that is cut off and resumed    *)
(* gets through the queue, unless the cut left a half-written patch.       *)
ResumesUnlessTorn == AllReady ~> (progress = "configured" \/ Torn)
=============================================================================
