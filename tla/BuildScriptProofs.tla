-------------------------- MODULE BuildScriptProofs -------------------------
(***************************************************************************)
(* Theorems about scripts/build_therock_gfx906.sh: of its beginning, the   *)
(* patch queue (PatchQueue), and of its end, from the finished build to    *)
(* the artifact directory (Delivery).                                      *)
(***************************************************************************)
EXTENDS PatchQueue, Delivery, TLAPS

-----------------------------------------------------------------------------
(* The patch queue: for every queue and every number of submodules,        *)
(* resumes and cut-offs, the build is configured only on a completely      *)
(* patched tree, a completely patched tree is left alone and accepted      *)
(* again, and a patch is rejected only for a reason.                       *)
(*                                                                         *)
(* The run knows of a patch behind `cur` only what two checks of git told  *)
(* it, so the induction carries what that knowledge is worth: the patch is *)
(* complete, or git skipped it in a submodule that is not checked out,     *)
(* which the lock check will notice (QueueInv).  For a superseded patch it *)
(* needs the history of its file: nothing extends a patch that is not      *)
(* wholly applied (LayerInv), and what was applied once is reachable again *)
(* (SiteInv).                                                              *)

LayerInv ==
  \A e \in Extends : applied[e[2]] # {} => applied[e[1]] = Files[e[1]]

SiteInv == \A p \in Patches : applied[p] # {} => Ready(Home[p]) /\ Ready(Site[p])

Skippable(p) == \E r \in Roots : Skipped(r, p)

QueueInv ==
  progress = "queue" => \A q \in Patches : q < cur => Complete(q) \/ Skippable(q)

QueueIInv == QueueTypeOK /\ LayerInv /\ SiteInv /\ QueueInv /\ ConfiguredComplete

-----------------------------------------------------------------------------
(* What the answers of git are worth *)

(* git skips a patch only in a directory that is no checkout. *)
LEMMA SkippedNotReady ==
  ASSUME NEW p, Skippable(p)
  PROVE  ~AllReady
BY DEF Skippable, Skipped, AllReady, Ready

(* A directory where git skips one of two patches of a rule it skips the   *)
(* other one too.                                                          *)
LEMMA SkippedTogether ==
  ASSUME NEW e \in Extends, NEW r \in Roots
  PROVE  Skipped(r, e[1]) <=> Skipped(r, e[2])
BY RuleAssumption DEF Skipped

(* A patch that passes its reverse check is complete, unless git skipped   *)
(* it.                                                                     *)
LEMMA ReverseMeansComplete ==
  ASSUME NEW r \in Roots, NEW p \in Patches, ReverseOK(r, p)
  PROVE  Complete(p) \/ Skippable(p)
BY DEF ReverseOK, Skippable

(* The rules that let a later patch stand for an earlier one are sound.    *)
LEMMA SupersededMeansComplete ==
  ASSUME NEW p \in Patches, Superseded(p), LayerInv
  PROVE  Complete(p) \/ Skippable(p)
<1>1. PICK e \in Supersedes, r \in Roots : e[1] = p /\ ReverseOK(r, e[2])
  <2>1. SOURCE_ROOT \in Roots /\ patch_roots \subseteq Roots
    BY QueueAssumption DEF Roots, SOURCE_ROOT, patch_roots
  <2>2. PICK e \in Supersedes : e[1] = p /\
          \E r \in IF p \in Narrow THEN {SOURCE_ROOT} ELSE patch_roots : ReverseOK(r, e[2])
    BY DEF Superseded
  <2> QED
    BY <2>1, <2>2
<1>2. e \in Extends /\ e[1] \in Patches /\ e[2] \in Patches /\ Files[e[1]] \subseteq Files[e[2]]
  BY RuleAssumption
<1>3. CASE Skipped(r, e[2])
  BY <1>1, <1>2, <1>3, SkippedTogether DEF Skippable
<1>4. CASE Complete(e[2])
  <2>1. applied[e[2]] # {}
    BY <1>2, <1>4, QueueAssumption DEF Complete
  <2>2. applied[p] = Files[p]
    BY <2>1, <1>1, <1>2 DEF LayerInv
  <2> QED
    BY <2>2, <1>1, <1>2, <1>4 DEF Complete
<1> QED
  BY <1>1, <1>3, <1>4 DEF ReverseOK

(* A complete patch is accepted, by its own reverse check or by the one of *)
(* the patch that extends it.                                              *)
LEMMA CompleteAccepted ==
  ASSUME NEW p \in Patches, Complete(p), missing = {} \/ AllComplete,
         \A q \in Patches : applied[q] \in {{}, Files[q]}, SiteInv
  PROVE  Accepting(p) # {} \/ Superseded(p)
<1> USE QueueAssumption
<1>1. Ready(Home[p]) /\ Ready(Site[p]) /\ Home[p] \in Roots
  BY DEF Complete, SiteInv
<1>2. \A r \in Roots : Ready(r) => r \in patch_roots
  BY DEF Ready, patch_roots
<1>3. CASE \A e \in Extends : e[1] = p => applied[e[2]] = {}
  BY <1>1, <1>2, <1>3 DEF Accepting, ReverseOK, Reaches
<1>4. CASE \E e \in Extends : e[1] = p /\ applied[e[2]] # {}
  <2>1. PICK e \in Extends : e[1] = p /\ applied[e[2]] # {}
    BY <1>4
  <2>2. /\ e[2] \in Patches /\ Home[e[2]] = Home[p] /\ Site[e[2]] = Site[p]
        /\ p \in Narrow => Home[p] = SOURCE_ROOT
        /\ \A f \in Extends : f[1] # e[2]
    BY <2>1, RuleAssumption
  <2>3. Complete(e[2])
    BY <2>1, <2>2 DEF Complete, AllComplete
  <2>4. ReverseOK(Home[p], e[2])
    BY <1>1, <2>2, <2>3 DEF ReverseOK, Reaches
  <2> QED
    BY <1>1, <1>2, <2>1, <2>2, <2>4, RuleAssumption DEF Superseded
<1> QED
  BY <1>3, <1>4

-----------------------------------------------------------------------------
(* The induction *)

LEMMA InitQueueIInv == QueueInit => QueueIInv
<1> SUFFICES ASSUME QueueInit PROVE QueueIInv
  OBVIOUS
<1> USE QueueAssumption
<1>1. QueueTypeOK
  BY DEF QueueInit, QueueTypeOK
<1>2. LayerInv
  BY RuleAssumption DEF QueueInit, LayerInv
<1>3. QueueInv /\ SiteInv
  BY DEF SiteInv,  QueueInit, QueueInv, Patches
<1>4. ConfiguredComplete
  BY DEF QueueInit, ConfiguredComplete
<1> QED
  BY <1>1, <1>2, <1>3, <1>4 DEF QueueIInv

LEMMA NextQueueIInv == QueueIInv /\ [QueueNext]_queueVars => QueueIInv'
<1> SUFFICES ASSUME QueueIInv, [QueueNext]_queueVars PROVE QueueIInv'
  OBVIOUS
<1> USE QueueAssumption DEF QueueIInv
<1>1. CASE ApplyPatch
  <2>1. PICK r \in Roots :
          /\ ForwardOK(r, cur)
          /\ applied' = IF Skipped(r, cur) THEN applied
                        ELSE [applied EXCEPT ![cur] = Files[cur]]
    BY <1>1 DEF ApplyPatch
  <2>2. /\ cur \in Patches /\ progress = "queue" /\ cur' = cur + 1
        /\ UNCHANGED <<checkout, missing, progress, kills>>
    BY <1>1 DEF ApplyPatch, AtPatch
  <2>3. CASE Skipped(r, cur)
    <3>1. UNCHANGED applied /\ Skipped(r, cur)
      BY <2>1, <2>3
    <3>2. QueueTypeOK'
      BY <3>1, <2>2 DEF QueueTypeOK, Patches
    <3>3. QueueInv'
      <4>1. \A q \in Patches : /\ Complete(q)' = Complete(q)
                               /\ Skippable(q)' = Skippable(q)
        BY <2>2, <3>1 DEF Complete, Skippable, Skipped
      <4>2. \A q \in Patches : q < cur + 1 => q < cur \/ q = cur
        BY <2>2 DEF Patches
      <4>3. Skippable(cur)
        BY <3>1 DEF Skippable
      <4> QED
        BY <2>2, <4>1, <4>2, <4>3 DEF QueueInv
    <3> QED
      BY <3>1, <3>2, <3>3, <2>2 DEF LayerInv, SiteInv, Ready, ConfiguredComplete
  <2>4. CASE ~Skipped(r, cur)
    <3>1. /\ applied' = [applied EXCEPT ![cur] = Files[cur]]
          /\ Reaches(r, cur) /\ Files[cur] \cap missing = {}
          /\ \A e \in Extends : e[2] = cur => applied[e[1]] = Files[e[1]]
      BY <2>1, <2>4 DEF ForwardOK
    <3>2. \A q \in Patches : applied'[q] = IF q = cur THEN Files[cur] ELSE applied[q]
      BY <3>1 DEF QueueTypeOK
    <3>3. QueueTypeOK'
      BY <2>2, <3>1, <3>2 DEF QueueTypeOK, Patches
    <3>4. LayerInv'
      <4> SUFFICES ASSUME NEW e \in Extends, applied'[e[2]] # {}
                   PROVE  applied'[e[1]] = Files[e[1]]
        BY DEF LayerInv
      <4>1. e[1] \in Patches /\ e[2] \in Patches /\ e[1] # e[2]
        BY RuleAssumption DEF Patches
      <4> QED
        BY <2>2, <3>1, <3>2, <4>1 DEF LayerInv
    <3>5. \A q \in Patches : q = cur \/ Complete(q) => Complete(q)'
      BY <2>2, <3>1, <3>2 DEF Complete
    <3>6. QueueInv'
      <4>1. \A q \in Patches : Skippable(q)' = Skippable(q)
        BY <2>2 DEF Skippable, Skipped
      <4>2. \A q \in Patches : q < cur + 1 => q < cur \/ q = cur
        BY <2>2 DEF Patches
      <4> QED
        BY <2>2, <3>5, <4>1, <4>2 DEF QueueInv
    <3>7. SiteInv'
      BY <2>2, <3>1, <3>2 DEF SiteInv, Reaches, Ready
    <3> QED
      BY <2>2, <3>3, <3>4, <3>6, <3>7 DEF ConfiguredComplete
  <2> QED
    BY <2>3, <2>4
<1>2. CASE PassPatch
  <2>1. cur \in Patches /\ progress = "queue" /\ cur' = cur + 1
        /\ UNCHANGED <<checkout, applied, missing, progress, kills>>
    BY <1>2 DEF PassPatch, AtPatch, tree
  <2>2. Complete(cur) \/ Skippable(cur)
    <3>1. CASE \E r \in Roots : BreaksAt(r, cur) /\ ~ForwardOK(r, cur)
      BY <2>1, <3>1, ReverseMeansComplete DEF BreaksAt, Accepting
    <3>2. CASE Superseded(cur)
      BY <2>1, <3>2, SupersededMeansComplete
    <3> QED
      BY <1>2, <3>1, <3>2 DEF PassPatch
  <2>3. QueueTypeOK'
    BY <2>1 DEF QueueTypeOK, Patches
  <2>4. QueueInv'
    <3>1. \A q \in Patches : /\ Complete(q)' = Complete(q)
                             /\ Skippable(q)' = Skippable(q)
      BY <2>1 DEF Complete, Skippable, Skipped
    <3>2. \A q \in Patches : q < cur + 1 => q < cur \/ q = cur
      BY <2>1 DEF Patches
    <3> QED
      BY <2>1, <2>2, <3>1, <3>2 DEF QueueInv
  <2> QED
    BY <2>1, <2>3, <2>4 DEF LayerInv, SiteInv, Ready, ConfiguredComplete
<1>3. CASE RejectPatch
  BY <1>3 DEF RejectPatch, tree, QueueTypeOK, LayerInv, SiteInv, Ready, QueueInv, ConfiguredComplete
<1>4. CASE VerifyLock
  <2>1. /\ progress = "queue" /\ cur = Last + 1
        /\ progress' = IF AllReady THEN "configured" ELSE "mismatched"
        /\ UNCHANGED <<checkout, applied, missing, cur, kills>>
    BY <1>4 DEF VerifyLock, LockMatches, tree
  <2>2. AllReady => \A q \in Patches : Complete(q)
    <3>1. \A q \in Patches : q < cur
      BY <2>1 DEF Patches
    <3> QED
      BY <2>1, <3>1, SkippedNotReady DEF QueueInv
  <2>3. ConfiguredComplete'
    BY <2>1, <2>2 DEF ConfiguredComplete, Complete
  <2> QED
    BY <2>1, <2>3 DEF QueueTypeOK, LayerInv, SiteInv, Ready, QueueInv
<1>5. CASE CutOffApply
  <2>1. PICK r \in Roots, gone \in SUBSET Files[cur], done \in SUBSET Files[cur] :
          /\ ForwardOK(r, cur) /\ ~Skipped(r, cur)
          /\ applied' = [applied EXCEPT ![cur] = done]
          /\ missing' = missing \cup gone
    BY <1>5 DEF CutOffApply
  <2>2. /\ cur \in Patches /\ kills < MaxKills
        /\ progress' = "down" /\ kills' = kills + 1 /\ UNCHANGED <<checkout, cur>>
    BY <1>5 DEF CutOffApply, AtPatch
  <2>3. applied[cur] = {} /\ \A e \in Extends : e[2] = cur => applied[e[1]] = Files[e[1]]
    BY <2>1 DEF ForwardOK
  <2>4. \A q \in Patches : applied'[q] = IF q = cur THEN done ELSE applied[q]
    BY <2>1 DEF QueueTypeOK
  <2>5. QueueTypeOK'
    BY <2>1, <2>2, <2>4 DEF QueueTypeOK
  <2>6. LayerInv'
    <3> SUFFICES ASSUME NEW e \in Extends, applied'[e[2]] # {}
                 PROVE  applied'[e[1]] = Files[e[1]]
      BY DEF LayerInv
    <3>1. e[1] \in Patches /\ e[2] \in Patches /\ e[1] # e[2]
      BY RuleAssumption DEF Patches
    <3>2. CASE e[2] = cur
      BY <2>3, <2>4, <3>1, <3>2
    <3>3. CASE e[2] # cur
      BY <2>3, <2>4, <3>1, <3>3, <2>2 DEF LayerInv
    <3> QED
      BY <3>2, <3>3
  <2>7. SiteInv'
    BY <2>1, <2>2, <2>4 DEF SiteInv, ForwardOK, Reaches, Ready
  <2> QED
    BY <2>2, <2>5, <2>6, <2>7 DEF QueueInv, ConfiguredComplete
<1>6. CASE CutOff
  <2>1. UNCHANGED <<applied, checkout>> /\ progress' = "down"
    BY <1>6 DEF CutOff, tree
  <2>2. LayerInv' /\ SiteInv'
    BY <2>1 DEF LayerInv, SiteInv, Ready
  <2>3. QueueInv' /\ ConfiguredComplete'
    BY <2>1 DEF QueueInv, ConfiguredComplete
  <2>4. QueueTypeOK'
    BY <1>6 DEF CutOff, tree, QueueTypeOK
  <2> QED BY <2>2, <2>3, <2>4
<1>7. CASE InitSubmodule
  <2>1. PICK r \in Roots : checkout' = [checkout EXCEPT ![r] = "locked"]
    BY <1>7 DEF InitSubmodule
  <2>2. progress # "queue" /\ UNCHANGED <<applied, missing, cur, progress, kills>>
    BY <1>7 DEF InitSubmodule, tree
  <2>3. QueueTypeOK'
    BY <2>1, <2>2 DEF QueueTypeOK, Checkouts
  <2>4. \A r2 \in Roots : Ready(r2) => Ready(r2)'
    BY <2>1 DEF Ready, QueueTypeOK
  <2>5. SiteInv'
    BY <2>2, <2>4 DEF SiteInv
  <2> QED
    BY <2>2, <2>3, <2>5 DEF LayerInv, QueueInv, ConfiguredComplete, Complete
<1>8. CASE Rerun
  <2>1. progress' = "queue" /\ cur' = 1 /\ UNCHANGED <<checkout, applied, missing, kills>>
    BY <1>8 DEF Rerun, tree
  <2>2. QueueTypeOK' /\ LayerInv'
    <3>1. 1 \in 1 .. Last + 1
      OBVIOUS
    <3> QED
      BY <2>1, <3>1 DEF QueueTypeOK, LayerInv
  <2>3. QueueInv' /\ SiteInv' /\ ConfiguredComplete'
    BY <2>1 DEF QueueInv, SiteInv, Ready, ConfiguredComplete, Patches
  <2> QED
    BY <2>2, <2>3
<1>9. CASE UNCHANGED queueVars
  BY <1>9 DEF queueVars, QueueTypeOK, LayerInv, SiteInv, QueueInv, ConfiguredComplete, Complete,
              Skippable, Skipped, Ready
<1> QED
  BY <1>1, <1>2, <1>3, <1>4, <1>5, <1>6, <1>7, <1>8, <1>9 DEF QueueNext, QueueStep

(* The conjunction that the theorems project. *)
LEMMA QueueInductive == QueueSpec => []QueueIInv
BY InitQueueIInv, NextQueueIInv, PTL DEF QueueSpec

-----------------------------------------------------------------------------
(* Results for the patch queue *)

(* Whatever was cut off and resumed, the variables keep their types: `cur` *)
(* never leaves the queue and no file carries a patch it is not named in.  *)
THEOREM QueueTypeCorrect == QueueSpec => []QueueTypeOK
BY QueueInductive, PTL DEF QueueIInv

(* Lines 178-280 and 330-334 of build_therock_gfx906.sh: a build that gets *)
(* as far as CMake has the whole queue in its tree.                        *)
THEOREM ConfiguredIsComplete == QueueSpec => []ConfiguredComplete
BY QueueInductive, PTL DEF QueueIInv

(* Lines 213-216, "this keeps reruns idempotent": a complete tree is not   *)
(* written to again and its patches are never rejected, so the four rules  *)
(* are all the rules the queue needs.                                      *)
THEOREM QueueIdempotent == QueueSpec => Idempotent
<1>1. ASSUME QueueIInv, [QueueNext]_queueVars, AllComplete
      PROVE  UNCHANGED tree /\ (progress' = "rejected" => progress = "rejected")
  <2> USE QueueAssumption
  <2>1. \A r \in Roots : cur \in Patches /\ ForwardOK(r, cur) => Skipped(r, cur)
    BY <1>1 DEF AllComplete, Complete, ForwardOK
  <2>2. CASE ApplyPatch
    BY <2>1, <2>2 DEF ApplyPatch, AtPatch, tree
  <2>3. CASE CutOffApply
    BY <2>1, <2>3 DEF CutOffApply, AtPatch, tree
  <2>4. CASE RejectPatch
    <3>1. cur \in Patches /\ Accepting(cur) = {} /\ ~Superseded(cur)
      BY <2>4 DEF RejectPatch, AtPatch
    <3>2. Complete(cur) /\ \A q \in Patches : applied[q] \in {{}, Files[q]}
      BY <1>1, <3>1 DEF AllComplete, Complete
    <3> QED
      BY <1>1, <3>1, <3>2, CompleteAccepted DEF QueueIInv
  <2> QED
    BY <1>1, <2>2, <2>3, <2>4
    DEF QueueNext, QueueStep, PassPatch, VerifyLock, CutOff, InitSubmodule, Rerun, queueVars, tree
<1> QED
  BY <1>1, QueueInductive, PTL DEF QueueSpec, Idempotent

(* Lines 273-276: exit 6 is reached only over a tree that an earlier run   *)
(* left half-written, or for files that are not checked out.               *)
THEOREM RejectionsAreReal == QueueSpec => RejectionIsReal
<1>1. ASSUME QueueIInv, [QueueNext]_queueVars, progress = "queue", progress' = "rejected"
      PROVE  Torn \/ ~Ready(Site[cur])
  <2> USE QueueAssumption
  <2>1. RejectPatch
    BY <1>1 DEF QueueNext, QueueStep, ApplyPatch, PassPatch, VerifyLock, CutOffApply, CutOff,
                InitSubmodule, Rerun, queueVars
  <2>2. cur \in Patches /\ Accepting(cur) = {} /\ ~Superseded(cur)
    BY <2>1 DEF RejectPatch, AtPatch
  <2>3. SUFFICES ASSUME ~Torn, Ready(Site[cur]) PROVE FALSE
    OBVIOUS
  <2>4. missing = {} /\ \A q \in Patches : applied[q] \in {{}, Files[q]}
    BY <2>3 DEF Torn
  <2>5. CASE applied[cur] = Files[cur]
    BY <1>1, <2>2, <2>4, <2>5, CompleteAccepted DEF QueueIInv, Complete
  <2>6. CASE applied[cur] = {}
    <3>1. Ready(Home[cur]) /\ Home[cur] \in Roots /\ Home[cur] \in patch_roots
      BY <2>2, <2>3 DEF Ready, patch_roots
    <3>2. \A r \in Roots : ~Skipped(r, cur)
      BY <2>2 DEF Accepting, ForwardOK, patch_roots, Skipped
    <3>3. \A e \in Extends : e[2] = cur => applied[e[1]] = Files[e[1]]
      <4> SUFFICES ASSUME NEW e \in Extends, e[2] = cur
                   PROVE  applied[e[1]] = Files[e[1]]
        OBVIOUS
      <4>1. e[1] \in Patches /\ e[1] < cur
        BY RuleAssumption
      <4>2. ~Skippable(e[1])
        BY <3>2, SkippedTogether DEF Skippable
      <4> QED
        BY <1>1, <4>1, <4>2 DEF QueueIInv, QueueInv, Complete
    <3>4. ForwardOK(Home[cur], cur)
      BY <2>3, <2>4, <2>6, <3>1, <3>3 DEF ForwardOK, Reaches
    <3> QED
      BY <2>2, <3>1, <3>4 DEF Accepting
  <2> QED
    BY <2>2, <2>4, <2>5, <2>6
<1> QED
  BY <1>1, QueueInductive, PTL DEF QueueSpec, RejectionIsReal

-----------------------------------------------------------------------------
(* The delivery, for any set of editions and any number of faults *)

(* The stages after which therock-dist has written, if recognised ...      *)
Distributed == {"flatten", "gate", "package"}
(* ... its archive in the artifact directory ...                           *)
Archived == {"metadata"}
(* ... the digest of that archive too ...                                  *)
Described == {"wheels", "filter", "check wheels"}
(* ... and the wheels it was asked for.                                    *)
Packed == {"publish", "validate", "features", "delivered"}

(* What dist/rocm holds while it is being filled and packaged. *)
DistInv ==
  /\ pc \in Distributed \cup Archived \cup Described \cup Packed =>
       /\ "therock-dist" \in listed => <<"target", edition>> \in dist
       /\ listed = Targets => Of(dist) = {edition}
  /\ pc \in {"gate", "package"} => dist # {}
  /\ pc = "package" => PassesGate(dist)

(* What has been taken from it, if it is there. *)
ArchiveInv ==
  /\ archive # {} => PassesGate(archive)
  /\ pc \in Archived => dist # {}
  /\ pc \in Archived \cup Described \cup Packed /\ dist # {} => archive = dist
  /\ pc \in Described \cup Packed /\ dist # {} => info = archive

WheelInv ==
  /\ pc = "filter" => wheels.edition = {edition} /\ python
  /\ pc = "check wheels" => wheels = [edition |-> {edition}, filtered |-> TRUE]
  /\ pc \in Packed /\ python => wheels = [edition |-> {edition}, filtered |-> TRUE]

ReportInv ==
  /\ pc \in {"validate", "features", "delivered"} => shown = {edition}
  /\ pc \in {"features", "delivered"} =>
       verdict = [status |-> "pass", archive |-> archive, shown |-> shown]

IInv == TypeOK /\ DistInv /\ ArchiveInv /\ WheelInv /\ ReportInv

-----------------------------------------------------------------------------
(* The operators on trees *)

(* A part more in a tree is an edition more. *)
LEMMA OfAdded ==
  ASSUME NEW parts, NEW kind, NEW e
  PROVE  Of(parts \cup {<<kind, e>>}) = Of(parts) \cup {e}
<1> DEFINE more == parts \cup {<<kind, e>>}
<1>1. <<kind, e>>[2] = e
  OBVIOUS
<1>2. ASSUME NEW x PROVE (\E part \in more : x = part[2]) <=> (x = e \/ \E part \in parts : x = part[2])
  BY <1>1
<1> QED
  BY <1>2 DEF Of

LEMMA OfMember ==
  ASSUME NEW parts, NEW kind, NEW e, <<kind, e>> \in parts
  PROVE  e \in Of(parts)
BY DEF Of

(* What dist-rocm+expunge and therock-dist leave is of one edition. *)
LEMMA OfFresh ==
  ASSUME NEW kind, NEW e
  PROVE  Of(Expunged \cup {<<kind, e>>}) = {e}
BY DEF Of, Expunged

-----------------------------------------------------------------------------
(* The invariant *)

LEMMA PartTypes ==
  ASSUME NEW kind \in Kinds, NEW e \in Editions
  PROVE  <<kind, e>> \in Parts
BY DEF Parts

LEMMA InitIInv == Init => IInv
<1> SUFFICES ASSUME Init PROVE IInv
  OBVIOUS
<1>1. verdict \in Verdicts
  BY DEF Init, Verdicts
<1>2. wheels \in [edition : SUBSET Editions, filtered : BOOLEAN]
  BY DEF Init, NoWheels
<1>3. faults \in 0 .. MaxFaults
  BY DeliveryAssumption DEF Init
<1>4. TypeOK
  BY <1>1, <1>2, <1>3 DEF Init, TypeOK, Stopped
<1> QED
  BY <1>4 DEF Init, IInv, DistInv, ArchiveInv, WheelInv, ReportInv,
              Distributed, Archived, Described, Packed

(* What a run that was cut off may have changed. *)
LEMMA CutOutcomes ==
  ASSUME Cut
  PROVE  /\ faults < MaxFaults /\ faults' = faults + 1
         /\ dist' \subseteq dist \cup {<<"target", edition>>, <<"generic", edition>>}
         /\ wheels' = wheels \/ wheels' = NoWheels
              \/ wheels' = [edition |-> {edition}, filtered |-> FALSE]
         /\ shown' = shown \/ shown' = shown \cup {edition}
         /\ verdict' = verdict
              \/ verdict' = [status |-> "fail", archive |-> archive, shown |-> shown]
         /\ features' = features \/ features' = "torn"
<1> DEFINE more == dist \cup {<<"target", edition>>, <<"generic", edition>>}
<1>1. \A half \in HalfDistributed : half \subseteq more
  BY DEF HalfDistributed, Cleared, Expunged
<1>2. dist' \subseteq more
  BY <1>1 DEF Cut, CutShort
<1> QED
  BY <1>2 DEF Cut, CutShort

LEMMA TypeStep == TypeOK /\ [Next]_vars => TypeOK'
<1> SUFFICES ASSUME TypeOK, [Next]_vars PROVE TypeOK'
  OBVIOUS
<1> USE DeliveryAssumption DEF TypeOK, Stages, Stopped, artifacts, run, Kinds
<1>1. CASE Start
  BY <1>1 DEF Start
<1>2. CASE Build
  BY <1>2 DEF Build, Parts
<1>3. CASE Distribute
  BY <1>3 DEF Distribute, Parts, Cleared, Expunged
<1>4. CASE Flatten
  BY <1>4 DEF Flatten, Parts, AfterFlatten
<1>5. CASE Gate \/ Package \/ WriteMetadata
  BY <1>5 DEF Gate, AfterGate, Package, WriteMetadata
<1>6. CASE SkipWheels \/ CheckWheels
  BY <1>6 DEF SkipWheels, CheckWheels
<1>7. CASE BuildWheels
  BY <1>7 DEF BuildWheels
<1>12. CASE FilterWheels
  BY <1>12 DEF FilterWheels
<1>13. CASE Publish \/ WriteFeatures
  BY <1>13 DEF Publish, WriteFeatures
<1>8. CASE Validate
  BY <1>8 DEF Validate, Verdicts
<1>9. CASE FlattenNothing
  BY <1>9 DEF FlattenNothing, AfterFlatten
<1>10. CASE Cut
  <2>1. dist' \in SUBSET Parts
    <3>1. <<"target", edition>> \in Parts /\ <<"generic", edition>> \in Parts
      BY PartTypes
    <3> QED
      BY <1>10, <3>1, CutOutcomes
  <2>2. archive' \in SUBSET Parts /\ info' \in SUBSET Parts
    BY <1>10 DEF Cut, Unreplaced
  <2>3. faults' \in 0 .. MaxFaults
    <3>1. faults < MaxFaults /\ faults' = faults + 1
      BY <1>10, CutOutcomes
    <3>2. faults \in 0 .. MaxFaults /\ MaxFaults \in Nat
      OBVIOUS
    <3> HIDE DEF TypeOK, Stages, Stopped, artifacts, run, Kinds
    <3> QED
      BY <3>1, <3>2
  <2>4. wheels' \in [edition : SUBSET Editions, filtered : BOOLEAN]
    <3>1. /\ NoWheels \in [edition : SUBSET Editions, filtered : BOOLEAN]
          /\ [edition |-> {edition}, filtered |-> FALSE]
               \in [edition : SUBSET Editions, filtered : BOOLEAN]
      BY DEF NoWheels
    <3>2. \/ wheels' = wheels \/ wheels' = NoWheels
          \/ wheels' = [edition |-> {edition}, filtered |-> FALSE]
      BY <1>10, CutOutcomes
    <3> QED
      BY <3>1, <3>2
  <2>5. shown' \in SUBSET Editions /\ features' \in {"none", "torn", "whole"}
    BY <1>10, CutOutcomes
  <2>6. verdict' \in Verdicts
    <3>1. [status |-> "fail", archive |-> archive, shown |-> shown] \in Verdicts
      BY DEF Verdicts
    <3>2. \/ verdict' = verdict
          \/ verdict' = [status |-> "fail", archive |-> archive, shown |-> shown]
      BY <1>10, CutOutcomes
    <3> QED
      BY <3>1, <3>2
  <2> QED
    BY <1>10, <2>1, <2>2, <2>3, <2>4, <2>5, <2>6 DEF Cut
<1>11. CASE UNCHANGED vars
  BY <1>11 DEF vars
<1> QED
  BY <1>1, <1>2, <1>3, <1>4, <1>5, <1>6, <1>7, <1>8, <1>9, <1>10, <1>11, <1>12, <1>13
     DEF Next, RunStep

LEMMA StageStep ==
  IInv /\ [Next]_vars => (DistInv /\ ArchiveInv /\ WheelInv /\ ReportInv)'
<1> SUFFICES ASSUME IInv, [Next]_vars
             PROVE  (DistInv /\ ArchiveInv /\ WheelInv /\ ReportInv)'
  OBVIOUS
<1> USE DEF DistInv, ArchiveInv, WheelInv, ReportInv, Stages, Stopped, artifacts, run,
            Distributed, Archived, Described, Packed
<1>i. DistInv /\ ArchiveInv /\ WheelInv /\ ReportInv /\ TypeOK
  BY DEF IInv
<1>1. CASE Start
  BY <1>i, <1>1 DEF Start
<1>2. CASE Build
  BY <1>i, <1>2 DEF Build
<1>3. CASE Distribute
  <2>1. listed = Targets => dist' = Expunged \cup {<<"target", edition>>}
    BY <1>3 DEF Distribute, Cleared, Targets
  <2>2. listed = Targets => Of(dist') = {edition}
    BY <2>1, OfFresh
  <2>3. "therock-dist" \in listed => <<"target", edition>> \in dist'
    BY <1>3 DEF Distribute
  <2> QED
    BY <1>i, <1>3, <2>2, <2>3 DEF Distribute
<1>4. CASE Flatten
  <2>1. pc = "flatten" /\ UNCHANGED <<run, artifacts>>
    BY <1>4 DEF Flatten
  <2>2. CASE dist = {}
    <3>1. dist' = {} /\ pc' = "wheels"
      BY <1>4, <2>2 DEF Flatten, AfterFlatten
    <3> QED
      BY <1>i, <2>1, <2>2, <3>1
  <2>3. CASE dist # {}
    <3>1. dist' = dist \cup {<<"generic", edition>>} /\ pc' = "gate"
      BY <1>4, <2>3 DEF Flatten, AfterFlatten
    <3>2. Of(dist') = Of(dist) \cup {edition}
      BY <3>1, OfAdded
    <3>3. listed = Targets => Of(dist') = {edition}
      BY <1>i, <2>1, <3>2
    <3> QED
      BY <1>i, <2>1, <3>1, <3>3
  <2> QED BY <2>2, <2>3
<1>5. CASE FlattenNothing
  <2>1. pc' = "gate" /\ dist # {}
    BY <1>5 DEF FlattenNothing, AfterFlatten
  <2> QED
    BY <1>i, <1>5, <2>1 DEF FlattenNothing
<1>6. CASE Gate
  BY <1>i, <1>6 DEF Gate, AfterGate
<1>7. CASE Package
  BY <1>i, <1>7 DEF Package, PassesGate
<1>8. CASE WriteMetadata
  BY <1>i, <1>8 DEF WriteMetadata
<1>9. CASE SkipWheels
  BY <1>i, <1>9 DEF SkipWheels
<1>10. CASE BuildWheels
  BY <1>i, <1>10 DEF BuildWheels
<1>11. CASE FilterWheels
  BY <1>i, <1>11 DEF FilterWheels, TypeOK
<1>12. CASE CheckWheels
  BY <1>i, <1>12 DEF CheckWheels
<1>13. CASE Publish
  BY <1>i, <1>13 DEF Publish
<1>14. CASE Validate
  BY <1>i, <1>14 DEF Validate
<1>15. CASE WriteFeatures
  BY <1>i, <1>15 DEF WriteFeatures
<1>16. CASE Cut
  BY <1>i, <1>16 DEF Cut, Unreplaced
<1>17. CASE UNCHANGED vars
  BY <1>i, <1>17 DEF vars
<1> QED
  BY <1>1, <1>2, <1>3, <1>4, <1>5, <1>6, <1>7, <1>8, <1>9, <1>10, <1>11, <1>12, <1>13,
     <1>14, <1>15, <1>16, <1>17 DEF Next, RunStep

LEMMA IInvStep == IInv /\ [Next]_vars => IInv'
BY TypeStep, StageStep DEF IInv

LEMMA Inductive == Spec => []IInv
BY InitIInv, IInvStep, PTL DEF Spec

-----------------------------------------------------------------------------
(* Every variable of the delivery keeps its type. *)
THEOREM DeliveryTypeCorrect == Spec => []TypeOK
BY Inductive, PTL DEF IInv

(* No run, cut off or not, leaves an archive without its generic or its    *)
(* target-specific files: os.replace follows the gates of the same run.    *)
THEOREM ArchiveIsUsable == Spec => []ArchiveUsable
<1>1. IInv => ArchiveUsable
  BY DEF IInv, ArchiveInv, ArchiveUsable
<1> QED
  BY <1>1, Inductive, PTL

(* What a run that exits 0 leaves is all of that run. *)
THEOREM DeliversTogether == Spec => []DeliveredTogether
<1>1. IInv => DeliveredTogether
  <2> SUFFICES ASSUME IInv, pc = "delivered" PROVE DeliveredTogether
    BY DEF DeliveredTogether
  <2>1. dist # {} => archive = dist /\ info = archive
    BY DEF IInv, ArchiveInv, Packed
  <2>2. "therock-dist" \in listed => dist # {} /\ edition \in Of(archive)
    <3>1. "therock-dist" \in listed => <<"target", edition>> \in dist
      BY DEF IInv, DistInv, Packed
    <3> QED BY <2>1, <3>1, OfMember
  <2>3. listed = Targets => Of(archive) = {edition}
    <3>1. listed = Targets => Of(dist) = {edition} /\ dist # {}
      BY <2>2 DEF IInv, DistInv, Packed, Targets
    <3> QED BY <2>1, <3>1
  <2> QED
    BY <2>1, <2>2, <2>3 DEF IInv, WheelInv, ReportInv, Packed, DeliveredTogether
<1> QED
  BY <1>1, Inductive, PTL

(* What stays behind from earlier runs does not fail a later one: where no *)
(* command of a run fails and nothing kills it, it ends with an error only *)
(* at the gate, if therock-dist and the default target wrote no tree or    *)
(* flatten was given no artifacts; with status 4, if there is no tree; and *)
(* in the validator, if there was no tree to describe in dist_info.json or *)
(* mi50_features.json was cut off.                                         *)
RunsFailForCause ==
  [][(pc \in Stages /\ pc' = "failed" /\ UNCHANGED faults) =>
       \/ /\ pc = "gate"
          /\ <<"generic", edition>> \notin dist
               \/ (<<"target", edition>> \notin dist /\ "therock-dist" \notin listed)
       \/ pc = "wheels" /\ dist = {} /\ ~python /\ "therock-dist" \notin listed
       \/ pc = "validate" /\ (features = "torn" \/ (dist = {} /\ info = {}))]_vars

THEOREM FailuresHaveCause == Spec => RunsFailForCause
<1>1. ASSUME IInv, [Next]_vars, pc \in Stages, pc' = "failed", UNCHANGED faults
      PROVE  \/ /\ pc = "gate"
                /\ <<"generic", edition>> \notin dist
                     \/ (<<"target", edition>> \notin dist /\ "therock-dist" \notin listed)
             \/ pc = "wheels" /\ dist = {} /\ ~python /\ "therock-dist" \notin listed
             \/ pc = "validate" /\ (features = "torn" \/ (dist = {} /\ info = {}))
  <2>1. Gate \/ SkipWheels \/ CheckWheels \/ Validate
    <3>1. ~Cut /\ ~FlattenNothing
      <4>1. faults' # faults + 1
        BY <1>1 DEF IInv, TypeOK
      <4> QED
        BY <4>1 DEF Cut, FlattenNothing
    <3>2. ~(Start \/ Build \/ Distribute \/ Flatten \/ Package \/ WriteMetadata)
      BY <1>1 DEF Start, Build, Distribute, Flatten, AfterFlatten, Package, WriteMetadata
    <3>3. ~(BuildWheels \/ FilterWheels \/ Publish \/ WriteFeatures)
      BY <1>1 DEF BuildWheels, FilterWheels, Publish, WriteFeatures
    <3>4. pc' # pc
      BY <1>1 DEF Stages
    <3> QED
      BY <1>1, <3>1, <3>2, <3>3, <3>4 DEF Next, RunStep, vars
  <2>2. CASE Gate
    <3>1. pc = "gate" /\ ~PassesGate(dist)
      BY <1>1, <2>2 DEF Gate, AfterGate
    <3>2. dist \subseteq Parts /\ ("therock-dist" \in listed => <<"target", edition>> \in dist)
      BY <1>1, <3>1 DEF IInv, TypeOK, DistInv, Distributed
    <3>3. ASSUME <<"generic", edition>> \in dist, <<"target", edition>> \in dist
          PROVE  PassesGate(dist)
      <4>1. \A part \in dist : part[1] \in Kinds
        BY <3>2 DEF Parts
      <4>2. "target" \in {part[1] : part \in dist} /\ "generic" \in {part[1] : part \in dist}
        BY <3>2, <3>3
      <4> QED
        BY <4>1, <4>2 DEF PassesGate, Kinds
    <3> QED
      BY <3>1, <3>2, <3>3
  <2>3. CASE SkipWheels
    <3>1. pc = "wheels" /\ ~python /\ dist = {}
      BY <1>1, <2>3 DEF SkipWheels, Found
    <3>2. "therock-dist" \in listed => <<"target", edition>> \in dist
      BY <1>1, <3>1 DEF IInv, DistInv, Described
    <3> QED BY <3>1, <3>2
  <2>4. CASE CheckWheels
    <3>1. wheels = [edition |-> {edition}, filtered |-> TRUE]
      BY <1>1, <2>4 DEF CheckWheels, IInv, WheelInv
    <3>2. wheels.filtered
      BY <3>1
    <3>3. pc' = "publish"
      BY <2>4, <3>2 DEF CheckWheels
    <3> QED
      BY <1>1, <3>3
  <2>5. CASE Validate
    <3>1. pc = "validate" /\ ~Valid
      BY <1>1, <2>5 DEF Validate, Valid
    <3>2. dist # {} => info # {}
      BY <1>1, <3>1 DEF IInv, ArchiveInv, Packed
    <3> QED
      BY <3>1, <3>2 DEF Valid
  <2> QED
    BY <2>1, <2>2, <2>3, <2>4, <2>5
<1> QED
  BY <1>1, Inductive, PTL DEF Spec, RunsFailForCause
=============================================================================
