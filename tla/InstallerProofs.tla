--------------------------- MODULE InstallerProofs ---------------------------
(***************************************************************************)
(* What holds of the installer for any number of invocations, archive      *)
(* contents and clock values and whatever faults occur.  Whether or not    *)
(* invocations overlap: its type invariant, that only audited trees are    *)
(* published or kept, that no staging directory outlives its invocation,   *)
(* that an intact backup is never overwritten, and that an installation is *)
(* lost only to the rollback of an invocation that had published.  When    *)
(* they do not: that a passed installation survives, that a refused one    *)
(* puts back what it found, and that the prefix switches as AtomicInstall  *)
(* says it does.                                                           *)
(***************************************************************************)
EXTENDS Installer, TLAPS

(* A staging directory exists from mkdtemp until it is published or        *)
(* deleted, and only audited content gets as far as the rename.            *)
Staged == {"extract", "audit", "probe", "retire", "publish"}
AuditPassed == {"probe", "retire", "publish"}
Unstaged == {"idle", "inspect", "claim", "environment", "manifest", "remove"}

StagingInv ==
  \A i \in Installers :
    /\ pc[i] \in Staged => staging[i] \in Tree
    /\ pc[i] \in AuditPassed => staging[i].content \in Sound
    /\ pc[i] \in Unstaged \cup (Ended \ {"killed"}) => staging[i] = Absent

(* `published` is set by the rename that consumes the staging directory.   *)
PublishedInv ==
  \A i \in Installers :
    /\ published[i] => staging[i] = Absent
    /\ published[i] => pc[i] \in {"environment", "manifest"} \cup Handler \cup Ended
    /\ pc[i] \in {"environment", "manifest", "remove"} => published[i]

(* `backup` is assigned before the existing prefix is moved. *)
StampInv == \A i \in Installers : pc[i] = "retire" => stamp[i] \in Stamps

IInv == TypeOK /\ StagingInv /\ PublishedInv /\ StampInv /\ OnlyAuditedTrees

USE ContentsAssumption, ClockAssumption, DistinctAssumption, AbsentAssumption

LEMMA InitInv == Init => IInv
<1> SUFFICES ASSUME Init PROVE IInv
  OBVIOUS
<1>0. UserTree \in Tree
  BY DEF UserTree, Tree
<1>1. UserTree \in Tree /\ UserTree # Absent
  BY <1>0
<1>2. 0 \in Stamps
  BY DEF Stamps
<1>3. TypeOK
  BY <1>1, <1>2 DEF Init, TypeOK, Dir
<1>4. StagingInv /\ PublishedInv /\ StampInv
  BY DEF Init, StagingInv, PublishedInv, StampInv, Staged, AuditPassed
<1>5. OnlyAuditedTrees
  BY DEF Init, OnlyAuditedTrees, Acceptable, Intact, UserTree
<1> QED
  BY <1>3, <1>4, <1>5 DEF IInv

(* What mkdtemp makes is a tree, and not one that counts as whole. *)
LEMMA EmptyStagingType ==
  ASSUME NEW i \in Installers
  PROVE  EmptyStaging(i) \in Tree /\ ~Intact(EmptyStaging(i))
BY DEF EmptyStaging, Tree, Intact

(* Emptying a tree leaves a damaged tree; writing into one keeps content. *)
LEMMA TreeUpdates ==
  ASSUME NEW d \in Tree, NEW c \in Contents \cup {Broken}, NEW i \in Installers
  PROVE  /\ [d EXCEPT !.content = c] \in Tree
         /\ [d EXCEPT !.content = c].content = c
         /\ [d EXCEPT !.env = TRUE] \in Tree
         /\ [d EXCEPT !.env = TRUE].content = d.content
         /\ [d EXCEPT !.manifest = i] \in Tree
         /\ [d EXCEPT !.manifest = i].content = d.content
         /\ [d EXCEPT !.manifest = Torn] \in Tree
         /\ [d EXCEPT !.manifest = Torn].content = d.content
BY DEF Tree

USE DEF Goto, world, private, IInv, Refused, Usable, OnTakenName, MovedAside,
        RemovesPrefix, MustRestore, Cleaned

LEMMA PreflightInv == ASSUME NEW i \in Installers, IInv, Preflight(i) PROVE IInv'
<1>1. TypeOK'
  BY DEF Preflight, TypeOK, Running, Ended
<1>2. StagingInv' /\ PublishedInv' /\ StampInv'
  BY DEF Preflight, TypeOK, StagingInv, PublishedInv, StampInv, Staged, AuditPassed,
         Unstaged, Handler, Ended
<1>3. OnlyAuditedTrees'
  BY DEF Preflight, OnlyAuditedTrees, Acceptable, Intact
<1> QED BY <1>1, <1>2, <1>3

LEMMA InspectInv == ASSUME NEW i \in Installers, IInv, Inspect(i) PROVE IInv'
<1>1. TypeOK'
  BY DEF Inspect, TypeOK, Running, Ended
<1>2. StagingInv' /\ PublishedInv' /\ StampInv'
  BY DEF Inspect, TypeOK, StagingInv, PublishedInv, StampInv, Staged, AuditPassed,
         Unstaged, Handler, Ended
<1>3. OnlyAuditedTrees'
  BY DEF Inspect, OnlyAuditedTrees, Acceptable, Intact
<1> QED BY <1>1, <1>2, <1>3

LEMMA ClaimInv == ASSUME NEW i \in Installers, IInv, Claim(i) PROVE IInv'
<1>1. TypeOK'
  BY EmptyStagingType DEF Claim, TypeOK, Dir, Running, TryBlock, Ended
<1>2. StagingInv' /\ PublishedInv' /\ StampInv'
  <2>1. ~published[i]
    BY DEF Claim, PublishedInv, Handler, Ended, TypeOK
  <2> QED
    BY <2>1, EmptyStagingType DEF Claim, TypeOK, StagingInv, PublishedInv, StampInv,
         Staged, AuditPassed, Unstaged, Handler, Ended
<1>3. OnlyAuditedTrees'
  BY DEF Claim, OnlyAuditedTrees, Acceptable, Intact
<1> QED BY <1>1, <1>2, <1>3

LEMMA ExtractInv == ASSUME NEW i \in Installers, IInv, Extract(i) PROVE IInv'
<1>1. staging[i] \in Tree /\ archive \in Contents
  BY DEF Extract, StagingInv, Staged, TypeOK
<1>2. [staging[i] EXCEPT !.content = archive] \in Tree
  BY <1>1, TreeUpdates
<1>3. staging' = [staging EXCEPT ![i] = [staging[i] EXCEPT !.content = archive]]
  BY DEF Extract
<1>4. TypeOK'
  BY <1>2, <1>3 DEF Extract, TypeOK, Dir, Running, TryBlock, Ended
<1>5. ~published[i]
  BY DEF Extract, PublishedInv, Handler, Ended
<1>6. StagingInv' /\ PublishedInv' /\ StampInv'
  BY <1>2, <1>3, <1>5 DEF Extract, TypeOK, StagingInv, PublishedInv, StampInv, Staged,
     AuditPassed, Unstaged, Handler, Ended
<1>7. OnlyAuditedTrees'
  BY DEF Extract, OnlyAuditedTrees, Acceptable, Intact
<1> QED BY <1>4, <1>6, <1>7

LEMMA AuditInv == ASSUME NEW i \in Installers, IInv, Audit(i) PROVE IInv'
<1>1. TypeOK'
  BY DEF Audit, TypeOK, Running, TryBlock, Handler, Ended
<1>2. StagingInv' /\ PublishedInv' /\ StampInv'
  BY DEF Audit, TypeOK, StagingInv, PublishedInv, StampInv, Staged, AuditPassed,
         Unstaged, Handler, Ended
<1>3. OnlyAuditedTrees'
  BY DEF Audit, OnlyAuditedTrees, Acceptable, Intact
<1> QED BY <1>1, <1>2, <1>3

LEMMA ProbeInv == ASSUME NEW i \in Installers, IInv, Probe(i) PROVE IInv'
<1>1. TypeOK'
  BY DEF Probe, TypeOK, Running, TryBlock, Handler, Ended
<1>2. StagingInv' /\ PublishedInv' /\ StampInv'
  BY DEF Probe, TypeOK, StagingInv, PublishedInv, StampInv, Staged, AuditPassed,
         Unstaged, Handler, Ended
<1>3. OnlyAuditedTrees'
  BY DEF Probe, OnlyAuditedTrees, Acceptable, Intact
<1> QED BY <1>1, <1>2, <1>3

LEMMA RetireInv == ASSUME NEW i \in Installers, IInv, Retire(i) PROVE IInv'
<1>0. stamp[i] \in Stamps
  BY DEF Retire, StampInv
<1>1. TypeOK'
  BY <1>0 DEF Retire, TypeOK, Dir, Running, TryBlock, Handler, Ended
<1>2. StagingInv' /\ PublishedInv' /\ StampInv'
  BY DEF Retire, TypeOK, StagingInv, PublishedInv, StampInv, Staged, AuditPassed,
         Unstaged, Handler, Ended
<1>3. OnlyAuditedTrees'
  BY <1>0 DEF Retire, OnlyAuditedTrees, Acceptable, Intact, TypeOK
<1> QED BY <1>1, <1>2, <1>3

LEMMA PublishInv == ASSUME NEW i \in Installers, IInv, Publish(i) PROVE IInv'
<1>0. staging[i] \in Tree /\ staging[i].content \in Sound
  BY DEF Publish, StagingInv, Staged, AuditPassed
<1>1. TypeOK'
  BY <1>0 DEF Publish, TypeOK, Dir, Running, TryBlock, Handler, Ended
<1>2. StagingInv' /\ PublishedInv' /\ StampInv'
  BY DEF Publish, TypeOK, StagingInv, PublishedInv, StampInv, Staged, AuditPassed,
         Unstaged, Handler, Ended
<1>3. OnlyAuditedTrees'
  BY <1>0 DEF Publish, OnlyAuditedTrees, Acceptable, Intact
<1> QED BY <1>1, <1>2, <1>3

LEMMA WriteEnvironmentInv ==
  ASSUME NEW i \in Installers, IInv, WriteEnvironment(i) PROVE IInv'
<1>0. prefix # Absent => /\ prefix \in Tree
                         /\ [prefix EXCEPT !.env = TRUE] \in Tree
                         /\ [prefix EXCEPT !.env = TRUE].content = prefix.content
  BY TreeUpdates DEF TypeOK, Dir
<1>1. TypeOK'
  BY <1>0 DEF WriteEnvironment, TypeOK, Dir, Running, TryBlock, Handler, Ended
<1>2. StagingInv' /\ PublishedInv' /\ StampInv'
  BY DEF WriteEnvironment, TypeOK, StagingInv, PublishedInv, StampInv, Staged,
         AuditPassed, Unstaged, Handler, Ended
<1>3. OnlyAuditedTrees'
  BY <1>0 DEF WriteEnvironment, OnlyAuditedTrees, Acceptable, Intact
<1> QED BY <1>1, <1>2, <1>3

LEMMA WriteManifestInv ==
  ASSUME NEW i \in Installers, IInv, WriteManifest(i) PROVE IInv'
<1>0. prefix # Absent => /\ prefix \in Tree
                         /\ [prefix EXCEPT !.manifest = i] \in Tree
                         /\ [prefix EXCEPT !.manifest = i].content = prefix.content
                         /\ [prefix EXCEPT !.manifest = Torn] \in Tree
                         /\ [prefix EXCEPT !.manifest = Torn].content = prefix.content
  BY TreeUpdates DEF TypeOK, Dir
<1>1. TypeOK'
  BY <1>0 DEF WriteManifest, TypeOK, Dir, Running, TryBlock, Handler, Ended
<1>2. StagingInv' /\ PublishedInv' /\ StampInv'
  BY DEF WriteManifest, TypeOK, StagingInv, PublishedInv, StampInv, Staged, AuditPassed,
         Unstaged, Handler, Ended
<1>3. OnlyAuditedTrees'
  BY <1>0 DEF WriteManifest, OnlyAuditedTrees, Acceptable, Intact
<1> QED BY <1>1, <1>2, <1>3

LEMMA RaiseErrorInv == ASSUME NEW i \in Installers, IInv, RaiseError(i) PROVE IInv'
<1>1. TypeOK'
  BY DEF RaiseError, TypeOK, Running, TryBlock, Handler, Ended
<1>2. StagingInv' /\ PublishedInv' /\ StampInv'
  BY DEF RaiseError, TypeOK, StagingInv, PublishedInv, StampInv, Staged, AuditPassed,
         Unstaged, TryBlock, Handler, Ended
<1>3. OnlyAuditedTrees'
  BY DEF RaiseError, OnlyAuditedTrees, Acceptable, Intact
<1> QED BY <1>1, <1>2, <1>3

LEMMA RollbackInv == ASSUME NEW i \in Installers, IInv, Rollback(i) PROVE IInv'
<1>0. prefix # Absent => /\ prefix \in Tree
                         /\ [prefix EXCEPT !.content = Broken] \in Tree
                         /\ [prefix EXCEPT !.content = Broken].content = Broken
  BY TreeUpdates DEF TypeOK, Dir
<1>1. TypeOK'
  BY <1>0 DEF Rollback, TypeOK, Dir, Running, TryBlock, Handler, Ended
<1>2. StagingInv' /\ PublishedInv' /\ StampInv'
  BY DEF Rollback, TypeOK, StagingInv, PublishedInv, StampInv, Staged, AuditPassed,
         Unstaged, Handler, Ended
<1>3. OnlyAuditedTrees'
  BY <1>0 DEF Rollback, OnlyAuditedTrees, Acceptable, Intact
<1> QED BY <1>1, <1>2, <1>3

LEMMA RemoveTreeInv == ASSUME NEW i \in Installers, IInv, RemoveTree(i) PROVE IInv'
<1>1. TypeOK'
  BY DEF RemoveTree, TypeOK, Dir, Running, TryBlock, Handler, Ended
<1>2. StagingInv' /\ PublishedInv' /\ StampInv'
  BY DEF RemoveTree, TypeOK, StagingInv, PublishedInv, StampInv, Staged, AuditPassed,
         Unstaged, Handler, Ended
<1>3. OnlyAuditedTrees'
  BY DEF RemoveTree, OnlyAuditedTrees, Acceptable, Intact
<1> QED BY <1>1, <1>2, <1>3

LEMMA RestoreInv == ASSUME NEW i \in Installers, IInv, Restore(i) PROVE IInv'
<1>0. stamp[i] # None => stamp[i] \in Stamps
  BY DEF TypeOK
<1>1. TypeOK'
  BY <1>0 DEF Restore, TypeOK, Dir, Running, TryBlock, Handler, Ended
<1>2. StagingInv' /\ PublishedInv' /\ StampInv'
  BY DEF Restore, TypeOK, StagingInv, PublishedInv, StampInv, Staged, AuditPassed,
         Unstaged, Handler, Ended
<1>3. OnlyAuditedTrees'
  BY <1>0 DEF Restore, OnlyAuditedTrees, Acceptable, Intact, TypeOK
<1> QED BY <1>1, <1>2, <1>3

LEMMA InterruptInv == ASSUME NEW i \in Installers, IInv, Interrupt(i) PROVE IInv'
<1>1. TypeOK'
  BY DEF Interrupt, TypeOK, Dir, Running, TryBlock, Handler, Ended
<1>2. StagingInv' /\ PublishedInv' /\ StampInv'
  BY DEF Interrupt, TypeOK, StagingInv, PublishedInv, StampInv, Staged, AuditPassed,
         Unstaged, Handler, Ended
<1>3. OnlyAuditedTrees'
  BY DEF Interrupt, OnlyAuditedTrees, Acceptable, Intact
<1> QED BY <1>1, <1>2, <1>3

LEMMA KillInv == ASSUME NEW i \in Installers, IInv, Kill(i) PROVE IInv'
<1>1. TypeOK'
  BY DEF Kill, TypeOK, Running, TryBlock, Handler, Ended
<1>2. StagingInv' /\ PublishedInv' /\ StampInv'
  BY DEF Kill, TypeOK, StagingInv, PublishedInv, StampInv, Staged, AuditPassed,
         Unstaged, Handler, Ended
<1>3. OnlyAuditedTrees'
  BY DEF Kill, OnlyAuditedTrees, Acceptable, Intact
<1> QED BY <1>1, <1>2, <1>3

LEMMA EnvironmentInv == IInv /\ (Tick \/ Repackage \/ UNCHANGED vars) => IInv'
<1> SUFFICES ASSUME IInv, Tick \/ Repackage \/ UNCHANGED vars PROVE IInv'
  OBVIOUS
<1>1. TypeOK'
  <2>1. CASE Tick
    <3>1. clock' \in Stamps
      BY <2>1 DEF Tick, TypeOK, Stamps
    <3> QED BY <2>1, <3>1 DEF Tick, TypeOK
  <2>2. CASE Repackage
    BY <2>2 DEF Repackage, TypeOK
  <2>3. CASE UNCHANGED vars
    BY <2>3 DEF vars, TypeOK
  <2> QED BY <2>1, <2>2, <2>3
<1>2. StagingInv' /\ PublishedInv' /\ StampInv' /\ OnlyAuditedTrees'
  BY DEF Tick, Repackage, vars, StagingInv, PublishedInv, StampInv, OnlyAuditedTrees,
         Acceptable, Intact
<1> QED BY <1>1, <1>2

LEMMA NextInv == IInv /\ [Next]_vars => IInv'
<1> SUFFICES ASSUME IInv, [Next]_vars PROVE IInv'
  OBVIOUS
<1>1. ASSUME NEW i \in Installers, Step(i) \/ Interrupt(i) \/ Kill(i) PROVE IInv'
  BY <1>1, PreflightInv, InspectInv, ClaimInv, ExtractInv, AuditInv, ProbeInv, RetireInv,
     PublishInv, WriteEnvironmentInv, WriteManifestInv, RaiseErrorInv, RollbackInv,
     RemoveTreeInv, RestoreInv, InterruptInv, KillInv DEF Step, Work
<1> QED
  BY <1>1, EnvironmentInv DEF Next

LEMMA Invariance == Spec => []IInv
BY InitInv, NextInv, PTL DEF Spec

(* The variables keep the types the code gives them. *)
THEOREM TypeCorrect == Spec => []TypeOK
BY Invariance, PTL DEF IInv

(* Whatever the interleaving, the faults and the changes of the archive    *)
(* file, only trees that passed the audit are published or kept.           *)
THEOREM AuditedTrees == Spec => []OnlyAuditedTrees
BY Invariance, PTL DEF IInv

(* Only a killed invocation leaves its staging directory behind. *)
THEOREM StagingRemoved == Spec => []NoLitter
<1>1. IInv => NoLitter
  BY DEF StagingInv, NoLitter
<1> QED BY <1>1, Invariance, PTL

(* An intact backup leaves its name only by being moved back whole. *)
THEOREM BackupsKept == Spec => BackupsPreserved
<1>1. ASSUME IInv, [Next]_vars, NEW s \in Stamps PROVE BackupPreserved(s)
  <2>1. ASSUME NEW i \in Installers, Retire(i) PROVE BackupPreserved(s)
    BY <1>1, <2>1 DEF Retire, CanRenameOnto, BackupPreserved, TypeOK
  <2>2. ASSUME NEW i \in Installers, Restore(i) PROVE BackupPreserved(s)
    BY <1>1, <2>2 DEF Restore, BackupPreserved, TypeOK
  <2>3. ASSUME backups' = backups PROVE BackupPreserved(s)
    BY <2>3 DEF BackupPreserved
  <2>4. ASSUME NEW i \in Installers, Step(i) \/ Interrupt(i) \/ Kill(i)
        PROVE  BackupPreserved(s)
    BY <2>1, <2>2, <2>3, <2>4 DEF Step, Work, Preflight, Inspect, Claim, Extract, Audit, Probe,
       Publish, WriteEnvironment, WriteManifest, RaiseError, Rollback, RemoveTree,
       Interrupt, Kill
  <2> QED
    BY <1>1, <2>3, <2>4 DEF Next, Tick, Repackage, vars
<1>2. IInv /\ [Next]_vars => [\A s \in Stamps : BackupPreserved(s)]_vars
  BY <1>1
<1> QED BY <1>2, Invariance, PTL DEF Spec, BackupsPreserved

-----------------------------------------------------------------------------
(* Invocations that overlap may lose an installation.  This is the only    *)
(* way they do.                                                            *)

(* No publication has failed so far. *)
AllPassing ==
  \A i \in Installers : published[i] => pc[i] \in {"environment", "manifest", "passed"}

(* Then every published tree is whole somewhere, though the environment    *)
(* file and the manifest of one may have gone to another.                  *)
PublishedKept == AllPassing => \A i \in Installers : published[i] => Has(i)

(* An extracted tree is its invocation's own. *)
StagedOwner == \A i \in Installers : staging[i] # Absent => staging[i].owner = i

LEMMA HasAt ==
  ASSUME NEW o, NEW d \in Places, Intact(d), d.owner = o
  PROVE  Has(o)
BY DEF Has

LEMMA HasMoves ==
  ASSUME IInv, NEW i \in Installers, NEW o, Has(o),
         Step(i) \/ Interrupt(i) \/ Kill(i)
  PROVE  Has(o)' \/ TakesBack(i)
<1>1. CASE UNCHANGED <<prefix, backups>>
  BY <1>1 DEF Has, Places, Intact
<1>2. CASE Intact(prefix) /\ prefix.owner = o /\ ~UNCHANGED <<prefix, backups>>
  <2>1. CASE Retire(i)
    <3>1. stamp[i] \in Stamps /\ backups' = [backups EXCEPT ![stamp[i]] = prefix]
      BY <1>2, <2>1 DEF Retire, StampInv
    <3>2. backups'[stamp[i]] = prefix
      BY <3>1 DEF TypeOK
    <3> QED
      BY <1>2, <3>1, <3>2 DEF Has, Places, Intact
  <2>2. CASE WriteEnvironment(i) \/ WriteManifest(i)
    <3>1. prefix \in Tree
      BY <1>2 DEF TypeOK, Dir, Intact
    <3>2. PICK m \in {i, Torn} : prefix' \in {[prefix EXCEPT !.env = TRUE], [prefix EXCEPT !.manifest = m]}
      BY <1>2, <2>2 DEF WriteEnvironment, WriteManifest, Intact
    <3>3. prefix'.content = prefix.content /\ prefix'.owner = prefix.owner /\ prefix' \in Tree
      BY <3>1, <3>2 DEF Tree
    <3>4. Intact(prefix)'
      BY <1>2, <3>3 DEF Intact
    <3> QED
      BY <1>2, <3>3, <3>4 DEF Has, Places
  <2>3. CASE Rollback(i)
    BY <1>2, <2>3 DEF Rollback, TakesBack, TypeOK
  <2>4. ~(Publish(i) \/ RemoveTree(i) \/ Restore(i))
    BY <1>2 DEF Publish, RemoveTree, Restore, CanRenameOnto, Damaged, Intact
  <2> QED
    BY <1>2, <2>1, <2>2, <2>3, <2>4 DEF Step, Work, Preflight, Inspect, Claim, Extract, Audit,
       Probe, RaiseError, Interrupt, Kill
<1>3. ASSUME NEW s \in Stamps, Intact(backups[s]), backups[s].owner = o,
             ~UNCHANGED <<prefix, backups>>
      PROVE  Has(o)'
  <2>1. CASE UNCHANGED backups
    BY <1>3, <2>1 DEF Has, Places, Intact
  <2>2. CASE Retire(i) /\ backups' # backups
    <3>1. ~Intact(backups[stamp[i]]) /\ backups' = [backups EXCEPT ![stamp[i]] = prefix]
      BY <2>2 DEF Retire, CanRenameOnto
    <3>2. backups'[s] = backups[s]
      BY <1>3, <3>1 DEF TypeOK
    <3> QED
      BY <1>3, <3>2 DEF Has, Places, Intact
  <2>3. CASE Restore(i) /\ backups' # backups
    <3>1. /\ prefix' = backups[stamp[i]]
          /\ backups' = [backups EXCEPT ![stamp[i]] = Absent]
      BY <2>3 DEF Restore
    <3>2. CASE s = stamp[i]
      BY <1>3, <3>1, <3>2 DEF Has, Places, Intact
    <3>3. CASE s # stamp[i]
      <4>1. backups'[s] = backups[s]
        BY <1>3, <3>1, <3>3 DEF TypeOK
      <4> QED
        BY <1>3, <4>1 DEF Has, Places, Intact
    <3> QED
      BY <3>2, <3>3
  <2> QED
    BY <2>1, <2>2, <2>3 DEF Step, Work, Preflight, Inspect, Claim, Extract, Audit, Probe,
       Publish, WriteEnvironment, WriteManifest, RaiseError, Rollback, RemoveTree, Interrupt, Kill
<1> QED
  BY <1>1, <1>2, <1>3 DEF Has, Places

LEMMA StagedOwnerNext == ASSUME IInv, StagedOwner, [Next]_vars PROVE StagedOwner'
<1>1. CASE UNCHANGED staging
  BY <1>1 DEF StagedOwner
<1>2. ASSUME NEW i \in Installers, Claim(i) PROVE StagedOwner'
  <2>1. CASE staging' = [staging EXCEPT ![i] = EmptyStaging(i)]
    BY <2>1 DEF StagedOwner, EmptyStaging, TypeOK
  <2> QED
    BY <1>1, <1>2, <2>1 DEF Claim
<1>3. ASSUME NEW i \in Installers, Extract(i) PROVE StagedOwner'
  <2>1. staging[i] \in Tree /\ staging[i].owner = i
    BY <1>3 DEF Extract, StagingInv, Staged, StagedOwner
  <2>2. staging' = [staging EXCEPT ![i] = [staging[i] EXCEPT !.content = archive]]
    BY <1>3 DEF Extract
  <2>3. [staging[i] EXCEPT !.content = archive].owner = i
    BY <2>1 DEF Tree
  <2> QED
    BY <2>2, <2>3 DEF StagedOwner, TypeOK
<1>4. ASSUME NEW i \in Installers, staging' = [staging EXCEPT ![i] = Absent] PROVE StagedOwner'
  BY <1>4 DEF StagedOwner, TypeOK
<1>5. ASSUME NEW i \in Installers, Step(i) \/ Interrupt(i) \/ Kill(i) PROVE StagedOwner'
  BY <1>1, <1>2, <1>3, <1>4, <1>5 DEF Step, Work, Preflight, Inspect, Audit, Probe, Retire,
     Publish, WriteEnvironment, WriteManifest, RaiseError, Rollback, RemoveTree, Restore,
     Interrupt, Kill
<1> QED
  BY <1>1, <1>5 DEF Next, Tick, Repackage, vars

(* A publication that has failed stays failed. *)
LEMMA FailedForGood ==
  ASSUME IInv, NEW i \in Installers, Step(i) \/ Interrupt(i) \/ Kill(i), AllPassing'
  PROVE  AllPassing /\ ~TakesBack(i)
<1>1. \A j \in Installers \ {i} : pc'[j] = pc[j] /\ published'[j] = published[j]
  BY DEF TypeOK, Step, Work, Preflight, Inspect, Claim, Extract, Audit, Probe, Retire,
     Publish, WriteEnvironment, WriteManifest, RaiseError, Rollback, RemoveTree, Restore,
     Interrupt, Kill
<1>2. ASSUME published[i], pc[i] \notin {"environment", "manifest", "passed"} PROVE FALSE
  <2>1. pc[i] \in Handler \cup (Ended \ {"passed"})
    BY <1>2 DEF PublishedInv
  <2>2. published'[i] /\ pc'[i] \notin {"environment", "manifest", "passed"}
    BY <1>2, <2>1 DEF TypeOK, Handler, Ended, TryBlock, Running, Step, Work, Preflight, Inspect,
       Claim, Extract, Audit, Probe, Retire, Publish, WriteEnvironment, WriteManifest,
       RaiseError, Rollback, RemoveTree, Restore, Interrupt, Kill
  <2> QED
    BY <2>2 DEF AllPassing
<1> QED
  BY <1>1, <1>2 DEF AllPassing, TakesBack

LEMMA PublishedKeptNext ==
  ASSUME IInv, StagedOwner, PublishedKept, [Next]_vars PROVE PublishedKept'
<1> SUFFICES ASSUME AllPassing', NEW j \in Installers, published'[j] PROVE Has(j)'
  BY DEF PublishedKept
<1>1. CASE UNCHANGED <<prefix, backups, pc, published>>
  <2>1. AllPassing /\ published[j]
    BY <1>1 DEF AllPassing
  <2> QED
    BY <1>1, <2>1 DEF PublishedKept, Has, Places, Intact
<1>2. ASSUME NEW i \in Installers, Step(i) \/ Interrupt(i) \/ Kill(i) PROVE Has(j)'
  <2>1. AllPassing /\ ~TakesBack(i)
    BY <1>2, FailedForGood
  <2>2. CASE published[j]
    BY <1>2, <2>1, <2>2, HasMoves DEF PublishedKept
  <2>3. CASE ~published[j]
    <3>1. Publish(i) /\ published' = [published EXCEPT ![i] = TRUE]
      BY <1>2, <2>3 DEF Step, Work, Preflight, Inspect, Claim, Extract, Audit, Probe, Retire,
         Publish, WriteEnvironment, WriteManifest, RaiseError, Rollback, RemoveTree, Restore,
         Interrupt, Kill
    <3>2. j = i /\ prefix' = staging[i]
      BY <2>3, <3>1 DEF Publish, TypeOK
    <3>3. staging[i] \in Tree /\ staging[i].content \in Sound
      BY <3>1 DEF Publish, StagingInv, Staged, AuditPassed
    <3>4. Intact(prefix)' /\ prefix'.owner = j
      BY <3>2, <3>3 DEF Intact, StagedOwner
    <3> QED
      BY <3>4 DEF Has, Places
  <2> QED
    BY <2>2, <2>3
<1> QED
  BY <1>1, <1>2 DEF Next, Tick, Repackage, vars

(* However invocations overlap, an installation, the user's own included,  *)
(* is lost only to the rollback of an invocation whose own publication     *)
(* failed: `published` does not say that the tree is still its own.        *)
THEOREM LossNeedsRollback == Spec => LostOnlyByRollback
<1>1. ASSUME IInv, [Next]_vars, NEW o \in Installers \cup {User}, Has(o)
      PROVE  Has(o)' \/ \E i \in Installers : TakesBack(i)
  <2>1. CASE UNCHANGED <<prefix, backups>>
    BY <1>1, <2>1 DEF Has, Places, Intact
  <2> QED
    BY <1>1, <2>1, HasMoves DEF Next, Tick, Repackage, vars
<1>2. IInv /\ [Next]_vars =>
        [\A o \in Installers \cup {User} :
           Has(o) => Has(o)' \/ \E i \in Installers : TakesBack(i)]_vars
  BY <1>1
<1> QED
  BY <1>2, Invariance, PTL DEF Spec, LostOnlyByRollback

(* Both together: no backup is overwritten, and no installation is lost    *)
(* otherwise than by such a rollback, for any number of invocations.       *)
THEOREM TreesKept == Spec => TreesPreserved
BY BackupsKept, LossNeedsRollback DEF TreesPreserved

(* However invocations overlap, as long as every publication so far was    *)
(* completed or is under way, none of the published trees is lost.         *)
THEOREM OverlapKeepsAll == Spec => []PublishedKept
<1>1. Init => StagedOwner /\ PublishedKept
  BY DEF Init, StagedOwner, PublishedKept
<1>2. IInv /\ StagedOwner /\ PublishedKept /\ [Next]_vars => (StagedOwner /\ PublishedKept)'
  BY StagedOwnerNext, PublishedKeptNext
<1> QED
  BY <1>1, <1>2, Invariance, PTL DEF Spec

-----------------------------------------------------------------------------
(* One invocation after the other.  What follows assumes that invocations  *)
(* do not overlap; any of them may still fail, be interrupted or be killed *)
(* at any step.                                                            *)

OneRunning ==
  \A i, j \in Installers : (pc[i] \in Running /\ pc[j] \in Running) => i = j

(* The directories under the prefix and the backup names have different    *)
(* owners, and an invocation owns one only once it has published it.       *)
Owned(d) == d # Absent => d.owner = User \/ published[d.owner]

OwnersInv ==
  /\ Owned(prefix) /\ \A s \in Stamps : Owned(backups[s])
  /\ \A s \in Stamps : (backups[s] # Absent /\ prefix # Absent) =>
       backups[s].owner # prefix.owner
  /\ \A s, t \in Stamps : (backups[s] # Absent /\ backups[t] # Absent /\ s # t) =>
       backups[s].owner # backups[t].owner

(* What i found is in its backup, or there was nothing. *)
Aside(i) ==
  IF before[i] = Absent THEN stamp[i] = None
  ELSE stamp[i] \in Stamps /\ backups[stamp[i]] = before[i]

(* What i found is still under the prefix. *)
InPlace(i) == prefix = before[i] /\ (before[i] = Absent => stamp[i] = None)

(* The prefix is free, and i can give back what it found. *)
Vacated(i) == prefix = Absent /\ Aside(i)

(* Under the prefix is the tree of i, not yet complete. *)
Unfinished(i) ==
  /\ prefix # Absent /\ prefix.owner = i /\ prefix.manifest \in {None, Torn}
  /\ Aside(i)

(* The labels at which i has not touched anything. *)
Early == {"inspect", "claim", "extract", "audit", "probe"}

(* Where the tree that i found is, label by label. *)
Where(i) ==
  /\ pc[i] \in Early \cup {"idle"} => stamp[i] = None
  /\ pc[i] \in Early => prefix = before[i]
  /\ pc[i] = "retire" =>
       prefix = before[i] /\ prefix # Absent /\ backups[stamp[i]] = Absent
  /\ pc[i] = "publish" => Vacated(i)
  /\ pc[i] \in {"environment", "manifest"} => Unfinished(i) /\ Intact(prefix)
  /\ pc[i] = "manifest" => prefix.env
  /\ pc[i] = "rollback" =>
       IF published[i] THEN Unfinished(i) ELSE InPlace(i) \/ Vacated(i)
  /\ pc[i] = "remove" => Unfinished(i) /\ Damaged(prefix)
  /\ pc[i] = "restore" =>
       InPlace(i) \/ Vacated(i) \/ (Unfinished(i) /\ "rmtree" \in Faults)
  /\ pc[i] \in Staged => staging[i].owner = i /\ staging[i].manifest = None

SInv ==
  /\ OneRunning /\ OwnersInv /\ PassedInstallSurvives
  /\ \A i \in Installers : Where(i)

HIDE DEF IInv

(* Only one invocation moves: wherever it goes, it is the only one that    *)
(* runs, and the others stay where they are.                               *)
LEMMA OnlyOneMoves ==
  ASSUME IInv, SInv, NEW i \in Installers, NEW label, Goto(i, label),
         pc[i] \in Running \/ \A j \in Installers : pc[j] \notin Running,
         \A j \in Installers \ {i} : stamp'[j] = stamp[j]
  PROVE  OneRunning' /\ \A j \in Installers \ {i} : Where(j)'
<1>1. \A j \in Installers \ {i} : pc'[j] = pc[j] /\ pc[j] \notin Running
  BY DEF IInv, SInv, OneRunning, TypeOK
<1>2. OneRunning'
  BY <1>1 DEF OneRunning
<1>3. ASSUME NEW j \in Installers \ {i} PROVE Where(j)'
  BY <1>1, <1>3 DEF SInv, Where, Early, Staged, Running, TryBlock, Handler
<1> QED BY <1>2, <1>3

LEMMA EachMovesItself ==
  ASSUME NEW i \in Installers, Step(i) \/ Interrupt(i) \/ Kill(i)
  PROVE  \E label : Goto(i, label)
<1>1. CASE Preflight(i) \/ Inspect(i) \/ Claim(i) \/ Extract(i) \/ Audit(i) \/ Probe(i)
  BY <1>1 DEF Preflight, Inspect, Claim, Extract, Audit, Probe
<1>2. CASE Retire(i) \/ Publish(i) \/ WriteEnvironment(i) \/ WriteManifest(i)
  BY <1>2 DEF Retire, Publish, WriteEnvironment, WriteManifest
<1>3. CASE \/ RaiseError(i) \/ Rollback(i) \/ RemoveTree(i) \/ Restore(i)
           \/ Interrupt(i) \/ Kill(i)
  BY <1>3 DEF RaiseError, Rollback, RemoveTree, Restore, Interrupt, Kill
<1> QED BY <1>1, <1>2, <1>3 DEF Step, Work

(* While no directory is touched, ownership and the passed trees stand. *)
LEMMA TreesStay ==
  ASSUME IInv, SInv, UNCHANGED <<prefix, backups, published>>,
         \A j \in Installers : pc'[j] = "passed" => pc[j] = "passed"
  PROVE  OwnersInv' /\ PassedInstallSurvives'
<1>1. OwnersInv'
  BY DEF SInv, OwnersInv, Owned
<1>2. PassedInstallSurvives'
  BY DEF SInv, PassedInstallSurvives, Survives, Intact
<1> QED BY <1>1, <1>2

LEMMA SerialPreflight ==
  ASSUME Overlap = FALSE, IInv, SInv, NEW i \in Installers, Preflight(i) PROVE SInv'
<1>0. PICK label : Goto(i, label) /\ label \in {"validated", "inspect", "refused"}
  BY DEF Preflight
<1>1. OneRunning' /\ \A j \in Installers \ {i} : Where(j)'
  BY <1>0, OnlyOneMoves DEF Preflight
<1>2. OwnersInv' /\ PassedInstallSurvives'
  <2>1. \A j \in Installers : pc'[j] = "passed" => pc[j] = "passed"
    BY <1>0 DEF IInv, TypeOK
  <2> QED BY <2>1, TreesStay DEF Preflight
<1>3. Where(i)'
  BY <1>0 DEF Preflight, SInv, Where, Early, Staged, IInv, TypeOK
<1> QED BY <1>1, <1>2, <1>3 DEF SInv

(* The steps that leave the prefix and the backups alone. *)
LEMMA SerialQuiet ==
  ASSUME IInv, SInv, NEW i \in Installers,
         \/ Inspect(i) \/ Claim(i) \/ Extract(i) \/ Audit(i) \/ Probe(i)
         \/ RaiseError(i) \/ Interrupt(i) \/ Kill(i)
  PROVE  SInv'
<1>0. PICK label : Goto(i, label) /\ label # "passed"
  BY DEF Inspect, Claim, Extract, Audit, Probe, RaiseError, Interrupt, Kill
<1>1. pc[i] \in Running /\ UNCHANGED <<prefix, backups, published>>
  BY DEF Inspect, Claim, Extract, Audit, Probe, RaiseError, Interrupt, Kill, Running, TryBlock
<1>2. OneRunning' /\ \A j \in Installers \ {i} : Where(j)'
  <2>1. \A j \in Installers \ {i} : stamp'[j] = stamp[j]
    BY DEF Inspect, Claim, Extract, Audit, Probe, RaiseError, Interrupt, Kill, IInv, TypeOK
  <2> QED BY <1>0, <1>1, <2>1, OnlyOneMoves
<1>3. OwnersInv' /\ PassedInstallSurvives'
  <2>1. \A j \in Installers : pc'[j] = "passed" => pc[j] = "passed"
    BY <1>0 DEF IInv, TypeOK
  <2> QED BY <1>1, <2>1, TreesStay
<1>4. Where(i)'
  <2> USE DEF SInv, Where, Early, Staged, IInv, TypeOK
  <2>1. CASE Inspect(i)
    BY <2>1 DEF Inspect
  <2>2. CASE Claim(i)
    BY <2>2 DEF Claim, EmptyStaging
  <2>3. CASE Extract(i)
    <3>1. staging[i] \in Tree
      BY <2>3 DEF Extract, StagingInv
    <3> QED BY <2>3, <3>1 DEF Extract, Tree
  <2>4. CASE Audit(i)
    BY <2>4 DEF Audit, InPlace, PublishedInv, Handler, Ended
  <2>5. CASE Probe(i)
    BY <2>5 DEF Probe, InPlace, Vacated, Aside, PublishedInv, Handler, Ended
  <2>6. CASE RaiseError(i)
    BY <2>6 DEF RaiseError, TryBlock, InPlace, Vacated, Unfinished, Aside, PublishedInv,
       Handler, Ended
  <2>7. CASE Interrupt(i)
    BY <2>7 DEF Interrupt
  <2>8. CASE Kill(i)
    BY <2>8 DEF Kill
  <2> QED BY <2>1, <2>2, <2>3, <2>4, <2>5, <2>6, <2>7, <2>8
<1> QED BY <1>2, <1>3, <1>4 DEF SInv

(* The existing tree goes to a backup name that is free, under one name in *)
(* place of another.                                                       *)
LEMMA SerialRetire ==
  ASSUME IInv, SInv, NEW i \in Installers, Retire(i) PROVE SInv'
<1>0. PICK label : Goto(i, label) /\ label # "passed"
  BY DEF Retire
<1>1. pc[i] = "retire" /\ stamp' = stamp /\ published' = published /\ before' = before
  BY DEF Retire
<1>2. OneRunning' /\ \A j \in Installers \ {i} : Where(j)'
  BY <1>0, <1>1, OnlyOneMoves DEF Running, TryBlock
<1>3. stamp[i] \in Stamps /\ prefix = before[i] /\ prefix # Absent
      /\ backups[stamp[i]] = Absent /\ ~published[i]
  BY <1>1 DEF IInv, StampInv, SInv, Where, PublishedInv, Handler, Ended
<1>4. \A j \in Installers : pc'[j] = "passed" => pc[j] = "passed"
  BY <1>0 DEF IInv, TypeOK
<1>5. CASE UNCHANGED <<prefix, backups>>
  <2>1. OwnersInv' /\ PassedInstallSurvives'
    BY <1>1, <1>4, <1>5, TreesStay
  <2>2. Where(i)'
    BY <1>1, <1>3, <1>5 DEF Retire, CanRenameOnto, RenameMayFail, Intact, Where, Early,
       Staged, InPlace, IInv, TypeOK
  <2> QED BY <1>2, <2>1, <2>2 DEF SInv
<1>6. CASE backups' = MovedAside(i) /\ prefix' = Absent /\ Goto(i, "publish")
  <2>1. backups'[stamp[i]] = prefix /\ \A s \in Stamps \ {stamp[i]} : backups'[s] = backups[s]
    BY <1>3, <1>6 DEF IInv, TypeOK
  <2>2. OwnersInv'
    BY <1>1, <1>3, <1>6, <2>1 DEF SInv, OwnersInv, Owned
  <2>3. PassedInstallSurvives'
    <3>1. ASSUME NEW j \in Installers, pc[j] = "passed"
          PROVE  \E s \in Stamps : Survives(backups[s], j)'
      <4>1. CASE Survives(prefix, j)
        BY <1>3, <2>1, <4>1 DEF Survives, Intact
      <4>2. CASE \E s \in Stamps : Survives(backups[s], j)
        BY <1>3, <2>1, <4>2 DEF Survives, Intact
      <4> QED BY <3>1, <4>1, <4>2 DEF SInv, PassedInstallSurvives
    <3> QED BY <1>4, <3>1 DEF PassedInstallSurvives
  <2>4. Where(i)'
    BY <1>1, <1>3, <1>6, <2>1 DEF Retire, SInv, Where, Early, Staged, Vacated, Aside, IInv, TypeOK
  <2> QED BY <1>2, <2>2, <2>3, <2>4 DEF SInv
<1> QED BY <1>5, <1>6 DEF Retire

(* The new tree goes to a prefix that is free. *)
LEMMA SerialPublish ==
  ASSUME IInv, SInv, NEW i \in Installers, Publish(i) PROVE SInv'
<1>0. PICK label : Goto(i, label) /\ label # "passed"
  BY DEF Publish
<1>1. pc[i] = "publish" /\ stamp' = stamp /\ backups' = backups /\ before' = before
  BY DEF Publish
<1>2. OneRunning' /\ \A j \in Installers \ {i} : Where(j)'
  BY <1>0, <1>1, OnlyOneMoves DEF Running, TryBlock
<1>3. prefix = Absent /\ Aside(i) /\ ~published[i] /\ staging[i] \in Tree
      /\ staging[i].owner = i /\ staging[i].manifest = None /\ staging[i].content \in Sound
  BY <1>1 DEF SInv, Where, Vacated, IInv, StagingInv, PublishedInv, Staged, AuditPassed,
     Handler, Ended
<1>4. /\ prefix' = staging[i] /\ published' = [published EXCEPT ![i] = TRUE]
      /\ Goto(i, "environment")
  BY <1>3 DEF Publish, RenameMayFail
<1>5. prefix' # Absent /\ prefix'.content # Broken /\ Intact(prefix')
  BY <1>3, <1>4 DEF Intact
<1>6. \A s \in Stamps : backups[s] # Absent => backups[s].owner # i
  BY <1>3 DEF SInv, OwnersInv, Owned
<1>7. OwnersInv'
  <2>1. published'[i] /\ \A o : published[o] /\ o \in Installers => published'[o]
    BY <1>4 DEF IInv, TypeOK
  <2>2. ASSUME NEW s \in Stamps PROVE Owned(backups[s])'
    <3>1. backups[s] # Absent => backups[s].owner \in Installers \cup {User}
      BY DEF IInv, TypeOK, Dir, Tree
    <3> QED BY <1>1, <2>1, <3>1 DEF SInv, OwnersInv, Owned
  <2> QED BY <1>1, <1>3, <1>4, <1>5, <1>6, <2>1, <2>2 DEF SInv, OwnersInv, Owned
<1>8. PassedInstallSurvives'
  BY <1>0, <1>1, <1>3 DEF SInv, PassedInstallSurvives, Survives, Intact, IInv, TypeOK
<1>9. Where(i)'
  <2>1. Aside(i)'
    BY <1>1, <1>3 DEF Aside
  <2>2. Unfinished(i)'
    BY <1>3, <1>4, <1>5, <2>1 DEF Unfinished
  <2>3. pc'[i] = "environment"
    BY <1>4 DEF IInv, TypeOK
  <2> QED BY <1>5, <2>2, <2>3 DEF Where, Early, Staged
<1> QED BY <1>2, <1>7, <1>8, <1>9 DEF SInv

(* What an invocation does to its own tree under the prefix concerns no    *)
(* other invocation.                                                       *)
LEMMA OwnTreeOnly ==
  ASSUME IInv, SInv, NEW i \in Installers, UNCHANGED <<backups, published>>,
         prefix # Absent, prefix.owner = i,
         prefix' # Absent => prefix'.owner = i,
         pc[i] # "passed", \A j \in Installers \ {i} : pc'[j] = pc[j],
         pc'[i] = "passed" => Survives(prefix', i)
  PROVE  OwnersInv' /\ PassedInstallSurvives'
<1>1. OwnersInv'
  BY DEF SInv, OwnersInv, Owned
<1>2. ASSUME NEW j \in Installers, pc'[j] = "passed", j # i
      PROVE  \E s \in Stamps : Survives(backups'[s], j)
  BY <1>2 DEF SInv, PassedInstallSurvives, Survives
<1>3. PassedInstallSurvives'
  BY <1>2 DEF PassedInstallSurvives, Survives, Intact
<1> QED BY <1>1, <1>3

(* The steps after the publication, and the rollback of it. *)
LEMMA SerialOwnTree ==
  ASSUME IInv, SInv, NEW i \in Installers,
         \/ WriteEnvironment(i) \/ WriteManifest(i) \/ RemoveTree(i)
         \/ Rollback(i) /\ published[i]
  PROVE  SInv'
<1>0. PICK label : Goto(i, label) /\ (label = "passed" => WriteManifest(i))
  BY DEF WriteEnvironment, WriteManifest, RemoveTree, Rollback
<1>1. /\ pc[i] \in {"environment", "manifest", "remove", "rollback"}
      /\ UNCHANGED <<backups, published, stamp, before>>
  BY DEF WriteEnvironment, WriteManifest, RemoveTree, Rollback
<1>2. OneRunning' /\ \A j \in Installers \ {i} : Where(j)'
  BY <1>0, <1>1, OnlyOneMoves DEF Running, TryBlock, Handler
<1>3. published[i] /\ Unfinished(i) /\ prefix \in Tree
  BY <1>1 DEF SInv, Where, IInv, PublishedInv, Handler, RemoveTree, TypeOK, Dir,
     WriteEnvironment, WriteManifest, Rollback, Unfinished
<1>4. prefix' # Absent => prefix'.owner = i
  BY <1>3 DEF WriteEnvironment, WriteManifest, RemoveTree, Rollback, Unfinished, Tree
<1>5. pc'[i] = "passed" => Survives(prefix', i)
  <2> SUFFICES ASSUME pc'[i] = "passed" PROVE Survives(prefix', i)
    OBVIOUS
  <2>1. /\ pc[i] = "manifest" /\ prefix' = [prefix EXCEPT !.manifest = i]
        /\ prefix.owner = i /\ prefix.env /\ Intact(prefix)
    <3>1. WriteManifest(i)
      BY <1>0 DEF IInv, TypeOK
    <3> QED BY <1>3, <3>1 DEF WriteManifest, SInv, Where, Unfinished, IInv, TypeOK
  <2>2. [prefix EXCEPT !.manifest = i] \in Tree
    BY <1>3 DEF Tree
  <2>3. prefix' \in Tree /\ prefix' # Absent
    BY <2>1, <2>2
  <2> QED BY <1>3, <2>1, <2>3 DEF Survives, Intact, Tree
<1>6. OwnersInv' /\ PassedInstallSurvives'
  <2>1. \A j \in Installers \ {i} : pc'[j] = pc[j]
    BY <1>0 DEF IInv, TypeOK
  <2> QED BY <1>1, <1>3, <1>4, <1>5, <2>1, OwnTreeOnly DEF Unfinished
<1>7. Where(i)'
  <2> USE DEF SInv, Where, Early, Staged, IInv, TypeOK
  <2>0. Aside(i)'
    BY <1>1, <1>3 DEF Aside, Unfinished
  <2>1. CASE WriteEnvironment(i)
    <3>1. [prefix EXCEPT !.env = TRUE] \in Tree
      BY <1>3, TreeUpdates
    <3>2. prefix # Absent /\ pc'[i] = "manifest" /\ prefix' = [prefix EXCEPT !.env = TRUE]
      BY <1>3, <2>1 DEF WriteEnvironment, Unfinished
    <3>3. /\ prefix' # Absent /\ prefix'.env
          /\ UNCHANGED <<prefix.owner, prefix.manifest, prefix.content>>
      BY <1>3, <3>1, <3>2 DEF Tree
    <3>4. Intact(prefix)
      BY <2>1 DEF WriteEnvironment
    <3> QED BY <1>3, <2>0, <3>2, <3>3, <3>4 DEF Unfinished, Intact
  <2>2. CASE WriteManifest(i)
    BY <1>1, <1>3, <2>0, <2>2 DEF WriteManifest, Unfinished, Tree
  <2>3. CASE RemoveTree(i)
    BY <1>1, <1>3, <2>0, <2>3 DEF RemoveTree, Unfinished, Damaged, InPlace, Vacated
  <2>4. CASE Rollback(i)
    <3>1. CASE pc'[i] = "remove" /\ prefix' = [prefix EXCEPT !.content = Broken]
      <4>1. prefix' \in Tree
        BY <1>3, <3>1, TreeUpdates
      <4>2. prefix' # Absent /\ Damaged(prefix') /\ UNCHANGED <<prefix.owner, prefix.manifest>>
        BY <1>3, <3>1, <4>1 DEF Damaged, Tree
      <4> QED
        BY <1>3, <2>0, <3>1, <4>2 DEF Unfinished, Damaged
    <3>2. CASE pc'[i] = "restore" /\ UNCHANGED prefix /\ "rmtree" \in Faults
      BY <1>3, <2>0, <3>2 DEF Unfinished
    <3> QED
      BY <1>3, <2>4, <3>1, <3>2 DEF Rollback, RemovesPrefix, Unfinished
  <2> QED BY <2>1, <2>2, <2>3, <2>4
<1> QED BY <1>2, <1>6, <1>7 DEF SInv

(* Nothing was published: only the staging directory goes. *)
LEMMA SerialRollback ==
  ASSUME IInv, SInv, NEW i \in Installers, Rollback(i), ~published[i] PROVE SInv'
<1>1. Goto(i, "restore") /\ pc[i] = "rollback" /\ UNCHANGED <<prefix, backups, published, stamp, before>>
  BY DEF Rollback
<1>2. OneRunning' /\ \A j \in Installers \ {i} : Where(j)'
  BY <1>1, OnlyOneMoves DEF Running, TryBlock, Handler
<1>3. OwnersInv' /\ PassedInstallSurvives'
  BY <1>1, TreesStay DEF IInv, TypeOK
<1>4. Where(i)'
  BY <1>1 DEF SInv, Where, Early, Staged, IInv, TypeOK, InPlace, Vacated, Aside
<1> QED BY <1>2, <1>3, <1>4 DEF SInv

(* What was found goes back to a prefix that is free. *)
LEMMA SerialRestore ==
  ASSUME IInv, SInv, NEW i \in Installers, Restore(i) PROVE SInv'
<1>0. PICK label \in {"refused", "unrestored"} : Goto(i, label)
  BY DEF Restore
<1>1. pc[i] = "restore" /\ UNCHANGED <<published, stamp, before>>
  BY DEF Restore
<1>2. OneRunning' /\ \A j \in Installers \ {i} : Where(j)'
  BY <1>0, <1>1, OnlyOneMoves DEF Running, TryBlock, Handler
<1>3. \A j \in Installers : pc'[j] = "passed" => pc[j] = "passed"
  BY <1>0 DEF IInv, TypeOK
<1>4. Where(i)'
  BY <1>0 DEF Where, Early, Staged, IInv, TypeOK
<1>5. CASE UNCHANGED <<prefix, backups>>
  <2>1. OwnersInv' /\ PassedInstallSurvives'
    BY <1>1, <1>3, <1>5, TreesStay DEF Restore
  <2> QED BY <1>2, <1>4, <2>1 DEF SInv
<1>6. CASE MustRestore(i) /\ ~UNCHANGED <<prefix, backups>>
  <2>1. /\ stamp[i] \in Stamps /\ prefix = Absent /\ prefix' = backups[stamp[i]]
        /\ backups[stamp[i]] # Absent /\ backups'[stamp[i]] = Absent
        /\ \A s \in Stamps \ {stamp[i]} : backups'[s] = backups[s]
    BY <1>6 DEF Restore, IInv, TypeOK
  <2>2. OwnersInv'
    BY <1>1, <2>1 DEF SInv, OwnersInv, Owned
  <2>3. PassedInstallSurvives'
    <3>1. ASSUME NEW j \in Installers, pc[j] = "passed"
          PROVE  Survives(prefix', j) \/ \E s \in Stamps : Survives(backups'[s], j)
      BY <2>1, <3>1 DEF SInv, PassedInstallSurvives, Survives, Intact
    <3> QED BY <1>3, <3>1 DEF PassedInstallSurvives, Survives, Intact
  <2> QED BY <1>2, <1>4, <2>2, <2>3 DEF SInv
<1> QED BY <1>5, <1>6 DEF Restore

LEMMA SerialEnvironment ==
  ASSUME IInv, SInv, Tick \/ Repackage \/ UNCHANGED vars PROVE SInv'
<1>1. UNCHANGED <<prefix, backups, staging, pc, stamp, published, before>>
  BY DEF Tick, Repackage, vars
<1>2. OwnersInv' /\ PassedInstallSurvives'
  BY <1>1, TreesStay
<1>3. OneRunning' /\ \A i \in Installers : Where(i)'
  BY <1>1 DEF SInv, OneRunning, Where, InPlace, Vacated, Unfinished, Aside, Intact, Damaged
<1> QED BY <1>2, <1>3 DEF SInv

LEMMA SerialNext == ASSUME Overlap = FALSE, IInv, SInv, [Next]_vars PROVE SInv'
<1>1. ASSUME NEW i \in Installers, Step(i) \/ Interrupt(i) \/ Kill(i) PROVE SInv'
  <2>1. CASE Rollback(i)
    BY <2>1, SerialRollback, SerialOwnTree
  <2> QED
    BY <1>1, <2>1, SerialPreflight, SerialQuiet, SerialRetire, SerialPublish, SerialOwnTree,
       SerialRestore DEF Step, Work
<1> QED BY <1>1, SerialEnvironment DEF Next

LEMMA SerialInit == Init => SInv
<1> SUFFICES ASSUME Init PROVE SInv
  OBVIOUS
<1>1. \A i \in Installers : pc[i] = "idle" /\ stamp[i] = None
  BY DEF Init
<1>2. OneRunning /\ PassedInstallSurvives
  BY <1>1 DEF OneRunning, PassedInstallSurvives, Running, TryBlock, Handler
<1>3. OwnersInv
  BY DEF Init, OwnersInv, Owned, UserTree
<1>4. ASSUME NEW i \in Installers PROVE Where(i)
  BY <1>1 DEF Where, Early, Staged
<1> QED BY <1>2, <1>3, <1>4 DEF SInv

LEMMA SerialInvariance == ASSUME Overlap = FALSE PROVE Spec => [](IInv /\ SInv)
<1>1. IInv /\ SInv /\ [Next]_vars => SInv'
  BY SerialNext
<1> QED BY <1>1, InitInv, SerialInit, NextInv, PTL DEF Spec

(* A tree that an invocation published and reported stays whole, in place  *)
(* or as a backup, through every later invocation, rollback and crash.     *)
THEOREM PassedSurvives == ASSUME Overlap = FALSE PROVE Spec => []PassedInstallSurvives
<1>1. SInv => PassedInstallSurvives
  BY DEF SInv
<1> QED BY <1>1, SerialInvariance, PTL

(* A refused run has put back what it found, or a call of its rollback     *)
(* failed, and then it leaves what it found in the backup.                 *)
THEOREM RefusalsRestore == ASSUME Overlap = FALSE PROVE Spec => RefusalRestores
<1>1. ASSUME IInv, SInv, [Next]_vars, NEW i \in Installers, pc'[i] # pc[i]
      PROVE  Restored(i)'
  <2>0. Step(i) \/ Interrupt(i) \/ Kill(i)
    <3>1. ASSUME NEW j \in Installers, Step(j) \/ Interrupt(j) \/ Kill(j), j # i
          PROVE  pc'[i] = pc[i]
      BY <1>1, <3>1, EachMovesItself DEF IInv, TypeOK
    <3> QED
      BY <1>1, <3>1 DEF Next, Tick, Repackage, vars
  <2>1. CASE pc'[i] \notin {"refused", "unrestored"}
    BY <2>1 DEF Restored
  <2>2. CASE Preflight(i)
    BY <1>1, <2>2 DEF Preflight, Restored, IInv, TypeOK
  <2>3. CASE Inspect(i) \/ Claim(i)
    <3>1. prefix' = before'[i] /\ pc'[i] # "unrestored"
      BY <1>1, <2>3 DEF Inspect, Claim, SInv, Where, Early, IInv, TypeOK
    <3> QED
      BY <3>1 DEF Restored
  <2>4. CASE Restore(i)
    <3>1. InPlace(i) \/ Vacated(i) \/ (Unfinished(i) /\ "rmtree" \in Faults)
      BY <1>1, <2>4 DEF Restore, SInv, Where
    <3>2. CASE InPlace(i)
      <4>1. ~MustRestore(i)
        BY <3>2 DEF InPlace, MustRestore
      <4>2. prefix' = before'[i] /\ pc'[i] = "refused"
        BY <1>1, <2>4, <3>2, <4>1 DEF Restore, InPlace, IInv, TypeOK
      <4> QED
        BY <4>2 DEF Restored
    <3>3. CASE Vacated(i) /\ before[i] = Absent
      <4>1. ~MustRestore(i)
        BY <3>3 DEF Vacated, Aside, MustRestore
      <4>2. prefix' = before'[i] /\ pc'[i] = "refused"
        BY <1>1, <2>4, <3>3, <4>1 DEF Restore, Vacated, IInv, TypeOK
      <4> QED
        BY <4>2 DEF Restored
    <3>4. CASE Vacated(i) /\ before[i] # Absent
      <4>1. /\ MustRestore(i) /\ stamp[i] \in Stamps /\ backups[stamp[i]] = before[i]
            /\ prefix = Absent /\ before' = before
        BY <1>1, <2>4, <3>4, DistinctAssumption DEF Restore, Vacated, Aside, MustRestore, Stamps
      <4>2. CASE pc'[i] = "refused"
        <5>1. prefix' = before'[i]
          BY <1>1, <2>4, <4>1, <4>2 DEF Restore, IInv, TypeOK
        <5> QED
          BY <4>2, <5>1 DEF Restored
      <4>3. CASE pc'[i] = "unrestored"
        <5>1. UNCHANGED <<prefix, backups>>
          BY <1>1, <2>4, <4>1, <4>3 DEF Restore, IInv, TypeOK
        <5> QED
          BY <3>4, <4>1, <4>3, <5>1 DEF Restored, FoundIsKept
      <4> QED
        BY <2>1, <4>2, <4>3
    <3>5. CASE Unfinished(i) /\ "rmtree" \in Faults
      <4>1. ~MustRestore(i)
        BY <3>5 DEF Unfinished, MustRestore
      <4>2. pc'[i] = "refused" /\ UNCHANGED <<prefix, backups, before>>
        BY <1>1, <2>4, <4>1 DEF Restore, IInv, TypeOK
      <4>3. FoundIsKept(i)'
        BY <3>5, <4>2 DEF Unfinished, Aside, FoundIsKept
      <4>4. FailedTreeLeft(i)'
        BY <3>5, <4>2, DistinctAssumption DEF Unfinished, FailedTreeLeft
      <4> QED
        BY <4>2, <4>3, <4>4 DEF Restored
    <3> QED
      BY <3>1, <3>2, <3>3, <3>4, <3>5
  <2> QED
    BY <1>1, <2>0, <2>1, <2>2, <2>3, <2>4 DEF Step, Work, Extract, Audit, Probe, Retire, Publish,
       WriteEnvironment, WriteManifest, RaiseError, Rollback, RemoveTree, Interrupt, Kill,
       IInv, TypeOK
<1>2. IInv /\ SInv /\ [Next]_vars => [\A i \in Installers : pc'[i] # pc[i] => Restored(i)']_vars
  BY <1>1
<1> QED BY <1>2, SerialInvariance, PTL DEF Spec, RefusalRestores

-----------------------------------------------------------------------------
(* The refinement: what counts as installed is the prefix while no         *)
(* invocation runs, and what the running one found otherwise.              *)
Live == IF Pending = {} THEN prefix ELSE CHOOSE d \in Pending : TRUE
Kept == {backups[s] : s \in Stamps} \ (Pending \cup {Absent})

AtRest ==
  (\A i \in Installers : pc[i] \notin Running) =>
    Live = prefix /\ Kept = {backups[s] : s \in Stamps} \ {Absent}

InRun ==
  SInv => \A i \in Installers : pc[i] \in Running =>
            Live = before[i] /\ Kept = {backups[s] : s \in Stamps} \ {before[i], Absent}

LEMMA LiveAtRest == AtRest
<1> SUFFICES ASSUME \A i \in Installers : pc[i] \notin Running
             PROVE  Live = prefix /\ Kept = {backups[s] : s \in Stamps} \ {Absent}
  BY DEF AtRest
<1>1. Pending = {}
  BY DEF Pending
<1> QED BY <1>1 DEF Live, Kept

LEMMA LiveInRun == InRun
<1> SUFFICES ASSUME SInv, NEW i \in Installers, pc[i] \in Running
             PROVE  /\ Live = before[i]
                    /\ Kept = {backups[s] : s \in Stamps} \ {before[i], Absent}
  BY DEF InRun
<1>1. Pending = {before[i]}
  BY DEF Pending, SInv, OneRunning
<1>2. (CHOOSE d \in {before[i]} : TRUE) = before[i]
  OBVIOUS
<1> QED BY <1>1, <1>2 DEF Live, Kept

(* Both say the same of the next state. *)
LEMMA LiveAfter == AtRest' /\ InRun'
BY LiveAtRest, LiveInRun, PTL

(* The prefix is not a backup, and no tree is a backup twice. *)
LEMMA TreesDiffer ==
  ASSUME SInv
  PROVE  /\ \A s \in Stamps : backups[s] = prefix => prefix = Absent
         /\ \A s, t \in Stamps : backups[s] = backups[t] => s = t \/ backups[s] = Absent
BY DEF SInv, OwnersInv

(* At every label, what a running invocation found is still in place, or   *)
(* aside with nothing or an unfinished tree in its place.                  *)
LEMMA ThreePlaces ==
  ASSUME SInv, NEW i \in Installers, pc[i] \in Running
  PROVE  prefix = before[i] \/ Vacated(i) \/ Unfinished(i)
BY DEF SInv, Where, Early, Running, TryBlock, Handler, InPlace

MapNext ==
  \/ Atomic!Next
  \/ Live' = Live /\ Kept' = Kept

(* A run that starts shows nothing. *)
LEMMA StartIsStutter ==
  ASSUME Overlap = FALSE, IInv, SInv, SInv', NEW i \in Installers, Preflight(i)
  PROVE  Live' = Live /\ Kept' = Kept
<1>1. /\ \A j \in Installers : pc[j] \notin Running
      /\ UNCHANGED <<prefix, backups>> /\ before'[i] = prefix
      /\ \A j \in Installers \ {i} : pc'[j] = pc[j]
  BY EachMovesItself DEF Preflight, IInv, TypeOK, Running, TryBlock, Handler
<1>2. Live = prefix /\ Kept = {backups[s] : s \in Stamps} \ {Absent}
  BY <1>1, LiveAtRest DEF AtRest
<1>3. CASE pc'[i] \in Running
  <2>1. Live' = prefix /\ Kept' = {backups[s] : s \in Stamps} \ {prefix, Absent}
    BY <1>1, <1>3, LiveAfter DEF InRun
  <2> QED BY <1>2, <2>1, TreesDiffer
<1>4. CASE pc'[i] \notin Running
  <2>1. \A j \in Installers : pc'[j] \notin Running
    BY <1>1, <1>4
  <2>2. Live' = prefix /\ Kept' = {backups[s] : s \in Stamps} \ {Absent}
    BY <1>1, <2>1, LiveAfter DEF AtRest
  <2> QED BY <1>2, <2>2
<1> QED BY <1>3, <1>4

(* While it runs, what it does under the prefix does not show either. *)
LEMMA RunIsStutter ==
  ASSUME IInv, SInv, SInv', NEW i \in Installers, Step(i) \/ Interrupt(i) \/ Kill(i),
         pc[i] \in Running, pc'[i] \in Running
  PROVE  Live' = Live /\ Kept' = Kept
<1>1. before' = before /\ ~Restore(i)
  BY DEF Step, Work, Preflight, Inspect, Claim, Extract, Audit, Probe, Retire, Publish,
     WriteEnvironment, WriteManifest, RaiseError, Rollback, RemoveTree, Restore, Interrupt,
     Kill, Running, TryBlock, Handler, IInv, TypeOK
<1>2. /\ Live = before[i] /\ Kept = {backups[s] : s \in Stamps} \ {before[i], Absent}
      /\ Live' = before[i] /\ Kept' = {backups'[s] : s \in Stamps} \ {before[i], Absent}
  BY <1>1, LiveInRun, LiveAfter DEF InRun
<1>3. CASE backups' = backups
  BY <1>2, <1>3
<1>4. CASE Retire(i) /\ backups' # backups
  <2>1. /\ stamp[i] \in Stamps /\ prefix = before[i] /\ backups[stamp[i]] = Absent
        /\ backups' = MovedAside(i)
    BY <1>4 DEF Retire, IInv, StampInv, SInv, Where
  <2>2. /\ backups'[stamp[i]] = before[i]
        /\ \A s \in Stamps \ {stamp[i]} : backups'[s] = backups[s]
    BY <2>1 DEF IInv, TypeOK
  <2> QED BY <1>2, <2>1, <2>2
<1>5. backups' = backups \/ Retire(i)
  BY <1>1 DEF Step, Work, Preflight, Inspect, Claim, Extract, Audit, Probe, Publish,
     WriteEnvironment, WriteManifest, RaiseError, Rollback, RemoveTree, Interrupt, Kill
<1> QED BY <1>3, <1>4, <1>5

(* A switch of what is installed to d that keeps what was there. *)
LEMMA SwitchIsAtomic ==
  ASSUME Kept' = Kept \cup ({Live} \ {Absent}),
         \/ Live' \in Tree /\ Complete(Live')
         \/ Live' \in Tree /\ ~Complete(Live')
         \/ Live' = Absent
  PROVE  Atomic!Next
<1>1. Atomic!Keep
  BY DEF Atomic!Keep, Live, Kept
<1>2. CASE Live' \in Tree /\ Complete(Live')
  <2>1. Live' \in {t \in Tree : Complete(t)}
    BY <1>2
  <2> QED BY <1>1, <2>1 DEF Atomic!Next, Atomic!Replace, Live
<1>3. CASE (Live' \in Tree /\ ~Complete(Live')) \/ Live' = Absent
  <2>1. Live' \in (Tree \ {t \in Tree : Complete(t)}) \cup {Absent}
    BY <1>3
  <2> QED BY <1>1, <2>1 DEF Atomic!Next, Atomic!BreakOff, Live
<1> QED BY <1>2, <1>3

(* Where it ends it has given back what it found, or it has replaced it,   *)
(* or it is broken off with what it found kept.                            *)
LEMMA EndIsSwitch ==
  ASSUME IInv, IInv', SInv, SInv', NEW i \in Installers, Step(i) \/ Interrupt(i) \/ Kill(i),
         pc[i] \in Running, pc'[i] \notin Running
  PROVE  MapNext
<1>1. before' = before
  BY DEF Step, Work, Preflight, Inspect, Claim, Extract, Audit, Probe, Retire, Publish,
     WriteEnvironment, WriteManifest, RaiseError, Rollback, RemoveTree, Restore, Interrupt,
     Kill, Running, TryBlock, Handler, IInv, TypeOK
<1>2. Live = before[i] /\ Kept = {backups[s] : s \in Stamps} \ {before[i], Absent}
  BY LiveInRun DEF InRun
<1>3. Live' = prefix' /\ Kept' = {backups'[s] : s \in Stamps} \ {Absent}
  <2>1. \A j \in Installers : pc'[j] \notin Running
    <3>1. \A j \in Installers \ {i} : pc'[j] = pc[j] /\ pc[j] \notin Running
      BY EachMovesItself DEF IInv, TypeOK, SInv, OneRunning
    <3> QED BY <3>1
  <2> QED BY <2>1, LiveAfter DEF AtRest
<1>4. CASE prefix = before[i] /\ UNCHANGED <<prefix, backups>>
  <2>1. \A s \in Stamps : backups'[s] = before[i] => before[i] = Absent
    BY <1>4, TreesDiffer
  <2>2. Kept' = Kept
    BY <1>2, <1>3, <1>4, <2>1
  <2> QED BY <1>2, <1>3, <1>4, <2>2 DEF MapNext
<1>5. CASE Restore(i) /\ MustRestore(i) /\ ~UNCHANGED <<prefix, backups>>
  <2>1. Vacated(i) /\ before[i] # Absent
    <3>1. InPlace(i) \/ Vacated(i) \/ Unfinished(i)
      BY <1>5 DEF Restore, SInv, Where
    <3> QED BY <1>5, <3>1 DEF InPlace, Vacated, Unfinished, Aside
  <2>2. /\ stamp[i] \in Stamps /\ backups[stamp[i]] = before[i] /\ prefix' = before[i]
        /\ backups'[stamp[i]] = Absent
        /\ \A s \in Stamps \ {stamp[i]} : backups'[s] = backups[s]
    BY <1>5, <2>1 DEF Restore, Vacated, Aside, IInv, TypeOK
  <2>3. \A s \in Stamps \ {stamp[i]} : backups[s] # before[i]
    BY <2>1, <2>2, TreesDiffer
  <2>4. Kept' = Kept
    BY <1>2, <1>3, <2>2, <2>3
  <2> QED BY <1>2, <1>3, <2>2, <2>4 DEF MapNext
<1>6. ASSUME Aside(i), backups' = backups
      PROVE  Kept' = Kept \cup ({Live} \ {Absent})
  BY <1>2, <1>3, <1>6 DEF Aside
<1>7. CASE UNCHANGED <<prefix, backups>>
  <2>1. CASE Vacated(i)
    <3>1. Kept' = Kept \cup ({Live} \ {Absent}) /\ Live' = Absent
      BY <1>3, <1>6, <1>7, <2>1 DEF Vacated
    <3> QED BY <3>1, SwitchIsAtomic DEF MapNext
  <2>2. CASE Unfinished(i)
    <3>1. prefix \in Tree /\ ~Complete(prefix)
      BY <2>2 DEF Unfinished, Complete, IInv, TypeOK, Dir
    <3>2. Kept' = Kept \cup ({Live} \ {Absent})
      BY <1>6, <1>7, <2>2 DEF Unfinished
    <3> QED BY <1>3, <1>7, <3>1, <3>2, SwitchIsAtomic DEF MapNext
  <2> QED BY <1>4, <1>7, <2>1, <2>2, ThreePlaces
<1>8. CASE WriteManifest(i)
  <2>1. /\ Unfinished(i) /\ Intact(prefix) /\ prefix.env /\ prefix \in Tree
        /\ prefix' = [prefix EXCEPT !.manifest = i] /\ backups' = backups
    BY <1>8 DEF WriteManifest, SInv, Where, Unfinished, IInv, TypeOK, Dir, Running, Handler
  <2>2. prefix' \in Tree /\ Complete(prefix')
    <3>1. prefix' \in Tree
      BY <2>1, TreeUpdates
    <3> QED BY <2>1, <3>1 DEF Unfinished, Complete, Intact, Tree
  <2>3. Kept' = Kept \cup ({Live} \ {Absent})
    BY <1>6, <2>1 DEF Unfinished
  <2> QED BY <1>3, <2>2, <2>3, SwitchIsAtomic DEF MapNext
<1>9. \/ WriteManifest(i) \/ UNCHANGED <<prefix, backups>>
      \/ Restore(i) /\ MustRestore(i) /\ ~UNCHANGED <<prefix, backups>>
  BY DEF Step, Work, Preflight, Inspect, Claim, Extract, Audit, Probe, Retire, Publish,
     WriteEnvironment, RaiseError, Rollback, RemoveTree, Restore, Interrupt, Kill,
     Running, TryBlock, Handler, IInv, TypeOK
<1> QED BY <1>5, <1>7, <1>8, <1>9

LEMMA StepMaps ==
  ASSUME Overlap = FALSE, IInv, IInv', SInv, SInv', [Next]_vars PROVE MapNext
<1>1. ASSUME NEW i \in Installers, Step(i) \/ Interrupt(i) \/ Kill(i) PROVE MapNext
  <2>1. pc[i] \in Running \/ Preflight(i)
    BY <1>1 DEF Step, Work, Inspect, Claim, Extract, Audit, Probe, Retire, Publish,
       WriteEnvironment, WriteManifest, RaiseError, Rollback, RemoveTree, Restore, Interrupt,
       Kill, Running, TryBlock, Handler
  <2> QED BY <1>1, <2>1, StartIsStutter, RunIsStutter, EndIsSwitch DEF MapNext
<1>2. CASE Tick \/ Repackage \/ UNCHANGED vars
  BY <1>2 DEF Tick, Repackage, vars, MapNext, Live, Kept, Pending
<1> QED BY <1>1, <1>2 DEF Next

LEMMA StartMaps == Init => Atomic!Init
<1> SUFFICES ASSUME Init PROVE Atomic!Init
  OBVIOUS
<1>1. Live = prefix /\ Kept = {backups[s] : s \in Stamps} \ {Absent}
  BY LiveAtRest DEF AtRest, Init, Running, TryBlock, Handler
<1>2. Kept = {}
  BY <1>1 DEF Init
<1>3. Live \in {t \in Tree : Complete(t)} \cup {Absent}
  <2>1. UserTree \in Tree
    BY DEF UserTree, Tree
  <2>2. Complete(UserTree)
    BY <2>1 DEF UserTree, Complete, Intact
  <2> QED BY <1>1, <2>1, <2>2 DEF Init
<1> QED BY <1>2, <1>3 DEF Atomic!Init, Live, Kept

(* "atomically publishes it": one invocation at a time implements the      *)
(* specification in which the installation switches in a single step.      *)
THEOREM AtomicSwitch == ASSUME Overlap = FALSE PROVE Spec => ImplementsAtomicInstall
<1>1. IInv /\ SInv /\ IInv' /\ SInv' /\ [Next]_vars => MapNext
  BY StepMaps
<1>2. MapNext => [Atomic!Next]_<<Live, Kept>>
  BY DEF MapNext
<1> QED
  BY <1>1, <1>2, StartMaps, SerialInvariance, PTL
     DEF Spec, ImplementsAtomicInstall, Atomic!Spec, Live, Kept
=============================================================================
