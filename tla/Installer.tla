------------------------------ MODULE Installer ------------------------------
(***************************************************************************)
(* scripts/install_rocm_mi50.py: any number of invocations of the          *)
(* installer publish an archive under one prefix of one file system.       *)
(*                                                                         *)
(* An invocation validates the archive, extracts it into a private staging *)
(* directory beside the prefix, audits the extracted tree, moves an        *)
(* existing prefix to <prefix>.previous-<stamp>, renames staging onto the  *)
(* prefix, and writes mi50-env.sh and mi50-install.json into it.  Every    *)
(* system call that another invocation, a signal or a crash can separate   *)
(* from the next one is an action of its own.                              *)
(***************************************************************************)
EXTENDS Naturals

CONSTANTS
  Installers,   \* the invocations, each used once
  Contents,     \* what the archive file may hold
  Marked,       \* contents with safe member names and all REQUIRED_MARKERS
  Sound,        \* contents that extract to a usable hipcc and pass the ELF audit
  Faults,       \* the faults the environment may inject, see FaultKinds
  Overlap,      \* may an invocation start while another is running
  MaxClock,     \* bound: the last value of the clock, in seconds
  Absent,       \* no directory
  User,         \* the owner of a tree that was there before any invocation
  None,         \* no stamp taken, no install manifest
  Old,          \* the content of the user's tree
  Broken,       \* a tree that is partly extracted or partly deleted
  Torn          \* an install manifest cut short by a failed write

FaultKinds == {"io", "rmtree", "interrupt", "kill"}

ASSUME ContentsAssumption == Marked \subseteq Contents /\ Sound \subseteq Contents
ASSUME ClockAssumption == MaxClock \in Nat
ASSUME FaultsAssumption == Faults \subseteq FaultKinds
ASSUME OverlapAssumption == Overlap \in BOOLEAN
ASSUME DistinctAssumption ==
  /\ User \notin Installers /\ None \notin Installers /\ Torn \notin Installers
  /\ User # None /\ User # Torn /\ None # Torn
  /\ Old \notin Contents /\ Broken \notin Contents /\ Old # Broken
  /\ None \notin Nat

Stamps == 0 .. MaxClock

(* A directory the installer handles: whose archive extraction or which    *)
(* user made it, what it holds, whether mi50-env.sh is in it and who wrote *)
(* the mi50-install.json that says "status": "pass".                       *)
Tree == [owner    : Installers \cup {User},
         content  : Contents \cup {Old, Broken},
         env      : BOOLEAN,
         manifest : Installers \cup {User, None, Torn}]

Dir == Tree \cup {Absent}

ASSUME AbsentAssumption == Absent \notin Tree

UserTree == [owner |-> User, content |-> Old, env |-> TRUE, manifest |-> User]

EmptyStaging(i) ==
  [owner |-> i, content |-> Broken, env |-> FALSE, manifest |-> None]

Intact(d) == d # Absent /\ d.content # Broken
Damaged(d) == d # Absent /\ d.content = Broken

(* Mutant: a recursive move or copy in place of the rename. *)
ReplacesAnything(d) == TRUE

(* rename(2) puts a directory on a name that is free or an empty directory *)
(* and fails with ENOTEMPTY otherwise.  A tree that rmtree is working on   *)
(* may or may not be empty yet, so both outcomes are possible for it.      *)
CanRenameOnto(d) == ~Intact(d)
RenameMayFail(d) == d # Absent

VARIABLES
  archive,     \* what the archive file holds now
  clock,       \* the second datetime.now() reports
  prefix,      \* the directory at the installation prefix
  backups,     \* backups[s]: the directory at <prefix>.previous-<s>
  staging,     \* staging[i]: invocation i's mkdtemp directory
  pc,          \* where invocation i is
  mode,        \* the flags it was started with
  stamp,       \* the stamp of its local variable `backup`
  published,   \* its local variable `published`
  before       \* observer: the prefix when it was started

vars == <<archive, clock, prefix, backups, staging, pc, mode, stamp, published, before>>

world == <<archive, clock>>
private == <<mode, published, before>>

TryBlock == {"extract", "audit", "probe", "retire", "publish", "environment", "manifest"}
Handler == {"rollback", "remove", "restore"}
Running == {"inspect", "claim"} \cup TryBlock \cup Handler
(* "refused" and "unrestored" both are exit status 2: the error that main  *)
(* prints for the second is that of the rename of line 260.                *)
Ended == {"passed", "validated", "refused", "unrestored", "interrupted", "killed"}

Goto(i, label) == pc' = [pc EXCEPT ![i] = label]

Init ==
  /\ archive \in Contents
  /\ clock = 0
  /\ prefix \in {Absent, UserTree}
  /\ backups = [s \in Stamps |-> Absent]
  /\ staging = [i \in Installers |-> Absent]
  /\ pc = [i \in Installers |-> "idle"]
  /\ mode = [i \in Installers |-> "install"]
  /\ stamp = [i \in Installers |-> None]
  /\ published = [i \in Installers |-> FALSE]
  /\ before = [i \in Installers |-> Absent]

-----------------------------------------------------------------------------
(* The steps of one invocation *)

(* main() inspects the archive, rejects a relative, symlink or broad       *)
(* prefix, and stops there under --dry-run.                                *)
Preflight(i) ==
  /\ pc[i] = "idle"
  /\ Overlap \/ \A j \in Installers : pc[j] \notin Running
  /\ \E m \in {"install", "force", "dry-run"} : mode' = [mode EXCEPT ![i] = m]
  /\ before' = [before EXCEPT ![i] = prefix]
  /\ \/ /\ archive \in Marked
        /\ Goto(i, IF mode'[i] = "dry-run" THEN "validated" ELSE "inspect")
     \/ Goto(i, "refused")
  /\ UNCHANGED <<world, prefix, backups, staging, stamp, published>>

(* install_archive() inspects the archive again. *)
Inspect(i) ==
  /\ pc[i] = "inspect"
  /\ Goto(i, IF archive \in Marked THEN "claim" ELSE "refused")
  /\ UNCHANGED <<world, prefix, backups, staging, private, stamp>>

Refused(i) == prefix # Absent /\ mode[i] # "force"

(* An existing prefix is refused without --force; mkdtemp may fail too. *)
Claim(i) ==
  /\ pc[i] = "claim"
  /\ \/ /\ ~Refused(i)
        /\ staging' = [staging EXCEPT ![i] = EmptyStaging(i)]
        /\ Goto(i, "extract")
     \/ /\ Refused(i) \/ "io" \in Faults
        /\ Goto(i, "refused")
        /\ UNCHANGED staging
  /\ UNCHANGED <<world, prefix, backups, private, stamp>>

(* extractall() opens the archive by name again: it unpacks what the file  *)
(* holds now, which need not be what was inspected.                        *)
Extract(i) ==
  /\ pc[i] = "extract"
  /\ staging' = [staging EXCEPT ![i].content = archive]
  /\ Goto(i, "audit")
  /\ UNCHANGED <<world, prefix, backups, private, stamp>>

(* Mutant: the audit report is written and not looked at. *)
MarkersSuffice(content) == content \in Marked

Usable(content) == content \in Sound

(* rocm/, a non-empty bin/hipcc and the ELF dependency audit. *)
Audit(i) ==
  /\ pc[i] = "audit"
  /\ Goto(i, IF Usable(staging[i].content) THEN "probe" ELSE "rollback")
  /\ UNCHANGED <<world, prefix, backups, staging, private, stamp>>

OnTakenName == "rollback"

(* An existing prefix needs a backup name that is free; `backup` is        *)
(* assigned before the name is looked at.                                  *)
Probe(i) ==
  /\ pc[i] = "probe"
  /\ IF prefix = Absent
     THEN Goto(i, "publish") /\ UNCHANGED stamp
     ELSE /\ stamp' = [stamp EXCEPT ![i] = clock]
          /\ Goto(i, IF backups[clock] = Absent THEN "retire" ELSE OnTakenName)
  /\ UNCHANGED <<world, prefix, backups, staging, private>>

(* Mutant: the prefix is deleted, not moved. *)
NotKept(i) == backups

MovedAside(i) == [backups EXCEPT ![stamp[i]] = prefix]

(* os.replace(prefix, backup) *)
Retire(i) ==
  /\ pc[i] = "retire"
  /\ \/ /\ prefix # Absent
        /\ CanRenameOnto(backups[stamp[i]])
        /\ backups' = MovedAside(i)
        /\ prefix' = Absent
        /\ Goto(i, "publish")
     \/ /\ prefix = Absent \/ RenameMayFail(backups[stamp[i]])
        /\ Goto(i, "rollback")
        /\ UNCHANGED <<prefix, backups>>
  /\ UNCHANGED <<world, staging, private, stamp>>

(* os.replace(staging, prefix); published = True *)
Publish(i) ==
  /\ pc[i] = "publish"
  /\ \/ /\ CanRenameOnto(prefix)
        /\ prefix' = staging[i]
        /\ staging' = [staging EXCEPT ![i] = Absent]
        /\ published' = [published EXCEPT ![i] = TRUE]
        /\ Goto(i, "environment")
     \/ /\ RenameMayFail(prefix)
        /\ Goto(i, "rollback")
        /\ UNCHANGED <<prefix, staging, published>>
  /\ UNCHANGED <<world, backups, mode, before, stamp>>

(* _write_environment(): a temporary file renamed onto mi50-env.sh. *)
WriteEnvironment(i) ==
  /\ pc[i] = "environment"
  /\ IF prefix # Absent
     THEN prefix' = [prefix EXCEPT !.env = TRUE] /\ Goto(i, "manifest")
     ELSE Goto(i, "rollback") /\ UNCHANGED prefix
  /\ UNCHANGED <<world, backups, staging, private, stamp>>

(* mi50-install.json is written in place, so a failed write leaves a torn  *)
(* file behind.                                                            *)
WriteManifest(i) ==
  /\ pc[i] = "manifest"
  /\ \/ /\ prefix # Absent
        /\ prefix' = [prefix EXCEPT !.manifest = i]
        /\ Goto(i, "passed")
     \/ /\ prefix # Absent /\ "io" \in Faults
        /\ prefix' = [prefix EXCEPT !.manifest = Torn]
        /\ Goto(i, "rollback")
     \/ /\ prefix = Absent
        /\ Goto(i, "rollback")
        /\ UNCHANGED prefix
  /\ UNCHANGED <<world, backups, staging, private, stamp>>

(* Any call of the try block may raise before it has changed anything. *)
RaiseError(i) ==
  /\ "io" \in Faults
  /\ pc[i] \in TryBlock
  /\ Goto(i, "rollback")
  /\ UNCHANGED <<world, prefix, backups, staging, private, stamp>>

-----------------------------------------------------------------------------
(* `except Exception` and `finally` *)

(* Mutant: `published` is not consulted. *)
RemovesAnyPrefix(i) == TRUE

RemovesPrefix(i) == published[i]

(* rmtree(prefix) when published, rmtree(staging) otherwise; the first is  *)
(* not atomic: it empties the tree, then removes the directory.  Errors    *)
(* are ignored, so it may also have deleted nothing at all.                *)
Rollback(i) ==
  /\ pc[i] = "rollback"
  /\ \/ /\ RemovesPrefix(i)
        /\ prefix' = IF prefix = Absent THEN Absent
                     ELSE [prefix EXCEPT !.content = Broken]
        /\ Goto(i, "remove")
        /\ UNCHANGED staging
     \/ /\ RemovesPrefix(i) /\ "rmtree" \in Faults
        /\ Goto(i, "restore")
        /\ UNCHANGED <<prefix, staging>>
     \/ /\ ~RemovesPrefix(i)
        /\ staging' = [staging EXCEPT ![i] = Absent]
        /\ Goto(i, "restore")
        /\ UNCHANGED prefix
  /\ UNCHANGED <<world, backups, private, stamp>>

(* The final rmdir: ignore_errors=True hides that it found another tree in *)
(* place of the one it emptied, or could not delete something.             *)
RemoveTree(i) ==
  /\ pc[i] = "remove"
  /\ \/ prefix' = IF Damaged(prefix) THEN Absent ELSE prefix
     \/ "rmtree" \in Faults /\ UNCHANGED prefix
  /\ Goto(i, "restore")
  /\ UNCHANGED <<world, backups, staging, private, stamp>>

(* Mutant: the backup is left where it is. *)
NoRestore(i) == FALSE

MustRestore(i) == stamp[i] # None /\ prefix = Absent /\ backups[stamp[i]] # Absent

(* Mutants: `finally` forgets the directory, or runs only for an Exception. *)
Forgotten(i) == [staging EXCEPT ![i] = None]
CleanedOnException(i) ==
  IF pc[i] = "restore" THEN [staging EXCEPT ![i] = Absent] ELSE staging

(* `finally`: rmtree(staging) *)
Cleaned(i) == [staging EXCEPT ![i] = Absent]

(* os.replace(backup, prefix) when `backup` is set and there and the       *)
(* prefix is not, which may raise an error of its own in place of the one  *)
(* that led here; then `finally` and the exit status 2.                    *)
Restore(i) ==
  /\ pc[i] = "restore"
  /\ \/ /\ MustRestore(i)
        /\ prefix' = backups[stamp[i]]
        /\ backups' = [backups EXCEPT ![stamp[i]] = Absent]
        /\ Goto(i, "refused")
     \/ /\ MustRestore(i) /\ "io" \in Faults
        /\ Goto(i, "unrestored")
        /\ UNCHANGED <<prefix, backups>>
     \/ /\ ~MustRestore(i)
        /\ Goto(i, "refused")
        /\ UNCHANGED <<prefix, backups>>
  /\ staging' = Cleaned(i)
  /\ UNCHANGED <<world, private, stamp>>

(* KeyboardInterrupt is no Exception: the rollback is skipped and only     *)
(* `finally` runs.                                                         *)
Interrupt(i) ==
  /\ "interrupt" \in Faults
  /\ pc[i] \in Running
  /\ staging' = Cleaned(i)
  /\ Goto(i, "interrupted")
  /\ UNCHANGED <<world, prefix, backups, private, stamp>>

(* SIGKILL or a power failure: nothing runs any more. *)
Kill(i) ==
  /\ "kill" \in Faults
  /\ pc[i] \in Running
  /\ Goto(i, "killed")
  /\ UNCHANGED <<world, prefix, backups, staging, private, stamp>>

-----------------------------------------------------------------------------
(* The environment *)

(* The clock's resolution is the second of strftime("%Y%m%dT%H%M%SZ"). *)
Tick ==
  /\ clock < MaxClock
  /\ clock' = clock + 1
  /\ UNCHANGED <<archive, prefix, backups, staging, pc, private, stamp>>

(* package_rocm_gfx906.py replaces the archive file under the same name. *)
Repackage ==
  /\ archive' \in Contents
  /\ archive' # archive
  /\ UNCHANGED <<clock, prefix, backups, staging, pc, private, stamp>>

Work(i) ==
  \/ Preflight(i) \/ Inspect(i) \/ Claim(i) \/ Extract(i) \/ Audit(i)
  \/ Probe(i) \/ Retire(i) \/ Publish(i)
  \/ WriteEnvironment(i) \/ WriteManifest(i)
  \/ Rollback(i) \/ RemoveTree(i) \/ Restore(i)

Step(i) == Work(i) \/ RaiseError(i)

Next ==
  \/ \E i \in Installers : Step(i) \/ Interrupt(i) \/ Kill(i)
  \/ Tick
  \/ Repackage

Spec == Init /\ [][Next]_vars

-----------------------------------------------------------------------------
(* Properties *)

(* Every variable has the type the code gives it. *)
TypeOK ==
  /\ archive \in Contents
  /\ clock \in Stamps
  /\ prefix \in Dir
  /\ backups \in [Stamps -> Dir]
  /\ staging \in [Installers -> Dir]
  /\ pc \in [Installers -> {"idle"} \cup Running \cup Ended]
  /\ mode \in [Installers -> {"install", "force", "dry-run"}]
  /\ stamp \in [Installers -> Stamps \cup {None}]
  /\ published \in [Installers -> BOOLEAN]
  /\ before \in [Installers -> Dir]

Acceptable(d) == Intact(d) => d.content \in Sound \cup {Old}

(* "audits extracted ELF dependencies before publishing the prefix": no    *)
(* interleaving of invocations, rollbacks and archive replacements puts a  *)
(* tree under the prefix, or keeps one as a backup, whose content never    *)
(* passed lines 201-220.                                                   *)
OnlyAuditedTrees ==
  Acceptable(prefix) /\ \A s \in Stamps : Acceptable(backups[s])

(* "refusing to overwrite prior backup": an intact backup changes only by  *)
(* being moved back to the prefix whole, whoever else is running and       *)
(* however the stamps collide.                                             *)
BackupPreserved(s) ==
  Intact(backups[s]) =>
    \/ backups'[s] = backups[s]
    \/ backups'[s] = Absent /\ prefix' = backups[s]
BackupsPreserved == [][\A s \in Stamps : BackupPreserved(s)]_vars

(* A whole tree that o has installed is under the prefix or in a backup. *)
Places == {prefix} \cup {backups[s] : s \in Stamps}
Has(o) == \E d \in Places : Intact(d) /\ d.owner = o

(* i deletes what is under the prefix, because what it had published there *)
(* could not be completed.                                                 *)
TakesBack(i) == published[i] /\ pc[i] = "rollback" /\ pc'[i] = "remove"

(* The last whole tree of an owner is lost only when an invocation that    *)
(* had published takes back what is under the prefix by then: no rename,   *)
(* failed check, removal, restoration, signal or kill loses one.           *)
LostOnlyByRollback ==
  [][\A o \in Installers \cup {User} :
       Has(o) => Has(o)' \/ \E i \in Installers : TakesBack(i)]_vars

(* What any interleaving of lines 222-260 leaves to those who installed:   *)
(* no backup is overwritten, and a tree under the prefix disappears only   *)
(* in the rollback of lines 255-256, which deletes it by its name.         *)
TreesPreserved == BackupsPreserved /\ LostOnlyByRollback

(* `finally` leaves no staging directory behind, whatever made the         *)
(* invocation end, unless the process was killed.                          *)
NoLitter ==
  \A i \in Installers : pc[i] \in Ended \ {"killed"} => staging[i] = Absent

(* An invocation that printed its manifest and exited 0 has left a tree    *)
(* that is its own, whole, and described by its own manifest; later        *)
(* invocations may move it aside but not destroy or alter it.              *)
Survives(d, i) ==
  Intact(d) /\ d.owner = i /\ d.env /\ d.manifest = i
PassedInstallSurvives ==
  \A i \in Installers : pc[i] = "passed" =>
    Survives(prefix, i) \/ \E s \in Stamps : Survives(backups[s], i)

(* A run that ends with status 2 leaves the prefix as it found it, unless  *)
(* a call of its rollback failed: rmtree, so that its own tree, which has  *)
(* no "pass" in its manifest, is still there in whole or in part, or the   *)
(* rename of the backup, so that nothing is.  What it found is then whole  *)
(* in a backup.                                                            *)
FoundIsKept(i) == before[i] # Absent => \E s \in Stamps : backups[s] = before[i]
FailedTreeLeft(i) ==
  "rmtree" \in Faults /\ prefix # Absent /\ prefix.owner = i /\ prefix.manifest # i
Restored(i) ==
  /\ pc[i] = "refused" => prefix = before[i] \/ (FailedTreeLeft(i) /\ FoundIsKept(i))
  /\ pc[i] = "unrestored" => prefix = Absent /\ before[i] # Absent /\ FoundIsKept(i)

RefusalRestores ==
  [][\A i \in Installers : pc'[i] # pc[i] => Restored(i)']_vars

(* A tree with all three parts, written by the invocation that made it. *)
Complete(d) == Intact(d) /\ d.env /\ d.manifest = d.owner

(* "atomically publishes it under the requested prefix": one invocation at *)
(* a time behaves as if the prefix were switched in a single step.  Until  *)
(* it exits it can still give back what it found, and that is what counts  *)
(* as installed; where it is killed or interrupted, or cannot delete what  *)
(* it has put there or move the backup back, what it found is kept all the *)
(* same.                                                                   *)
Pending == {before[i] : i \in {j \in Installers : pc[j] \in Running}}

Atomic == INSTANCE AtomicInstall WITH
  Trees <- Tree,
  CompleteTrees <- {t \in Tree : Complete(t)},
  NoTree <- Absent,
  live <- IF Pending = {} THEN prefix ELSE CHOOSE d \in Pending : TRUE,
  kept <- {backups[s] : s \in Stamps} \ (Pending \cup {Absent})

ImplementsAtomicInstall == Atomic!Spec
=============================================================================
