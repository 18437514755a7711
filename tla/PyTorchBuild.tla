---------------------------- MODULE PyTorchBuild ----------------------------
(***************************************************************************)
(* scripts/build/pytorch/build_pytorch_gfx906.sh and the metadata writer   *)
(* it ends with.  Invocations on one PyTorch checkout share the entry      *)
(* `build' in it, its sources and the wheel directory; they may overlap,   *)
(* fail, be interrupted or be killed at every step.                        *)
(***************************************************************************)
EXTENDS Naturals

CONSTANTS
  Runs,       \* invocations that may be under way at the same time
  BuildDirs,  \* build directories other than `build': the default one, which
              \* is in the checkout too, and those given to --build-dir, by
              \* the names that `pwd' gives them
  Real,       \* the name of each that `readlink -f' gives, without any
              \* symbolic link among its parents
  Patches,    \* bound: the downstream patches are 1 .. Patches, in the order
              \* of their places in torch/cuda/__init__.py
  MaxStarts,  \* bound: invocations in all
  MaxFaults   \* bound: failures, interrupts and kills in all

ASSUME PyTorchAssumption ==
  /\ Patches \in Nat /\ MaxStarts \in Nat /\ MaxFaults \in Nat
  /\ \A d \in BuildDirs :
       /\ {d, Real[d]} \cap {"own", "none", "tree", "torn"} = {}
       /\ Real[d] \in BuildDirs => Real[Real[d]] = Real[d]

Queue == 1 .. Patches

(* "own" is --build-dir SOURCE/build, which has no other name.             *)
Dirs == BuildDirs \cup {"own"}
Options == [dir : Dirs, clean : BOOLEAN, dry : BOOLEAN]

Physical(d) == IF d \in BuildDirs THEN Real[d] ELSE "own"
Places == {Physical(d) : d \in Dirs}

(* torch/cuda/__init__.py: the patches in it, and up to where it is there: *)
(* cut off behind the place of patch `length', or whole.                   *)
Whole == Patches + 1
SourceFiles == [patches : SUBSET Queue, length : 0 .. Whole]

VARIABLES
  entry,     \* SOURCE/build: nothing, a real tree, or a link to a directory
  maker,     \* history: who made it
  nested,    \* the links that ln -s has put inside of a directory
  work,      \* the directories that hold earlier build products
  file,      \* torch/cuda/__init__.py
  wheel,     \* the wheel: the source it has, and where it was compiled
  metadata,  \* the build directory that mi50-build-metadata.json names
  pc,
  opt,       \* the options of a run
  created,   \* BUILD_LINK_CREATED
  todo,      \* the patch of the loop
  basis,     \* what git apply has read
  code,      \* exit status
  alone,     \* history: has no other run been under way
  found,     \* history: SOURCE/build and the patched file at the start of
             \* such a run
  starts, faults, kills

checkout == <<entry, maker, nested, work, file>>
output == <<wheel, metadata>>
local == <<opt, created, todo, basis, code, found, alone>>
bounds == <<starts, faults, kills>>
vars == <<checkout, output, local, pc, bounds>>

Unpatched == [patches |-> {}, length |-> Whole]
NoWheel == [source |-> Unpatched, place |-> "none"]
TornWheel == [NoWheel EXCEPT !.place = "torn"]
NoOption == [dir |-> "own", clean |-> FALSE, dry |-> FALSE]
NothingFound == [entry |-> "none", length |-> Whole]

Init ==
  /\ entry \in {"none", "tree"} \cup BuildDirs
  /\ maker = IF entry = "none" THEN "nobody" ELSE "user"
  /\ work = (IF entry = "none" THEN {} ELSE {Physical(entry)})
  /\ nested = {} /\ file = Unpatched
  /\ wheel = NoWheel /\ metadata = "none"
  /\ pc = [r \in Runs |-> "idle"]
  /\ opt = [r \in Runs |-> NoOption]
  /\ created = [r \in Runs |-> FALSE]
  /\ todo = [r \in Runs |-> 1]
  /\ basis = [r \in Runs |-> Unpatched]
  /\ code = [r \in Runs |-> 0]
  /\ found = [r \in Runs |-> NothingFound]
  /\ alone = [r \in Runs |-> FALSE]
  /\ starts = 0 /\ faults = 0 /\ kills = 0

-----------------------------------------------------------------------------
(* Moves of the control *)

Goto(r, label) == pc' = [pc EXCEPT ![r] = label]

Stop(r, status) == Goto(r, "exit") /\ code' = [code EXCEPT ![r] = status]

(* A run that is over leaves no process state behind. *)
Gone(r) ==
  /\ Goto(r, "idle")
  /\ opt' = [opt EXCEPT ![r] = NoOption]
  /\ created' = [created EXCEPT ![r] = FALSE]
  /\ todo' = [todo EXCEPT ![r] = 1]
  /\ basis' = [basis EXCEPT ![r] = Unpatched]
  /\ code' = [code EXCEPT ![r] = 0]
  /\ found' = [found EXCEPT ![r] = NothingFound]
  /\ alone' = [alone EXCEPT ![r] = FALSE]

IsLink == entry \in BuildDirs

(* Mutant: the name of the entry is taken for the directory. *)
EntryItself == entry

(* Where the build goes that setup.py does in SOURCE/build. *)
Place == Physical(entry)

-----------------------------------------------------------------------------
(* Build directory and link *)

(* The options are valid; mkdir -p makes the build directory.              *)
Start(r) ==
  /\ pc[r] = "idle" /\ starts < MaxStarts
  /\ \E o \in Options :
       /\ opt' = [opt EXCEPT ![r] = o]
       /\ IF o.dir = "own" /\ entry = "none"
            THEN entry' = "tree" /\ maker' = "script"
            ELSE UNCHANGED <<entry, maker>>
  /\ alone' = [s \in Runs |->
       IF s = r THEN \A t \in Runs \ {r} : pc[t] = "idle" ELSE FALSE]
  /\ found' = [s \in Runs |->
       IF alone'[s] THEN [entry |-> entry, length |-> file.length] ELSE NothingFound]
  /\ starts' = starts + 1
  /\ Goto(r, "clean")
  /\ UNCHANGED <<nested, work, file, output, created, todo, basis, code, faults, kills>>

Within(d) == {link \in nested : link[1] = d}

(* cmake -E rm -rf of the build directory, and mkdir -p of it; a link at   *)
(* SOURCE/build is removed as a link.                                      *)
Clean(r) ==
  /\ pc[r] = "clean"
  /\ IF opt[r].clean
       THEN /\ work' = work \ {Physical(opt[r].dir)}
            /\ nested' = nested \ Within(Physical(opt[r].dir))
            /\ IF opt[r].dir = "own"
                 THEN entry' = "tree" /\ maker' = "script"
                 ELSE UNCHANGED <<entry, maker>>
       ELSE UNCHANGED <<entry, maker, nested, work>>
  /\ Goto(r, "link")
  /\ UNCHANGED <<file, output, local, bounds>>

(* Mutant: any link at SOURCE/build is taken for the run's own. *)
AnyLink(r) == IsLink

(* readlink -f of the link is compared with the `pwd' of the directory.    *)
LinkFits(r) == IsLink /\ Real[entry] = opt[r].dir

Conflicts(r) == opt[r].dir # "own" /\ entry # "none" /\ ~LinkFits(r)

TestLink(r) ==
  /\ pc[r] = "link"
  /\ \/ Conflicts(r) /\ Stop(r, 6)
     \/ /\ opt[r].dir # "own" /\ entry = "none"
        /\ Goto(r, "ln") /\ UNCHANGED code
     \/ /\ opt[r].dir = "own" \/ LinkFits(r)
        /\ Goto(r, "trap") /\ UNCHANGED code
  /\ UNCHANGED <<checkout, output, opt, created, todo, basis, found, alone, bounds>>

(* The link that ln -s makes if a directory, or a link to one, has come to *)
(* SOURCE/build since the test: inside of it, by the last part of its name.*)
Nested(r) == <<Place, Physical(opt[r].dir)>>

(* ln -s; it fails if it finds such a link there already.                  *)
MakeLink(r) ==
  /\ pc[r] = "ln"
  /\ \/ /\ entry = "none"
        /\ entry' = opt[r].dir /\ maker' = "script" /\ UNCHANGED nested
        /\ created' = [created EXCEPT ![r] = TRUE]
        /\ Goto(r, "trap") /\ UNCHANGED code
     \/ /\ entry # "none" /\ Nested(r) \notin nested
        /\ nested' = nested \cup {Nested(r)} /\ UNCHANGED <<entry, maker>>
        /\ created' = [created EXCEPT ![r] = TRUE]
        /\ Goto(r, "trap") /\ UNCHANGED code
     \/ /\ entry # "none" /\ Nested(r) \in nested
        /\ Stop(r, 1) /\ UNCHANGED <<entry, maker, nested, created>>
  /\ UNCHANGED <<work, file, output, opt, todo, basis, found, alone, bounds>>

(* The exit trap is set; a dry run only prints. *)
SetTrap(r) ==
  /\ pc[r] = "trap"
  /\ Goto(r, IF opt[r].dry THEN "exit" ELSE "patch")
  /\ UNCHANGED <<checkout, output, local, bounds>>

-----------------------------------------------------------------------------
(* Patches, hipify, wheel, metadata *)

(* The forward check passes: the place of the patch is there, without it.  *)
Applies(r) == todo[r] <= file.length /\ todo[r] \notin file.patches

(* Mutant: a patch that applies in neither direction is only reported. *)
AnyOther(r) == ~Applies(r)

(* The reverse check passes. *)
AlreadyApplied(r) == todo[r] <= file.length /\ todo[r] \in file.patches

(* apply_downstream_patches: the forward check, then the reverse check;    *)
(* what the file has behind the last place neither of them looks at.       *)
CheckPatch(r) ==
  /\ pc[r] = "patch"
  /\ \/ /\ todo[r] \notin Queue
        /\ Goto(r, "hipify") /\ UNCHANGED <<todo, code>>
     \/ /\ todo[r] \in Queue /\ Applies(r)
        /\ Goto(r, "apply") /\ UNCHANGED <<todo, code>>
     \/ /\ todo[r] \in Queue /\ AlreadyApplied(r)
        /\ todo' = [todo EXCEPT ![r] = @ + 1]
        /\ UNCHANGED <<pc, code>>
     \/ /\ todo[r] \in Queue /\ ~Applies(r) /\ ~AlreadyApplied(r)
        /\ Stop(r, 6) /\ UNCHANGED todo
  /\ UNCHANGED <<checkout, output, opt, created, basis, found, alone, bounds>>

(* git apply reads the file, and fails if another run was faster. *)
ReadSource(r) ==
  /\ pc[r] = "apply"
  /\ IF Applies(r)
       THEN Goto(r, "write") /\ basis' = [basis EXCEPT ![r] = file] /\ UNCHANGED code
       ELSE Stop(r, 1) /\ UNCHANGED basis
  /\ UNCHANGED <<checkout, output, opt, created, todo, found, alone, bounds>>

Patched(r) == [basis[r] EXCEPT !.patches = @ \cup {todo[r]}]

WriteSource(r) ==
  /\ pc[r] = "write"
  /\ file' = Patched(r)
  /\ todo' = [todo EXCEPT ![r] = @ + 1]
  /\ Goto(r, "patch")
  /\ UNCHANGED <<entry, maker, nested, work, output, opt, created, basis, code,
                 found, alone, bounds>>

(* build_amd.py *)
Hipify(r) ==
  /\ pc[r] = "hipify"
  /\ Goto(r, "compile")
  /\ UNCHANGED <<checkout, output, local, bounds>>

(* setup.py makes SOURCE/build if it is not there. *)
Compile(r) ==
  /\ pc[r] = "compile"
  /\ work' = work \cup {Place}
  /\ IF entry = "none" THEN entry' = "tree" /\ maker' = "script"
                       ELSE UNCHANGED <<entry, maker>>
  /\ Goto(r, "bundle")
  /\ UNCHANGED <<nested, file, output, local, bounds>>

Bundle(r) ==
  /\ pc[r] = "bundle"
  /\ wheel' = [source |-> file, place |-> Place]
  /\ Goto(r, "metadata")
  /\ UNCHANGED <<checkout, metadata, local, bounds>>

(* write_pytorch_metadata.py *)
WriteMetadata(r) ==
  /\ pc[r] = "metadata"
  /\ metadata' = opt[r].dir
  /\ Goto(r, "exit")
  /\ UNCHANGED <<checkout, wheel, local, bounds>>

(* Mutants: the trap removes any link, or none. *)
AlwaysRemoves(r) == TRUE
NeverRemoves(r) == FALSE

RemovesLink(r) == created[r]

(* cleanup_build_link; rm -f does not remove a directory. *)
Exit(r) ==
  /\ pc[r] = "exit"
  /\ IF RemovesLink(r) /\ IsLink THEN entry' = "none" /\ maker' = "nobody"
                                 ELSE UNCHANGED <<entry, maker>>
  /\ Gone(r)
  /\ UNCHANGED <<nested, work, file, output, bounds>>

-----------------------------------------------------------------------------
(* Faults *)

(* git apply writes the new file from its start.                           *)
CutOff(r) ==
  \E n \in 0 .. Patches :
    /\ n <= basis[r].length
    /\ file' = [patches |-> {p \in Patched(r).patches : p <= n}, length |-> n]

(* What a command that is cut off leaves behind. *)
HalfDone(r) ==
  \/ UNCHANGED <<checkout, output>>
  \/ pc[r] = "clean" /\ opt[r].clean /\ work' = work \ {Physical(opt[r].dir)}
     /\ UNCHANGED <<entry, maker, nested, file, output>>
  \/ pc[r] = "write" /\ CutOff(r)
     /\ UNCHANGED <<entry, maker, nested, work, output>>
  \/ pc[r] = "compile" /\ work' = work \cup {Place}
     /\ UNCHANGED <<entry, maker, nested, file, output>>
  \/ pc[r] = "bundle" /\ wheel' = TornWheel /\ UNCHANGED <<checkout, metadata>>
  \/ pc[r] = "metadata" /\ metadata' = "torn" /\ UNCHANGED <<checkout, wheel>>

BeforeTrap == {"clean", "link", "ln"}
Trapped == {"patch", "apply", "write", "hipify", "compile", "bundle", "metadata"}

(* A command fails under set -e, or a signal arrives that bash can handle. *)
Fail(r) ==
  /\ pc[r] \in BeforeTrap \cup Trapped /\ faults < MaxFaults
  /\ faults' = faults + 1
  /\ HalfDone(r)
  /\ Stop(r, 1)
  /\ UNCHANGED <<opt, created, todo, basis, found, alone, starts, kills>>

(* SIGKILL or power failure; or any signal after ln -s and before the trap.*)
Kill(r) ==
  /\ pc[r] # "idle" /\ faults < MaxFaults
  /\ faults' = faults + 1 /\ kills' = kills + 1
  /\ HalfDone(r)
  /\ Gone(r)
  /\ UNCHANGED starts

(* The operator restores the file with git checkout. *)
Restore ==
  /\ file.length # Whole /\ \A r \in Runs : pc[r] = "idle"
  /\ file' = Unpatched
  /\ UNCHANGED <<entry, maker, nested, work, output, local, pc, bounds>>

Next ==
  \/ \E r \in Runs :
       \/ Start(r) \/ Clean(r) \/ TestLink(r) \/ MakeLink(r) \/ SetTrap(r)
       \/ CheckPatch(r) \/ ReadSource(r) \/ WriteSource(r) \/ Hipify(r)
       \/ Compile(r) \/ Bundle(r) \/ WriteMetadata(r) \/ Exit(r)
       \/ Fail(r) \/ Kill(r)
  \/ Restore

Spec == Init /\ [][Next]_vars

-----------------------------------------------------------------------------
(* Properties *)

Labels == {"idle", "trap", "exit"} \cup BeforeTrap \cup Trapped

(* Every variable has its type. *)
TypeOK ==
  /\ entry \in {"none", "tree"} \cup BuildDirs
  /\ maker \in {"nobody", "user", "script"}
  /\ nested \subseteq Places \X Places /\ work \subseteq Places
  /\ file \in SourceFiles
  /\ wheel \in [source : SourceFiles, place : Places \cup {"none", "torn"}]
  /\ metadata \in {"none", "torn"} \cup Dirs
  /\ pc \in [Runs -> Labels]
  /\ opt \in [Runs -> Options]
  /\ created \in [Runs -> BOOLEAN]
  /\ todo \in [Runs -> 1 .. Patches + 1]
  /\ basis \in [Runs -> SourceFiles]
  /\ code \in [Runs -> {0, 1, 6}]
  /\ found \in [Runs -> [entry : {"none", "tree"} \cup BuildDirs, length : 0 .. Whole]]
  /\ alone \in [Runs -> BOOLEAN]
  /\ starts \in 0 .. MaxStarts /\ faults \in 0 .. MaxFaults /\ kills \in 0 .. faults

(* Without a kill no link of the script stays at SOURCE/build once no run  *)
(* is under way, even if runs shared a link, raced for it or failed.  One  *)
(* that stays inside of a directory is the mark of a race: ln -s puts it   *)
(* there only for a run that has met another one since its test.           *)
NoStrayLink ==
  /\ []((kills = 0 /\ \A r \in Runs : pc[r] = "idle") =>
          ~(IsLink /\ maker = "script"))
  /\ [][nested' \subseteq nested \/ \E r \in Runs : pc[r] = "ln" /\ ~alone[r]]_vars

(* "Refuse to replace a real checkout directory": what the user has at     *)
(* SOURCE/build, a tree or a link, is never replaced, by overlapping runs  *)
(* neither, unless a run was told to clean that very path.                 *)
UsersEntryKept ==
  [][(maker = "user" /\ maker' # "user") =>
       \E r \in Runs : pc[r] = "clean" /\ opt[r].clean /\ opt[r].dir = "own"]_vars

(* Where a run that meets no other one must have compiled. *)
Asked(r) ==
  IF opt[r].dir = "own" /\ ~opt[r].clean /\ found[r].entry \in BuildDirs
    THEN Physical(found[r].entry) ELSE Physical(opt[r].dir)

(* A run that meets no other one and exits with 0 has left a wheel that    *)
(* carries every patch and was compiled in the directory asked for, and    *)
(* the metadata of it, whatever earlier runs were cut off at; and the      *)
(* patched file in it is whole, unless an earlier git apply was cut off    *)
(* behind the last place that the patches look at.                         *)
SuccessIsWhole ==
  \A r \in Runs :
    (pc[r] = "exit" /\ code[r] = 0 /\ alone[r] /\ ~opt[r].dry) =>
      /\ wheel.source.patches = Queue /\ wheel.place = Asked(r)
      /\ metadata = opt[r].dir
      /\ found[r].length = Whole => wheel.source.length = Whole

Blocked(r) ==
  \/ /\ opt[r].dir # "own" /\ found[r].entry # "none"
     /\ found[r].entry = "tree" \/ Physical(found[r].entry) # opt[r].dir
  \/ ~opt[r].dry /\ found[r].length < Patches

(* A run that meets no other one is refused (exit status 6) exactly if     *)
(* something else was at SOURCE/build or the place of a patch was missing  *)
(* in the file; the leftovers of killed runs with the same build directory *)
(* stop no later run, patches that are applied already among them, nor     *)
(* their link if no parent of that directory is a symbolic link.           *)
RefusalIsReal ==
  \A r \in Runs :
    (pc[r] = "exit" /\ alone[r] /\ code[r] # 1) => (code[r] = 6 <=> Blocked(r))

=============================================================================
