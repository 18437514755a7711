------------------------- MODULE PyTorchBuildProofs -------------------------
(***************************************************************************)
(* What holds of the PyTorch builder for any number of invocations, build  *)
(* directories, patches and faults: its type invariant, that the script    *)
(* leaves no link of its own behind and never replaces what the user has   *)
(* at SOURCE/build, and what the exit status of a run that meets no other  *)
(* one says.                                                               *)
(***************************************************************************)
EXTENDS PyTorchBuild, TLAPS

(* A link of the script has a run that will remove it. *)
LinkInv ==
  /\ \A r \in Runs : created[r] => pc[r] # "idle"
  /\ (kills = 0 /\ IsLink /\ maker = "script") => \E r \in Runs : created[r]

(* While the user has something at SOURCE/build, no run is about to make a *)
(* link there or believes that it has made one.                            *)
UserInv ==
  maker = "user" => entry # "none" /\ \A r \in Runs : pc[r] # "ln" /\ ~created[r]

(* The exit status is set when the run ends, a link is made for another    *)
(* directory only, git apply runs for a patch of the queue, and a dry run  *)
(* stops at the trap.                                                      *)
LabelInv ==
  \A r \in Runs : /\ pc[r] # "exit" => code[r] = 0
                  /\ pc[r] = "idle" => todo[r] = 1
                  /\ pc[r] = "ln" => opt[r].dir # "own"
                  /\ pc[r] \in {"apply", "write"} => todo[r] \in Queue
                  /\ pc[r] \in Trapped => ~opt[r].dry

Compiling == {"hipify", "compile", "bundle", "metadata"}

(* SOURCE/build when r has started, and when it has cleaned.               *)
Started(r) ==
  IF opt[r].dir = "own" /\ found[r].entry = "none" THEN "tree" ELSE found[r].entry
Cleaned(r) ==
  IF opt[r].dir = "own" /\ (opt[r].clean \/ found[r].entry = "none")
    THEN "tree" ELSE found[r].entry

Fits(r) ==
  \/ opt[r].dir = "own" \/ found[r].entry = "none"
  \/ found[r].entry \in BuildDirs /\ Real[found[r].entry] = opt[r].dir

(* SOURCE/build from the trap on.                                          *)
Linked(r) ==
  IF opt[r].dir = "own" THEN Cleaned(r)
  ELSE IF found[r].entry = "none" THEN opt[r].dir ELSE found[r].entry

EntryOf(r) ==
  /\ pc[r] = "clean" => entry = Started(r)
  /\ pc[r] = "link" => entry = Cleaned(r)
  /\ pc[r] = "ln" => opt[r].dir # "own" /\ entry = "none" /\ found[r].entry = "none"
  /\ pc[r] \in Trapped \cup {"trap"} => entry = Linked(r) /\ Fits(r)

SourceOf(r) ==
  /\ pc[r] # "exit" => file.length = found[r].length
  /\ pc[r] \in BeforeTrap \cup {"trap"} => todo[r] = 1
  /\ pc[r] \in {"patch", "apply", "write"} =>
       \A p \in Queue : p < todo[r] => p \in file.patches /\ p <= file.length
  /\ pc[r] \in {"apply", "write"} => Applies(r)
  /\ pc[r] = "write" => basis[r] = file
  /\ pc[r] \in Compiling => file.patches = Queue /\ Patches <= file.length

(* The wheel that a run must have made. *)
Made(r) ==
  /\ wheel.source.patches = Queue /\ wheel.source.length = found[r].length
  /\ wheel.place = Asked(r)

ResultOf(r) ==
  /\ pc[r] = "metadata" => Made(r)
  /\ pc[r] = "exit" /\ code[r] = 6 => Blocked(r)
  /\ pc[r] = "exit" /\ code[r] = 0 => ~Blocked(r)
  /\ pc[r] = "exit" /\ code[r] = 0 /\ ~opt[r].dry => Made(r) /\ metadata = opt[r].dir

(* Where a run that meets no other one has got to, label by label.         *)
AloneInv ==
  \A r \in Runs : alone[r] =>
    /\ pc[r] # "idle" /\ \A t \in Runs \ {r} : pc[t] = "idle"
    /\ EntryOf(r) /\ SourceOf(r) /\ ResultOf(r)

IInv == TypeOK /\ LinkInv /\ UserInv /\ LabelInv /\ AloneInv

-----------------------------------------------------------------------------
(* Types *)

USE DEF checkout, output, local, bounds, Goto, Stop

LEMMA Constants ==
  /\ Patches \in Nat /\ MaxStarts \in Nat /\ MaxFaults \in Nat
  /\ \A d \in BuildDirs :
       /\ d \notin {"own", "none", "tree", "torn"}
       /\ Real[d] \in BuildDirs => Real[Real[d]] = Real[d]
BY PyTorchAssumption

(* What a source file may be. *)
LEMMA UnpatchedType == Unpatched \in SourceFiles
BY Constants DEF Unpatched, SourceFiles, Whole, Queue

LEMMA SourceFileFacts ==
  ASSUME NEW f \in SourceFiles
  PROVE  f.patches \subseteq Queue /\ f.length \in Nat /\ f.length <= Whole
BY Constants DEF SourceFiles, Whole

LEMMA PatchedType ==
  ASSUME TypeOK, NEW r \in Runs, todo[r] \in Queue
  PROVE  /\ Patched(r) \in SourceFiles
         /\ Patched(r).patches = basis[r].patches \cup {todo[r]}
         /\ Patched(r).length = basis[r].length
BY DEF TypeOK, Patched, SourceFiles

LEMMA CutOffType ==
  ASSUME TypeOK, NEW r \in Runs, todo[r] \in Queue, CutOff(r) PROVE file' \in SourceFiles
<1>1. PICK n \in 0 .. Patches :
        file' = [patches |-> {p \in Patched(r).patches : p <= n}, length |-> n]
  BY DEF CutOff
<1>2. Patched(r).patches \subseteq Queue
  BY PatchedType, SourceFileFacts
<1>3. n \in 0 .. Whole
  BY Constants DEF Whole
<1> QED BY <1>1, <1>2, <1>3 DEF SourceFiles

LEMMA PlaceType == \A d \in Dirs : Physical(d) \in Places
BY DEF Places

LEMMA PlaceOfEntry == Place \in Places
<1>1. CASE entry \in BuildDirs
  BY <1>1, PlaceType DEF Place, Dirs
<1>2. CASE entry \notin BuildDirs
  <2>1. Place = Physical("own")
    BY <1>2, Constants DEF Place, Physical
  <2> QED BY <2>1, PlaceType DEF Dirs
<1> QED BY <1>1, <1>2

LEMMA InitType == Init => TypeOK
<1> SUFFICES ASSUME Init PROVE TypeOK
  OBVIOUS
<1>1. NoOption \in Options /\ NothingFound \in [entry : {"none", "tree"} \cup BuildDirs, length : 0 .. Whole]
  BY Constants DEF NoOption, NothingFound, Options, Dirs, Whole
<1>2. NoWheel \in [source : SourceFiles, place : Places \cup {"none", "torn"}]
  BY UnpatchedType DEF NoWheel
<1>4. work \subseteq Places
  <2>1. {Physical(entry)} \subseteq Places
    BY PlaceOfEntry DEF Place
  <2> QED BY <2>1 DEF Init
<1>3. 1 \in 1 .. Patches + 1 /\ 0 \in 0 .. MaxStarts /\ 0 \in 0 .. MaxFaults /\ 0 \in 0 .. 0
  BY Constants
<1> QED BY <1>1, <1>2, <1>3, <1>4, UnpatchedType DEF Init, TypeOK, Dirs, Labels

(* What a command that is cut off leaves behind has the types it should. *)
LEMMA HalfDoneType ==
  ASSUME TypeOK, LabelInv, NEW r \in Runs, HalfDone(r)
  PROVE  /\ work' \subseteq Places /\ file' \in SourceFiles
         /\ wheel' \in [source : SourceFiles, place : Places \cup {"none", "torn"}]
         /\ metadata' \in {"none", "torn"} \cup Dirs
         /\ UNCHANGED <<entry, maker, nested>>
<1>1. TornWheel \in [source : SourceFiles, place : Places \cup {"none", "torn"}]
  BY UnpatchedType DEF TornWheel, NoWheel
<1>2. pc[r] = "write" /\ CutOff(r) => file' \in SourceFiles
  BY CutOffType DEF LabelInv
<1> QED BY <1>1, <1>2, PlaceOfEntry DEF HalfDone, TypeOK

LEMMA GoneType ==
  ASSUME TypeOK, NEW r \in Runs, Gone(r)
  PROVE  /\ pc' \in [Runs -> Labels] /\ opt' \in [Runs -> Options]
         /\ created' \in [Runs -> BOOLEAN] /\ todo' \in [Runs -> 1 .. Patches + 1]
         /\ basis' \in [Runs -> SourceFiles] /\ code' \in [Runs -> {0, 1, 6}]
         /\ found' \in [Runs -> [entry : {"none", "tree"} \cup BuildDirs, length : 0 .. Whole]]
         /\ alone' \in [Runs -> BOOLEAN]
<1>1. NoOption \in Options /\ NothingFound \in [entry : {"none", "tree"} \cup BuildDirs, length : 0 .. Whole]
  BY Constants DEF NoOption, NothingFound, Options, Dirs, Whole
<1>2. 1 \in 1 .. Patches + 1
  BY Constants
<1> QED BY <1>1, <1>2, UnpatchedType DEF Gone, TypeOK, Labels

LEMMA StartType == ASSUME TypeOK, NEW r \in Runs, Start(r) PROVE TypeOK'
<1>1. starts' \in 0 .. MaxStarts
  <2>1. starts \in 0 .. MaxStarts /\ starts < MaxStarts /\ starts' = starts + 1
    BY DEF TypeOK, Start
  <2> QED BY <2>1, Constants
<1>2. opt' \in [Runs -> Options] /\ entry' \in {"none", "tree"} \cup BuildDirs
      /\ maker' \in {"nobody", "user", "script"}
  BY DEF Start, TypeOK
<1>3. found' \in [Runs -> [entry : {"none", "tree"} \cup BuildDirs, length : 0 .. Whole]]
  <2>1. file.length \in 0 .. Whole
    BY DEF TypeOK, SourceFiles
  <2>2. /\ [entry |-> entry, length |-> file.length]
             \in [entry : {"none", "tree"} \cup BuildDirs, length : 0 .. Whole]
        /\ NothingFound \in [entry : {"none", "tree"} \cup BuildDirs, length : 0 .. Whole]
    BY <2>1, Constants DEF TypeOK, NothingFound, Whole
  <2>3. found' = [s \in Runs |->
          IF alone'[s] THEN [entry |-> entry, length |-> file.length] ELSE NothingFound]
    BY DEF Start
  <2> QED BY <2>2, <2>3
<1>4. alone' \in [Runs -> BOOLEAN]
  BY DEF Start
<1>5. pc' \in [Runs -> Labels]
  BY DEF Start, TypeOK, Labels, BeforeTrap
<1> QED BY <1>1, <1>2, <1>3, <1>4, <1>5 DEF Start, TypeOK

LEMMA LinkType ==
  ASSUME TypeOK, LabelInv, NEW r \in Runs,
         Clean(r) \/ TestLink(r) \/ MakeLink(r) \/ SetTrap(r)
  PROVE  TypeOK'
<1>1. CASE Clean(r)
  BY <1>1 DEF Clean, Within, TypeOK, Labels, BeforeTrap
<1>2. CASE TestLink(r)
  BY <1>2 DEF TestLink, TypeOK, Labels, BeforeTrap
<1>3. CASE MakeLink(r)
  <2>1. pc[r] = "ln" /\ opt[r].dir \in BuildDirs
    BY <1>3 DEF MakeLink, LabelInv, TypeOK, Options, Dirs
  <2>2. Nested(r) \in Places \X Places
    BY <2>1, PlaceOfEntry, PlaceType DEF Nested, Dirs
  <2>3. /\ entry' \in {"none", "tree"} \cup BuildDirs /\ maker' \in {"nobody", "user", "script"}
        /\ nested' \subseteq Places \X Places
    BY <1>3, <2>1, <2>2 DEF MakeLink, TypeOK
  <2>4. /\ created' \in [Runs -> BOOLEAN] /\ pc' \in [Runs -> Labels]
        /\ code' \in [Runs -> {0, 1, 6}]
    BY <1>3 DEF MakeLink, TypeOK, Labels
  <2> QED BY <1>3, <2>3, <2>4 DEF MakeLink, TypeOK
<1>4. CASE SetTrap(r)
  BY <1>4 DEF SetTrap, TypeOK, Labels, Trapped
<1> QED BY <1>1, <1>2, <1>3, <1>4

LEMMA BuildType ==
  ASSUME TypeOK, LabelInv, NEW r \in Runs,
         \/ CheckPatch(r) \/ ReadSource(r) \/ WriteSource(r) \/ Hipify(r)
         \/ Compile(r) \/ Bundle(r) \/ WriteMetadata(r)
  PROVE  TypeOK'
<1>0. Place \in Places /\ opt[r].dir \in Dirs
  BY PlaceOfEntry DEF TypeOK, Options
<1>1. CASE CheckPatch(r)
  <2>1. todo[r] \in Queue => todo[r] + 1 \in 1 .. Patches + 1
    BY Constants DEF Queue
  <2>2. todo' \in [Runs -> 1 .. Patches + 1]
    BY <1>1, <2>1 DEF CheckPatch, TypeOK
  <2>3. pc' \in [Runs -> Labels] /\ code' \in [Runs -> {0, 1, 6}]
    BY <1>1 DEF CheckPatch, TypeOK, Labels, Trapped
  <2> QED BY <1>1, <2>2, <2>3 DEF CheckPatch, TypeOK
<1>2. CASE ReadSource(r)
  <2>1. basis' \in [Runs -> SourceFiles]
    BY <1>2 DEF ReadSource, TypeOK
  <2>2. pc' \in [Runs -> Labels] /\ code' \in [Runs -> {0, 1, 6}]
    <3>1. pc \in [Runs -> Labels] /\ code \in [Runs -> {0, 1, 6}] /\ {"write", "exit"} \subseteq Labels
      BY DEF TypeOK, Labels, Trapped
    <3>2. CASE Stop(r, 1)
      BY <3>1, <3>2
    <3>3. CASE Goto(r, "write") /\ UNCHANGED code
      BY <3>1, <3>3
    <3> QED BY <1>2, <3>2, <3>3 DEF ReadSource
  <2> QED BY <1>2, <2>1, <2>2 DEF ReadSource, TypeOK
<1>3. CASE WriteSource(r)
  <2>1. todo[r] \in Queue
    BY <1>3 DEF WriteSource, LabelInv
  <2>2. todo[r] + 1 \in 1 .. Patches + 1
    BY <2>1, Constants DEF Queue
  <2>3. file' \in SourceFiles /\ todo' \in [Runs -> 1 .. Patches + 1]
    BY <1>3, <2>1, <2>2, PatchedType DEF WriteSource, TypeOK
  <2> QED BY <1>3, <2>3 DEF WriteSource, TypeOK, Labels, Trapped
<1>4. CASE Hipify(r) \/ Compile(r)
  BY <1>0, <1>4 DEF Hipify, Compile, TypeOK, Labels, Trapped
<1>5. CASE Bundle(r)
  <2>1. wheel' \in [source : SourceFiles, place : Places \cup {"none", "torn"}]
    BY <1>0, <1>5 DEF Bundle, TypeOK
  <2> QED BY <1>5, <2>1 DEF Bundle, TypeOK, Labels, Trapped
<1>6. CASE WriteMetadata(r)
  BY <1>0, <1>6 DEF WriteMetadata, TypeOK, Labels
<1> QED BY <1>1, <1>2, <1>3, <1>4, <1>5, <1>6

LEMMA EndType ==
  ASSUME TypeOK, LabelInv, NEW r \in Runs, Exit(r) \/ Fail(r) \/ Kill(r) PROVE TypeOK'
<1>1. CASE Exit(r)
  BY <1>1, GoneType DEF Exit, TypeOK
<1>2. faults < MaxFaults => faults + 1 \in 0 .. MaxFaults /\ kills \in 0 .. faults + 1
                            /\ kills + 1 \in 0 .. faults + 1
  BY Constants DEF TypeOK
<1>3. CASE Fail(r)
  BY <1>2, <1>3, HalfDoneType DEF Fail, TypeOK, Labels
<1>4. CASE Kill(r)
  BY <1>2, <1>4, HalfDoneType, GoneType DEF Kill, TypeOK
<1> QED BY <1>1, <1>3, <1>4

LEMMA RestoreType == ASSUME TypeOK, Restore \/ UNCHANGED vars PROVE TypeOK'
BY UnpatchedType DEF Restore, vars, TypeOK

-----------------------------------------------------------------------------
(* The link, the user's entry and the labels *)

LEMMA InitInv == Init => IInv
<1> SUFFICES ASSUME Init PROVE IInv
  OBVIOUS
<1>1. LinkInv /\ UserInv
  BY DEF Init, LinkInv, UserInv
<1>2. LabelInv /\ AloneInv
  BY DEF Init, LabelInv, AloneInv, Trapped
<1> QED BY InitType, <1>1, <1>2 DEF IInv

LEMMA LabelNext == ASSUME TypeOK, LabelInv, [Next]_vars PROVE LabelInv'
<1>1. ASSUME NEW r \in Runs, Start(r) \/ Clean(r) \/ TestLink(r) \/ MakeLink(r) \/ SetTrap(r)
      PROVE  LabelInv'
  BY <1>1 DEF Start, Clean, TestLink, MakeLink, SetTrap, LabelInv, TypeOK, Trapped
<1>2. ASSUME NEW r \in Runs, CheckPatch(r) \/ ReadSource(r) \/ WriteSource(r) PROVE LabelInv'
  BY <1>2 DEF CheckPatch, ReadSource, WriteSource, LabelInv, TypeOK, Trapped
<1>3. ASSUME NEW r \in Runs, Hipify(r) \/ Compile(r) \/ Bundle(r) \/ WriteMetadata(r)
      PROVE  LabelInv'
  BY <1>3 DEF Hipify, Compile, Bundle, WriteMetadata, LabelInv, TypeOK, Trapped
<1>4. ASSUME NEW r \in Runs, Exit(r) \/ Fail(r) \/ Kill(r) PROVE LabelInv'
  BY <1>4 DEF Exit, Fail, Kill, Gone, LabelInv, TypeOK, Trapped
<1>5. CASE Restore \/ UNCHANGED vars
  BY <1>5 DEF Restore, vars, LabelInv
<1> QED BY <1>1, <1>2, <1>3, <1>4, <1>5 DEF Next

LEMMA LinkNext == ASSUME TypeOK, LinkInv, [Next]_vars PROVE LinkInv'
<1>1. ASSUME NEW r \in Runs, Start(r) \/ Clean(r) PROVE LinkInv'
  <2>1. CASE Start(r)
    BY <2>1, Constants DEF Start, LinkInv, TypeOK, IsLink
  <2>2. CASE Clean(r)
    BY <2>2, Constants DEF Clean, LinkInv, TypeOK, IsLink
  <2> QED
    BY <1>1, <2>1, <2>2
<1>2. ASSUME NEW r \in Runs, MakeLink(r) PROVE LinkInv'
  BY <1>2 DEF MakeLink, LinkInv, TypeOK, IsLink
<1>3. ASSUME NEW r \in Runs, Compile(r) PROVE LinkInv'
  BY <1>3, Constants DEF Compile, LinkInv, TypeOK, IsLink
<1>4. ASSUME NEW r \in Runs,
             \/ TestLink(r) \/ SetTrap(r) \/ CheckPatch(r) \/ ReadSource(r) \/ WriteSource(r)
             \/ Hipify(r) \/ Bundle(r) \/ WriteMetadata(r) \/ Fail(r)
      PROVE  LinkInv'
  <2>1. UNCHANGED <<entry, maker, created, kills>>
    BY <1>4 DEF TestLink, SetTrap, CheckPatch, ReadSource, WriteSource, Hipify, Bundle,
       WriteMetadata, Fail, HalfDone
  <2>2. \A t \in Runs : pc[t] # "idle" => pc'[t] # "idle"
    BY <1>4 DEF TestLink, SetTrap, CheckPatch, ReadSource, WriteSource, Hipify, Bundle,
       WriteMetadata, Fail, TypeOK
  <2> QED BY <2>1, <2>2 DEF LinkInv, IsLink
<1>5. ASSUME NEW r \in Runs, Exit(r) PROVE LinkInv'
  <2>1. /\ created' = [created EXCEPT ![r] = FALSE] /\ kills' = kills
        /\ \A t \in Runs \ {r} : pc'[t] = pc[t]
    BY <1>5 DEF Exit, Gone, TypeOK
  <2>2. \A t \in Runs : created'[t] => pc'[t] # "idle"
    BY <2>1 DEF LinkInv, TypeOK
  <2>3. CASE created[r] /\ IsLink
    BY <1>5, <2>2, <2>3, Constants DEF Exit, RemovesLink, LinkInv, IsLink
  <2>4. CASE ~created[r] \/ ~IsLink
    <3>1. UNCHANGED <<entry, maker>>
      BY <1>5, <2>4 DEF Exit, RemovesLink
    <3> QED BY <2>1, <2>2, <2>4, <3>1 DEF LinkInv, IsLink, TypeOK
  <2> QED BY <2>3, <2>4
<1>6. ASSUME NEW r \in Runs, Kill(r) PROVE LinkInv'
  <2>1. kills' # 0
    <3>1. kills \in Nat /\ kills' = kills + 1
      BY <1>6 DEF Kill, TypeOK
    <3> QED BY <3>1
  <2>2. \A t \in Runs : created'[t] => pc'[t] # "idle"
    BY <1>6 DEF Kill, Gone, LinkInv, TypeOK
  <2> QED BY <2>1, <2>2 DEF LinkInv
<1>7. CASE Restore \/ UNCHANGED vars
  BY <1>7 DEF Restore, vars, LinkInv, IsLink
<1> QED BY <1>1, <1>2, <1>3, <1>4, <1>5, <1>6, <1>7 DEF Next

LEMMA UserNext == ASSUME TypeOK, UserInv, [Next]_vars PROVE UserInv'
<1>1. ASSUME NEW r \in Runs, Start(r) \/ Clean(r) \/ TestLink(r) \/ MakeLink(r) \/ SetTrap(r)
      PROVE  UserInv'
  BY <1>1 DEF Start, Clean, TestLink, MakeLink, SetTrap, UserInv, TypeOK
<1>2. ASSUME NEW r \in Runs,
             \/ CheckPatch(r) \/ ReadSource(r) \/ WriteSource(r) \/ Hipify(r) \/ Bundle(r)
             \/ WriteMetadata(r) \/ Fail(r)
      PROVE  UserInv'
  <2>1. UNCHANGED <<entry, maker, created>> /\ \A t \in Runs : pc'[t] = "ln" => pc[t] = "ln"
    BY <1>2 DEF CheckPatch, ReadSource, WriteSource, Hipify, Bundle, WriteMetadata, Fail,
       HalfDone, TypeOK
  <2> QED BY <2>1 DEF UserInv
<1>3. ASSUME NEW r \in Runs, Compile(r) PROVE UserInv'
  BY <1>3 DEF Compile, UserInv, TypeOK
<1>4. ASSUME NEW r \in Runs, Exit(r) \/ Kill(r) PROVE UserInv'
  <2>1. /\ maker' = "user" => UNCHANGED <<entry, maker>>
        /\ \A t \in Runs : /\ pc'[t] = "ln" => pc[t] = "ln"
                           /\ created'[t] => created[t]
    BY <1>4 DEF Exit, Kill, Gone, HalfDone, TypeOK
  <2> QED BY <2>1 DEF UserInv
<1>5. CASE Restore \/ UNCHANGED vars
  BY <1>5 DEF Restore, vars, UserInv
<1> QED BY <1>1, <1>2, <1>3, <1>4, <1>5 DEF Next

-----------------------------------------------------------------------------
(* A run that meets no other one *)

Position(r) == EntryOf(r) /\ SourceOf(r) /\ ResultOf(r)

(* A step of r concerns no other run that is alone, because there is none. *)
LEMMA AloneStep ==
  ASSUME TypeOK, AloneInv, NEW r \in Runs, pc[r] # "idle",
         \A t \in Runs \ {r} : pc'[t] = pc[t] /\ alone'[t] = alone[t],
         alone'[r] => alone[r] /\ pc'[r] # "idle",
         alone[r] /\ alone'[r] => Position(r)'
  PROVE  AloneInv'
<1>1. \A t \in Runs \ {r} : ~alone'[t]
  BY DEF AloneInv
<1>2. alone'[r] => /\ pc'[r] # "idle" /\ \A t \in Runs \ {r} : pc'[t] = "idle"
                   /\ Position(r)'
  BY DEF AloneInv
<1> QED BY <1>1, <1>2 DEF AloneInv, Position

LEMMA AloneStart == ASSUME TypeOK, LabelInv, NEW r \in Runs, Start(r) PROVE AloneInv'
<1>1. PICK o \in Options :
        /\ opt' = [opt EXCEPT ![r] = o]
        /\ IF o.dir = "own" /\ entry = "none"
             THEN entry' = "tree" /\ maker' = "script"
             ELSE UNCHANGED <<entry, maker>>
  BY DEF Start
<1>2. /\ opt'[r] = o /\ pc'[r] = "clean"
      /\ alone'[r] => found'[r] = [entry |-> entry, length |-> file.length]
      /\ \A t \in Runs \ {r} : pc'[t] = pc[t] /\ alone'[t] = FALSE
      /\ alone'[r] => \A t \in Runs \ {r} : pc[t] = "idle"
  BY <1>1 DEF Start, TypeOK
<1>3. alone'[r] => EntryOf(r)'
  BY <1>1, <1>2 DEF EntryOf, Started, Trapped
<1>4. alone'[r] => SourceOf(r)' /\ ResultOf(r)'
  BY <1>2 DEF Start, SourceOf, ResultOf, LabelInv, BeforeTrap, Compiling
<1> QED BY <1>2, <1>3, <1>4 DEF AloneInv

LEMMA AloneLink ==
  ASSUME TypeOK, LabelInv, AloneInv, NEW r \in Runs, alone[r],
         Clean(r) \/ TestLink(r) \/ MakeLink(r) \/ SetTrap(r)
  PROVE  Position(r)'
<1>0. Position(r) /\ UNCHANGED <<opt, found, file>>
  BY DEF AloneInv, Position, Clean, TestLink, MakeLink, SetTrap
<1>1. CASE Clean(r)
  <2>1. pc'[r] = "link" /\ UNCHANGED <<todo, code>>
    BY <1>1 DEF Clean, TypeOK
  <2>2. entry' = Cleaned(r)
    BY <1>0, <1>1 DEF Clean, Position, EntryOf, Started, Cleaned
  <2> QED
    BY <1>0, <1>1, <2>1, <2>2 DEF Clean, Position, EntryOf, Cleaned, SourceOf, ResultOf,
       BeforeTrap, Trapped, Compiling
<1>2. CASE TestLink(r)
  <2>1. entry = Cleaned(r) /\ code[r] = 0 /\ pc[r] = "link" /\ UNCHANGED <<entry, todo>>
    BY <1>0, <1>2 DEF TestLink, Position, EntryOf, LabelInv
  <2>2. CASE Conflicts(r) /\ Stop(r, 6)
    <3>1. pc'[r] = "exit" /\ code'[r] = 6 /\ Blocked(r)
      BY <2>1, <2>2 DEF TypeOK, Conflicts, LinkFits, IsLink, Cleaned, Blocked, Physical
    <3> QED
      BY <1>0, <2>1, <3>1 DEF Position, EntryOf, SourceOf, ResultOf, Blocked, BeforeTrap, Trapped,
         Compiling
  <2>3. CASE opt[r].dir # "own" /\ entry = "none" /\ Goto(r, "ln") /\ UNCHANGED code
    <3>1. pc'[r] = "ln" /\ found[r].entry = "none"
      BY <2>1, <2>3 DEF TypeOK, Cleaned
    <3> QED
      BY <1>0, <2>1, <2>3, <3>1 DEF Position, EntryOf, SourceOf, ResultOf, BeforeTrap,
         Trapped, Compiling
  <2>4. CASE (opt[r].dir = "own" \/ LinkFits(r)) /\ Goto(r, "trap") /\ UNCHANGED code
    <3>1. pc'[r] = "trap" /\ Fits(r)
      BY <2>1, <2>4 DEF TypeOK, LinkFits, IsLink, Cleaned, Fits
    <3>2. entry' = Linked(r)
      BY <2>1, <2>4, Constants DEF LinkFits, IsLink, Linked, Cleaned
    <3> QED
      BY <1>0, <2>1, <3>1, <3>2 DEF Position, EntryOf, SourceOf, ResultOf, Linked, Cleaned, Fits,
         BeforeTrap, Trapped, Compiling
  <2> QED BY <1>2, <2>2, <2>3, <2>4 DEF TestLink
<1>3. CASE MakeLink(r)
  <2>1. pc'[r] = "trap" /\ pc[r] = "ln" /\ entry' = opt[r].dir /\ UNCHANGED <<todo, code>>
    BY <1>0, <1>3 DEF MakeLink, Position, EntryOf, TypeOK
  <2>2. Linked(r) = opt[r].dir /\ Fits(r)
    BY <1>0, <2>1 DEF Position, EntryOf, Linked, Fits
  <2> QED
    BY <1>0, <2>1, <2>2 DEF Position, EntryOf, SourceOf, ResultOf, Linked, Cleaned, Fits,
       BeforeTrap, Trapped, Compiling
<1>4. CASE SetTrap(r)
  <2>1. /\ pc[r] = "trap" /\ code[r] = 0 /\ UNCHANGED <<entry, todo, code>>
        /\ pc'[r] = IF opt[r].dry THEN "exit" ELSE "patch"
    BY <1>4 DEF SetTrap, TypeOK, LabelInv
  <2>2. opt[r].dry => ~Blocked(r)
    BY <1>0, <2>1, Constants DEF Position, EntryOf, Fits, Blocked, Physical
  <2>3. todo[r] = 1 /\ file.length = found[r].length
    BY <1>0, <2>1 DEF Position, SourceOf, BeforeTrap
  <2>4. EntryOf(r)'
    BY <1>0, <2>1 DEF Position, EntryOf, Linked, Cleaned, Fits, Trapped
  <2>5. SourceOf(r)'
    BY <1>0, <2>1, <2>3 DEF SourceOf, BeforeTrap, Compiling, Queue
  <2>6. ResultOf(r)'
    BY <1>0, <2>1, <2>2 DEF ResultOf, Blocked
  <2> QED BY <2>4, <2>5, <2>6 DEF Position
<1> QED BY <1>1, <1>2, <1>3, <1>4

LEMMA AlonePatch ==
  ASSUME TypeOK, LabelInv, AloneInv, NEW r \in Runs, alone[r],
         CheckPatch(r) \/ ReadSource(r) \/ WriteSource(r)
  PROVE  Position(r)'
<1>0. Position(r) /\ UNCHANGED <<opt, found, entry>> /\ pc[r] \in Trapped /\ code[r] = 0
  BY DEF AloneInv, Position, CheckPatch, ReadSource, WriteSource, LabelInv, Trapped
<1>1. EntryOf(r)'
  <2>1. pc'[r] \in Trapped \cup {"exit"}
    BY <1>0 DEF CheckPatch, ReadSource, WriteSource, TypeOK, Trapped
  <2> QED BY <1>0, <2>1 DEF Position, EntryOf, Linked, Cleaned, Fits, Trapped
<1>2. Fits(r) /\ file.length = found[r].length /\ ~opt[r].dry
  BY <1>0 DEF Position, EntryOf, SourceOf, LabelInv, Trapped
<1>3. /\ todo[r] \in 1 .. Patches + 1 /\ Patches \in Nat
      /\ file.length \in Nat /\ file.patches \subseteq Queue
  BY Constants, SourceFileFacts DEF TypeOK
<1>4. CASE CheckPatch(r)
  <2>1. /\ UNCHANGED <<file, basis>> /\ pc[r] = "patch"
        /\ \A p \in Queue : p < todo[r] => p \in file.patches /\ p <= file.length
    BY <1>0, <1>4 DEF CheckPatch, Position, SourceOf
  <2>2. CASE todo[r] \notin Queue /\ Goto(r, "hipify") /\ UNCHANGED <<todo, code>>
    <3>1. todo[r] = Patches + 1
      BY <1>3, <2>2 DEF Queue
    <3>0. \A p \in Queue : p < Patches + 1
      BY <1>3 DEF Queue
    <3>2. file.patches = Queue
      BY <1>3, <2>1, <3>0, <3>1
    <3>3. Patches <= file.length
      <4>1. CASE Patches = 0
        BY <1>3, <4>1
      <4>2. CASE Patches # 0
        <5>1. Patches \in Queue
          BY <1>3, <4>2 DEF Queue
        <5> QED BY <2>1, <3>0, <3>1, <5>1
      <4> QED BY <4>1, <4>2
    <3>4. pc'[r] = "hipify"
      BY <2>2 DEF TypeOK
    <3> QED
      BY <1>0, <1>1, <1>2, <2>1, <3>2, <3>3, <3>4 DEF Position, SourceOf, ResultOf, BeforeTrap,
         Compiling
  <2>3. CASE /\ todo[r] \in Queue /\ Applies(r)
             /\ Goto(r, "apply") /\ UNCHANGED <<todo, code>>
    <3>1. pc'[r] = "apply"
      BY <2>3 DEF TypeOK
    <3>2. Applies(r)'
      BY <2>1, <2>3 DEF Applies
    <3> QED
      BY <1>0, <1>1, <1>2, <2>1, <2>3, <3>1, <3>2 DEF Position, SourceOf, ResultOf, BeforeTrap,
         Compiling
  <2>4. CASE AlreadyApplied(r) /\ todo' = [todo EXCEPT ![r] = @ + 1] /\ UNCHANGED <<pc, code>>
    <3>1. todo'[r] = todo[r] + 1 /\ todo[r] \in file.patches /\ todo[r] <= file.length
      BY <2>4 DEF AlreadyApplied, TypeOK
    <3>2. \A p \in Queue : p < todo'[r] => p \in file.patches /\ p <= file.length
      <4>1. \A p \in Queue : p < todo[r] + 1 => p < todo[r] \/ p = todo[r]
        BY <1>3 DEF Queue
      <4> QED BY <2>1, <3>1, <4>1
    <3> QED
      BY <1>0, <1>1, <1>2, <2>1, <2>4, <3>1, <3>2 DEF Position, SourceOf, ResultOf, BeforeTrap,
         Compiling
  <2>5. CASE todo[r] \in Queue /\ ~Applies(r) /\ ~AlreadyApplied(r) /\ Stop(r, 6)
    <3>1. found[r].length < Patches
      <4>1. ~(todo[r] <= file.length) /\ todo[r] <= Patches
        BY <1>3, <2>5 DEF Applies, AlreadyApplied, Queue
      <4> QED BY <1>2, <1>3, <4>1
    <3>2. pc'[r] = "exit" /\ code'[r] = 6
      BY <2>5 DEF TypeOK
    <3> QED
      BY <1>0, <1>1, <1>2, <2>1, <2>5, <3>1, <3>2 DEF Position, SourceOf, ResultOf, Blocked,
         BeforeTrap, Compiling
  <2> QED BY <1>4, <2>2, <2>3, <2>4, <2>5 DEF CheckPatch
<1>5. CASE ReadSource(r)
  <2>1. /\ UNCHANGED <<file, todo, code>> /\ pc'[r] = "write"
        /\ basis'[r] = file /\ Applies(r)
    BY <1>0, <1>5 DEF ReadSource, Position, SourceOf, TypeOK
  <2>2. Applies(r)'
    BY <2>1 DEF Applies
  <2> QED
    BY <1>0, <1>1, <1>2, <1>5, <2>1, <2>2 DEF ReadSource, Position, SourceOf, ResultOf, BeforeTrap,
       Compiling
<1>6. CASE WriteSource(r)
  <2>0. /\ pc'[r] = "patch" /\ todo'[r] = todo[r] + 1 /\ UNCHANGED code
        /\ basis[r] = file /\ todo[r] <= file.length /\ todo[r] \in Queue
        /\ file' = Patched(r)
    BY <1>0, <1>6 DEF WriteSource, Position, SourceOf, Applies, TypeOK, LabelInv
  <2>1. file'.patches = file.patches \cup {todo[r]} /\ file'.length = file.length
    BY <2>0, PatchedType
  <2>2. \A p \in Queue : p < todo'[r] => p \in file'.patches /\ p <= file'.length
    <3>1. \A p \in Queue : p < todo[r] => p \in file.patches /\ p <= file.length
      BY <1>0, <1>6 DEF WriteSource, Position, SourceOf
    <3>2. \A p \in Queue : p < todo[r] + 1 => p < todo[r] \/ p = todo[r]
      BY <1>3 DEF Queue
    <3> QED BY <2>0, <2>1, <3>1, <3>2
  <2> QED
    BY <1>0, <1>1, <1>2, <2>0, <2>1, <2>2 DEF Position, SourceOf, ResultOf, BeforeTrap, Compiling
<1> QED BY <1>4, <1>5, <1>6

LEMMA AloneCompile ==
  ASSUME TypeOK, LabelInv, AloneInv, NEW r \in Runs, alone[r],
         Hipify(r) \/ Compile(r) \/ Bundle(r) \/ WriteMetadata(r)
  PROVE  Position(r)'
<1>0. /\ Position(r) /\ UNCHANGED <<opt, found, file, todo, basis, code>>
      /\ pc[r] \in Compiling /\ code[r] = 0 /\ ~opt[r].dry
  BY DEF AloneInv, Position, Hipify, Compile, Bundle, WriteMetadata, LabelInv, Trapped, Compiling
<1>1. /\ entry = Linked(r) /\ Fits(r)
      /\ file.length = found[r].length /\ file.patches = Queue /\ Patches <= file.length
  BY <1>0 DEF Position, EntryOf, SourceOf, Trapped, Compiling
<1>2. entry # "none" /\ Place = Asked(r)
  <2>1. opt[r].dir \in BuildDirs \cup {"own"}
    BY DEF TypeOK, Options, Dirs
  <2>2. CASE opt[r].dir # "own" /\ found[r].entry = "none"
    BY <1>1, <2>1, <2>2, Constants DEF Linked, Place, Asked
  <2>3. CASE opt[r].dir # "own" /\ found[r].entry # "none"
    <3>1. /\ entry = found[r].entry /\ entry \in BuildDirs /\ Real[entry] = opt[r].dir
          /\ opt[r].dir \in BuildDirs
      BY <1>1, <2>1, <2>3 DEF Linked, Fits
    <3>2. Place = Real[entry] /\ Asked(r) = Real[opt[r].dir]
      BY <2>3, <3>1 DEF Place, Asked, Physical
    <3> QED BY <3>1, <3>2, Constants
  <2>4. CASE opt[r].dir = "own"
    BY <1>1, <2>4, Constants DEF Linked, Place, Physical, Asked, Cleaned, TypeOK
  <2> QED BY <2>2, <2>3, <2>4
<1>3. ~Blocked(r)
  <2>1. ~(found[r].length < Patches)
    BY <1>1, Constants, SourceFileFacts DEF TypeOK
  <2> QED BY <1>1, <2>1, Constants DEF Blocked, Fits, Physical
<1>4. entry' = entry
  BY <1>2 DEF Hipify, Compile, Bundle, WriteMetadata
<1>5. pc'[r] \in Compiling \cup {"exit"} /\ (pc'[r] = "exit" => WriteMetadata(r))
      /\ (pc'[r] = "metadata" => Bundle(r))
  BY DEF Hipify, Compile, Bundle, WriteMetadata, TypeOK, Compiling
<1>6. EntryOf(r)'
  BY <1>0, <1>1, <1>4, <1>5 DEF EntryOf, Linked, Cleaned, Fits, Compiling, Trapped
<1>7. SourceOf(r)'
  BY <1>0, <1>1, <1>5 DEF SourceOf, Compiling, BeforeTrap
<1>8. ResultOf(r)'
  <2>1. CASE Bundle(r)
    <3>1. pc'[r] = "metadata" /\ wheel' = [source |-> file, place |-> Asked(r)]
      BY <1>1, <1>2, <2>1 DEF Bundle, TypeOK
    <3> QED BY <1>0, <1>1, <3>1 DEF ResultOf, Made, Asked
  <2>2. CASE WriteMetadata(r)
    <3>1. /\ pc'[r] = "exit" /\ Made(r)
          /\ metadata' = opt[r].dir /\ wheel' = wheel
      BY <1>0, <2>2 DEF WriteMetadata, Position, ResultOf, TypeOK
    <3> QED BY <1>0, <1>3, <3>1 DEF ResultOf, Made, Asked, Blocked
  <2>3. CASE Hipify(r) \/ Compile(r)
    <3>1. pc'[r] \notin {"metadata", "exit"}
      BY <2>3 DEF Hipify, Compile, TypeOK
    <3> QED BY <3>1 DEF ResultOf
  <2> QED BY <2>1, <2>2, <2>3
<1> QED BY <1>6, <1>7, <1>8 DEF Position

LEMMA AloneFail ==
  ASSUME TypeOK, AloneInv, NEW r \in Runs, alone[r], Fail(r) PROVE Position(r)'
<1>1. pc'[r] = "exit" /\ code'[r] = 1
  BY DEF Fail, TypeOK
<1> QED BY <1>1 DEF Position, EntryOf, SourceOf, ResultOf, BeforeTrap, Trapped, Compiling

LEMMA AloneNext == ASSUME TypeOK, LabelInv, AloneInv, [Next]_vars PROVE AloneInv'
<1>1. ASSUME NEW r \in Runs, Start(r) PROVE AloneInv'
  BY <1>1, AloneStart
<1>2. ASSUME NEW r \in Runs,
             \/ Clean(r) \/ TestLink(r) \/ MakeLink(r) \/ SetTrap(r)
             \/ CheckPatch(r) \/ ReadSource(r) \/ WriteSource(r)
             \/ Hipify(r) \/ Compile(r) \/ Bundle(r) \/ WriteMetadata(r) \/ Fail(r)
      PROVE  AloneInv'
  <2>1. pc[r] # "idle" /\ pc'[r] # "idle" /\ alone' = alone
        /\ \A t \in Runs \ {r} : pc'[t] = pc[t]
    <3>1. CASE Clean(r) \/ TestLink(r) \/ MakeLink(r) \/ SetTrap(r)
      BY <3>1 DEF Clean, TestLink, MakeLink, SetTrap, TypeOK
    <3>2. CASE CheckPatch(r) \/ ReadSource(r) \/ WriteSource(r) \/ Fail(r)
      BY <3>2 DEF CheckPatch, ReadSource, WriteSource, Fail, TypeOK, BeforeTrap, Trapped
    <3>3. CASE Hipify(r) \/ Compile(r) \/ Bundle(r) \/ WriteMetadata(r)
      BY <3>3 DEF Hipify, Compile, Bundle, WriteMetadata, TypeOK
    <3> QED BY <1>2, <3>1, <3>2, <3>3
  <2>2. alone[r] => Position(r)'
    BY <1>2, AloneLink, AlonePatch, AloneCompile, AloneFail
  <2> QED BY <2>1, <2>2, AloneStep
<1>3. ASSUME NEW r \in Runs, Exit(r) \/ Kill(r) PROVE AloneInv'
  <2>1. pc[r] # "idle" /\ ~alone'[r]
        /\ \A t \in Runs \ {r} : pc'[t] = pc[t] /\ alone'[t] = alone[t]
    BY <1>3 DEF Exit, Kill, Gone, TypeOK
  <2> QED BY <2>1, AloneStep
<1>4. CASE Restore
  <2>1. \A r \in Runs : ~alone[r] /\ alone'[r] = alone[r]
    BY <1>4 DEF Restore, AloneInv
  <2> QED BY <2>1 DEF AloneInv
<1>5. CASE UNCHANGED vars
  <2>1. \A r \in Runs : Position(r) => Position(r)'
    BY <1>5 DEF vars, Position, EntryOf, SourceOf, ResultOf, Started, Cleaned, Linked, Fits, Made,
       Asked, Blocked, Applies
  <2> QED BY <1>5, <2>1 DEF vars, AloneInv, Position
<1> QED BY <1>1, <1>2, <1>3, <1>4, <1>5 DEF Next

LEMMA Invariance == Spec => []IInv
<1>1. TypeOK /\ LabelInv /\ [Next]_vars => TypeOK'
  BY StartType, LinkType, BuildType, EndType, RestoreType DEF Next
<1>2. IInv /\ [Next]_vars => IInv'
  BY <1>1, LabelNext, LinkNext, UserNext, AloneNext DEF IInv
<1> QED BY <1>2, InitInv, PTL DEF Spec

(* The variables keep their types. *)
THEOREM TypeCorrect == Spec => []TypeOK
<1>1. IInv => TypeOK
  BY DEF IInv
<1> QED BY <1>1, Invariance, PTL

(* Without a kill, no link of the script at SOURCE/build outlives the runs,*)
(* however many share it, race for it or fail; and one comes to lie inside *)
(* of a directory only by the ln -s of a run that has met another one.     *)
THEOREM LinksRemoved == Spec => NoStrayLink
<1> DEFINE Removed == (kills = 0 /\ \A r \in Runs : pc[r] = "idle") => ~(IsLink /\ maker = "script")
           Raced == \E r \in Runs : pc[r] = "ln" /\ ~alone[r]
<1>1. IInv => Removed
  BY DEF IInv, LinkInv
<1>2. ASSUME IInv, [Next]_vars, ~(nested' \subseteq nested) PROVE Raced
  <2>1. PICK r \in Runs :
          \/ Start(r) \/ Clean(r) \/ TestLink(r) \/ MakeLink(r) \/ SetTrap(r)
          \/ CheckPatch(r) \/ ReadSource(r) \/ WriteSource(r) \/ Hipify(r)
          \/ Compile(r) \/ Bundle(r) \/ WriteMetadata(r) \/ Exit(r)
          \/ Fail(r) \/ Kill(r)
    BY <1>2 DEF Next, Restore, vars
  <2>2. MakeLink(r) /\ entry # "none"
    BY <1>2, <2>1 DEF Start, Clean, Within, TestLink, MakeLink, SetTrap, CheckPatch, ReadSource,
       WriteSource, Hipify, Compile, Bundle, WriteMetadata, Exit, Fail, Kill, HalfDone
  <2>3. pc[r] = "ln" /\ ~alone[r]
    BY <1>2, <2>2 DEF MakeLink, IInv, AloneInv, EntryOf
  <2> QED BY <2>3
<1>3. IInv /\ [Next]_vars => [nested' \subseteq nested \/ Raced]_vars
  BY <1>2
<1> QED BY <1>1, <1>3, Invariance, PTL DEF Spec, NoStrayLink

(* "Refuse to replace a real checkout directory": only a run that cleans   *)
(* that very path replaces what the user has there.                        *)
THEOREM UsersEntrySafe == Spec => UsersEntryKept
<1> DEFINE CleansIt == \E r \in Runs : pc[r] = "clean" /\ opt[r].clean /\ opt[r].dir = "own"
<1>1. ASSUME IInv, [Next]_vars, maker = "user", maker' # "user" PROVE CleansIt
  <2>1. entry # "none" /\ \A r \in Runs : pc[r] # "ln" /\ ~created[r]
    BY <1>1 DEF IInv, UserInv
  <2>2. PICK r \in Runs :
          \/ Start(r) \/ Clean(r) \/ TestLink(r) \/ MakeLink(r) \/ SetTrap(r)
          \/ CheckPatch(r) \/ ReadSource(r) \/ WriteSource(r) \/ Hipify(r)
          \/ Compile(r) \/ Bundle(r) \/ WriteMetadata(r) \/ Exit(r)
          \/ Fail(r) \/ Kill(r)
    BY <1>1 DEF Next, Restore, vars
  <2>3. Clean(r)
    BY <1>1, <2>1, <2>2 DEF Start, TestLink, MakeLink, SetTrap, CheckPatch, ReadSource,
       WriteSource, Hipify, Compile, Bundle, WriteMetadata, Exit, RemovesLink, Fail, Kill, HalfDone
  <2> QED BY <1>1, <2>3 DEF Clean
<1>2. IInv /\ [Next]_vars => [(maker = "user" /\ maker' # "user") => CleansIt]_vars
  BY <1>1
<1> QED BY <1>2, Invariance, PTL DEF Spec, UsersEntryKept

(* Exit status 0 of a run that meets no other one: the wheel carries every *)
(* patch and was compiled where it was asked for, and has its metadata.    *)
THEOREM SuccessfulBuildIsWhole == Spec => []SuccessIsWhole
<1>1. IInv => SuccessIsWhole
  BY DEF IInv, AloneInv, ResultOf, Made, SuccessIsWhole
<1> QED BY <1>1, Invariance, PTL

(* Exit status 6 of such a run: something else was at SOURCE/build, as far *)
(* as readlink -f and pwd tell it, or the place of a patch was cut off; no *)
(* other leftovers are a reason.                                           *)
THEOREM RefusedForCause == Spec => []RefusalIsReal
<1>1. IInv => RefusalIsReal
  BY DEF IInv, TypeOK, AloneInv, ResultOf, RefusalIsReal
<1> QED BY <1>1, Invariance, PTL
=============================================================================
