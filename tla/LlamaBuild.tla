----------------------------- MODULE LlamaBuild -----------------------------
(***************************************************************************)
(* scripts/build/llama.cpp/build_llama_gfx906.sh: one invocation after the *)
(* other configures, builds and installs in place.  The checkout may move  *)
(* to another commit under it, and every command may be cut off.           *)
(***************************************************************************)
EXTENDS Naturals, Sequences

CONSTANTS
  Roots,      \* the ROCm installations that --rocm may name
  MaxCommit,  \* bound: commits of the checkout
  MaxRuns,    \* bound: invocations
  MaxFaults   \* bound: commands that fail or are killed

ASSUME LlamaAssumption ==
  /\ MaxCommit \in Nat \ {0} /\ MaxRuns \in Nat /\ MaxFaults \in Nat
  /\ "none" \notin Roots

(* The files that are built and installed, in that order. *)
Products == <<"library", "bench">>

(* A file is known by the sources and the ROCm it was made from.           *)
Files == [commit : 1 .. MaxCommit, rocm : Roots]
NoFile == [commit |-> 0, rocm |-> "none"]   \* absent, or cut off
NoProducts == [p \in {"library", "bench"} |-> NoFile]

(* place: may --build-dir be removed, or is it the checkout itself.        *)
Options == [rocm : Roots, place : {"apart", "source"}, clean : BOOLEAN,
            dry : BOOLEAN]
NoOption == [rocm |-> "none", place |-> "apart", clean |-> FALSE, dry |-> FALSE]

VARIABLES
  head,       \* the commit that is checked out
  cache,      \* the ROCm that CMakeCache.txt of the build directory found
  built,      \* the files in the build directory
  installed,  \* the files in the installation
  metadata,   \* mi50-build-metadata.json of the installation
  pc, opt, at,
  found,      \* history: the cache as the invocation met it
  moved,      \* history: has the checkout moved since the invocation built
  unclear,    \* history: may the metadata not fit the installed files
  runs, faults

directories == <<cache, built, installed, metadata>>
local == <<opt, at>>
history == <<found, moved, unclear>>
bounds == <<runs, faults>>
buildVars == <<head, directories, pc, local, history, bounds>>

BuildInit ==
  /\ head = 1 /\ cache = "none" /\ built = NoProducts
  /\ installed = NoProducts /\ metadata = NoFile
  /\ pc = "idle" /\ opt = NoOption /\ at = 1
  /\ found = "none" /\ moved = FALSE /\ unclear = FALSE
  /\ runs = 0 /\ faults = 0

(* The invocation ends. *)
Stop ==
  /\ pc' = "idle" /\ opt' = NoOption /\ at' = 1
  /\ found' = "none" /\ moved' = FALSE

-----------------------------------------------------------------------------

(* A refused environment or option changes nothing; else mkdir -p makes    *)
(* both directories.                                                       *)
Preflight ==
  /\ pc = "idle" /\ runs < MaxRuns /\ runs' = runs + 1
  /\ \/ UNCHANGED <<pc, opt, found>>
     \/ /\ \E o \in Options : opt' = o
        /\ pc' = "clean" /\ found' = cache
  /\ UNCHANGED <<head, directories, at, moved, unclear, faults>>

(* Mutant: only the files are removed, the cache is kept. *)
CleanedCache == cache

(* cmake -E rm -rf of the build directory. *)
Cleaned == "none"

(* --clean, which refuses the checkout. *)
Clean ==
  /\ pc = "clean"
  /\ \/ /\ opt.clean /\ opt.place = "source"
        /\ Stop /\ UNCHANGED <<cache, built>>
     \/ /\ ~(opt.clean /\ opt.place = "source")
        /\ IF opt.clean THEN cache' = Cleaned /\ built' = NoProducts
                        ELSE UNCHANGED <<cache, built>>
        /\ pc' = "configure" /\ UNCHANGED <<opt, at, found, moved>>
  /\ UNCHANGED <<head, installed, metadata, unclear, bounds>>

(* A dry run ends here.  CMake keeps the package directories that its      *)
(* cache has found.                                                        *)
Configure ==
  /\ pc = "configure"
  /\ \/ opt.dry /\ Stop /\ UNCHANGED cache
     \/ /\ ~opt.dry /\ pc' = "build"
        /\ cache' = IF cache = "none" THEN opt.rocm ELSE cache
        /\ UNCHANGED <<local, found, moved>>
  /\ UNCHANGED <<head, built, installed, metadata, unclear, bounds>>

(* Mutant: off by one. *)
AdvancePastEnd(next) ==
  IF at <= Len(Products)
    THEN at' = at + 1 /\ UNCHANGED pc
    ELSE at' = 1 /\ pc' = next

(* The loop over the files goes on, or its stage is over. *)
Advance(next) ==
  IF at < Len(Products)
    THEN at' = at + 1 /\ UNCHANGED pc
    ELSE at' = 1 /\ pc' = next

(* cmake --build, file by file, from what is checked out at that moment.   *)
Build ==
  /\ pc = "build"
  /\ built' = [built EXCEPT ![Products[at]] = [commit |-> head, rocm |-> cache]]
  /\ moved' = (at > 1 /\ moved)
  /\ Advance("install")
  /\ UNCHANGED <<head, cache, installed, metadata, opt, found, unclear, bounds>>

(* cmake --install, file by file, in place. *)
Install ==
  /\ pc = "install"
  /\ installed' = [installed EXCEPT ![Products[at]] = built[Products[at]]]
  /\ unclear' = TRUE
  /\ Advance("metadata")
  /\ UNCHANGED <<head, cache, built, metadata, opt, found, moved, bounds>>

(* The metadata names the commit that is checked out now and the ROCm of   *)
(* this invocation.                                                        *)
Described == [commit |-> head, rocm |-> opt.rocm]

WriteMetadata ==
  /\ pc = "metadata"
  /\ metadata' = Described
  /\ unclear' = (moved \/ (~opt.clean /\ found \notin {"none", opt.rocm}))
  /\ Stop
  /\ UNCHANGED <<head, cache, built, installed, bounds>>

(* git pull in the checkout. *)
Pull ==
  /\ head < MaxCommit /\ head' = head + 1
  /\ moved' = (pc \in {"build", "install", "metadata"})
  /\ UNCHANGED <<directories, pc, local, found, unclear, bounds>>

(* A command fails or is killed, with what it leaves half done; the file   *)
(* that is being written is then cut off.                                  *)
CutOff ==
  /\ pc # "idle" /\ faults < MaxFaults /\ faults' = faults + 1
  /\ \/ UNCHANGED <<directories, unclear>>
     \/ /\ pc = "clean" /\ opt.clean /\ opt.place # "source"
        /\ built' = NoProducts /\ UNCHANGED <<cache, installed, metadata, unclear>>
     \/ /\ pc = "build" /\ built' = [built EXCEPT ![Products[at]] = NoFile]
        /\ UNCHANGED <<cache, installed, metadata, unclear>>
     \/ /\ pc = "install" /\ installed' = [installed EXCEPT ![Products[at]] = NoFile]
        /\ unclear' = TRUE /\ UNCHANGED <<cache, built, metadata>>
     \/ /\ pc = "metadata" /\ metadata' = NoFile
        /\ UNCHANGED <<cache, built, installed, unclear>>
  /\ Stop
  /\ UNCHANGED <<head, runs>>

BuildNext ==
  \/ Preflight \/ Clean \/ Configure \/ Build \/ Install \/ WriteMetadata
  \/ Pull \/ CutOff

-----------------------------------------------------------------------------
(* Properties *)

BuildTypeOK ==
  /\ head \in 1 .. MaxCommit /\ cache \in Roots \cup {"none"}
  /\ built \in [{"library", "bench"} -> Files \cup {NoFile}]
  /\ installed \in [{"library", "bench"} -> Files \cup {NoFile}]
  /\ metadata \in Files \cup {NoFile}
  /\ pc \in {"idle", "clean", "configure", "build", "install", "metadata"}
  /\ opt \in Options \cup {NoOption} /\ at \in 1 .. Len(Products)
  /\ found \in Roots \cup {"none"} /\ moved \in BOOLEAN /\ unclear \in BOOLEAN
  /\ runs \in 0 .. MaxRuns /\ faults \in 0 .. MaxFaults
=============================================================================
