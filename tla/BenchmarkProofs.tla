--------------------------- MODULE BenchmarkProofs --------------------------
(***************************************************************************)
(* For any ROCm installations, commits, metrics, sets of agents, and any   *)
(* number of builds, benchmarks and faults: what a passing report of       *)
(* llama-bench is worth.                                                   *)
(*                                                                         *)
(* The benchmark reads the installation three times, and the builder may   *)
(* be anywhere in between.  The induction carries what each side knows:    *)
(* the builder, that its build directory holds what its metadata will say  *)
(* (StageInv, BuiltInv); the installation, that clear metadata fits the    *)
(* files (ClearInv); the benchmark, that what it has loaded so far is what *)
(* it saw described (MeasureInv), and how it came to run at all            *)
(* (EvidenceInv).                                                          *)
(***************************************************************************)
EXTENDS Benchmark, TLAPS

Names == {"library", "bench"}

(* What the invocation left of the cache that it met ... *)
Kept == IF opt.clean THEN Cleaned ELSE found

(* ... and what CMake makes of that. *)
Resolved == IF Kept = "none" THEN opt.rocm ELSE Kept

(* The file that is built when nothing moves. *)
Current == [commit |-> head, rocm |-> cache]

StageInv ==
  /\ at = 1 \/ pc \in {"build", "install"}
  /\ pc # "idle" => opt \in Options
  /\ pc = "clean" => cache = found
  /\ pc = "configure" => cache = Kept
  /\ pc \in {"build", "install", "metadata"} => cache = Resolved

BuiltInv ==
  ~moved =>
    /\ pc = "build" /\ at = 2 => built["library"] = Current
    /\ pc \in {"install", "metadata"} => \A p \in Names : built[p] = Current
    /\ pc = "install" /\ at = 2 => installed["library"] = Current
    /\ pc = "metadata" => \A p \in Names : installed[p] = Current

(* Metadata that is clear describes both installed files. *)
ClearInv ==
  ~unclear /\ metadata # NoFile => \A p \in Names : installed[p] = metadata

Unread == {"idle", "look", "snapshot", "exec"}

MeasureInv ==
  /\ bpc \in Unread => described = NoFile
  /\ bpc = "load" /\ described # NoFile => loaded["bench"] = described
  /\ bpc \in {"compute", "judge", "printed"} /\ described # NoFile =>
       \A p \in Names : loaded[p] = described

(* What the snapshot must have shown. *)
Accepted ==
  /\ \E a \in shown : a.name = "gfx906"
  /\ \A a \in shown : a.size = "32" => \E b \in shown : b.size = "64"

EvidenceInv ==
  /\ bpc \in {"exec", "load", "compute", "judge"} => Accepted
  /\ bpc \in Unread => outcome = "none"
  /\ bpc \in {"load", "compute"} => outcome = "none" /\ loaded["bench"] # NoFile
  /\ bpc = "compute" => loaded["library"] # NoFile
  /\ bpc = "judge" /\ outcome = "pass" => NoFile \notin {loaded["bench"], loaded["library"]}

BuilderInv == StageInv /\ BuiltInv /\ ClearInv
BenchInv == MeasureInv /\ EvidenceInv /\ PassIsEvidence
IInv == TypeOK /\ BuilderInv /\ BenchInv

-----------------------------------------------------------------------------
(* The builder *)

LEMMA ProductsAre ==
  /\ Len(Products) = 2 /\ Products[1] = "library" /\ Products[2] = "bench"
  /\ \A i \in 1 .. Len(Products) : Products[i] \in Names
BY DEF Products, Names

(* NoFile is none of the files that are built. *)
LEMMA NoFileIsNone == NoFile \notin Files
BY DEF NoFile, Files

LEMMA OptionFields ==
  ASSUME NEW o \in Options
  PROVE  o.rocm \in Roots /\ o.clean \in BOOLEAN
BY DEF Options

LEMMA InitBuilder == BuildInit => BuildTypeOK /\ BuilderInv
<1> SUFFICES ASSUME BuildInit PROVE BuildTypeOK /\ BuilderInv
  OBVIOUS
<1> USE LlamaAssumption DEF BuildInit
<1>1. built \in [Names -> Files \cup {NoFile}] /\ installed \in [Names -> Files \cup {NoFile}]
  BY DEF NoProducts, Names
<1>2. head \in 1 .. MaxCommit /\ at \in 1 .. Len(Products)
  BY ProductsAre
<1>3. BuildTypeOK
  <2>1. runs \in 0 .. MaxRuns /\ faults \in 0 .. MaxFaults
    OBVIOUS
  <2> QED
    BY <1>1, <1>2, <2>1, Zenon DEF BuildTypeOK, Names
<1>4. BuilderInv
  BY DEF BuilderInv, StageInv, BuiltInv, ClearInv
<1> QED
  BY <1>3, <1>4

(* What is built in the stages that write is a file of this ROCm. *)
LEMMA CurrentTyped ==
  ASSUME BuildTypeOK, StageInv, pc \in {"build", "install", "metadata"}
  PROVE  cache \in Roots /\ Current \in Files
<1>1. opt \in Options /\ cache = Resolved
  BY DEF StageInv
<1>2. opt.rocm \in Roots
  BY <1>1, OptionFields
<1>3. cache \in Roots
  BY <1>1, <1>2 DEF Resolved, Kept, Cleaned, BuildTypeOK
<1>4. head \in 1 .. MaxCommit
  BY DEF BuildTypeOK
<1> QED
  BY <1>3, <1>4 DEF Current, Files

(* The loop counter stays within the two files. *)
LEMMA AdvanceTyped ==
  ASSUME NEW next, Advance(next), at \in 1 .. Len(Products)
  PROVE  /\ at' \in 1 .. Len(Products)
         /\ \/ at = 1 /\ at' = 2 /\ pc' = pc
            \/ at = 2 /\ at' = 1 /\ pc' = next
BY ProductsAre DEF Advance

LEMMA StopTyped ==
  ASSUME Stop
  PROVE  /\ pc' = "idle" /\ opt' = NoOption /\ at' = 1 /\ found' = "none"
         /\ moved' = FALSE /\ at' \in 1 .. Len(Products)
BY ProductsAre DEF Stop

(* The types of what a step of the builder leaves alone are kept. *)
LEMMA NextBuildTyped == BuildTypeOK /\ StageInv /\ BuildNext => BuildTypeOK'
<1> SUFFICES ASSUME BuildTypeOK, StageInv, BuildNext PROVE BuildTypeOK'
  OBVIOUS
<1> USE LlamaAssumption
<1>1. CASE Preflight
  BY <1>1 DEF Preflight, BuildTypeOK, directories
<1>2. CASE Clean
  <2>1. NoProducts \in [Names -> Files \cup {NoFile}]
    BY DEF NoProducts, Names
  <2> QED
    BY <1>2, <2>1, StopTyped DEF Clean, Cleaned, BuildTypeOK, bounds, Names
<1>3. CASE Configure
  <2>1. cache' \in Roots \cup {"none"}
    BY <1>3, OptionFields DEF Configure, StageInv, BuildTypeOK
  <2> QED
    BY <1>3, <2>1, StopTyped DEF Configure, BuildTypeOK, local, bounds
<1>4. CASE Build
  <2>1. built' = [built EXCEPT ![Products[at]] = Current]
    BY <1>4 DEF Build, Current
  <2>2. Current \in Files
    BY <1>4, CurrentTyped DEF Build
  <2>3. built' \in [Names -> Files \cup {NoFile}]
    BY <2>1, <2>2 DEF BuildTypeOK, Names
  <2>4. at' \in 1 .. Len(Products) /\ pc' \in {"build", "install"}
    BY <1>4, AdvanceTyped DEF Build, BuildTypeOK
  <2>5. moved' \in BOOLEAN
    BY <1>4 DEF Build, BuildTypeOK
  <2> QED
    BY <1>4, <2>3, <2>4, <2>5 DEF Build, BuildTypeOK, bounds, Names
<1>5. CASE Install
  <2>1. Products[at] \in Names
    BY ProductsAre DEF BuildTypeOK
  <2>2. installed' \in [Names -> Files \cup {NoFile}]
    BY <1>5, <2>1 DEF Install, BuildTypeOK, Names
  <2>3. at' \in 1 .. Len(Products) /\ pc' \in {"install", "metadata"}
    BY <1>5, AdvanceTyped DEF Install, BuildTypeOK
  <2> QED
    BY <1>5, <2>2, <2>3 DEF Install, BuildTypeOK, bounds, Names
<1>6. CASE WriteMetadata
  <2>1. opt.rocm \in Roots /\ head \in 1 .. MaxCommit
    BY <1>6, OptionFields DEF WriteMetadata, StageInv, BuildTypeOK
  <2>2. metadata' \in Files
    BY <1>6, <2>1 DEF WriteMetadata, Described, Files
  <2>3. unclear' \in BOOLEAN
    BY <1>6 DEF WriteMetadata, BuildTypeOK
  <2> QED
    BY <1>6, <2>2, <2>3, StopTyped DEF WriteMetadata, BuildTypeOK, bounds
<1>7. CASE Pull
  BY <1>7 DEF Pull, BuildTypeOK, directories, local, bounds
<1>8. CASE CutOff
  <2>1. Products[at] \in Names
    BY ProductsAre DEF BuildTypeOK
  <2>2. NoProducts \in [Names -> Files \cup {NoFile}]
    BY DEF NoProducts, Names
  <2>3. /\ built' \in [Names -> Files \cup {NoFile}]
        /\ installed' \in [Names -> Files \cup {NoFile}]
        /\ metadata' \in Files \cup {NoFile}
        /\ unclear' \in BOOLEAN /\ cache' = cache
    BY <1>8, <2>1, <2>2 DEF CutOff, BuildTypeOK, directories, Names
  <2> QED
    BY <1>8, <2>3, StopTyped DEF CutOff, BuildTypeOK, Names
<1> QED
  BY <1>1, <1>2, <1>3, <1>4, <1>5, <1>6, <1>7, <1>8 DEF BuildNext

(* An invocation that has ended knows nothing. *)
LEMMA StopKeeps ==
  ASSUME Stop
  PROVE  StageInv' /\ BuiltInv'
BY DEF Stop, StageInv, BuiltInv

LEMMA NextBuilder == BuildTypeOK /\ BuilderInv /\ BuildNext => BuilderInv'
<1> SUFFICES ASSUME BuildTypeOK, BuilderInv, BuildNext PROVE BuilderInv'
  OBVIOUS
<1> USE DEF BuilderInv
<1>1. CASE Preflight
  <2>1. UNCHANGED <<head, cache, built, installed, metadata, at, moved, unclear>> /\ pc = "idle"
    BY <1>1 DEF Preflight, directories
  <2>2. StageInv'
    BY <1>1, <2>1 DEF Preflight, StageInv
  <2>3. pc' \in {"idle", "clean"}
    BY <1>1 DEF Preflight
  <2>4. BuiltInv' /\ ClearInv'
    BY <2>1, <2>3 DEF BuiltInv, ClearInv
  <2> QED
    BY <2>2, <2>4
<1>2. CASE Clean
  <2>1. UNCHANGED <<head, installed, metadata, unclear>> /\ pc = "clean"
    BY <1>2 DEF Clean
  <2>2. ClearInv'
    BY <2>1 DEF ClearInv
  <2>3. CASE Stop
    BY <2>2, <2>3, StopKeeps
  <2>4. CASE ~Stop
    <3>1. /\ IF opt.clean THEN cache' = Cleaned /\ built' = NoProducts
                          ELSE UNCHANGED <<cache, built>>
          /\ pc' = "configure" /\ UNCHANGED <<opt, at, found, moved>>
      BY <1>2, <2>4 DEF Clean
    <3>2. StageInv' /\ BuiltInv'
      BY <2>1, <3>1 DEF StageInv, BuiltInv, Kept, Cleaned
    <3> QED
      BY <2>2, <3>2
  <2> QED
    BY <2>3, <2>4
<1>3. CASE Configure
  <2>1. UNCHANGED <<head, built, installed, metadata, unclear>> /\ pc = "configure"
    BY <1>3 DEF Configure
  <2>2. ClearInv'
    BY <2>1 DEF ClearInv
  <2>3. CASE Stop
    BY <2>2, <2>3, StopKeeps
  <2>4. CASE ~Stop
    <3>1. /\ pc' = "build" /\ cache' = IF cache = "none" THEN opt.rocm ELSE cache
          /\ UNCHANGED <<opt, at, found, moved>>
      BY <1>3, <2>4 DEF Configure, local
    <3>2. StageInv' /\ BuiltInv'
      BY <2>1, <3>1 DEF StageInv, BuiltInv, Resolved, Kept
    <3> QED
      BY <2>2, <3>2
  <2> QED
    BY <2>3, <2>4
<1>4. CASE Build
  <2>1. /\ pc = "build" /\ moved' = (at > 1 /\ moved)
        /\ built' = [built EXCEPT ![Products[at]] = Current]
        /\ UNCHANGED <<head, cache, installed, metadata, opt, found, unclear>>
    BY <1>4 DEF Build, Current
  <2>2. \/ at = 1 /\ at' = 2 /\ pc' = "build"
        \/ at = 2 /\ at' = 1 /\ pc' = "install"
    BY <1>4, <2>1, AdvanceTyped DEF Build, BuildTypeOK
  <2>3. StageInv'
    BY <2>1, <2>2 DEF StageInv, Resolved, Kept
  <2>4. UNCHANGED Current
    BY <2>1 DEF Current
  <2>5. \A p \in Names : built'[p] = IF p = Products[at] THEN Current ELSE built[p]
    BY <2>1 DEF BuildTypeOK, Names
  <2>6. BuiltInv'
    <3>1. CASE at = 1
      <4>1. at' = 2 /\ pc' = "build" /\ built'["library"] = Current
        BY <2>2, <2>5, <3>1, ProductsAre DEF Names
      <4> QED
        BY <2>4, <4>1 DEF BuiltInv
    <3>2. CASE at = 2
      <4>1. at' = 1 /\ pc' = "install" /\ moved' = moved
        BY <2>1, <2>2, <3>2 DEF BuildTypeOK
      <4>2. ~moved => \A p \in Names : built'[p] = Current
        BY <2>1, <2>5, <3>2, ProductsAre DEF BuiltInv, Names
      <4> QED
        BY <2>4, <4>1, <4>2 DEF BuiltInv
    <3> QED
      BY <2>2, <3>1, <3>2
  <2>7. ClearInv'
    BY <2>1 DEF ClearInv
  <2> QED
    BY <2>3, <2>6, <2>7
<1>5. CASE Install
  <2>1. /\ pc = "install" /\ unclear' = TRUE
        /\ installed' = [installed EXCEPT ![Products[at]] = built[Products[at]]]
        /\ UNCHANGED <<head, cache, built, metadata, opt, found, moved>>
    BY <1>5 DEF Install
  <2>2. \/ at = 1 /\ at' = 2 /\ pc' = "install"
        \/ at = 2 /\ at' = 1 /\ pc' = "metadata"
    BY <1>5, <2>1, AdvanceTyped DEF Install, BuildTypeOK
  <2>3. StageInv'
    BY <2>1, <2>2 DEF StageInv, Resolved, Kept
  <2>4. UNCHANGED Current
    BY <2>1 DEF Current
  <2>5. \A p \in Names : installed'[p] = IF p = Products[at] THEN built[p] ELSE installed[p]
    BY <2>1 DEF BuildTypeOK, Names
  <2>6. BuiltInv'
    BY <2>1, <2>2, <2>4, <2>5, ProductsAre DEF BuiltInv, Names
  <2>7. ClearInv'
    BY <2>1 DEF ClearInv
  <2> QED
    BY <2>3, <2>6, <2>7
<1>6. CASE WriteMetadata
  <2>1. /\ pc = "metadata" /\ metadata' = Described
        /\ unclear' = (moved \/ (~opt.clean /\ found \notin {"none", opt.rocm}))
        /\ Stop /\ UNCHANGED installed
    BY <1>6 DEF WriteMetadata
  <2>2. ASSUME ~unclear' PROVE \A p \in Names : installed[p] = Described
    <3>1. ~moved /\ (opt.clean \/ found \in {"none", opt.rocm})
      BY <2>1, <2>2 DEF BuildTypeOK
    <3>2. cache = opt.rocm
      BY <2>1, <3>1 DEF StageInv, Resolved, Kept, Cleaned
    <3>3. \A p \in Names : installed[p] = Current
      BY <2>1, <3>1 DEF BuiltInv
    <3> QED
      BY <3>2, <3>3 DEF Current, Described
  <2>3. ClearInv'
    BY <2>1, <2>2 DEF ClearInv
  <2> QED
    BY <2>1, <2>3, StopKeeps
<1>7. CASE Pull
  <2>1. /\ UNCHANGED <<cache, built, installed, metadata, pc, opt, at, found, unclear>>
        /\ moved' = (pc \in {"build", "install", "metadata"})
    BY <1>7 DEF Pull, directories, local
  <2>2. StageInv' /\ ClearInv'
    BY <2>1 DEF StageInv, Resolved, Kept, ClearInv
  <2>3. BuiltInv'
    BY <2>1 DEF BuiltInv
  <2> QED
    BY <2>2, <2>3
<1>8. CASE CutOff
  <2>1. Stop
    BY <1>8 DEF CutOff
  <2>2. \/ UNCHANGED <<installed, metadata, unclear>>
        \/ unclear' = TRUE
        \/ metadata' = NoFile
    BY <1>8 DEF CutOff, directories
  <2>3. ClearInv'
    BY <2>2 DEF ClearInv
  <2> QED
    BY <2>1, <2>3, StopKeeps
<1> QED
  BY <1>1, <1>2, <1>3, <1>4, <1>5, <1>6, <1>7, <1>8 DEF BuildNext

(* What the benchmark does leaves the builder alone ... *)
LEMMA BuilderFramed ==
  ASSUME BuildTypeOK, BuilderInv, UNCHANGED buildVars
  PROVE  BuildTypeOK' /\ BuilderInv'
<1>1. /\ UNCHANGED <<head, cache, built, installed, metadata, pc, opt, at>>
      /\ UNCHANGED <<found, moved, unclear, runs, faults>>
  BY DEF buildVars, directories, local, history, bounds
<1>2. BuildTypeOK'
  BY <1>1 DEF BuildTypeOK
<1>3. BuilderInv'
  BY <1>1 DEF BuilderInv, StageInv, BuiltInv, ClearInv, Resolved, Kept, Current
<1> QED
  BY <1>2, <1>3

-----------------------------------------------------------------------------
(* The benchmark *)

BenchTypeOK ==
  /\ bpc \in Unread \cup {"load", "compute", "judge", "printed"}
  /\ baseline \in Baselines /\ outcome \in {"none", "pass", "fail"}
  /\ loaded \in [Names -> Files \cup {NoFile}]
  /\ described \in Files \cup {NoFile}
  /\ device \in {"none", "cpu", "gpu"} /\ shown \in Hosts \cup {{}}
  /\ parsed \subseteq Metrics /\ slow \subseteq Metrics
  /\ status \in {"none", "GPU-test-pending", "pass", "fail"}
  /\ benches \in 0 .. MaxBenches

LEMMA TypesTogether == TypeOK <=> BuildTypeOK /\ BenchTypeOK
BY DEF TypeOK, BenchTypeOK, Unread, Names

LEMMA FreshTyped ==
  /\ NoBaseline \in Baselines /\ NoProducts \in [Names -> Files \cup {NoFile}]
  /\ NoFile \in Files \cup {NoFile}
BY DEF NoBaseline, Baselines, NoProducts, Names

(* ... and the builder leaves alone what the benchmark holds. *)
LEMMA BenchFramed ==
  ASSUME BenchTypeOK, BenchInv, UNCHANGED benchVars
  PROVE  BenchTypeOK' /\ BenchInv'
<1>1. /\ UNCHANGED <<bpc, outcome, loaded, described, device, shown>>
      /\ UNCHANGED <<baseline, parsed, slow, status, benches>>
  BY DEF benchVars, report, comparison
<1>2. BenchTypeOK'
  BY <1>1 DEF BenchTypeOK
<1>3. MeasureInv'
  BY <1>1 DEF BenchInv, MeasureInv
<1>4. EvidenceInv' /\ PassIsEvidence'
  BY <1>1 DEF BenchInv, EvidenceInv, Accepted, PassIsEvidence, Passed
<1> QED
  BY <1>2, <1>3, <1>4 DEF BenchInv

LEMMA InitBench == Init => BenchTypeOK /\ BenchInv
<1> SUFFICES ASSUME Init PROVE BenchTypeOK /\ BenchInv
  OBVIOUS
<1>1. benches \in 0 .. MaxBenches
  BY BenchAssumption DEF Init
<1>2. BenchTypeOK
  BY <1>1, FreshTyped DEF Init, BenchTypeOK, Unread
<1>3. BenchInv
  BY DEF Init, BenchInv, MeasureInv, EvidenceInv, PassIsEvidence, Passed, Unread
<1> QED
  BY <1>2, <1>3

(* The two tests of the snapshot do not let more pass than this. *)
LEMMA HonouredIsAccepted ==
  ASSUME NEW seen \in Hosts \cup {{}}, HonoursContract(seen)
  PROVE  /\ \E a \in seen : a.name = "gfx906"
         /\ \A a \in seen : a.size = "32" => \E b \in seen : b.size = "64"
BY DEF HonoursContract

LEMMA NextBenchTyped ==
  ASSUME BuildTypeOK, BenchTypeOK,
         Begin \/ Look \/ Snapshot \/ Exec \/ Load \/ Compute \/ Judge \/ Return
  PROVE  BenchTypeOK'
<1> USE BenchAssumption
<1>1. CASE Begin
  BY <1>1 DEF Begin, WriteReport, BenchTypeOK, Unread, report, comparison
<1>2. CASE Look
  BY <1>2 DEF Look, WriteReport, BenchTypeOK, Unread, report, comparison
<1>3. CASE Snapshot
  <2>1. /\ shown' \in Hosts \cup {{}} /\ bpc' \in {"exec", "printed"}
        /\ status' \in {status, "fail"}
    BY <1>3 DEF Snapshot, WriteReport
  <2> QED
    BY <1>3, <2>1 DEF Snapshot, BenchTypeOK, Unread, comparison
<1>4. CASE Exec
  <2>1. described' \in Files \cup {NoFile}
    BY <1>4 DEF Exec, BuildTypeOK
  <2>2. /\ loaded' \in [Names -> Files \cup {NoFile}]
        /\ bpc' \in {"judge", "load"} /\ outcome' \in {"fail", outcome}
    BY <1>4 DEF Exec, Ran, BuildTypeOK, BenchTypeOK, Names
  <2> QED
    BY <1>4, <2>1, <2>2 DEF Exec, BenchTypeOK, comparison
<1>5. CASE Load
  <2>1. described' \in Files \cup {NoFile}
    BY <1>5 DEF Load, BuildTypeOK
  <2>2. /\ loaded' \in [Names -> Files \cup {NoFile}]
        /\ bpc' \in {"judge", "compute"} /\ outcome' \in {"fail", outcome}
    BY <1>5 DEF Load, Ran, BuildTypeOK, BenchTypeOK, Names
  <2> QED
    BY <1>5, <2>1, <2>2 DEF Load, BenchTypeOK, comparison
<1>6. CASE Compute
  BY <1>6 DEF Compute, Ran, BenchTypeOK, comparison
<1>7. CASE Judge
  <2>1. parsed' \subseteq Metrics /\ slow' \subseteq Metrics
    BY <1>7 DEF Judge
  <2>2. /\ baseline' \in Baselines /\ bpc' = "printed"
        /\ status' \in {"none", "pass", "fail"}
    BY <1>7 DEF Judge, WriteReport
  <2> QED
    BY <1>7, <2>1, <2>2 DEF Judge, BenchTypeOK
<1>8. CASE Return
  BY <1>8, FreshTyped DEF Return, Fresh, BenchTypeOK, Unread
<1> QED
  BY <1>1, <1>2, <1>3, <1>4, <1>5, <1>6, <1>7, <1>8

LEMMA NextBench ==
  ASSUME BuildTypeOK, ClearInv, BenchTypeOK, BenchInv,
         Begin \/ Look \/ Snapshot \/ Exec \/ Load \/ Compute \/ Judge \/ Return
  PROVE  BenchInv'
<1> USE DEF BenchInv
<1>1. CASE Begin
  <2>1. /\ bpc = "idle" /\ bpc' \in {"printed", "look"} /\ (bpc' = "printed" => status' # "pass")
        /\ UNCHANGED <<outcome, loaded, described, device>>
    BY <1>1 DEF Begin, WriteReport, report
  <2> QED
    BY <2>1 DEF MeasureInv, EvidenceInv, PassIsEvidence, Passed, Unread
<1>2. CASE Look
  <2>1. /\ bpc = "look" /\ bpc' \in {"printed", "snapshot"} /\ (bpc' = "printed" => status' # "pass")
        /\ UNCHANGED <<outcome, loaded, described, device>>
    BY <1>2 DEF Look, WriteReport, report
  <2> QED
    BY <2>1 DEF MeasureInv, EvidenceInv, PassIsEvidence, Passed, Unread
<1>3. CASE Snapshot
  <2>1. PICK seen \in Hosts \cup {{}} :
          /\ shown' = seen
          /\ IF HonoursContract(seen) THEN bpc' = "exec" /\ UNCHANGED status
                                      ELSE WriteReport("fail")
    BY <1>3 DEF Snapshot
  <2>2. bpc = "snapshot" /\ UNCHANGED <<outcome, loaded, described, device>>
    BY <1>3 DEF Snapshot
  <2>3. CASE bpc' = "exec"
    <3>1. HonoursContract(seen)
      BY <2>1, <2>3 DEF WriteReport
    <3>2. Accepted'
      BY <2>1, <3>1, HonouredIsAccepted DEF Accepted
    <3> QED
      BY <2>2, <2>3, <3>2 DEF MeasureInv, EvidenceInv, PassIsEvidence, Passed, Unread
  <2>4. CASE bpc' # "exec"
    <3>1. bpc' = "printed" /\ status' = "fail"
      BY <2>1, <2>4 DEF WriteReport
    <3> QED
      BY <2>2, <3>1 DEF MeasureInv, EvidenceInv, PassIsEvidence, Passed, Unread
  <2> QED
    BY <2>3, <2>4
<1>4. CASE Exec
  <2>1. /\ bpc = "exec" /\ described' = IF unclear THEN NoFile ELSE metadata
        /\ UNCHANGED <<device, shown>>
    BY <1>4 DEF Exec
  <2>2. CASE installed["bench"] = NoFile
    <3>1. bpc' = "judge" /\ outcome' = "fail"
      BY <1>4, <2>2 DEF Exec, Ran
    <3>2. described' = NoFile
      BY <2>1, <2>2 DEF ClearInv, Names, BuildTypeOK
    <3> QED
      BY <2>1, <3>1, <3>2 DEF MeasureInv, EvidenceInv, Accepted, PassIsEvidence, Passed, Unread
  <2>3. CASE installed["bench"] # NoFile
    <3>1. /\ bpc' = "load" /\ UNCHANGED outcome
          /\ loaded' = [loaded EXCEPT !["bench"] = installed["bench"]]
      BY <1>4, <2>3 DEF Exec
    <3>2. loaded'["bench"] = installed["bench"]
      BY <3>1 DEF BenchTypeOK, Names
    <3>3. MeasureInv'
      BY <2>1, <3>1, <3>2 DEF MeasureInv, ClearInv, Names, Unread, BuildTypeOK
    <3>4. EvidenceInv' /\ PassIsEvidence'
      BY <2>1, <2>3, <3>1, <3>2 DEF EvidenceInv, Accepted, PassIsEvidence, Passed, Unread
    <3> QED
      BY <3>3, <3>4
  <2> QED
    BY <2>2, <2>3
<1>5. CASE Load
  <2>1. /\ bpc = "load"
        /\ described' = IF unclear \/ metadata # described THEN NoFile ELSE metadata
        /\ UNCHANGED <<device, shown>>
    BY <1>5 DEF Load
  <2>2. CASE installed["library"] = NoFile
    <3>1. bpc' = "judge" /\ outcome' = "fail"
      BY <1>5, <2>2 DEF Load, Ran
    <3>2. described' = NoFile
      BY <2>1, <2>2 DEF ClearInv, Names, BuildTypeOK
    <3> QED
      BY <2>1, <3>1, <3>2 DEF MeasureInv, EvidenceInv, Accepted, PassIsEvidence, Passed, Unread
  <2>3. CASE installed["library"] # NoFile
    <3>1. /\ bpc' = "compute" /\ UNCHANGED outcome
          /\ loaded' = [loaded EXCEPT !["library"] = installed["library"]]
      BY <1>5, <2>3 DEF Load
    <3>2. loaded'["library"] = installed["library"] /\ loaded'["bench"] = loaded["bench"]
      BY <3>1 DEF BenchTypeOK, Names
    <3>3. described' # NoFile =>
            ~unclear /\ described' = metadata /\ described = metadata /\ metadata # NoFile
      BY <2>1 DEF BuildTypeOK
    <3>4. MeasureInv'
      BY <2>1, <3>1, <3>2, <3>3 DEF MeasureInv, ClearInv, Names, Unread
    <3>5. EvidenceInv' /\ PassIsEvidence'
      BY <2>1, <2>3, <3>1, <3>2 DEF EvidenceInv, Accepted, PassIsEvidence, Passed, Unread
    <3> QED
      BY <3>4, <3>5
  <2> QED
    BY <2>2, <2>3
<1>6. CASE Compute
  <2>1. /\ bpc = "compute" /\ bpc' = "judge"
        /\ UNCHANGED <<loaded, described, shown>>
    BY <1>6 DEF Compute, Ran
  <2>2. MeasureInv'
    BY <2>1 DEF MeasureInv, Unread
  <2>3. EvidenceInv' /\ PassIsEvidence'
    BY <2>1 DEF EvidenceInv, Accepted, PassIsEvidence, Passed, Unread
  <2> QED
    BY <2>2, <2>3
<1>7. CASE Judge
  <2>1. /\ bpc = "judge" /\ bpc' = "printed"
        /\ device = "cpu" => slow' = parsed'
        /\ status' = "pass" => ~RunFailed /\ ~Regressed
        /\ UNCHANGED <<outcome, loaded, described, device, shown>>
    BY <1>7 DEF Judge, WriteReport
  <2>2. MeasureInv' /\ EvidenceInv'
    BY <2>1 DEF MeasureInv, EvidenceInv, Unread
  <2>3. PassIsEvidence'
    BY <2>1 DEF PassIsEvidence, Passed, EvidenceInv, Accepted, RunFailed, Regressed
  <2> QED
    BY <2>2, <2>3
<1>8. CASE Return
  BY <1>8 DEF Return, Fresh, MeasureInv, EvidenceInv, PassIsEvidence, Passed, Unread
<1> QED
  BY <1>1, <1>2, <1>3, <1>4, <1>5, <1>6, <1>7, <1>8

LEMMA InitIInv == Init => IInv
BY InitBuilder, InitBench, TypesTogether DEF Init, IInv, BuilderInv

LEMMA NextIInv == IInv /\ [Next]_vars => IInv'
<1> SUFFICES ASSUME IInv, [Next]_vars PROVE IInv'
  OBVIOUS
<1>1. BuildTypeOK /\ BuilderInv /\ BenchTypeOK /\ BenchInv
  BY TypesTogether DEF IInv
<1>2. CASE BuildNext /\ UNCHANGED benchVars
  <2>1. BuildTypeOK' /\ BuilderInv'
    BY <1>1, <1>2, NextBuildTyped, NextBuilder DEF BuilderInv
  <2> QED
    BY <1>1, <1>2, <2>1, BenchFramed, TypesTogether, PTL DEF IInv
<1>3. CASE Begin \/ Look \/ Snapshot \/ Exec \/ Load \/ Compute \/ Judge \/ Return
  <2>1. UNCHANGED buildVars
    BY <1>3 DEF Begin, Look, Snapshot, Exec, Load, Compute, Judge, Return
  <2>2. BuildTypeOK' /\ BuilderInv'
    BY <1>1, <2>1, BuilderFramed
  <2>3. BenchTypeOK' /\ BenchInv'
    BY <1>1, <1>3, NextBenchTyped, NextBench DEF BuilderInv
  <2> QED
    BY <2>2, <2>3, TypesTogether, PTL DEF IInv
<1>4. CASE UNCHANGED vars
  <2>1. UNCHANGED buildVars /\ UNCHANGED benchVars
    BY <1>4 DEF vars
  <2> QED
    BY <1>1, <2>1, BuilderFramed, BenchFramed, TypesTogether, PTL DEF IInv
<1> QED
  BY <1>2, <1>3, <1>4 DEF Next

(* The conjunction that the theorems project. *)
LEMMA Inductive == Spec => []IInv
BY InitIInv, NextIInv, PTL DEF Spec

-----------------------------------------------------------------------------
(* Results *)

(* Whatever the builder and the host do to each other, the variables keep  *)
(* their types: an installed file is absent or whole and of a commit and a *)
(* ROCm that there are.                                                    *)
THEOREM BenchTypeCorrect == Spec => []TypeOK
BY Inductive, PTL DEF IInv

(* Lines 101-204 of build_llama_gfx906.sh: metadata that no invocation     *)
(* left unclear describes both files of the installation, over any number  *)
(* of builds, pulls and cut-offs; a build is unclear only through a pull   *)
(* under it, a cache of another ROCm, or an installation not finished.     *)
THEOREM ClearMetadataDescribes == Spec => []ClearInv
BY Inductive, PTL DEF IInv, BuilderInv

(* Lines 234-267 of mi50_llm_benchmark.py: a report that says "pass" rests *)
(* on a snapshot with a gfx906 and, where some agent was wave32, with one  *)
(* that is wave64, and on whole files; and where the CPU computed, no      *)
(* metric of it was compared with a baseline.                              *)
THEOREM PassOnEvidence == Spec => []PassIsEvidence
BY Inductive, PTL DEF IInv, BenchInv

(* The two loads of llama-bench and the two looks at the metadata: a pass  *)
(* over metadata that was clear and the same both times measured one build *)
(* and the one described.                                                  *)
THEOREM OneBuildMeasured == Spec => []MeasuresOneBuild
<1>1. IInv => MeasuresOneBuild
  BY DEF IInv, BenchInv, MeasureInv, MeasuresOneBuild, Passed, Names
<1> QED
  BY <1>1, Inductive, PTL
=============================================================================
