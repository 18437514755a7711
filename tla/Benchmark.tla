------------------------------ MODULE Benchmark -----------------------------
(***************************************************************************)
(* scripts/mi50_llm_benchmark.py over the installation that LlamaBuild     *)
(* keeps changing, on a host that changes too: cards may be lost, or come  *)
(* back, between any two of its observations, so each may find anything.   *)
(***************************************************************************)
EXTENDS LlamaBuild

CONSTANTS
  Hosts,       \* the sets of GPU agents that rocminfo may print
  Metrics,     \* the throughput fields of a report
  MaxBenches   \* bound: benchmarks

(* An agent is printed with its name and its wavefront size, which may be  *)
(* left out.                                                               *)
Agents == [name : {"gfx906", "another"}, size : {"none", "32", "64"}]

ASSUME BenchAssumption == Hosts \subseteq SUBSET Agents /\ MaxBenches \in Nat

(* --baseline: not given, not readable as JSON or not an object of         *)
(* metrics, a JSON value that is no object at all, or positive values for  *)
(* some metrics.                                                           *)
Baselines == [kind : {"none", "invalid", "no object"}, metrics : {{}}]
               \cup [kind : {"valid"}, metrics : SUBSET Metrics]

NoBaseline == [kind |-> "none", metrics |-> {}]

VARIABLES
  bpc,
  outcome,    \* of llama-bench: not run yet, passed or failed
  loaded,     \* history: the files that were loaded
  described,  \* history: what the metadata said, if it was clear at each load
  device,     \* history: where llama-bench computed
  shown,      \* history: the agents that the snapshot before showed
  baseline,   \* as the benchmark has read it
  parsed,     \* the metrics that were found in the output
  slow,       \* history: those of them that are below the tolerance
  status,     \* of the last report
  benches

comparison == <<baseline, parsed, slow>>
report == <<outcome, loaded, described, device, shown, comparison>>
benchVars == <<bpc, report, status, benches>>
vars == <<buildVars, benchVars>>

Fresh ==
  /\ outcome' = "none" /\ loaded' = NoProducts /\ described' = NoFile
  /\ device' = "none" /\ shown' = {} /\ baseline' = NoBaseline
  /\ parsed' = {} /\ slow' = {}

Init ==
  /\ BuildInit
  /\ bpc = "idle" /\ outcome = "none"
  /\ loaded = NoProducts /\ described = NoFile /\ device = "none" /\ shown = {}
  /\ baseline = NoBaseline /\ parsed = {} /\ slow = {} /\ status = "none"
  /\ benches = 0

(* The report is printed; its exit status is 0 unless it says "fail".      *)
WriteReport(verdict) == status' = verdict /\ bpc' = "printed"

-----------------------------------------------------------------------------
(* Mutant: the wavefront size is not looked at. *)
NameSuffices(seen) == \E a \in seen : a.name = "gfx906"

(* parse_rocminfo, which collects the names and the sizes of all agents    *)
(* apart, and the two tests of its result.                                 *)
HonoursContract(seen) ==
  /\ \E a \in seen : a.name = "gfx906"
  /\ (\E a \in seen : a.size # "none") => \E a \in seen : a.size = "64"

(* validate_environment refuses overrides and other targets, then the      *)
(* model must exist; a dry run stops here.                                 *)
Begin ==
  /\ bpc = "idle" /\ benches < MaxBenches /\ benches' = benches + 1
  /\ \/ WriteReport("fail")
     \/ WriteReport("GPU-test-pending")
     \/ bpc' = "look" /\ UNCHANGED status
  /\ UNCHANGED <<buildVars, report>>

(* Is there /dev/kfd; without it --require-gpu fails. *)
Look ==
  /\ bpc = "look"
  /\ \/ bpc' = "snapshot" /\ UNCHANGED status
     \/ WriteReport("fail")
     \/ WriteReport("GPU-test-pending")
  /\ UNCHANGED <<buildVars, report, benches>>

(* The snapshot before: rocminfo of the ROCm tree, which prints no agent   *)
(* if it is missing or fails.                                              *)
Snapshot ==
  /\ bpc = "snapshot"
  /\ \E seen \in Hosts \cup {{}} :
       /\ shown' = seen
       /\ IF HonoursContract(seen) THEN bpc' = "exec" /\ UNCHANGED status
                                   ELSE WriteReport("fail")
  /\ UNCHANGED <<buildVars, outcome, loaded, described, device, comparison, benches>>

Ran(result) == outcome' = result /\ bpc' = "judge"

(* The llama-bench of the installation is started: it is missing, cut off, *)
(* or loaded ...                                                           *)
Exec ==
  /\ bpc = "exec"
  /\ described' = IF unclear THEN NoFile ELSE metadata
  /\ IF installed["bench"] = NoFile
       THEN Ran("fail") /\ UNCHANGED loaded
       ELSE /\ loaded' = [loaded EXCEPT !["bench"] = installed["bench"]]
            /\ bpc' = "load" /\ UNCHANGED outcome
  /\ UNCHANGED <<buildVars, device, shown, comparison, status, benches>>

(* ... and loads its library. *)
Load ==
  /\ bpc = "load"
  /\ described' = IF unclear \/ metadata # described THEN NoFile ELSE metadata
  /\ IF installed["library"] = NoFile
       THEN Ran("fail") /\ UNCHANGED loaded
       ELSE /\ loaded' = [loaded EXCEPT !["library"] = installed["library"]]
            /\ bpc' = "compute" /\ UNCHANGED outcome
  /\ UNCHANGED <<buildVars, device, shown, comparison, status, benches>>

(* It computes on a card or on the CPU: no card may be left, or it may be  *)
(* hidden from it, --gpu-layers may be 0, it may be built without HIP; all *)
(* of that is slow but no error.  It may fail, also because the files do   *)
(* not fit, or take longer than an hour.                                   *)
Compute ==
  /\ bpc = "compute"
  /\ device' \in {"cpu", "gpu"}
  /\ Ran("pass") \/ Ran("fail")
  /\ UNCHANGED <<buildVars, loaded, described, shown, comparison, status, benches>>

RunFailed == outcome # "pass"

(* compare_baseline: a metric that is not in the output is passed over.    *)
Regressed == baseline'.metrics \cap slow' # {}

(* parse_throughput finds the metrics of the lines that its patterns       *)
(* match, also in the output of a failed run; the snapshot after is        *)
(* recorded and not looked at; a baseline that is no object ends the       *)
(* script with a traceback.  On the CPU every metric is slow.              *)
Judge ==
  /\ bpc = "judge"
  /\ parsed' \in IF device = "none" THEN {{}} ELSE SUBSET Metrics
  /\ slow' \in IF device = "cpu" THEN {parsed'} ELSE SUBSET parsed'
  /\ baseline' \in Baselines
  /\ \/ baseline'.kind = "no object" /\ WriteReport("none")
     \/ baseline'.kind = "invalid" /\ WriteReport("fail")
     \/ /\ baseline'.kind \in {"none", "valid"}
        /\ WriteReport(IF RunFailed \/ Regressed THEN "fail" ELSE "pass")
  /\ UNCHANGED <<buildVars, outcome, loaded, described, device, shown, benches>>

Return ==
  /\ bpc = "printed" /\ bpc' = "idle"
  /\ Fresh
  /\ UNCHANGED <<buildVars, status, benches>>

Next ==
  \/ BuildNext /\ UNCHANGED benchVars
  \/ Begin \/ Look \/ Snapshot \/ Exec \/ Load \/ Compute \/ Judge \/ Return

Spec == Init /\ [][Next]_vars

-----------------------------------------------------------------------------
(* Properties *)

(* Every variable has its type. *)
TypeOK ==
  /\ BuildTypeOK
  /\ bpc \in {"idle", "look", "snapshot", "exec", "load", "compute", "judge",
              "printed"}
  /\ baseline \in Baselines /\ outcome \in {"none", "pass", "fail"}
  /\ loaded \in [{"library", "bench"} -> Files \cup {NoFile}]
  /\ described \in Files \cup {NoFile}
  /\ device \in {"none", "cpu", "gpu"} /\ shown \in Hosts \cup {{}}
  /\ parsed \subseteq Metrics /\ slow \subseteq Metrics
  /\ status \in {"none", "GPU-test-pending", "pass", "fail"}
  /\ benches \in 0 .. MaxBenches

Passed == bpc = "printed" /\ status = "pass"

(* What a pass is evidence of, whatever the host and the builder did       *)
(* meanwhile.  The snapshot showed a gfx906; if an agent that it showed is *)
(* wave32, another one is wave64, so that a single card is never wave32,   *)
(* but which of several agents is wave64, or whether any is, no pass says. *)
(* The files were whole.  And nothing says that a GPU computed, unless a   *)
(* metric was compared with its baseline.                                  *)
PassIsEvidence ==
  Passed =>
    /\ \E a \in shown : a.name = "gfx906"
    /\ \A a \in shown : a.size = "32" => \E b \in shown : b.size = "64"
    /\ NoFile \notin {loaded["bench"], loaded["library"]}
    /\ device = "cpu" => baseline.metrics \cap parsed = {}

(* Where the builder's metadata was clear when llama-bench was started and *)
(* the same when it loaded its library, the pass is about the very build   *)
(* that it describes, even with the builder at work meanwhile.             *)
MeasuresOneBuild ==
  (Passed /\ described # NoFile) =>
    \A p \in {"library", "bench"} : loaded[p] = described
=============================================================================
