--------------------------- MODULE ValidationSuite ---------------------------
(***************************************************************************)
(* scripts/mi50_validation_suite.py with the programs it starts one after  *)
(* the other: mi50_kernel_readiness.py, mi50_hardware_gate.py,             *)
(* mi50_runtime_validation.py and the run_*_smoke.sh scripts.  Cards may   *)
(* fall off the bus, come back or lose /dev/kfd between any two steps, and *)
(* between the test of a step and what the step does after it.             *)
(***************************************************************************)
EXTENDS Naturals, Sequences, FiniteSets

CONSTANTS
  Steps,      \* STEPS, each step by its kind
  Cards,      \* the cards that may be in the host
  Agent,      \* what rocminfo and HIP say of each card
  MaxChanges  \* bound: how often the host changes during the suite

(* "gate" stands for the two Python gates, which decide alike.  Of the     *)
(* smoke programs, "strict" ones fail if HIP finds no device, "plain" ones *)
(* call that pending, "optional" ones may be unsupported and "pair" is     *)
(* RCCL.  The wavefront size is 0 if the parser does not recognise it: the *)
(* field is absent, or followed by more than the number ("64(0x40)").      *)
StepKinds == {"readiness", "gate", "strict", "plain", "optional", "pair"}
Agents == [name : {"gfx906", "other"}, wave : {0, 32, 64}]

ASSUME SuiteAssumption ==
  /\ Steps \in Seq(StepKinds) /\ Steps # <<>>
  /\ IsFiniteSet(Cards) /\ Agent \in [Cards -> Agents]
  /\ MaxChanges \in Nat

Statuses == {"pass", "GPU-test-pending", "unsupported-on-gfx906", "fail"}

(* Where a program looks for ROCm: the prefix given to the suite; without  *)
(* one the gates search PATH and the smoke scripts use /opt/rocm-mi50.     *)
Roots == {"selected", "path", "default"}

VARIABLES
  cards,     \* the cards bound to amdgpu
  kfd,       \* does /dev/kfd exist
  firmware,  \* are the modules loaded and the Vega20 firmware complete
  override,  \* is an ISA override set (HSA_OVERRIDE_GFX_VERSION)
  selected,  \* was a ROCm prefix given to the suite
  installed, \* the roots that hold a complete ROCm
  require,   \* --require-gpu
  phase,     \* of the current step, or "done"
  reports,   \* the status of every step so far
  seen,      \* history: what each of them met
  verdict,   \* the status of the suite
  changes

vars == <<cards, kfd, firmware, override, selected, installed, require, phase, reports, seen, verdict, changes>>
host == <<cards, kfd, changes>>
setup == <<firmware, override, selected, installed, require>>

(* What a step may meet: the hardware it asks for, none or too little of   *)
(* it, a kernel that is not implemented, a host that contradicts itself or *)
(* the contract, or a failure of its own.                                  *)
Met == {"native", "absent", "unsupported", "refused", "broken"}

Init ==
  /\ cards \in SUBSET Cards /\ kfd \in BOOLEAN /\ firmware \in BOOLEAN
  /\ override \in BOOLEAN /\ selected \in BOOLEAN
  /\ installed \in SUBSET (IF selected THEN {"selected"} ELSE {"path", "default"})
  /\ require \in BOOLEAN
  /\ phase = "start"
  /\ reports = <<>> /\ seen = <<>>
  /\ verdict = "none"
  /\ changes = 0

-----------------------------------------------------------------------------
(* What a step finds *)

at == Len(reports) + 1
kind == Steps[at]
Running == verdict = "none" /\ at <= Len(Steps)
Admitted == Running /\ phase = "start" /\ ~override
Root == IF selected THEN "selected" ELSE IF kind = "gate" THEN "path" ELSE "default"

(* collect_readiness *)
ReadinessErrors == cards # {} /\ (~kfd \/ ~firmware)
Readiness ==
  IF ReadinessErrors THEN "fail"
  ELSE IF cards = {} \/ ~kfd THEN "GPU-test-pending" ELSE "ready-for-rocr"

(* rocminfo and HIP see no card without /dev/kfd. *)
Visible == IF kfd THEN cards ELSE {}

(* parse_rocminfo: names and sizes are collected apart from each other.    *)
Names == {Agent[c].name : c \in Visible}
Sizes == {Agent[c].wave : c \in Visible} \ {0}
HonoursContract == "gfx906" \in Names /\ (Sizes = {} \/ 64 \in Sizes)

(* The device tests of the smoke programs. *)
Native(c) == Agent[c].name = "gfx906" /\ Agent[c].wave # 32

(* The first one, mi50_runtime_smoke.hip, looks at the name only. *)
Accepted(c) == Native(c) \/ (kind = "strict" /\ Agent[c].name = "gfx906")

ByExit(exit) ==
  IF exit = 0 THEN "pass"
  ELSE IF exit = 77 THEN "GPU-test-pending"
  ELSE IF exit = 78 THEN "unsupported-on-gfx906" ELSE "fail"

(* run_step: a status in the program's JSON overrides its exit status,     *)
(* because the gates exit 0 when they are pending.                         *)
StepStatus(exit, said) == IF said \in Statuses THEN said ELSE ByExit(exit)

(* Mutant: a report is appended by run_step and again by run_suite.        *)
ReportTwice(status) == reports \o <<status, status>>

Reported(status) == Append(reports, status)

Report(exit, said, met) ==
  /\ reports' = Reported(StepStatus(exit, said))
  /\ seen' = Append(seen, met)
  /\ phase' = "start"
  /\ UNCHANGED <<host, setup, verdict>>

-----------------------------------------------------------------------------
(* The steps *)

(* Every program refuses an ISA override before it looks at the host. *)
RefuseOverride ==
  /\ Running /\ phase = "start" /\ override
  /\ IF kind \in {"readiness", "gate"} THEN Report(1, "fail", "refused")
                                       ELSE Report(6, "none", "refused")

KernelReadiness ==
  /\ Admitted /\ kind = "readiness"
  /\ \/ Readiness = "fail" /\ Report(1, "fail", "refused")
     \/ Readiness = "GPU-test-pending" /\ Report(0, "GPU-test-pending", "absent")
     \/ Readiness = "ready-for-rocr" /\ Report(0, "ready-for-rocr", "native")

(* Both gates look for /dev/kfd before they ask what the kernel says.      *)
GateLook ==
  /\ Admitted /\ kind = "gate"
  /\ phase' = IF kfd THEN "kfd" ELSE "no kfd"
  /\ UNCHANGED <<host, setup, reports, seen, verdict>>

(* The gates call no diagnostic program without /dev/kfd. *)
Diagnoses == phase = "kfd"

GateProbe ==
  /\ Running /\ phase \in {"kfd", "no kfd"}
  /\ \/ Readiness = "fail" /\ Report(1, "fail", "refused")
     \/ /\ Readiness # "fail" /\ ~Diagnoses
        /\ Report(0, "GPU-test-pending", "absent")
     \/ /\ Readiness # "fail" /\ Diagnoses
        /\ phase' = "probed"
        /\ UNCHANGED <<host, setup, reports, seen, verdict>>

(* rocminfo, hipconfig and amd-smi, run later than the test above. *)
GateDiagnose ==
  /\ Running /\ phase = "probed" /\ kind = "gate"
  /\ \/ Root \in installed /\ HonoursContract /\ Report(0, "pass", "native")
     \/ ~(Root \in installed /\ HonoursContract) /\ Report(1, "fail", "refused")

SmokeKinds == {"strict", "plain", "optional", "pair"}

(* A smoke script looks for its tools, compiles, and looks for /dev/kfd.   *)
SmokeCompile ==
  /\ Admitted /\ kind \in SmokeKinds
  /\ \/ (Root \notin installed \/ ~kfd) /\ Report(77, "none", "absent")
     \/ /\ Root \in installed /\ kfd
        /\ phase' = "probed"
        /\ UNCHANGED <<host, setup, reports, seen, verdict>>

(* The device that a program uses is the first one or every one. *)
DevicesRefused ==
  IF kind = "pair" THEN Visible = {} \/ (Cardinality(Visible) >= 2 /\ \E c \in Visible : ~Native(c))
  ELSE IF Visible = {} THEN kind = "strict"
  ELSE \E c \in Visible : ~Native(c)

DevicesSuffice ==
  /\ Cardinality(Visible) >= (IF kind = "pair" THEN 2 ELSE 1)
  /\ IF kind = "pair" THEN \A c \in Visible : Native(c) ELSE \E c \in Visible : Accepted(c)

TooFewDevices ==
  IF kind = "pair" THEN Cardinality(Visible) = 1 ELSE Visible = {} /\ kind # "strict"

(* The compiled program; with cards of both sorts the outcome depends on   *)
(* which one HIP lists first, and on whether the program uses all of them. *)
SmokeRun ==
  /\ Running /\ phase = "probed" /\ kind \in SmokeKinds
  /\ \/ DevicesRefused /\ Report(2, "none", "refused")
     \/ TooFewDevices /\ Report(77, "none", "absent")
     \/ DevicesSuffice /\ Report(0, "none", "native")
     \/ DevicesSuffice /\ kind = "optional" /\ Report(78, "none", "unsupported")

(* A compiler error, a wrong result, a lost device, a missing file.        *)
Break ==
  /\ Running /\ phase \in {"start", "probed"}
  /\ Report(1, "none", "broken")

Hang ==
  /\ Running /\ phase \in {"start", "probed"}
  /\ phase' = "hung"
  /\ UNCHANGED <<host, setup, reports, seen, verdict>>

(* Mutant: no timeout is passed to subprocess.run. *)
NeverExpires == FALSE

Expires == TRUE

TimeOut ==
  /\ Running /\ phase = "hung" /\ Expires
  /\ Report(1, "none", "broken")

(* Mutant: a suite with a pending step is pending. *)
PendingFirst(statuses) ==
  IF "GPU-test-pending" \in statuses /\ ~require THEN "GPU-test-pending"
  ELSE IF statuses \cap {"fail", "GPU-test-pending"} # {} THEN "fail"
  ELSE IF "unsupported-on-gfx906" \in statuses THEN "partial" ELSE "pass"

(* Mutant: pending steps count only where a GPU is required. *)
PendingPasses(statuses) ==
  IF "fail" \in statuses \/ (require /\ "GPU-test-pending" \in statuses) THEN "fail"
  ELSE IF "unsupported-on-gfx906" \in statuses THEN "partial" ELSE "pass"

Overall(statuses) ==
  IF "fail" \in statuses \/ (require /\ "GPU-test-pending" \in statuses) THEN "fail"
  ELSE IF "GPU-test-pending" \in statuses THEN "GPU-test-pending"
  ELSE IF "unsupported-on-gfx906" \in statuses THEN "partial" ELSE "pass"

Conclude ==
  /\ verdict = "none" /\ at > Len(Steps)
  /\ verdict' = Overall({reports[i] : i \in DOMAIN reports})
  /\ phase' = "done"
  /\ UNCHANGED <<host, setup, reports, seen>>

SuiteStep ==
  \/ RefuseOverride \/ KernelReadiness \/ GateLook \/ GateProbe \/ GateDiagnose
  \/ SmokeCompile \/ SmokeRun \/ TimeOut \/ Conclude

(* A card is lost or found, /dev/kfd disappears or appears. *)
Change ==
  /\ verdict = "none" /\ changes < MaxChanges
  /\ changes' = changes + 1
  /\ \/ \E c \in Cards : cards' = (cards \ {c}) \cup ({c} \ cards)
        /\ UNCHANGED kfd
     \/ kfd' = ~kfd /\ UNCHANGED cards
  /\ UNCHANGED <<setup, phase, reports, seen, verdict>>

Next == SuiteStep \/ Break \/ Hang \/ Change

Spec == Init /\ [][Next]_vars

(* The interpreter goes on, and an expired timeout kills the child.        *)
FairSpec == Spec /\ WF_vars(SuiteStep)

-----------------------------------------------------------------------------
(* Properties *)

(* Every variable has its type. *)
TypeOK ==
  /\ cards \subseteq Cards /\ kfd \in BOOLEAN /\ firmware \in BOOLEAN
  /\ override \in BOOLEAN /\ require \in BOOLEAN
  /\ selected \in BOOLEAN /\ installed \subseteq Roots
  /\ phase \in {"start", "kfd", "no kfd", "probed", "hung", "done"}
  /\ reports \in Seq(Statuses) /\ seen \in Seq(Met)
  /\ Len(seen) = Len(reports) /\ Len(reports) <= Len(Steps)
  /\ verdict \in {"none", "pass", "GPU-test-pending", "partial", "fail"}
  /\ changes \in 0 .. MaxChanges

(* "The suite never upgrades a pre-hardware run to runtime support": it    *)
(* says "pass", and so claims native execution, only if every step met the *)
(* hardware, at whatever moment cards and /dev/kfd came or went, and none  *)
(* was told to take it for another GPU.                                    *)
PassIsNative ==
  verdict = "pass" => ~override /\ \A i \in DOMAIN Steps : seen[i] = "native"

(* The exit status, which CI looks at, is 0 exactly if no step failed and, *)
(* where a GPU is required, none was without it; a pending step does not   *)
(* hide a failed one.                                                      *)
ExitIsHonest ==
  verdict # "none" =>
    (verdict # "fail" <=>
       \A i \in DOMAIN seen :
         seen[i] \notin {"refused", "broken"} /\ (require => seen[i] # "absent"))

(* A step that hangs does not keep the suite from its report. *)
SuiteEnds == <>(verdict # "none")
=============================================================================
