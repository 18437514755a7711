------------------------ MODULE ValidationSuiteProofs ------------------------
(***************************************************************************)
(* What holds of the validation suite for any list of steps, any set of    *)
(* cards, whatever rocminfo and HIP say of them, and however often the     *)
(* host changes: its type invariant, that "pass" means that every step met *)
(* the hardware, that the exit status hides no failed step, and that the   *)
(* suite comes nearer to its verdict with every step and is stuck in none. *)
(***************************************************************************)
EXTENDS ValidationSuite, SequenceTheorems, FiniteSetTheorems, TLAPS

(* What the suite writes down of a step that met this. *)
StatusOf(met) ==
  IF met = "native" THEN "pass"
  ELSE IF met = "absent" THEN "GPU-test-pending"
  ELSE IF met = "unsupported" THEN "unsupported-on-gfx906" ELSE "fail"

(* The reports say what the steps met, although most of them pass through  *)
(* an exit status, and some through both a JSON status and an exit status. *)
ReportsInv == \A i \in DOMAIN seen : reports[i] = StatusOf(seen[i])

(* Under an ISA override no step gets further than its first test.         *)
OverrideInv ==
  override => /\ phase \in {"start", "hung", "done"}
              /\ \A i \in DOMAIN seen : seen[i] \in {"refused", "broken"}

(* The verdict is given when every step has reported. *)
VerdictInv ==
  verdict # "none" =>
    /\ Len(seen) = Len(Steps)
    /\ verdict = Overall({reports[i] : i \in DOMAIN reports})

IInv == TypeOK /\ ReportsInv /\ OverrideInv /\ VerdictInv

(* The two histories are as long as each other, and no longer than STEPS.  *)
LEMMA Lengths ==
  ASSUME TypeOK
  PROVE  /\ Len(reports) \in Nat /\ Len(seen) = Len(reports) /\ Len(Steps) \in Nat
         /\ Len(reports) <= Len(Steps)
         /\ DOMAIN reports = 1 .. Len(reports) /\ DOMAIN seen = 1 .. Len(reports)
         /\ DOMAIN Steps = 1 .. Len(Steps) /\ 1 \in DOMAIN Steps
<1>1. Len(reports) \in Nat /\ DOMAIN reports = 1 .. Len(reports)
  BY LenProperties DEF TypeOK
<1>2. Len(seen) = Len(reports) /\ DOMAIN seen = 1 .. Len(seen)
  BY LenProperties DEF TypeOK
<1>3. Len(Steps) \in Nat /\ DOMAIN Steps = 1 .. Len(Steps)
  BY LenProperties, SuiteAssumption
<1>4. Len(Steps) # 0
  BY EmptySeq, SuiteAssumption
<1>5. Len(reports) <= Len(Steps)
  BY DEF TypeOK
<1> QED BY <1>1, <1>2, <1>3, <1>4, <1>5

LEMMA InitInv == Init => IInv
<1> SUFFICES ASSUME Init PROVE IInv
  OBVIOUS
<1>1. seen = <<>> /\ reports = <<>> /\ verdict = "none"
  BY DEF Init
<1>2. TypeOK
  BY <1>1, SuiteAssumption DEF Init, TypeOK, Roots
<1>3. ReportsInv /\ OverrideInv /\ VerdictInv
  BY <1>1 DEF Init, ReportsInv, OverrideInv, VerdictInv
<1> QED BY <1>2, <1>3 DEF IInv

(* One more report that says what the step met. *)
LEMMA ReportInv ==
  ASSUME IInv, Running, NEW exit \in {0, 1, 2, 6, 77, 78},
         NEW said \in Statuses \cup {"none", "ready-for-rocr"}, NEW met \in Met,
         Report(exit, said, met), StepStatus(exit, said) = StatusOf(met),
         override => met \in {"refused", "broken"}
  PROVE  IInv'
<1> DEFINE status == StatusOf(met)
<1>1. status \in Statuses
  BY DEF StatusOf, Statuses
<1>2. reports' = Append(reports, status) /\ seen' = Append(seen, met)
  BY DEF Report, Reported
<1>3. /\ reports \in Seq(Statuses) /\ seen \in Seq(Met) /\ Len(seen) = Len(reports)
      /\ Len(reports) + 1 <= Len(Steps)
  BY DEF IInv, TypeOK, Running, at
<1> HIDE DEF status
<1>4. /\ reports' \in Seq(Statuses) /\ seen' \in Seq(Met)
      /\ Len(reports') = Len(reports) + 1 /\ Len(seen') = Len(seen) + 1
      /\ reports'[Len(reports) + 1] = status /\ seen'[Len(seen) + 1] = met
      /\ \A i \in 1 .. Len(seen) : reports'[i] = reports[i] /\ seen'[i] = seen[i]
  <2>1. /\ reports' \in Seq(Statuses) /\ Len(reports') = Len(reports) + 1
        /\ reports'[Len(reports) + 1] = status
        /\ \A i \in 1 .. Len(reports) : reports'[i] = reports[i]
    BY <1>1, <1>2, <1>3, AppendProperties
  <2>2. /\ seen' \in Seq(Met) /\ Len(seen') = Len(seen) + 1
        /\ seen'[Len(seen) + 1] = met
        /\ \A i \in 1 .. Len(seen) : seen'[i] = seen[i]
    BY <1>2, <1>3, AppendProperties
  <2> QED BY <1>3, <2>1, <2>2
<1>5. TypeOK'
  <2>1. Len(seen') = Len(reports') /\ Len(reports') <= Len(Steps)
    BY <1>3, <1>4
  <2>2. phase' = "start" /\ UNCHANGED <<host, setup, verdict>>
    BY DEF Report
  <2>3. UNCHANGED <<cards, kfd, changes, firmware, override, selected, installed, require, verdict>>
    BY <2>2 DEF host, setup
  <2> DEFINE Rest ==
        /\ cards \subseteq Cards /\ kfd \in BOOLEAN /\ firmware \in BOOLEAN
        /\ override \in BOOLEAN /\ require \in BOOLEAN
        /\ selected \in BOOLEAN /\ installed \subseteq Roots
        /\ verdict \in {"none", "pass", "GPU-test-pending", "partial", "fail"}
        /\ changes \in 0 .. MaxChanges
  <2>4. Rest
    BY Zenon DEF IInv, TypeOK
  <2>5. Rest'
    BY <2>3, <2>4
  <2>6. reports' \in Seq(Statuses) /\ seen' \in Seq(Met)
    BY <1>4
  <2>7. phase' \in {"start", "kfd", "no kfd", "probed", "hung", "done"}
    BY <2>2
  <2> QED BY <2>1, <2>5, <2>6, <2>7, Zenon DEF TypeOK
<1>6. \A i \in DOMAIN seen' : i \in DOMAIN seen \/ i = Len(seen) + 1
  BY <1>3, <1>4
<1>7. ReportsInv'
  BY <1>3, <1>4, <1>6 DEF IInv, ReportsInv, status
<1>8. OverrideInv'
  BY <1>3, <1>4, <1>6 DEF IInv, OverrideInv, Report, setup
<1>9. VerdictInv'
  BY DEF Running, Report, VerdictInv
<1> QED BY <1>5, <1>7, <1>8, <1>9 DEF IInv

(* A step goes on to its next test, which an override has excluded. *)
LEMMA PhaseInv ==
  ASSUME IInv, Running, UNCHANGED <<host, setup, reports, seen, verdict>>,
         phase' \in {"kfd", "no kfd", "probed", "hung"}, override => phase' = "hung"
  PROVE  IInv'
<1>1. TypeOK'
  BY DEF IInv, TypeOK, host, setup
<1>2. ReportsInv' /\ OverrideInv' /\ VerdictInv'
  BY DEF IInv, ReportsInv, OverrideInv, VerdictInv, setup, Running
<1> QED BY <1>1, <1>2 DEF IInv

LEMMA StepInv ==
  ASSUME IInv,
         \/ RefuseOverride \/ KernelReadiness \/ GateLook \/ GateProbe \/ GateDiagnose
         \/ SmokeCompile \/ SmokeRun \/ Break \/ Hang \/ TimeOut
  PROVE  IInv'
<1>0. Running
  BY DEF RefuseOverride, KernelReadiness, GateLook, GateProbe, GateDiagnose, SmokeCompile,
     SmokeRun, Break, Hang, TimeOut, Admitted
<1>1. CASE Report(1, "fail", "refused")
  BY <1>0, <1>1, ReportInv DEF StepStatus, StatusOf, Statuses, Met
<1>2. CASE Report(6, "none", "refused") \/ Report(2, "none", "refused")
  BY <1>0, <1>2, ReportInv DEF StepStatus, ByExit, StatusOf, Statuses, Met
<1>3. CASE Report(1, "none", "broken")
  BY <1>0, <1>3, ReportInv DEF StepStatus, ByExit, StatusOf, Statuses, Met
<1>4. CASE ~override /\ Report(0, "GPU-test-pending", "absent")
  BY <1>0, <1>4, ReportInv DEF StepStatus, StatusOf, Statuses, Met
<1>5. CASE ~override /\ Report(77, "none", "absent")
  BY <1>0, <1>5, ReportInv DEF StepStatus, ByExit, StatusOf, Statuses, Met
<1>6. CASE ~override /\ (Report(0, "ready-for-rocr", "native") \/ Report(0, "none", "native"))
  BY <1>0, <1>6, ReportInv DEF StepStatus, ByExit, StatusOf, Statuses, Met
<1>7. CASE ~override /\ Report(0, "pass", "native")
  BY <1>0, <1>7, ReportInv DEF StepStatus, StatusOf, Statuses, Met
<1>8. CASE ~override /\ Report(78, "none", "unsupported")
  BY <1>0, <1>8, ReportInv DEF StepStatus, ByExit, StatusOf, Statuses, Met
<1>9. CASE /\ UNCHANGED <<host, setup, reports, seen, verdict>>
           /\ phase' \in {"kfd", "no kfd", "probed", "hung"} /\ (override => phase' = "hung")
  BY <1>0, <1>9, PhaseInv
<1>10. override => phase \in {"start", "hung", "done"}
  BY DEF IInv, OverrideInv
<1>11. CASE RefuseOverride \/ KernelReadiness \/ Break \/ TimeOut
  BY <1>1, <1>2, <1>3, <1>4, <1>6, <1>11 DEF RefuseOverride, KernelReadiness, Break, TimeOut,
     Admitted
<1>12. CASE GateLook \/ Hang
  BY <1>9, <1>12 DEF GateLook, Hang, Admitted
<1>13. CASE GateProbe \/ GateDiagnose
  BY <1>1, <1>4, <1>7, <1>9, <1>10, <1>13 DEF GateProbe, GateDiagnose
<1>14. CASE SmokeCompile \/ SmokeRun
  BY <1>2, <1>5, <1>6, <1>8, <1>9, <1>10, <1>14 DEF SmokeCompile, SmokeRun, Admitted
<1> QED BY <1>11, <1>12, <1>13, <1>14

LEMMA ConcludeInv == ASSUME IInv, Conclude PROVE IInv'
<1>1. Len(seen) = Len(Steps)
  <2>1. Len(reports) + 1 > Len(Steps)
    BY DEF Conclude, at
  <2>2. /\ Len(reports) \in Nat /\ Len(seen) = Len(reports) /\ Len(Steps) \in Nat
        /\ Len(reports) <= Len(Steps)
    BY Lengths DEF IInv
  <2> QED BY <2>1, <2>2
<1>2. verdict' = Overall({reports'[i] : i \in DOMAIN reports'}) /\ UNCHANGED <<reports, seen>>
  BY DEF Conclude, Overall, setup
<1>3. TypeOK'
  BY <1>2 DEF IInv, TypeOK, Conclude, Overall, host, setup
<1>4. ReportsInv' /\ OverrideInv' /\ VerdictInv'
  BY <1>1, <1>2 DEF IInv, ReportsInv, OverrideInv, VerdictInv, Conclude, Overall, setup
<1> QED BY <1>3, <1>4 DEF IInv

LEMMA ChangeInv == ASSUME IInv, Change \/ UNCHANGED vars PROVE IInv'
<1>1. TypeOK'
  <2>1. CASE Change
    <3>1. changes' \in 0 .. MaxChanges
      <4>1. MaxChanges \in Nat
        BY SuiteAssumption
      <4>2. changes \in 0 .. MaxChanges /\ changes < MaxChanges /\ changes' = changes + 1
        BY <2>1 DEF IInv, TypeOK, Change
      <4> QED BY <4>1, <4>2
    <3>2. cards' \subseteq Cards /\ kfd' \in BOOLEAN
      BY <2>1 DEF IInv, TypeOK, Change
    <3> QED BY <2>1, <3>1, <3>2 DEF IInv, TypeOK, Change, setup
  <2>2. CASE UNCHANGED vars
    BY <2>2 DEF IInv, TypeOK, vars
  <2> QED BY <2>1, <2>2
<1>2. UNCHANGED <<setup, phase, reports, seen, verdict>>
  BY DEF Change, vars, setup
<1>3. ReportsInv' /\ OverrideInv' /\ VerdictInv'
  BY <1>2 DEF IInv, ReportsInv, OverrideInv, VerdictInv, Overall, setup
<1> QED BY <1>1, <1>3 DEF IInv

LEMMA Invariance == Spec => []IInv
<1>1. IInv /\ [Next]_vars => IInv'
  BY StepInv, ConcludeInv, ChangeInv DEF Next, SuiteStep
<1> QED BY <1>1, InitInv, PTL DEF Spec

(* The variables keep their types. *)
THEOREM TypeCorrect == Spec => []TypeOK
<1>1. IInv => TypeOK
  BY DEF IInv
<1> QED BY <1>1, Invariance, PTL

(* "never upgrades a pre-hardware run to runtime support": with any steps  *)
(* and any cards, "pass" is said only if every step met the hardware.      *)
THEOREM PassNeedsHardware == Spec => []PassIsNative
<1>1. ASSUME IInv, verdict = "pass" PROVE ~override /\ \A i \in DOMAIN Steps : seen[i] = "native"
  <2>1. 1 \in DOMAIN Steps
    BY <1>1, Lengths DEF IInv
  <2>2. DOMAIN seen = DOMAIN Steps /\ DOMAIN reports = DOMAIN seen
    BY <1>1, Lengths DEF IInv, VerdictInv
  <2>3. \A i \in DOMAIN seen : reports[i] \notin {"fail", "GPU-test-pending", "unsupported-on-gfx906"}
    BY <1>1, <2>2 DEF IInv, VerdictInv, Overall
  <2>4. \A i \in DOMAIN seen : seen[i] = "native"
    BY <1>1, <2>3 DEF IInv, ReportsInv, StatusOf
  <2>5. ~override
    BY <1>1, <2>1, <2>2, <2>4 DEF IInv, OverrideInv
  <2> QED BY <2>2, <2>4, <2>5
<1>2. IInv => PassIsNative
  BY <1>1 DEF PassIsNative
<1> QED BY <1>2, Invariance, PTL

(* The suite fails exactly if a step failed, or was without the GPU that   *)
(* --require-gpu asks for.                                                 *)
THEOREM ExitStatusHonest == Spec => []ExitIsHonest
<1>1. ASSUME IInv, verdict # "none"
      PROVE  verdict # "fail" <=>
               \A i \in DOMAIN seen :
                 seen[i] \notin {"refused", "broken"} /\ (require => seen[i] # "absent")
  <2>1. DOMAIN reports = DOMAIN seen /\ \A i \in DOMAIN seen : seen[i] \in Met
    BY <1>1, Lengths, ElementOfSeq DEF IInv, TypeOK
  <2>2. verdict = "fail" <=>
          \E i \in DOMAIN seen : reports[i] = "fail" \/ (require /\ reports[i] = "GPU-test-pending")
    BY <1>1, <2>1 DEF IInv, VerdictInv, Overall
  <2>3. \A i \in DOMAIN seen : seen[i] \in Met /\ reports[i] = StatusOf(seen[i])
    BY <1>1, <2>1 DEF IInv, ReportsInv
  <2> QED BY <2>2, <2>3 DEF StatusOf, Met
<1>2. IInv => ExitIsHonest
  BY <1>1 DEF ExitIsHonest
<1> QED BY <1>2, Invariance, PTL

-----------------------------------------------------------------------------
(* Why the suite ends: it never comes back to where it was, and in no      *)
(* state is it at a loss.  What the prover cannot conclude from that, that *)
(* a fair suite reaches its verdict, is left to the run.                   *)

(* How far a step has got, a hanging one farthest: only the timeout is     *)
(* left of it.                                                             *)
RankOf(p) ==
  IF p = "start" THEN 0 ELSE IF p \in {"kfd", "no kfd"} THEN 1
  ELSE IF p = "probed" THEN 2 ELSE IF p = "hung" THEN 3 ELSE 4
Rank == RankOf(phase)

Progress == 4 * Len(reports) + Rank
MaxProgress == 4 * Len(Steps) + 4

(* Every step of the suite and of what it runs takes it on towards a bound *)
(* that is fixed from the start, and no change of the host takes it back.  *)
Advances ==
  [][/\ Progress' >= Progress
     /\ SuiteStep \/ Break \/ Hang => Progress' > Progress]_vars

(* A phase goes with the step that may be in it: the gates look, both they *)
(* and the smoke scripts ask HIP, and the last phase is that of a verdict. *)
PhaseFits ==
  /\ phase \in {"kfd", "no kfd"} => kind = "gate"
  /\ phase = "probed" => kind = "gate" \/ kind \in SmokeKinds
  /\ phase = "done" <=> verdict # "none"

(* The suite can go on: the guard of one of its own steps holds.           *)
CanGoOn ==
  \/ at > Len(Steps)
  \/ phase \in {"kfd", "no kfd"}
  \/ phase = "hung" /\ Expires
  \/ phase = "start" /\ kind \in {"readiness", "gate"} \cup SmokeKinds
  \/ phase = "probed" /\ kind = "gate"
  \/ phase = "probed" /\ kind \in SmokeKinds /\ (DevicesRefused \/ TooFewDevices \/ DevicesSuffice)

NeverAtALoss == verdict = "none" => CanGoOn

(* Whatever cards HIP finds, the program refuses them, finds too few or    *)
(* can use them.                                                           *)
LEMMA DevicesForeseen ==
  ASSUME TypeOK, kind \in SmokeKinds
  PROVE  DevicesRefused \/ TooFewDevices \/ DevicesSuffice
<1>1. Cardinality(Visible) \in Nat /\ (Cardinality(Visible) = 0 <=> Visible = {})
  <2>1. Visible \subseteq Cards
    BY DEF Visible, TypeOK
  <2>2. IsFiniteSet(Visible)
    BY <2>1, SuiteAssumption, FS_Subset
  <2> QED
    BY <2>2, FS_CardinalityType, FS_EmptySet
<1>2. Visible # {} => \A c \in Visible : Native(c) => Accepted(c)
  BY DEF Accepted
<1>3. CASE kind = "pair"
  <2>1. Cardinality(Visible) = 0 \/ Cardinality(Visible) = 1 \/ Cardinality(Visible) >= 2
    BY <1>1
  <2> QED
    BY <1>1, <1>3, <2>1 DEF DevicesRefused, TooFewDevices, DevicesSuffice
<1>4. CASE kind # "pair" /\ Visible = {}
  BY <1>4 DEF DevicesRefused, TooFewDevices
<1>5. CASE kind # "pair" /\ Visible # {}
  <2>1. Cardinality(Visible) >= 1
    BY <1>1, <1>5
  <2>2. CASE \A c \in Visible : Native(c)
    BY <1>2, <1>5, <2>1, <2>2 DEF DevicesSuffice
  <2>3. CASE \E c \in Visible : ~Native(c)
    BY <1>5, <2>3 DEF DevicesRefused
  <2> QED
    BY <2>2, <2>3
<1> QED
  BY <1>3, <1>4, <1>5

LEMMA Ranks ==
  /\ RankOf("start") = 0 /\ RankOf("kfd") = 1 /\ RankOf("no kfd") = 1
  /\ RankOf("probed") = 2 /\ RankOf("hung") = 3 /\ RankOf("done") = 4
BY DEF RankOf

LEMMA RankRange ==
  ASSUME TypeOK
  PROVE  Rank \in 0 .. 4 /\ (phase # "done" => Rank \in 0 .. 3)
<1>1. phase \in {"start", "kfd", "no kfd", "probed", "hung", "done"}
  BY DEF TypeOK
<1>2. Rank \in {0, 1, 2, 3, 4} /\ (phase # "done" => Rank \in {0, 1, 2, 3})
  BY <1>1, Ranks DEF Rank
<1> QED
  BY <1>2

(* A report moves the suite to the next step, whatever phase this one was  *)
(* in.                                                                     *)
LEMMA ReportAdvances ==
  ASSUME IInv, PhaseFits, Running, NEW exit, NEW said, NEW met, Report(exit, said, met)
  PROVE  Progress' > Progress /\ PhaseFits'
<1>1. phase' = "start" /\ reports' = Append(reports, StepStatus(exit, said)) /\ verdict' = verdict
  BY DEF Report, Reported
<1>2. Len(reports) \in Nat
  BY Lengths DEF IInv
<1>3. Len(reports') = Len(reports) + 1
  <2>1. reports \in Seq(Statuses)
    BY DEF IInv, TypeOK
  <2>2. StepStatus(exit, said) \in Statuses
    BY DEF StepStatus, ByExit, Statuses
  <2> QED
    BY <1>1, <2>1, <2>2, AppendProperties
<1>4. Rank \in 0 .. 3
  <2>1. phase # "done"
    BY DEF PhaseFits, Running
  <2> QED
    BY <2>1, RankRange DEF IInv
<1>5. Rank' = 0
  BY <1>1, Ranks DEF Rank
<1>6. Progress' > Progress
  BY <1>2, <1>3, <1>4, <1>5 DEF Progress
<1>7. PhaseFits'
  BY <1>1 DEF PhaseFits, Running
<1> QED
  BY <1>6, <1>7

(* So does a test, within the step. *)
LEMMA PhaseAdvances ==
  ASSUME IInv, UNCHANGED reports,
         NEW n \in Nat, NEW m \in Nat, Rank = n, Rank' = m, n < m
  PROVE  Progress' > Progress
<1>1. Len(reports) \in Nat
  BY Lengths DEF IInv
<1>2. Progress = 4 * Len(reports) + n /\ Progress' = 4 * Len(reports) + m
  BY DEF Progress
<1> QED
  BY <1>1, <1>2

LEMMA StepAdvances ==
  ASSUME IInv, PhaseFits, SuiteStep \/ Break \/ Hang
  PROVE  Progress' > Progress /\ PhaseFits'
<1>1. CASE Running /\ \E exit, said, met : Report(exit, said, met)
  <2>1. PICK exit, said, met : Report(exit, said, met)
    BY <1>1
  <2> QED
    BY <1>1, <2>1, ReportAdvances
<1>2. UNCHANGED reports => kind' = kind
  BY DEF kind, at
<1>3. CASE GateLook
  <2>1. phase = "start" /\ phase' \in {"kfd", "no kfd"} /\ kind = "gate" /\ verdict = "none"
    BY <1>3 DEF GateLook, Admitted, Running
  <2>2. UNCHANGED <<reports, verdict>>
    BY <1>3 DEF GateLook
  <2>3. Rank = 0 /\ Rank' = 1
    BY <2>1, Ranks DEF Rank
  <2>4. PhaseFits'
    BY <1>2, <2>1, <2>2 DEF PhaseFits
  <2> QED
    BY <2>2, <2>3, <2>4, PhaseAdvances
<1>4. ASSUME phase \in {"kfd", "no kfd", "start"}, phase' = "probed", verdict = "none",
             kind = "gate" \/ kind \in SmokeKinds, UNCHANGED reports, UNCHANGED verdict
      PROVE  Progress' > Progress /\ PhaseFits'
  <2>1. Rank \in {0, 1} /\ Rank' = 2
    BY <1>4, Ranks DEF Rank
  <2>2. PhaseFits'
    BY <1>2, <1>4 DEF PhaseFits, SmokeKinds
  <2>3. reports' = reports
    BY <1>4
  <2>4. CASE Rank = 0
    BY <2>1, <2>2, <2>3, <2>4, PhaseAdvances
  <2>5. CASE Rank = 1
    BY <2>1, <2>2, <2>3, <2>5, PhaseAdvances
  <2> QED
    BY <2>1, <2>2, <2>4, <2>5
<1>5. CASE GateProbe
  <2>1. Running /\ phase \in {"kfd", "no kfd"} /\ verdict = "none" /\ kind = "gate"
    BY <1>5 DEF GateProbe, Running, PhaseFits
  <2>2. CASE phase' = "probed" /\ UNCHANGED <<setup, reports, seen, verdict>>
    BY <1>4, <2>1, <2>2
  <2>3. CASE \E exit, said, met : Report(exit, said, met)
    BY <1>1, <2>1, <2>3
  <2> QED
    BY <1>5, <2>2, <2>3 DEF GateProbe
<1>6. CASE SmokeCompile
  <2>1. Running /\ phase = "start" /\ verdict = "none" /\ kind \in SmokeKinds
    BY <1>6 DEF SmokeCompile, Admitted, Running
  <2>2. CASE phase' = "probed" /\ UNCHANGED <<setup, reports, seen, verdict>>
    BY <1>4, <2>1, <2>2
  <2>3. CASE \E exit, said, met : Report(exit, said, met)
    BY <1>1, <2>1, <2>3
  <2> QED
    BY <1>6, <2>2, <2>3 DEF SmokeCompile
<1>7. CASE Hang
  <2>1. phase \in {"start", "probed"} /\ phase' = "hung" /\ verdict = "none"
    BY <1>7 DEF Hang, Running
  <2>2. UNCHANGED <<reports, verdict>>
    BY <1>7 DEF Hang
  <2>3. Rank \in {0, 2} /\ Rank' = 3
    BY <2>1, Ranks DEF Rank
  <2>4. PhaseFits'
    BY <2>1, <2>2 DEF PhaseFits
  <2> QED
    BY <2>2, <2>3, <2>4, PhaseAdvances
<1>8. CASE Conclude
  <2>1. phase' = "done" /\ verdict = "none" /\ UNCHANGED reports
    BY <1>8 DEF Conclude
  <2>2. verdict' # "none"
    BY <1>8 DEF Conclude, Overall
  <2>3. Rank \in 0 .. 3
    BY <2>1, RankRange DEF PhaseFits, IInv
  <2>4. Rank' = 4
    BY <2>1, Ranks DEF Rank
  <2>5. PhaseFits'
    BY <2>1, <2>2 DEF PhaseFits
  <2> QED
    BY <2>1, <2>3, <2>4, <2>5, PhaseAdvances
<1>9. ASSUME RefuseOverride \/ KernelReadiness \/ GateDiagnose \/ SmokeRun \/ Break \/ TimeOut
      PROVE  Running /\ \E exit, said, met : Report(exit, said, met)
  BY <1>9 DEF RefuseOverride, KernelReadiness, GateDiagnose, SmokeRun, Break, TimeOut, Admitted
<1> QED
  BY <1>1, <1>3, <1>5, <1>6, <1>7, <1>8, <1>9 DEF SuiteStep

LEMMA OthersKeep ==
  ASSUME IInv, PhaseFits, Change \/ UNCHANGED vars
  PROVE  Progress' = Progress /\ PhaseFits'
<1>1. UNCHANGED <<phase, reports, verdict>>
  BY DEF Change, vars
<1>2. kind' = kind /\ Progress' = Progress
  BY <1>1 DEF kind, at, Progress, Rank
<1>3. PhaseFits'
  BY <1>1, <1>2 DEF PhaseFits
<1> QED
  BY <1>2, <1>3

LEMMA PhasesFit == Spec => []PhaseFits
<1>1. Init => PhaseFits
  BY DEF Init, PhaseFits
<1>2. IInv /\ PhaseFits /\ [Next]_vars => PhaseFits'
  BY StepAdvances, OthersKeep DEF Next
<1> QED
  BY <1>1, <1>2, Invariance, PTL DEF Spec

(* subprocess.run with a timeout, one step after the other: the suite      *)
(* takes at most MaxProgress steps of its own, however the host changes.   *)
THEOREM SuiteAdvances == Spec => Advances /\ [](Progress \in 0 .. MaxProgress)
<1>1. IInv => Progress \in 0 .. MaxProgress
  <2>1. ASSUME IInv PROVE Progress \in 0 .. MaxProgress
    <3>1. Len(reports) \in Nat /\ Len(Steps) \in Nat /\ Len(reports) <= Len(Steps)
      BY <2>1, Lengths DEF IInv
    <3>2. Rank \in 0 .. 4
      BY <2>1, RankRange DEF IInv
    <3>3. \A n, m \in Nat, k \in 0 .. 4 : n <= m => 4 * n + k \in 0 .. (4 * m + 4)
      OBVIOUS
    <3> QED
      BY <3>1, <3>2, <3>3 DEF Progress, MaxProgress
  <2> QED
    BY <2>1
<1>2. ASSUME IInv, PhaseFits, IInv', [Next]_vars
      PROVE  Progress' >= Progress /\ (SuiteStep \/ Break \/ Hang => Progress' > Progress)
  <2>1. Progress \in Nat
    <3>1. Len(Steps) \in Nat
      BY <1>2, Lengths DEF IInv
    <3> QED
      BY <1>1, <1>2
  <2>2. Progress' \in Nat
    <3>1. Len(reports') \in Nat
      BY <1>2, LenProperties DEF IInv, TypeOK
    <3>2. Rank' \in 0 .. 4
      <4>1. phase' \in {"start", "kfd", "no kfd", "probed", "hung", "done"}
        BY <1>2 DEF IInv, TypeOK
      <4>2. Rank' \in {0, 1, 2, 3, 4}
        BY <4>1, Ranks DEF Rank
      <4> QED
        BY <4>2
    <3> QED
      BY <3>1, <3>2 DEF Progress
  <2>3. CASE SuiteStep \/ Break \/ Hang
    <3>1. Progress' > Progress
      BY <1>2, <2>3, StepAdvances
    <3> QED
      BY <2>1, <2>2, <3>1
  <2>4. CASE ~(SuiteStep \/ Break \/ Hang)
    <3>1. Progress' = Progress
      BY <1>2, <2>4, OthersKeep DEF Next
    <3> QED
      BY <2>1, <2>4, <3>1
  <2> QED
    BY <2>3, <2>4
<1> QED
  BY <1>1, <1>2, Invariance, PhasesFit, PTL DEF Spec, Advances

(* No card, missing root or lost /dev/kfd leaves a program without an      *)
(* answer that the suite can report.                                       *)
THEOREM SuiteNeverAtALoss == Spec => []NeverAtALoss
<1>1. ASSUME IInv, PhaseFits, verdict = "none" PROVE CanGoOn
  <2>1. at <= Len(Steps) => kind \in StepKinds
    <3>1. Len(reports) \in Nat /\ Len(Steps) \in Nat /\ DOMAIN Steps = 1 .. Len(Steps)
      BY <1>1, Lengths DEF IInv
    <3>2. at <= Len(Steps) => at \in DOMAIN Steps
      BY <3>1 DEF at
    <3> QED
      BY <3>2, SuiteAssumption, ElementOfSeq DEF kind, at
  <2>2. at > Len(Steps) \/ at <= Len(Steps)
    <3>1. at \in Nat /\ Len(Steps) \in Nat
      BY <1>1, Lengths DEF IInv, at
    <3> QED
      BY <3>1
  <2>3. phase \in {"start", "kfd", "no kfd", "probed", "hung"}
    BY <1>1 DEF IInv, TypeOK, PhaseFits
  <2>4. kind \in StepKinds => kind \in {"readiness", "gate"} \cup SmokeKinds
    BY DEF StepKinds, SmokeKinds
  <2>5. CASE phase = "probed"
    <3>1. kind = "gate" \/ kind \in SmokeKinds
      BY <1>1, <2>5 DEF PhaseFits
    <3>2. kind \in SmokeKinds => DevicesRefused \/ TooFewDevices \/ DevicesSuffice
      BY <1>1, DevicesForeseen DEF IInv
    <3> QED
      BY <2>5, <3>1, <3>2 DEF CanGoOn
  <2>6. CASE phase = "start"
    BY <2>1, <2>2, <2>4, <2>6 DEF CanGoOn
  <2>7. CASE phase \in {"kfd", "no kfd", "hung"}
    BY <2>7 DEF CanGoOn, Expires
  <2> QED
    BY <2>3, <2>5, <2>6, <2>7
<1>2. IInv /\ PhaseFits => NeverAtALoss
  BY <1>1 DEF NeverAtALoss
<1> QED
  BY <1>2, Invariance, PhasesFit, PTL
=============================================================================
