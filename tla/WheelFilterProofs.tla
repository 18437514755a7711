-------------------------- MODULE WheelFilterProofs -------------------------
(***************************************************************************)
(* What holds of the wheel stage for any wheels, any number of overlapping *)
(* runs and any number of kills: its type invariant, that the filter never *)
(* leaves a wheel that is neither upstream's nor exactly filtered, and, of *)
(* a run that meets no other one, that what it accepts is exact and its    *)
(* verdict right.                                                          *)
(***************************************************************************)
EXTENDS WheelFilter, TLAPS

(* A whole wheel is one of upstream's, filtered or not yet. *)
WholeInv ==
  \A p \in Packages : dist[p].state = "whole" =>
    \/ dist[p] \in Upstream
    \/ \E w \in Upstream : dist[p] = Filtered(w)

(* The filter holds a wheel of upstream's, which it has reason to rewrite. *)
CopyInv ==
  \A r \in Runs : pc[r] \in {"write", "replace"} =>
    at[r] \in Packages /\ copy[r] \in Upstream /\ ~Unchanged(copy[r])

FailedInv ==
  \A r \in Runs : pc[r] \notin {"validate", "accepted", "refused"} => ~failed[r]

AloneInv ==
  \A r \in Runs : alone[r] =>
    pc[r] # "idle" /\ \A s \in Runs \ {r} : pc[s] = "idle"

(* The filter has passed w. *)
Fine(w) == w = NoWheel \/ w.oneRecord

(* What a run that is alone has made of the wheels it built, label by      *)
(* label.                                                                  *)
Building(r) == pc[r] = "build" => \A p \in Packages : dist[p] = meant[r][p]

Filtering(r) ==
  /\ pc[r] \in {"read", "write", "replace"} =>
       \A p \in Packages :
         /\ p < at[r] => dist[p] = Filtered(meant[r][p]) /\ Fine(meant[r][p])
         /\ p >= at[r] => dist[p] = meant[r][p]
  /\ pc[r] \in {"write", "replace"} => copy[r] = dist[at[r]] /\ copy[r].oneRecord
  /\ pc[r] = "replace" => <<r, at[r]>> \in litter

Validating(r) ==
  /\ pc[r] \in {"validate", "accepted"} =>
       \A p \in Packages : dist[p] = Filtered(meant[r][p]) /\ Fine(meant[r][p])
  /\ pc[r] = "validate" =>
       (failed[r] <=> \E p \in Packages : p < at[r] /\ ~Valid(p, dist[p]))
  /\ pc[r] = "accepted" => \A p \in Packages : Valid(p, dist[p])
  /\ pc[r] = "refused" => \E p \in Packages : Flawed(p, meant[r][p])

RunInv ==
  \A r \in Runs : alone[r] =>
    /\ \A p \in Packages : meant[r][p] \in Upstream \cup {NoWheel}
    /\ Building(r) /\ Filtering(r) /\ Validating(r)

IInv == TypeOK /\ WholeInv /\ CopyInv /\ FailedInv /\ AloneInv /\ RunInv

USE WheelAssumption

-----------------------------------------------------------------------------
(* One wheel *)

LEMMA WheelTypes ==
  /\ NoWheel \in Wheels /\ Torn \in Wheels
  /\ NoWheel.state = "absent" /\ ~NoWheel.oneRecord /\ NoWheel.members = {}
  /\ Torn.state = "torn" /\ ~Torn.oneRecord
  /\ Empty \in [Packages -> Wheels]
  /\ \A w \in Upstream : w \in Wheels /\ w.state = "whole"
BY DEF NoWheel, Torn, Empty, Wheels

(* Filtering keeps state and RECORD count, and has nothing left to do. *)
LEMMA FilteredShape ==
  ASSUME NEW w \in Wheels
  PROVE  /\ Filtered(w) \in Wheels
         /\ Filtered(w).state = w.state
         /\ Filtered(w).oneRecord = w.oneRecord
         /\ Filtered(w).members = Kept(w.members)
         /\ Filtered(w).rows = IF Unchanged(w) THEN w.rows ELSE NewRows(w)
         /\ Unchanged(Filtered(w))
<1>1. /\ Kept(w.members) \in SUBSET Members /\ NewRows(w) \in SUBSET Members
      /\ Kept(Kept(w.members)) = Kept(w.members)
  BY DEF Kept, NewRows, Wheels
<1>2. CASE Unchanged(w)
  BY <1>2 DEF Filtered, Unchanged
<1>3. CASE ~Unchanged(w)
  <2>1. Filtered(w) = [w EXCEPT !.members = Kept(w.members), !.rows = NewRows(w)]
    BY <1>3 DEF Filtered
  <2> QED BY <1>1, <1>3, <2>1 DEF Wheels, Unchanged
<1> QED BY <1>2, <1>3

LEMMA FilteredNothing == Filtered(NoWheel) = NoWheel
BY WheelTypes DEF Filtered, Unchanged, Kept

(* The stage refuses a wheel, in the filter or the validator, exactly if   *)
(* it has a flaw.                                                          *)
LEMMA FlawedIsRefused ==
  ASSUME NEW p \in Packages, NEW w \in Upstream \cup {NoWheel}
  PROVE  Flawed(p, w) <=> ~w.oneRecord \/ ~Valid(p, Filtered(w))
<1>1. w \in Wheels
  BY WheelTypes
<1>2. CASE w = NoWheel
  BY <1>2, WheelTypes DEF Flawed
<1>3. CASE w \in Upstream
  <2> DEFINE kept == {m \in w.members : ~FilterExcludes(Facts[m].path)}
  <2>1. w.state = "whole" /\ kept = Kept(w.members) /\ w.members \subseteq Members
    BY <1>1, <1>3, WheelTypes DEF Kept, Wheels
  <2>2. CASE kept = w.members
    <3>1. Filtered(w) = w
      BY <2>1, <2>2 DEF Filtered, Unchanged
    <3> QED BY <2>1, <2>2, <3>1 DEF Flawed, Valid
  <2>3. CASE kept # w.members
    <3>1. /\ Filtered(w).state = "whole" /\ Filtered(w).oneRecord = w.oneRecord
          /\ Filtered(w).members = kept
          /\ Filtered(w).rows = {m \in kept : ~Facts[m].comma}
      BY <1>1, <2>1, <2>3, FilteredShape DEF Unchanged, NewRows
    <3> QED BY <2>1, <2>3, <3>1 DEF Flawed, Valid
  <2> QED BY <2>2, <2>3
<1> QED BY <1>2, <1>3

-----------------------------------------------------------------------------

LEMMA InitInv == Init => IInv
<1> SUFFICES ASSUME Init PROVE IInv
  OBVIOUS
<1>1. TypeOK
  BY WheelTypes DEF Init, TypeOK, Labels
<1>2. WholeInv
  BY WheelTypes DEF Init, WholeInv, Empty
<1> QED BY <1>1, <1>2 DEF Init, IInv, CopyInv, FailedInv, AloneInv, RunInv

USE DEF Goto, directory, local, bounds, IInv

(* While a run is alone no other one is under way. *)
LEMMA OnlyOne ==
  ASSUME AloneInv, NEW r \in Runs, pc[r] # "idle", NEW s \in Runs, alone[s]
  PROVE  s = r
BY DEF AloneInv

LEMMA StartInv == ASSUME IInv, NEW r \in Runs, Start(r) PROVE IInv'
<1>1. TypeOK'
  BY WheelTypes DEF Start, TypeOK, Labels
<1>2. WholeInv'
  BY WheelTypes DEF Start, WholeInv, Empty
<1>3. CopyInv' /\ FailedInv'
  BY DEF Start, CopyInv, FailedInv, TypeOK
<1>4. \A s \in Runs : alone'[s] => s = r /\ \A t \in Runs \ {r} : pc[t] = "idle"
  BY DEF Start
<1>5. pc' = [pc EXCEPT ![r] = "build"] /\ dist' = Empty /\ meant' = [s \in Runs |-> Empty]
  BY DEF Start
<1>6. AloneInv'
  BY <1>4, <1>5 DEF AloneInv, TypeOK
<1>7. RunInv'
  <2> SUFFICES ASSUME NEW s \in Runs, alone'[s]
               PROVE  /\ \A p \in Packages : meant'[s][p] \in Upstream \cup {NoWheel}
                      /\ Building(s)' /\ Filtering(s)' /\ Validating(s)'
    BY DEF RunInv
  <2>1. pc'[s] = "build"
    BY <1>4, <1>5 DEF TypeOK
  <2> QED BY <1>5, <2>1 DEF Building, Filtering, Validating, Empty
<1> QED BY <1>1, <1>2, <1>3, <1>6, <1>7

(* A process that ends takes its share of the invariant with it. *)
LEMMA GoneInv ==
  ASSUME IInv, NEW r \in Runs, Gone(r), pc[r] # "idle",
         dist' \in [Packages -> Wheels], litter' \subseteq Runs \X Packages,
         starts' \in 0 .. MaxStarts, faults' \in 0 .. MaxFaults, WholeInv'
  PROVE  IInv'
<1>1. TypeOK'
  BY WheelTypes DEF Gone, TypeOK, Labels
<1>2. CopyInv' /\ FailedInv'
  BY DEF Gone, CopyInv, FailedInv, TypeOK
<1>3. \A s \in Runs : ~alone'[s]
  BY OnlyOne DEF Gone, TypeOK
<1> QED BY <1>1, <1>2, <1>3 DEF AloneInv, RunInv

(* A step of a run that goes on concerns no run but itself. *)
LEMMA StepInv ==
  ASSUME IInv, NEW r \in Runs, pc[r] # "idle", UNCHANGED alone,
         NEW label \in Labels \ {"idle"}, Goto(r, label),
         alone[r] => /\ \A p \in Packages : meant'[r][p] \in Upstream \cup {NoWheel}
                     /\ Building(r)' /\ Filtering(r)' /\ Validating(r)'
  PROVE  AloneInv' /\ RunInv'
<1>1. AloneInv'
  BY DEF AloneInv, TypeOK
<1>2. \A s \in Runs : alone'[s] => s = r /\ alone[r]
  BY OnlyOne
<1> QED BY <1>1, <1>2 DEF RunInv

LEMMA BuildInv == ASSUME IInv, NEW r \in Runs, Build(r) PROVE IInv'
<1>1. pc[r] = "build" /\ UNCHANGED <<litter, copy, failed, alone, starts, faults>>
  BY DEF Build
<1>2. CASE Past(r, "read") /\ UNCHANGED <<dist, meant>>
  <2>1. TypeOK' /\ WholeInv' /\ CopyInv' /\ FailedInv'
    BY <1>1, <1>2 DEF Past, TypeOK, WholeInv, CopyInv, FailedInv, Labels, Packages
  <2>2. ASSUME alone[r]
        PROVE  /\ \A p \in Packages : meant'[r][p] \in Upstream \cup {NoWheel}
               /\ Building(r)' /\ Filtering(r)' /\ Validating(r)'
    <3>1. pc'[r] = "read" /\ at'[r] = 1
      BY <1>2 DEF Past, TypeOK
    <3>2. \A p \in Packages : ~(p < 1)
      BY DEF Packages
    <3>3. \A p \in Packages : meant[r][p] \in Upstream \cup {NoWheel} /\ dist[p] = meant[r][p]
      BY <1>1, <2>2 DEF RunInv, Building
    <3> QED BY <1>2, <3>1, <3>2, <3>3 DEF Building, Filtering, Validating
  <2> QED BY <1>1, <1>2, <2>1, <2>2, StepInv DEF Past, Labels
<1>3. CASE at[r] \in Packages /\ Advance(r, "build") /\ UNCHANGED <<dist, meant>>
  <2>1. TypeOK' /\ WholeInv' /\ CopyInv' /\ FailedInv'
    BY <1>1, <1>3 DEF Advance, TypeOK, WholeInv, CopyInv, FailedInv, Labels, Packages
  <2>2. ASSUME alone[r]
        PROVE  /\ \A p \in Packages : meant'[r][p] \in Upstream \cup {NoWheel}
               /\ Building(r)' /\ Filtering(r)' /\ Validating(r)'
    BY <1>1, <1>3, <2>2 DEF Advance, TypeOK, RunInv, Building, Filtering, Validating
  <2> QED BY <1>1, <1>3, <2>1, <2>2, StepInv DEF Advance, Labels
<1>4. CASE /\ at[r] \in Packages /\ Advance(r, "build")
           /\ \E w \in Upstream :
                /\ dist' = [dist EXCEPT ![at[r]] = w]
                /\ meant' = IF alone[r] THEN [meant EXCEPT ![r][at[r]] = w]
                                        ELSE meant
  <2>1. PICK w \in Upstream :
          /\ dist' = [dist EXCEPT ![at[r]] = w]
          /\ meant' = IF alone[r] THEN [meant EXCEPT ![r][at[r]] = w] ELSE meant
    BY <1>4
  <2>2. w \in Wheels
    BY WheelTypes
  <2>3. dist' \in [Packages -> Wheels] /\ WholeInv'
    BY <1>4, <2>1, <2>2 DEF TypeOK, WholeInv
  <2>4. meant' \in [Runs -> [Packages -> Wheels]]
    BY <1>4, <2>1, <2>2 DEF TypeOK
  <2>5. TypeOK' /\ CopyInv' /\ FailedInv'
    BY <1>1, <1>4, <2>3, <2>4 DEF Advance, TypeOK, CopyInv, FailedInv, Labels, Packages
  <2>6. ASSUME alone[r]
        PROVE  /\ \A p \in Packages : meant'[r][p] \in Upstream \cup {NoWheel}
               /\ Building(r)' /\ Filtering(r)' /\ Validating(r)'
    <3>1. \A p \in Packages :
            /\ meant[r][p] \in Upstream \cup {NoWheel} /\ dist[p] = meant[r][p]
            /\ meant'[r][p] = IF p = at[r] THEN w ELSE meant[r][p]
            /\ dist'[p] = IF p = at[r] THEN w ELSE dist[p]
      BY <1>1, <1>4, <2>1, <2>6 DEF TypeOK, RunInv, Building
    <3>2. pc'[r] = "build"
      BY <1>4 DEF Advance, TypeOK
    <3> QED BY <3>1, <3>2 DEF Building, Filtering, Validating
  <2> QED BY <1>1, <1>4, <2>3, <2>5, <2>6, StepInv DEF Advance, Labels
<1> QED BY <1>2, <1>3, <1>4 DEF Build

(* What the filter finds changed is a wheel of upstream's. *)
LEMMA ChangedIsUpstream ==
  ASSUME TypeOK, WholeInv, NEW p \in Packages,
         dist[p].state = "whole", ~Unchanged(dist[p])
  PROVE  dist[p] \in Upstream
BY WheelTypes, FilteredShape DEF WholeInv

LEMMA ReadInv == ASSUME IInv, NEW r \in Runs, Read(r) PROVE IInv'
<1>1. pc[r] = "read" /\ UNCHANGED <<dist, litter, failed, meant, alone, starts, faults>>
  BY DEF Read
<1>2. WholeInv'
  BY <1>1 DEF WholeInv
<1> DEFINE Own == /\ \A p \in Packages : meant'[r][p] \in Upstream \cup {NoWheel}
                  /\ Building(r)' /\ Filtering(r)' /\ Validating(r)'
<1>3. ASSUME alone[r], NEW p \in Packages
      PROVE  /\ meant[r][p] \in Upstream \cup {NoWheel}
             /\ p < at[r] => dist[p] = Filtered(meant[r][p]) /\ Fine(meant[r][p])
             /\ p >= at[r] => dist[p] = meant[r][p]
  BY <1>1, <1>3 DEF RunInv, Filtering
<1>4. CASE Past(r, "validate") /\ UNCHANGED copy
  <2>1. TypeOK' /\ CopyInv' /\ FailedInv'
    BY <1>1, <1>4 DEF Past, TypeOK, CopyInv, FailedInv, Labels, Packages
  <2>2. \A p \in Packages : p < at[r]
    BY <1>4 DEF Past, TypeOK, Packages
  <2>3. ~failed[r] /\ at'[r] = 1 /\ pc'[r] = "validate"
    BY <1>1, <1>4 DEF Past, TypeOK, FailedInv
  <2>4. ASSUME alone[r] PROVE Own
    BY <1>1, <1>3, <2>2, <2>3, <2>4 DEF Building, Filtering, Validating, Packages
  <2> QED BY <1>1, <1>2, <1>4, <2>1, <2>4, StepInv DEF Past, Labels
<1>5. CASE /\ at[r] \in Packages /\ Advance(r, "read") /\ UNCHANGED copy
           /\ \/ dist[at[r]].state = "absent"
              \/ dist[at[r]].oneRecord /\ Unchanged(dist[at[r]])
  <2>1. TypeOK' /\ CopyInv' /\ FailedInv'
    BY <1>1, <1>5 DEF Advance, TypeOK, CopyInv, FailedInv, Labels, Packages
  <2>2. pc'[r] = "read" /\ at'[r] = at[r] + 1
    BY <1>5 DEF Advance, TypeOK
  <2>3. ASSUME alone[r] PROVE Own
    <3>1. dist[at[r]] = Filtered(meant[r][at[r]]) /\ Fine(meant[r][at[r]])
      <4>1. dist[at[r]] = meant[r][at[r]] /\ meant[r][at[r]] \in Upstream \cup {NoWheel}
        BY <1>3, <1>5, <2>3 DEF Packages
      <4>2. CASE dist[at[r]] = NoWheel
        BY <4>1, <4>2, FilteredNothing DEF Fine
      <4>3. CASE dist[at[r]].oneRecord /\ Unchanged(dist[at[r]])
        BY <4>1, <4>3 DEF Fine, Filtered
      <4> QED BY <1>5, <4>1, <4>2, <4>3, WheelTypes
    <3>2. \A p \in Packages : p < at'[r] <=> p < at[r] \/ p = at[r]
      BY <1>5, <2>2 DEF Packages
    <3>3. \A p \in Packages : p >= at'[r] => p >= at[r]
      BY <1>5, <2>2 DEF Packages
    <3> QED BY <1>1, <1>3, <2>2, <2>3, <3>1, <3>2, <3>3 DEF Building, Filtering, Validating
  <2> QED BY <1>1, <1>2, <1>5, <2>1, <2>3, StepInv DEF Advance, Labels
<1>6. CASE /\ at[r] \in Packages /\ Goto(r, "refused") /\ UNCHANGED <<at, copy>>
           /\ dist[at[r]].state # "absent" /\ ~dist[at[r]].oneRecord
  <2>1. TypeOK' /\ CopyInv' /\ FailedInv' /\ pc'[r] = "refused"
    BY <1>1, <1>6 DEF TypeOK, CopyInv, FailedInv, Labels
  <2>2. ASSUME alone[r] PROVE Own
    <3>1. Flawed(at[r], meant[r][at[r]])
      BY <1>3, <1>6, <2>2, FlawedIsRefused DEF Packages
    <3> QED BY <1>1, <1>3, <1>6, <2>1, <2>2, <3>1 DEF Building, Filtering, Validating, Flawed
  <2> QED BY <1>1, <1>2, <1>6, <2>1, <2>2, StepInv DEF Labels
<1>7. CASE /\ at[r] \in Packages /\ Goto(r, "write") /\ UNCHANGED at
           /\ copy' = [copy EXCEPT ![r] = dist[at[r]]]
           /\ dist[at[r]].state = "whole" /\ dist[at[r]].oneRecord
           /\ ~Unchanged(dist[at[r]])
  <2>1. dist[at[r]] \in Upstream
    BY <1>7, ChangedIsUpstream
  <2>2. TypeOK' /\ FailedInv' /\ pc'[r] = "write" /\ copy'[r] = dist[at[r]]
    BY <1>1, <1>7 DEF TypeOK, FailedInv, Labels
  <2>3. CopyInv'
    BY <1>7, <2>1 DEF CopyInv, TypeOK
  <2>4. ASSUME alone[r] PROVE Own
    BY <1>1, <1>3, <1>7, <2>2, <2>4 DEF Building, Filtering, Validating
  <2> QED BY <1>1, <1>2, <1>7, <2>2, <2>3, <2>4, StepInv DEF Labels
<1>8. \/ Past(r, "validate") /\ UNCHANGED copy
      \/ /\ at[r] \in Packages /\ Advance(r, "read") /\ UNCHANGED copy
         /\ \/ dist[at[r]].state = "absent"
            \/ dist[at[r]].oneRecord /\ Unchanged(dist[at[r]])
      \/ /\ at[r] \in Packages /\ Goto(r, "refused") /\ UNCHANGED <<at, copy>>
         /\ dist[at[r]].state # "absent" /\ ~dist[at[r]].oneRecord
      \/ /\ at[r] \in Packages /\ Goto(r, "write") /\ UNCHANGED at
         /\ copy' = [copy EXCEPT ![r] = dist[at[r]]]
         /\ dist[at[r]].state = "whole" /\ dist[at[r]].oneRecord
         /\ ~Unchanged(dist[at[r]])
  BY DEF Read
<1> HIDE DEF IInv
<1> QED BY <1>4, <1>5, <1>6, <1>7, <1>8

LEMMA WriteInv == ASSUME IInv, NEW r \in Runs, Write(r) PROVE IInv'
<1>1. /\ pc[r] = "write" /\ UNCHANGED <<at, copy, failed, meant, alone, starts, faults>>
      /\ dist' = dist /\ litter' = litter \cup {<<r, at[r]>>} /\ Goto(r, "replace")
  BY DEF Write, Unreplaced
<1>2. at[r] \in Packages
  BY <1>1 DEF CopyInv
<1>3. TypeOK' /\ FailedInv' /\ pc'[r] = "replace"
  BY <1>1, <1>2 DEF TypeOK, FailedInv, Labels
<1>4. WholeInv' /\ CopyInv'
  BY <1>1 DEF WholeInv, CopyInv, TypeOK
<1>5. ASSUME alone[r]
      PROVE  /\ \A p \in Packages : meant'[r][p] \in Upstream \cup {NoWheel}
             /\ Building(r)' /\ Filtering(r)' /\ Validating(r)'
  BY <1>1, <1>3, <1>5 DEF RunInv, Building, Filtering, Validating
<1> QED BY <1>1, <1>3, <1>4, <1>5, StepInv DEF Labels

LEMMA ReplaceInv == ASSUME IInv, NEW r \in Runs, Replace(r) PROVE IInv'
<1>1. /\ pc[r] = "replace" /\ UNCHANGED <<failed, meant, alone, starts, faults>>
      /\ litter' = litter \ {<<r, at[r]>>} /\ copy' = [copy EXCEPT ![r] = NoWheel]
  BY DEF Replace
<1>2. at[r] \in Packages /\ copy[r] \in Upstream /\ ~Unchanged(copy[r])
  BY <1>1 DEF CopyInv
<1>3. CASE /\ <<r, at[r]>> \in litter
           /\ dist' = [dist EXCEPT ![at[r]] = Filtered(copy[r])]
           /\ Advance(r, "read")
  <2>1. Filtered(copy[r]) \in Wheels
    BY <1>2, WheelTypes, FilteredShape
  <2>2. pc'[r] = "read" /\ at'[r] = at[r] + 1
    BY <1>3 DEF Advance, TypeOK
  <2>3. dist' \in [Packages -> Wheels] /\ WholeInv'
    BY <1>2, <1>3, <2>1 DEF TypeOK, WholeInv
  <2>4. TypeOK' /\ CopyInv' /\ FailedInv'
    BY <1>1, <1>2, <1>3, <2>3, WheelTypes
       DEF Advance, TypeOK, CopyInv, FailedInv, Labels, Packages
  <2>5. ASSUME alone[r]
        PROVE  /\ \A p \in Packages : meant'[r][p] \in Upstream \cup {NoWheel}
               /\ Building(r)' /\ Filtering(r)' /\ Validating(r)'
    <3>1. /\ copy[r] = dist[at[r]] /\ copy[r].oneRecord
          /\ \A p \in Packages :
               /\ meant[r][p] \in Upstream \cup {NoWheel}
               /\ p < at[r] => dist[p] = Filtered(meant[r][p]) /\ Fine(meant[r][p])
               /\ p >= at[r] => dist[p] = meant[r][p]
      BY <1>1, <2>5 DEF RunInv, Filtering
    <3>2. meant[r][at[r]] = copy[r]
      BY <1>2, <3>1 DEF Packages
    <3>3. \A p \in Packages : p < at'[r] <=> p < at[r] \/ p = at[r]
      BY <1>2, <2>2 DEF Packages
    <3>4. \A p \in Packages : p >= at'[r] => p >= at[r] /\ p # at[r]
      BY <1>2, <2>2 DEF Packages
    <3>5. \A p \in Packages : p < at[r] => p # at[r]
      BY <1>2 DEF Packages
    <3>6. \A p \in Packages :
            dist'[p] = IF p = at[r] THEN Filtered(meant[r][p]) ELSE dist[p]
      BY <1>3, <3>2 DEF TypeOK
    <3> QED BY <1>1, <2>2, <3>1, <3>2, <3>3, <3>4, <3>5, <3>6
            DEF Building, Filtering, Validating, Fine
  <2> QED BY <1>1, <1>3, <2>3, <2>4, <2>5, StepInv DEF Advance, Labels
<1>4. CASE <<r, at[r]>> \notin litter /\ Goto(r, "refused") /\ UNCHANGED <<dist, at>>
  <2>1. TypeOK' /\ WholeInv' /\ CopyInv' /\ FailedInv'
    BY <1>1, <1>4, WheelTypes DEF TypeOK, WholeInv, CopyInv, FailedInv, Labels
  <2>2. ~alone[r]
    BY <1>1, <1>4 DEF RunInv, Filtering
  <2> QED BY <1>1, <1>4, <2>1, <2>2, StepInv DEF Labels
<1> QED BY <1>3, <1>4 DEF Replace

LEMMA ValidateInv == ASSUME IInv, NEW r \in Runs, Validate(r) PROVE IInv'
<1>1. /\ pc[r] = "validate"
      /\ UNCHANGED <<dist, litter, copy, meant, alone, starts, faults>>
  BY DEF Validate
<1>2. WholeInv'
  BY <1>1 DEF WholeInv
<1>3. ASSUME alone[r]
      PROVE  /\ \A p \in Packages :
                  /\ meant[r][p] \in Upstream \cup {NoWheel}
                  /\ dist[p] = Filtered(meant[r][p]) /\ Fine(meant[r][p])
             /\ failed[r] <=> \E p \in Packages : p < at[r] /\ ~Valid(p, dist[p])
  BY <1>1, <1>3 DEF RunInv, Validating
<1>4. CASE /\ Past(r, IF failed[r] THEN "refused" ELSE "accepted")
           /\ UNCHANGED failed
  <2>1. pc'[r] = (IF failed[r] THEN "refused" ELSE "accepted")
    BY <1>4 DEF Past, TypeOK
  <2>2. TypeOK' /\ CopyInv' /\ FailedInv'
    BY <1>1, <1>4 DEF Past, TypeOK, CopyInv, FailedInv, Labels, Packages
  <2>3. \A p \in Packages : p < at[r]
    BY <1>4 DEF Past, TypeOK, Packages
  <2>4. ASSUME alone[r]
        PROVE  /\ \A p \in Packages : meant'[r][p] \in Upstream \cup {NoWheel}
               /\ Building(r)' /\ Filtering(r)' /\ Validating(r)'
    <3>1. failed[r] => \E p \in Packages : Flawed(p, meant[r][p])
      BY <1>3, <2>4, FlawedIsRefused
    <3>2. ~failed[r] => \A p \in Packages : Valid(p, dist[p])
      BY <1>3, <2>3, <2>4
    <3> QED BY <1>1, <1>3, <2>1, <2>4, <3>1, <3>2
            DEF Building, Filtering, Validating, Valid, Flawed
  <2> QED BY <1>1, <1>2, <1>4, <2>2, <2>4, StepInv DEF Past, Labels
<1>5. CASE /\ at[r] \in Packages
           /\ failed' = [failed EXCEPT ![r] = @ \/ ~Valid(at[r], dist[at[r]])]
           /\ Advance(r, "validate")
  <2>1. pc'[r] = "validate" /\ at'[r] = at[r] + 1
    BY <1>5 DEF Advance, TypeOK
  <2>2. failed' \in [Runs -> BOOLEAN]
    BY <1>5 DEF TypeOK
  <2>3. TypeOK' /\ CopyInv' /\ FailedInv'
    BY <1>1, <1>5, <2>2 DEF Advance, TypeOK, CopyInv, FailedInv, Labels, Packages
  <2>4. ASSUME alone[r]
        PROVE  /\ \A p \in Packages : meant'[r][p] \in Upstream \cup {NoWheel}
               /\ Building(r)' /\ Filtering(r)' /\ Validating(r)'
    <3>1. failed'[r] <=> failed[r] \/ ~Valid(at[r], dist[at[r]])
      BY <1>5 DEF TypeOK
    <3>2. \A p \in Packages : p < at'[r] <=> p < at[r] \/ p = at[r]
      BY <1>5, <2>1 DEF Packages
    <3>3. failed'[r] <=> \E p \in Packages : p < at'[r] /\ ~Valid(p, dist[p])
      BY <1>3, <1>5, <2>4, <3>1, <3>2
    <3> QED BY <1>1, <1>3, <2>1, <2>4, <3>3 DEF Building, Filtering, Validating, Valid
  <2> QED BY <1>1, <1>2, <1>5, <2>3, <2>4, StepInv DEF Advance, Labels
<1> QED BY <1>4, <1>5 DEF Validate

LEMMA ExitInv == ASSUME IInv, NEW r \in Runs, Exit(r) PROVE IInv'
<1>1. /\ pc[r] # "idle" /\ Gone(r)
      /\ UNCHANGED <<dist, litter, starts, faults>>
  BY DEF Exit
<1>2. WholeInv'
  BY <1>1 DEF WholeInv
<1>3. dist' \in [Packages -> Wheels] /\ litter' \subseteq Runs \X Packages
      /\ starts' \in 0 .. MaxStarts /\ faults' \in 0 .. MaxFaults
  BY <1>1 DEF TypeOK
<1> HIDE DEF IInv
<1> QED BY <1>1, <1>2, <1>3, GoneInv

LEMMA CutInv == ASSUME IInv, NEW r \in Runs, Cut(r) PROVE IInv'
<1>1. /\ pc[r] \in {"build", "read", "write", "replace", "validate"} /\ Gone(r)
      /\ faults < MaxFaults /\ faults' = faults + 1 /\ starts' = starts
  BY DEF Cut
<1>2. starts' \in 0 .. MaxStarts /\ faults' \in 0 .. MaxFaults /\ pc[r] # "idle"
  BY <1>1 DEF TypeOK
<1>3. dist' \in [Packages -> Wheels] /\ WholeInv'
  <2>1. \/ dist' = dist
        \/ at[r] \in Packages /\ dist' = [dist EXCEPT ![at[r]] = Torn]
    BY DEF Cut
  <2> QED BY <2>1, WheelTypes DEF TypeOK, WholeInv
<1>4. litter' \subseteq Runs \X Packages
  BY DEF Cut, CopyInv, TypeOK
<1> HIDE DEF IInv
<1> QED BY <1>1, <1>2, <1>3, <1>4, GoneInv

LEMMA NextInv == IInv /\ [Next]_vars => IInv'
<1> SUFFICES ASSUME IInv, [Next]_vars PROVE IInv'
  OBVIOUS
<1>1. CASE UNCHANGED vars
  BY <1>1 DEF vars, TypeOK, WholeInv, CopyInv, FailedInv, AloneInv, RunInv,
              Building, Filtering, Validating, Valid
<1>2. ASSUME NEW r \in Runs, Start(r) PROVE IInv'
  BY <1>2, StartInv
<1>3. ASSUME NEW r \in Runs, Build(r) \/ Read(r) PROVE IInv'
  BY <1>3, BuildInv, ReadInv
<1>4. ASSUME NEW r \in Runs, Write(r) \/ Replace(r) PROVE IInv'
  BY <1>4, WriteInv, ReplaceInv
<1>5. ASSUME NEW r \in Runs, Validate(r) \/ Exit(r) \/ Cut(r) PROVE IInv'
  BY <1>5, ValidateInv, ExitInv, CutInv
<1> HIDE DEF IInv
<1> QED BY <1>1, <1>2, <1>3, <1>4, <1>5 DEF Next

LEMMA Invariance == Spec => []IInv
<1> HIDE DEF IInv
<1> QED BY InitInv, NextInv, PTL DEF Spec

-----------------------------------------------------------------------------
(* Every variable keeps its type: the filter never holds a wheel it could  *)
(* not read, and no loop runs past the package directory.                  *)
THEOREM WheelTypeCorrect == Spec => []TypeOK
<1>1. IInv => TypeOK
  OBVIOUS
<1> HIDE DEF IInv
<1> QED BY <1>1, Invariance, PTL

(* What validate_python_packages.py accepts, of a run that met no other    *)
(* one, is exactly what the run built without the excluded members.        *)
THEOREM AcceptedExact == Spec => []AcceptedIsExact
<1>1. ASSUME IInv PROVE AcceptedIsExact
  <2> SUFFICES ASSUME NEW r \in Runs, pc[r] = "accepted", alone[r],
                      NEW p \in Packages
               PROVE  /\ dist[p].state = "whole" /\ dist[p].oneRecord
                      /\ dist[p].members =
                           {m \in meant[r][p].members : ~FilterExcludes(Facts[m].path)}
                      /\ dist[p].members \subseteq dist[p].rows
                      /\ \A m \in dist[p].members : ~ValidatorExcludes(Facts[m].path)
    BY DEF AcceptedIsExact
  <2>1. Valid(p, dist[p]) /\ dist[p] = Filtered(meant[r][p])
    BY <1>1 DEF RunInv, Validating
  <2>2. dist[p].members = Kept(meant[r][p].members)
    BY <1>1, <2>1, FilteredShape DEF TypeOK
  <2> QED BY <2>1, <2>2 DEF Valid, Kept
<1> HIDE DEF IInv
<1> QED BY <1>1, Invariance, PTL

(* A run that met no other one is refused exactly if a wheel it built has  *)
(* a flaw that the filter cannot repair, or that rewriting makes.          *)
THEOREM VerdictRight == Spec => []VerdictIsRight
<1>1. ASSUME IInv PROVE VerdictIsRight
  <2> SUFFICES ASSUME NEW r \in Runs, alone[r], pc[r] \in {"accepted", "refused"}
               PROVE  pc[r] = "refused" <=> \E p \in Packages : Flawed(p, meant[r][p])
    BY DEF VerdictIsRight
  <2>1. CASE pc[r] = "refused"
    BY <1>1, <2>1 DEF RunInv, Validating
  <2>2. CASE pc[r] = "accepted"
    <3> SUFFICES ASSUME NEW p \in Packages PROVE ~Flawed(p, meant[r][p])
      BY <2>2
    <3>1. /\ meant[r][p] \in Upstream \cup {NoWheel}
          /\ Valid(p, dist[p]) /\ dist[p] = Filtered(meant[r][p])
      BY <1>1, <2>2 DEF RunInv, Validating
    <3>2. meant[r][p].oneRecord
      BY <1>1, <3>1, FilteredShape DEF Valid, TypeOK
    <3> QED BY <3>1, <3>2, FlawedIsRefused
  <2> QED BY <2>1, <2>2
<1> HIDE DEF IInv
<1> QED BY <1>1, Invariance, PTL

(* However many runs overlap and are killed, the filter itself never       *)
(* leaves a torn wheel, nor one that it has rewritten twice or by half.    *)
THEOREM WholeWheels == Spec => WheelsStayWhole
<1>1. ASSUME IInv, [Next]_vars, NEW p \in Packages, dist'[p] # dist[p]
      PROVE  \/ \E r \in Runs : pc[r] = "idle" /\ pc'[r] = "build"
             \/ \E r \in Runs : pc[r] = "build" /\ at'[r] # at[r]
             \/ \E r \in Runs : pc[r] = "build" /\ pc'[r] = "idle"
             \/ \E w \in Upstream : ~Unchanged(w) /\ dist'[p] = Filtered(w)
  <2>1. PICK r \in Runs : Start(r) \/ Build(r) \/ Replace(r) \/ Cut(r)
    BY <1>1 DEF Next, vars, Read, Write, Unreplaced, Validate, Exit
  <2>2. CASE Start(r)
    BY <1>1, <2>2 DEF Start, TypeOK
  <2>3. CASE Build(r)
    <3>1. pc[r] = "build" /\ at[r] \in Packages /\ at' = [at EXCEPT ![r] = @ + 1]
      BY <1>1, <2>3 DEF Build, Past, Advance
    <3>2. at'[r] # at[r]
      BY <1>1, <3>1 DEF TypeOK, Packages
    <3> QED BY <3>1, <3>2
  <2>4. CASE Replace(r)
    <3>1. /\ dist' = [dist EXCEPT ![at[r]] = Filtered(copy[r])]
          /\ copy[r] \in Upstream /\ ~Unchanged(copy[r])
      BY <1>1, <2>4 DEF Replace, CopyInv
    <3>2. dist'[p] = Filtered(copy[r])
      BY <1>1, <3>1 DEF TypeOK
    <3> QED BY <3>1, <3>2
  <2>5. CASE Cut(r)
    BY <1>1, <2>5 DEF Cut, Gone, TypeOK
  <2> QED BY <2>1, <2>2, <2>3, <2>4, <2>5
<1>2. IInv /\ [Next]_vars =>
        [\A p \in Packages : dist'[p] # dist[p] =>
           \/ \E r \in Runs : pc[r] = "idle" /\ pc'[r] = "build"
           \/ \E r \in Runs : pc[r] = "build" /\ at'[r] # at[r]
           \/ \E r \in Runs : pc[r] = "build" /\ pc'[r] = "idle"
           \/ \E w \in Upstream : ~Unchanged(w) /\ dist'[p] = Filtered(w)]_vars
  BY <1>1
<1> HIDE DEF IInv
<1> QED BY <1>2, Invariance, PTL DEF Spec, WheelsStayWhole
=============================================================================
