---------------------------- MODULE WheelFilter -----------------------------
(***************************************************************************)
(* The wheel stage of build_therock_gfx906.sh: the package directory is    *)
(* emptied, build_python_packages.py fills it with wheels,                 *)
(* filter_rocm_wheels.py rewrites those that contain excluded payloads,    *)
(* and validate_python_packages.py accepts the directory or refuses it.    *)
(* Nothing locks the directory: runs may overlap, and each can be cut off  *)
(* at every step.  Of what the validator asks for, sound member names, the *)
(* name and version in METADATA and the source distribution are left out:  *)
(* upstream's tool makes them right and the filter does not touch them.    *)
(***************************************************************************)
EXTENDS Exclusion

CONSTANTS
  Runs,       \* invocations that may be under way at the same time
  Count,      \* the expected wheels are 1 .. Count, in order of file name
  Device,     \* those whose name ends in device-gfx906
  Members,    \* the files that upstream may put into wheels
  Facts,      \* what the scripts can tell of each of them
  Upstream,   \* the wheels that build_python_packages.py may write
  MaxStarts,  \* bound: invocations in all
  MaxFaults   \* bound: invocations that are cut off

MemberFacts == [path : Path,        \* the name, as Exclusion sees it
                comma : BOOLEAN,    \* the name needs quotes in a CSV row
                target : BOOLEAN,   \* the name contains gfx906
                hollow : BOOLEAN]   \* an empty binary

(* The members of a wheel besides RECORD, those that RECORD describes      *)
(* rightly to a CSV reader, and whether there is exactly one RECORD.       *)
Wheels == [state : {"absent", "torn", "whole"}, members : SUBSET Members,
           rows : SUBSET Members, oneRecord : BOOLEAN]

ASSUME WheelAssumption ==
  /\ Count \in Nat /\ Device \subseteq 1 .. Count
  /\ Facts \in [Members -> MemberFacts]
  /\ Upstream \subseteq {w \in Wheels : w.state = "whole"}
  /\ MaxStarts \in Nat /\ MaxFaults \in Nat

(* Mutant: off by one. *)
OneTooMany == 1 .. Count + 1

Packages == 1 .. Count

NoWheel == [state |-> "absent", members |-> {}, rows |-> {}, oneRecord |-> FALSE]
Torn == [NoWheel EXCEPT !.state = "torn"]
Empty == [p \in Packages |-> NoWheel]

VARIABLES
  dist,     \* the wheels in the package directory
  litter,   \* the temporary files there: of which run, for which wheel
  pc,
  at,       \* the wheel a loop is at
  copy,     \* the wheel as the filter has read it
  failed,   \* has the validator found an error
  alone,    \* history: has no other run been under way
  meant,    \* history: the wheels that the run built, while it was alone
  starts, faults

directory == <<dist, litter>>
local == <<at, copy, failed, meant, alone>>
bounds == <<starts, faults>>
vars == <<directory, pc, local, bounds>>

Init ==
  /\ dist = Empty /\ litter = {}
  /\ pc = [r \in Runs |-> "idle"]
  /\ at = [r \in Runs |-> 1]
  /\ copy = [r \in Runs |-> NoWheel]
  /\ failed = [r \in Runs |-> FALSE]
  /\ meant = [r \in Runs |-> Empty]
  /\ alone = [r \in Runs |-> FALSE]
  /\ starts = 0 /\ faults = 0

Goto(r, label) == pc' = [pc EXCEPT ![r] = label]

-----------------------------------------------------------------------------
(* What the scripts do to one wheel, and see in it *)

(* Mutant: the filter looks for the name anywhere. *)
KeptUnmentioned(members) == {m \in members : ~ValidatorExcludes(Facts[m].path)}

Kept(members) == {m \in members : ~FilterExcludes(Facts[m].path)}

(* Mutant: RECORD keeps its old rows. *)
OldRows(wheel) == wheel.rows \cap Kept(wheel.members)

(* Rows are computed anew for what is kept, but are never quoted. *)
NewRows(wheel) == {m \in Kept(wheel.members) : ~Facts[m].comma}

Unchanged(wheel) == Kept(wheel.members) = wheel.members

(* filter_wheel, from the old archive to the new one. *)
Filtered(wheel) ==
  IF Unchanged(wheel) THEN wheel
  ELSE [wheel EXCEPT !.members = Kept(wheel.members), !.rows = NewRows(wheel)]

(* _wheel_report *)
Valid(p, wheel) ==
  /\ wheel.state = "whole" /\ wheel.oneRecord
  /\ wheel.members \subseteq wheel.rows
  /\ \A m \in wheel.members :
       ~Facts[m].hollow /\ ~ValidatorExcludes(Facts[m].path)
  /\ p \in Device => \E m \in wheel.members : Facts[m].target

-----------------------------------------------------------------------------
(* Steps *)

(* cmake -E rm -rf of the directory, and mkdir. *)
Start(r) ==
  /\ pc[r] = "idle" /\ starts < MaxStarts
  /\ starts' = starts + 1
  /\ dist' = Empty /\ litter' = {}
  /\ alone' = [s \in Runs |-> s = r /\ \A t \in Runs \ {r} : pc[t] = "idle"]
  /\ meant' = [s \in Runs |-> Empty]
  /\ Goto(r, "build")
  /\ UNCHANGED <<at, copy, failed, faults>>

(* The loop of r is over: on to the next stage. *)
Past(r, label) ==
  /\ at[r] \notin Packages
  /\ Goto(r, label) /\ at' = [at EXCEPT ![r] = 1]

(* The loop of r goes on. *)
Advance(r, label) == Goto(r, label) /\ at' = [at EXCEPT ![r] = @ + 1]

(* build_python_packages.py writes the next wheel, or makes none. *)
Build(r) ==
  /\ pc[r] = "build"
  /\ \/ Past(r, "read") /\ UNCHANGED <<dist, meant>>
     \/ /\ at[r] \in Packages
        /\ Advance(r, "build")
        /\ \/ UNCHANGED <<dist, meant>>
           \/ \E w \in Upstream :
                /\ dist' = [dist EXCEPT ![at[r]] = w]
                /\ meant' = IF alone[r] THEN [meant EXCEPT ![r][at[r]] = w]
                                        ELSE meant
  /\ UNCHANGED <<litter, copy, failed, alone, bounds>>

(* The filter opens the next wheel and reads it. *)
Read(r) ==
  /\ pc[r] = "read"
  /\ \/ /\ Past(r, "validate") /\ UNCHANGED copy
     \/ /\ at[r] \in Packages
        /\ LET wheel == dist[at[r]] IN
           \/ /\ wheel.state = "absent"
              /\ Advance(r, "read") /\ UNCHANGED copy
           \/ /\ wheel.state # "absent" /\ ~wheel.oneRecord
              /\ Goto(r, "refused") /\ UNCHANGED <<at, copy>>
           \/ /\ wheel.state = "whole" /\ wheel.oneRecord /\ Unchanged(wheel)
              /\ Advance(r, "read") /\ UNCHANGED copy
           \/ /\ wheel.state = "whole" /\ wheel.oneRecord /\ ~Unchanged(wheel)
              /\ copy' = [copy EXCEPT ![r] = wheel]
              /\ Goto(r, "write") /\ UNCHANGED at
  /\ UNCHANGED <<directory, failed, meant, alone, bounds>>

(* Mutant: the archive is rewritten in place. *)
HalfWritten(r) == [dist EXCEPT ![at[r]] = Torn]

(* While the new archive is written the old one stays as it is. *)
Unreplaced(r) == dist

(* The temporary file is made and written. *)
Write(r) ==
  /\ pc[r] = "write"
  /\ litter' = litter \cup {<<r, at[r]>>} /\ dist' = Unreplaced(r)
  /\ Goto(r, "replace")
  /\ UNCHANGED <<local, bounds>>

(* os.replace; if another run has emptied the directory there is nothing   *)
(* to replace with.                                                        *)
Replace(r) ==
  /\ pc[r] = "replace"
  /\ IF <<r, at[r]>> \in litter
       THEN /\ dist' = [dist EXCEPT ![at[r]] = Filtered(copy[r])]
            /\ Advance(r, "read")
       ELSE Goto(r, "refused") /\ UNCHANGED <<dist, at>>
  /\ litter' = litter \ {<<r, at[r]>>}
  /\ copy' = [copy EXCEPT ![r] = NoWheel]
  /\ UNCHANGED <<failed, meant, alone, bounds>>

(* The validator judges the next wheel, an expected one that is missing    *)
(* too; --strict turns an error of any of them into exit status 1.         *)
Validate(r) ==
  /\ pc[r] = "validate"
  /\ \/ /\ Past(r, IF failed[r] THEN "refused" ELSE "accepted")
        /\ UNCHANGED failed
     \/ /\ at[r] \in Packages
        /\ failed' = [failed EXCEPT ![r] = @ \/ ~Valid(at[r], dist[at[r]])]
        /\ Advance(r, "validate")
  /\ UNCHANGED <<directory, copy, meant, alone, bounds>>

Gone(r) ==
  /\ Goto(r, "idle")
  /\ at' = [at EXCEPT ![r] = 1]
  /\ copy' = [copy EXCEPT ![r] = NoWheel]
  /\ failed' = [failed EXCEPT ![r] = FALSE]
  /\ meant' = [meant EXCEPT ![r] = Empty]
  /\ alone' = [alone EXCEPT ![r] = FALSE]

Exit(r) ==
  /\ pc[r] \in {"accepted", "refused"}
  /\ Gone(r)
  /\ UNCHANGED <<directory, bounds>>

(* Where a stage is cut off: upstream's tool may leave half a wheel.  The  *)
(* filter removes its temporary file if it still can, and leaves it if it  *)
(* is killed.                                                              *)
Cut(r) ==
  /\ pc[r] \in {"build", "read", "write", "replace", "validate"}
  /\ faults < MaxFaults /\ faults' = faults + 1
  /\ \/ UNCHANGED directory
     \/ /\ pc[r] = "build" /\ at[r] \in Packages
        /\ dist' = [dist EXCEPT ![at[r]] = Torn] /\ UNCHANGED litter
     \/ /\ pc[r] = "write"
        /\ litter' = litter \cup {<<r, at[r]>>} /\ UNCHANGED dist
     \/ /\ pc[r] = "replace"
        /\ litter' = litter \ {<<r, at[r]>>} /\ UNCHANGED dist
  /\ Gone(r)
  /\ UNCHANGED starts

Next == \E r \in Runs :
  \/ Start(r) \/ Build(r) \/ Read(r) \/ Write(r) \/ Replace(r)
  \/ Validate(r) \/ Exit(r) \/ Cut(r)

Spec == Init /\ [][Next]_vars

-----------------------------------------------------------------------------
(* Properties *)

Labels == {"idle", "build", "read", "write", "replace", "validate",
           "accepted", "refused"}

(* Every variable has its type.                                            *)
TypeOK ==
  /\ dist \in [Packages -> Wheels]
  /\ litter \subseteq Runs \X Packages
  /\ pc \in [Runs -> Labels]
  /\ at \in [Runs -> 1 .. Count + 1]
  /\ copy \in [Runs -> Wheels]
  /\ failed \in [Runs -> BOOLEAN]
  /\ meant \in [Runs -> [Packages -> Wheels]]
  /\ alone \in [Runs -> BOOLEAN]
  /\ starts \in 0 .. MaxStarts /\ faults \in 0 .. MaxFaults

(* "rewrites only wheel payload members, updates RECORD hashes, and leaves *)
(* the wheel metadata/dependencies intact": a run that meets no other one  *)
(* and is accepted leaves exactly the wheels that were built without the   *)
(* members the filter excludes, each described by RECORD, with nothing an  *)
(* excluded payload is mentioned by, whatever earlier runs left behind.    *)
AcceptedIsExact ==
  \A r \in Runs : (pc[r] = "accepted" /\ alone[r]) =>
    \A p \in Packages :
      /\ dist[p].state = "whole" /\ dist[p].oneRecord
      /\ dist[p].members =
           {m \in meant[r][p].members : ~FilterExcludes(Facts[m].path)}
      /\ dist[p].members \subseteq dist[p].rows
      /\ \A m \in dist[p].members : ~ValidatorExcludes(Facts[m].path)

(* What no filter can repair in a wheel that upstream built. *)
Flawed(p, wheel) ==
  LET kept == {m \in wheel.members : ~FilterExcludes(Facts[m].path)} IN
  \/ wheel.state # "whole" \/ ~wheel.oneRecord
  \/ \E m \in kept : Facts[m].hollow \/ ValidatorExcludes(Facts[m].path)
  \/ p \in Device /\ \A m \in kept : ~Facts[m].target
  \/ kept = wheel.members /\ ~(kept \subseteq wheel.rows)
  \/ kept # wheel.members /\ \E m \in kept : Facts[m].comma

(* A run that meets no other one is refused exactly if upstream's wheels   *)
(* have a flaw that filtering leaves or makes: above all, excluded         *)
(* payloads by themselves refuse nothing, and neither does a RECORD that   *)
(* the rewriting makes good.                                               *)
VerdictIsRight ==
  \A r \in Runs : (pc[r] \in {"accepted", "refused"} /\ alone[r]) =>
    (pc[r] = "refused" <=> \E p \in Packages : Flawed(p, meant[r][p]))

(* Whatever overlaps or is killed, only upstream's tool leaves half a      *)
(* wheel: a wheel changes when a run empties the directory, when its build *)
(* writes, and otherwise becomes some wheel of upstream's without exactly  *)
(* its excluded members.                                                   *)
WheelsStayWhole ==
  [][\A p \in Packages : dist'[p] # dist[p] =>
       \/ \E r \in Runs : pc[r] = "idle" /\ pc'[r] = "build"
       \/ \E r \in Runs : pc[r] = "build" /\ at'[r] # at[r]
       \/ \E r \in Runs : pc[r] = "build" /\ pc'[r] = "idle"
       \/ \E w \in Upstream : ~Unchanged(w) /\ dist'[p] = Filtered(w)]_vars
=============================================================================
