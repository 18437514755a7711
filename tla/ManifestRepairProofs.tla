------------------------ MODULE ManifestRepairProofs ------------------------
(***************************************************************************)
(* What holds of the repair of artifact manifests for any number of        *)
(* slices, whatever the stage trees hold and whatever was killed when: its *)
(* type invariant, that no file reaches dist/rocm hollow, that a strict    *)
(* failure is real, and, where an interrupted Populate leaves no partial   *)
(* manifest, that a run that passed has flattened every payload file.      *)
(***************************************************************************)
EXTENDS ManifestRepair, SequenceTheorems, WellFoundedInduction, TLAPS

(* A slice directory has files and a manifest, and nothing else is known.  *)
IsDisk == disk = [s \in Slices |-> [files |-> disk[s].files, manifest |-> disk[s].manifest]]

(* A payload file comes from the stage trees, or is a temporary file.      *)
Payload(slice) == payload_entries(slice) \ {Temporary}

Genuine(s, slice) ==
  \A p \in Payload(slice) :
    p \in DOMAIN Upstream[s] /\ slice.files[p] \in {"empty", Upstream[s][p]}

ContentInv == \A s \in Slices : Genuine(s, disk[s])

(* The heal pass leaves no truncated slice behind it, and nothing after it *)
(* truncates one.                                                          *)
Passed(s) ==
  \/ pc = "heal" /\ (s < next \/ (swapping /\ s = next))
  \/ pc \in {"build", "repair", "flatten"}

HealedInv == \A s \in Active : Passed(s) => ~MustHeal(s, disk[s])

Uncovered(slice) == uncovered_payload(payload_entries(slice), slice.manifest)
Missing(slice) == uncovered_payload(payload_entries(slice), wanted(slice))

(* What the repair pass reports is there to be seen. *)
ReportInv ==
  /\ swapping => pc \in Passes \cup {"down"} /\ next \in Active
  /\ pc = "build" => ~missed
  /\ pc = "repair" /\ missed => \E s \in Active : Missing(disk[s]) # {}

(* A slice that no kill left with part of its files has all of them, or is *)
(* gone and Ninja has yet to come to it; no manifest is swapped in it then.*)
Awaited(s) == pc \in {"heal", "down", "failed"} \/ (pc = "build" /\ next <= s)

PresentInv ==
  /\ swapping /\ pc \in Passes => disk[next] # Gone
  /\ \A s \in Slices \ partial :
       DOMAIN Upstream[s] \subseteq payload_entries(disk[s]) \/ (disk[s] = Gone /\ Awaited(s))

(* DistIsWhole in its parts. *)
NoHollowFile == \A f \in dist : f[2] # Temporary => f[3] = Upstream[f[1]][f[2]]

AllFlattened ==
  pc = "passed" =>
    \A s \in Active \cap Packaged : \A p \in payload_entries(disk[s]) :
      <<s, p, disk[s].files[p]>> \in dist

IInv ==
  /\ TypeOK /\ IsDisk /\ ContentInv /\ PresentInv /\ HealedInv /\ ReportInv
  /\ NoHollowFile /\ FailureIsReal

(* A manifest that is there names every prefix of the payload.             *)
Listed(slice) == slice.manifest # {} => derive_prefixes(Payload(slice)) \subseteq slice.manifest

ManifestInv == \A s \in Slices : Listed(disk[s])

(* The repair pass leaves no uncovered file behind it without saying so.   *)
CoverInv ==
  /\ pc = "repair" /\ ~missed =>
       /\ \A s \in Active : s < next => Uncovered(disk[s]) = {}
       /\ swapping => Missing(disk[next]) = {}
  /\ pc = "flatten" => \A s \in Active : Uncovered(disk[s]) = {}

UpstreamFlattened ==
  pc = "passed" =>
    \A s \in (Active \cap Packaged) \ partial : \A p \in DOMAIN Upstream[s] :
      <<s, p, Upstream[s][p]>> \in dist

CInv == ManifestInv /\ CoverInv /\ AllFlattened

-----------------------------------------------------------------------------
(* Paths and prefixes *)

LEMMA Constants ==
  /\ Last \in Nat /\ Last >= 1 /\ 1 \in Slices /\ Active \subseteq Slices /\ Packaged \subseteq Slices
  /\ MaxKills \in Nat
BY SlicesAssumption, BoundAssumption DEF Slices

LEMMA UpstreamPaths ==
  /\ \A s \in Slices : DOMAIN Upstream[s] \subseteq Paths
  /\ \A s \in Slices : \A p \in DOMAIN Upstream[s] : Upstream[s][p] \in Sizes /\ p # Temporary
  /\ Temporary \in Paths
<1>1. \A s \in Slices : DOMAIN Upstream[s] \subseteq Paths
  BY DEF Paths
<1>2. \A s \in Slices : \A p \in DOMAIN Upstream[s] : Upstream[s][p] \in Sizes /\ p # Temporary
  BY UpstreamAssumption
<1> QED BY <1>1, <1>2 DEF Paths

LEMMA PathLength == ASSUME NEW p \in Paths PROVE Len(p) \in Nat \ {0}
<1>1. CASE p = Temporary
  BY <1>1 DEF Temporary
<1>2. CASE p # Temporary
  <2>1. PICK s \in Slices : p \in DOMAIN Upstream[s]
    BY <1>2 DEF Paths
  <2>2. p \in Seq(STRING) /\ p # <<>>
    BY <2>1, UpstreamAssumption
  <2> QED BY <2>2, EmptySeq
<1> QED BY <1>1, <1>2

(* The first terminal exists if there is one. *)
LEMMA FirstExists ==
  ASSUME NEW ends, ends \subseteq Nat, ends # {}
  PROVE  \E k \in ends : \A l \in ends : k <= l
<1>1. PICK k \in ends : \A l \in ends : ~(<<l, k>> \in OpToRel(<, Nat))
  BY WFMin, NatLessThanWellFounded
<1>2. ASSUME NEW l \in ends PROVE k <= l
  <2>1. l \in Nat /\ k \in Nat
    OBVIOUS
  <2>2. ~(l < k)
    BY <1>1, <2>1 DEF OpToRel
  <2> QED BY <2>1, <2>2
<1> QED BY <1>2

(* No prefix is empty. *)
LEMMA PrefixLength == ASSUME NEW p \in Paths PROVE Len(prefix_for(p)) \in Nat \ {0}
<1> DEFINE ends == {k \in 3 .. Len(p) : p[k] \in Terminals}
<1> DEFINE first == CHOOSE k \in ends : \A l \in ends : k <= l
<1> DEFINE short == IF Len(p) < 3 THEN Len(p) ELSE 3
<1>1. Len(p) \in Nat \ {0}
  BY PathLength
<1>2. ASSUME NEW n \in 1 .. Len(p) PROVE Len(SubSeq(p, 1, n)) \in Nat \ {0}
  <2>1. \A i \in 1 .. n : p[i] \in {p[j] : j \in 1 .. n}
    OBVIOUS
  <2>2. Len(SubSeq(p, 1, n)) = IF 1 <= n THEN n - 1 + 1 ELSE 0
    BY <1>1, <2>1, SubSeqProperties
  <2> QED BY <1>1, <2>2
<1>3. CASE ends = {}
  <2>1. short \in 1 .. Len(p)
    BY <1>1
  <2>2. prefix_for(p) = SubSeq(p, 1, short)
    BY <1>3 DEF prefix_for
  <2> QED BY <1>2, <2>1, <2>2
<1>4. CASE ends # {}
  <2>0. ends \subseteq Nat /\ ends \subseteq 1 .. Len(p)
    BY <1>1
  <2> HIDE DEF ends
  <2>1. \E k \in ends : \A l \in ends : k <= l
    BY <1>4, <2>0, FirstExists
  <2>2. first \in ends
    BY <2>1
  <2>3. first \in 1 .. Len(p)
    BY <2>0, <2>2
  <2>4. prefix_for(p) = SubSeq(p, 1, first)
    BY <1>4 DEF prefix_for, ends
  <2> HIDE DEF first
  <2> QED BY <1>2, <2>3, <2>4
<1> QED BY <1>3, <1>4

(* So a file in the root of a slice is never covered. *)
LEMMA TemporaryUncovered == ASSUME NEW q \in Prefixes PROVE ~IsUnder(q, Temporary)
<1>1. Len(q) \in Nat \ {0}
  BY PrefixLength DEF Prefixes
<1>2. Len(Temporary) = 1
  BY DEF Temporary
<1> QED BY <1>1, <1>2 DEF IsUnder

LEMMA DeriveType == ASSUME NEW F, F \subseteq Paths PROVE derive_prefixes(F) \subseteq Prefixes
BY DEF derive_prefixes, Prefixes

LEMMA DeriveMonotone ==
  ASSUME NEW F, NEW G, F \subseteq G PROVE derive_prefixes(F) \subseteq derive_prefixes(G)
BY DEF derive_prefixes

LEMMA UncoveredAntitone ==
  ASSUME NEW F, NEW M, NEW N, M \subseteq N
  PROVE  uncovered_payload(F, N) \subseteq uncovered_payload(F, M)
BY DEF uncovered_payload

-----------------------------------------------------------------------------
(* What the operations make of one slice *)

USE DEF payload_entries

Slice(f, m) == [files |-> f, manifest |-> m]

(* One slice is replaced, or given another manifest, or other files.       *)
Changed(n, slice) == disk'[n] = slice /\ \A s \in Slices \ {n} : disk'[s] = disk[s]

LEMMA SliceReplaced ==
  ASSUME IsDisk, NEW n \in Slices, NEW f, NEW m, disk' = [disk EXCEPT ![n] = Slice(f, m)]
  PROVE  IsDisk' /\ Changed(n, Slice(f, m))
BY DEF IsDisk, Changed, Slice

LEMMA ManifestReplaced ==
  ASSUME IsDisk, NEW n \in Slices, NEW m, disk' = [disk EXCEPT ![n].manifest = m]
  PROVE  IsDisk' /\ Changed(n, Slice(disk[n].files, m))
BY DEF IsDisk, Changed, Slice

LEMMA FilesReplaced ==
  ASSUME IsDisk, NEW n \in Slices, NEW f, disk' = [disk EXCEPT ![n].files = f]
  PROVE  IsDisk' /\ Changed(n, Slice(f, disk[n].manifest))
BY DEF IsDisk, Changed, Slice

(* A slice as it may stand when a pass finds it.                           *)
Proper(s, slice) == SliceTypeOK(slice) /\ Genuine(s, slice)

LEMMA EmptySlice ==
  ASSUME NEW s \in Slices
  PROVE  /\ Proper(s, Gone) /\ ~MustHeal(s, Gone) /\ Listed(Gone)
         /\ Gone = Slice(<<>>, {}) /\ Uncovered(Gone) = {}
<1>1. DOMAIN Gone.files = {} /\ Gone.manifest = {}
  BY DEF Gone
<1>2. Gone = Slice(<<>>, {})
  BY DEF Gone, Slice
<1> QED
  BY <1>1, <1>2 DEF Proper, SliceTypeOK, Genuine, Payload, MustHeal, truncated_payload_files, Listed,
     Uncovered, uncovered_payload

(* Whatever is missing from the disk is a subset of what the stage trees   *)
(* hold, with nothing but truncation in it.                                *)
LEMMA PartOfUpstream ==
  ASSUME NEW s \in Slices, NEW files, NEW cut, NEW m, files \subseteq DOMAIN Upstream[s],
         m \subseteq TrueManifest(s)
  PROVE  Proper(s, Slice([p \in files |-> IF p \in cut THEN "empty" ELSE Upstream[s][p]], m))
<1> DEFINE f == [p \in files |-> IF p \in cut THEN "empty" ELSE Upstream[s][p]]
<1>1. DOMAIN f = files /\ \A p \in files : f[p] \in {"empty", Upstream[s][p]}
  OBVIOUS
<1>2. Slice(f, m).files = f /\ Slice(f, m).manifest = m
  BY DEF Slice
<1> HIDE DEF f
<1>3. files \subseteq Paths /\ \A p \in files : f[p] \in Sizes
  BY <1>1, UpstreamPaths DEF Sizes
<1>4. m \subseteq Prefixes
  BY DeriveType, UpstreamPaths DEF TrueManifest
<1>5. SliceTypeOK(Slice(f, m))
  BY <1>1, <1>2, <1>3, <1>4 DEF SliceTypeOK
<1>6. Genuine(s, Slice(f, m))
  BY <1>1, <1>2 DEF Genuine, Payload
<1> QED BY <1>5, <1>6 DEF Proper, f

(* Populate leaves the whole of it.                                        *)
LEMMA Regenerated ==
  ASSUME NEW s \in Slices, NEW m \in {TrueManifest(s), {}}
  PROVE  /\ Proper(s, Slice(Upstream[s], m)) /\ ~MustHeal(s, Slice(Upstream[s], m))
         /\ Listed(Slice(Upstream[s], m))
<1>1. Slice(Upstream[s], m).files = Upstream[s] /\ Slice(Upstream[s], m).manifest = m
  BY DEF Slice
<1>2. m \subseteq Prefixes
  BY DeriveType, UpstreamPaths DEF TrueManifest
<1>3. Proper(s, Slice(Upstream[s], m))
  BY <1>1, <1>2, UpstreamPaths DEF Proper, SliceTypeOK, Genuine, Payload
<1>4. ~MustHeal(s, Slice(Upstream[s], m))
  BY <1>1 DEF MustHeal, truncated_payload_files
<1>5. Payload(Slice(Upstream[s], m)) = DOMAIN Upstream[s]
  BY <1>1, UpstreamPaths DEF Payload
<1>6. Listed(Slice(Upstream[s], m))
  BY <1>1, <1>5 DEF Listed, TrueManifest
<1> QED BY <1>3, <1>4, <1>6

(* An interrupted rmtree leaves part of the slice.                         *)
LEMMA PartOfSlice ==
  ASSUME NEW s \in Slices, NEW slice, Proper(s, slice), NEW files, files \subseteq payload_entries(slice),
         NEW m \in {slice.manifest, {}}
  PROVE  /\ Proper(s, Slice([p \in files |-> slice.files[p]], m))
         /\ Listed(slice) => Listed(Slice([p \in files |-> slice.files[p]], m))
<1> DEFINE part == Slice([p \in files |-> slice.files[p]], m)
<1>1. /\ DOMAIN part.files = files /\ \A p \in files : part.files[p] = slice.files[p]
      /\ part.manifest = m
  BY DEF Slice
<1> HIDE DEF part
<1>2. Proper(s, part)
  BY <1>1 DEF Proper, SliceTypeOK, Genuine, Payload
<1>3. Payload(part) \subseteq Payload(slice)
  BY <1>1 DEF Payload
<1>4. Listed(slice) => Listed(part)
  BY <1>1, <1>3, DeriveMonotone DEF Listed
<1> QED BY <1>2, <1>4 DEF part

(* A killed write_manifest_atomic leaves its temporary file.               *)
LEMMA WithTemporary ==
  ASSUME NEW s \in Slices, NEW slice, Proper(s, slice), NEW files,
         files = payload_entries(slice) \cup {Temporary}
  PROVE  LET f == [p \in files |-> IF p = Temporary THEN "full" ELSE slice.files[p]]
         IN  /\ Proper(s, Slice(f, slice.manifest))
             /\ Listed(slice) => Listed(Slice(f, slice.manifest))
<1> DEFINE f == [p \in files |-> IF p = Temporary THEN "full" ELSE slice.files[p]]
<1> DEFINE littered == Slice(f, slice.manifest)
<1>1. /\ DOMAIN littered.files = files /\ littered.manifest = slice.manifest
      /\ \A p \in files : littered.files[p] = IF p = Temporary THEN "full" ELSE slice.files[p]
  BY DEF Slice
<1> HIDE DEF littered
<1>2. Payload(littered) = Payload(slice)
  BY <1>1 DEF Payload
<1>3. Proper(s, littered)
  BY <1>1, <1>2, UpstreamPaths DEF Proper, SliceTypeOK, Genuine, Payload, Sizes
<1>4. Listed(slice) => Listed(littered)
  BY <1>1, <1>2 DEF Listed
<1> QED BY <1>3, <1>4 DEF littered

(* The repaired manifest: the files are as they were, and what it does not *)
(* cover is what was counted as missing.                                   *)
LEMMA Repaired ==
  ASSUME NEW s \in Slices, NEW slice, Proper(s, slice)
  PROVE  LET after == Slice(slice.files, wanted(slice))
         IN  /\ Proper(s, after) /\ (MustHeal(s, after) <=> MustHeal(s, slice))
             /\ Listed(after) /\ Uncovered(after) = Missing(slice)
             /\ Missing(after) = Missing(slice)
<1> DEFINE after == Slice(slice.files, wanted(slice))
<1>1. after.files = slice.files /\ after.manifest = wanted(slice)
  BY DEF Slice
<1> HIDE DEF after
<1>2. wanted(slice) \subseteq Prefixes
  BY DeriveType DEF wanted, Proper, SliceTypeOK
<1>3. Proper(s, after)
  BY <1>1, <1>2 DEF Proper, SliceTypeOK, Genuine, Payload
<1>4. MustHeal(s, after) <=> MustHeal(s, slice)
  BY <1>1 DEF MustHeal, truncated_payload_files
<1>5. Payload(after) \subseteq payload_entries(slice)
  BY <1>1 DEF Payload
<1>6. Listed(after)
  BY <1>1, <1>5, DeriveMonotone DEF Listed, wanted
<1>7. wanted(after) = wanted(slice)
  BY <1>1 DEF wanted
<1>8. Uncovered(after) = Missing(slice) /\ Missing(after) = Missing(slice)
  BY <1>1, <1>7 DEF Uncovered, Missing
<1> QED BY <1>3, <1>4, <1>6, <1>8 DEF after

-----------------------------------------------------------------------------
(* What a step makes of the disk *)

(* The slice that a step works on is replaced by a proper one, and by one  *)
(* whose manifest lists its payload unless Populate can cut it short.      *)
SliceStep(slice) ==
  /\ IsDisk' /\ Changed(next, slice) /\ Proper(next, slice)
  /\ ManifestInv /\ PartialManifests = FALSE => Listed(slice)

LEMMA HealDisk ==
  ASSUME TypeOK, IsDisk, HealSlice PROVE SliceStep(Gone) /\ ~MustHeal(next, Gone)
<1>1. next \in Slices /\ disk' = [disk EXCEPT ![next] = Slice(<<>>, {})]
  BY EmptySlice DEF TypeOK, HealSlice
<1> QED BY <1>1, EmptySlice, SliceReplaced DEF SliceStep

LEMMA SwapDisk ==
  ASSUME TypeOK, IsDisk, ContentInv, SwapManifest
  PROVE  SliceStep(Slice(disk[next].files, wanted(disk[next])))
<1>1. next \in Slices /\ Proper(next, disk[next])
  BY DEF TypeOK, ContentInv, Proper
<1> QED BY <1>1, ManifestReplaced, Repaired DEF SliceStep, SwapManifest

LEMMA PopulateDisk ==
  ASSUME TypeOK, IsDisk, Populate
  PROVE  \/ UNCHANGED disk
         \/ \E slice : SliceStep(slice) /\ ~MustHeal(next, slice)
<1> SUFFICES ASSUME disk' # disk PROVE \E slice : SliceStep(slice) /\ ~MustHeal(next, slice)
  OBVIOUS
<1>1. next \in Slices
  BY DEF TypeOK
<1>2. PICK m \in {TrueManifest(next), {}} :
        disk' = [disk EXCEPT ![next] = Slice(Upstream[next], m)]
  BY DEF Populate, Slice
<1> QED BY <1>1, <1>2, SliceReplaced, Regenerated DEF SliceStep

LEMMA KillDisk ==
  ASSUME TypeOK, IsDisk, ContentInv, KillStep
  PROVE  UNCHANGED disk \/ \E slice : SliceStep(slice)
<1>1. next \in Slices /\ Proper(next, disk[next])
  BY DEF TypeOK, ContentInv, Proper
<1>2. CASE KillPopulate
  <2>1. PICK files \in SUBSET DOMAIN Upstream[next], cut \in SUBSET DOMAIN Upstream[next],
             m \in SUBSET TrueManifest(next) :
          /\ cut \subseteq files
          /\ m # {} => PartialManifests /\ files # {}
          /\ disk' = [disk EXCEPT ![next] =
                         [files |-> [p \in files |-> IF p \in cut THEN "empty"
                                                     ELSE Upstream[next][p]],
                          manifest |-> m]]
    BY <1>2 DEF KillPopulate
  <2> DEFINE f == [p \in files |-> IF p \in cut THEN "empty" ELSE Upstream[next][p]]
  <2>2. Proper(next, Slice(f, m))
    BY <1>1, PartOfUpstream
  <2>3. PartialManifests = FALSE => Listed(Slice(f, m))
    BY <2>1 DEF Listed, Slice
  <2>4. IsDisk' /\ Changed(next, Slice(f, m))
    <3>1. disk' = [disk EXCEPT ![next] = Slice(f, m)]
      BY <2>1 DEF Slice
    <3> QED BY <1>1, <3>1, SliceReplaced
  <2> QED BY <2>2, <2>3, <2>4 DEF SliceStep
<1>3. CASE KillHeal
  <2>1. PICK files \in SUBSET payload_entries(disk[next]), m \in {disk[next].manifest, {}} :
          disk' = [disk EXCEPT ![next] = Slice([p \in files |-> disk[next].files[p]], m)]
    BY <1>3 DEF KillHeal, Slice
  <2> DEFINE slice == Slice([p \in files |-> disk[next].files[p]], m)
  <2>2. Proper(next, slice) /\ (Listed(disk[next]) => Listed(slice))
    BY <1>1, PartOfSlice
  <2>3. IsDisk' /\ Changed(next, slice)
    BY <1>1, <2>1, SliceReplaced
  <2> QED BY <1>1, <2>2, <2>3 DEF SliceStep, ManifestInv
<1>4. CASE Kill /\ disk' # disk
  <2> DEFINE files == payload_entries(disk[next]) \cup {Temporary}
  <2> DEFINE f == [p \in files |-> IF p = Temporary THEN "full" ELSE disk[next].files[p]]
  <2>1. disk' = [disk EXCEPT ![next].files = f]
    BY <1>4 DEF Kill
  <2>2. /\ Proper(next, Slice(f, disk[next].manifest))
        /\ Listed(disk[next]) => Listed(Slice(f, disk[next].manifest))
    BY <1>1, WithTemporary
  <2>3. IsDisk' /\ Changed(next, Slice(f, disk[next].manifest))
    BY <1>1, <2>1, FilesReplaced
  <2> QED BY <1>1, <2>2, <2>3 DEF SliceStep, ManifestInv
<1> QED BY <1>2, <1>3, <1>4 DEF KillStep

(* Every step leaves a disk of proper slices.                              *)
LEMMA DiskNext ==
  ASSUME TypeOK, IsDisk, ContentInv, [Next]_vars
  PROVE  /\ IsDisk' /\ \A s \in Slices : Proper(s, disk'[s])
         /\ ManifestInv /\ PartialManifests = FALSE => ManifestInv'
<1>1. UNCHANGED disk \/ \E slice : SliceStep(slice)
  <2>1. CASE HealSlice
    BY <2>1, HealDisk
  <2>2. CASE SwapManifest
    BY <2>2, SwapDisk
  <2>3. CASE Populate
    BY <2>3, PopulateDisk
  <2>4. CASE KillStep
    BY <2>4, KillDisk
  <2>5. CASE RepairSlice \/ SkipSlice \/ Flatten \/ Rerun \/ UNCHANGED vars
    BY <2>5 DEF RepairSlice, SkipSlice, Flatten, Rerun, vars
  <2> QED BY <2>1, <2>2, <2>3, <2>4, <2>5 DEF Next, RunStep
<1>2. CASE UNCHANGED disk
  BY <1>2 DEF IsDisk, TypeOK, ContentInv, Proper, ManifestInv
<1>3. ASSUME NEW slice, SliceStep(slice) PROVE
         /\ IsDisk' /\ \A s \in Slices : Proper(s, disk'[s])
         /\ ManifestInv /\ PartialManifests = FALSE => ManifestInv'
  BY <1>3 DEF SliceStep, Changed, TypeOK, ContentInv, Proper, ManifestInv
<1> QED BY <1>1, <1>2, <1>3

-----------------------------------------------------------------------------
(* The control of a pass *)

(* Where a pass goes from a slice. *)
LEMMA AdvanceFacts ==
  ASSUME TypeOK, pc \in Passes, NEW failed \in BOOLEAN, Advance(failed)
  PROVE  /\ next' \in Slices /\ missed' \in BOOLEAN
         /\ \/ next < Last /\ next' = next + 1 /\ missed' = failed /\ pc' = pc
            \/ /\ next = Last /\ next' = 1 /\ missed' = FALSE
               /\ pc = "heal" => pc' = "build"
               /\ pc = "repair" => pc' = IF failed THEN "failed" ELSE "flatten"
<1>1. next \in 1 .. Last /\ Last \in Nat /\ 1 \in Slices
  BY Constants DEF TypeOK, Slices
<1>2. CASE next < Last
  <2>1. next' = next + 1 /\ missed' = failed /\ pc' = pc
    BY <1>2 DEF Advance
  <2>2. next + 1 \in Slices
    BY <1>1, <1>2 DEF Slices
  <2> QED BY <1>2, <2>1, <2>2
<1>3. CASE ~(next < Last)
  <2>1. next' = 1 /\ missed' = FALSE /\ pc' = AfterPass(failed)
    BY <1>3 DEF Advance
  <2>2. next = Last
    BY <1>1, <1>3
  <2>3. /\ pc = "heal" => AfterPass(failed) = "build"
        /\ pc = "repair" => AfterPass(failed) = IF failed THEN "failed" ELSE "flatten"
    BY DEF AfterPass
  <2> QED BY <1>1, <2>1, <2>2, <2>3
<1> QED BY <1>2, <1>3

LEMMA TypeNext ==
  ASSUME TypeOK, IsDisk, ContentInv, [Next]_vars PROVE TypeOK'
<1>1. DOMAIN disk' = Slices /\ \A s \in Slices : SliceTypeOK(disk'[s])
  BY DiskNext DEF IsDisk, Proper
<1>2. dist' \subseteq Slices \X Paths \X Sizes
  <2>1. CASE Flatten
    BY <2>1, Constants DEF Flatten
  <2>2. CASE UNCHANGED dist
    BY <2>2 DEF TypeOK
  <2> QED
    BY <2>1, <2>2 DEF Next, RunStep, KillStep, HealSlice, RepairSlice, SwapManifest, SkipSlice,
       Populate, KillPopulate, KillHeal, Kill, Rerun, vars
<1>3. kills' \in 0 .. MaxKills
  <2>1. kills \in 0 .. MaxKills /\ MaxKills \in Nat
    BY Constants DEF TypeOK
  <2>2. kills' = kills \/ (kills < MaxKills /\ kills' = kills + 1)
    BY DEF Next, RunStep, KillStep, HealSlice, RepairSlice, SwapManifest, SkipSlice,
       Populate, Flatten, KillPopulate, KillHeal, Kill, Rerun, vars
  <2> QED BY <2>1, <2>2
<1>4. /\ pc' \in Passes \cup {"build", "flatten", "passed", "failed", "down"}
      /\ next' \in Slices /\ swapping' \in BOOLEAN /\ missed' \in BOOLEAN
  <2>1. ASSUME NEW failed \in BOOLEAN, pc \in Passes, Advance(failed)
        PROVE  /\ pc' \in Passes \cup {"build", "flatten", "failed"}
               /\ next' \in Slices /\ missed' \in BOOLEAN
    BY <2>1, AdvanceFacts DEF Passes
  <2>2. CASE HealSlice \/ SkipSlice
    BY <2>1, <2>2 DEF HealSlice, SkipSlice, TypeOK, Passes
  <2>3. CASE SwapManifest
    BY <2>1, <2>3 DEF SwapManifest, TypeOK
  <2>4. CASE RepairSlice
    BY <2>1, <2>4 DEF RepairSlice, TypeOK
  <2>5. CASE Populate
    <3>1. next < Last => next + 1 \in Slices
      BY Constants DEF TypeOK, Slices
    <3> QED BY <2>5, <3>1, Constants DEF Populate, TypeOK, Passes
  <2>6. CASE KillStep \/ Rerun \/ Flatten \/ UNCHANGED vars
    BY <2>6, Constants DEF KillStep, KillPopulate, KillHeal, Kill, Rerun, Flatten, vars, TypeOK, Passes
  <2> QED BY <2>2, <2>3, <2>4, <2>5, <2>6 DEF Next, RunStep
<1>5. partial' \subseteq Slices
  <2>1. partial \subseteq Slices /\ next \in Slices
    BY DEF TypeOK
  <2>2. partial' \subseteq partial \cup {next}
    BY DEF Next, RunStep, KillStep, HealSlice, RepairSlice, SwapManifest, SkipSlice,
       Populate, Flatten, KillPopulate, KillHeal, Kill, Rerun, vars
  <2> QED BY <2>1, <2>2
<1> QED BY <1>1, <1>2, <1>3, <1>4, <1>5 DEF TypeOK

LEMMA InitInv == Init => IInv /\ CInv
<1> SUFFICES ASSUME Init PROVE IInv /\ CInv
  OBVIOUS
<1>1. \A s \in Slices : disk[s] = Gone
  BY DEF Init
<1>2. IsDisk
  BY EmptySlice DEF Init, IsDisk, Gone
<1>3. TypeOK
  <2>1. SliceTypeOK(Gone)
    BY Constants, EmptySlice DEF Proper
  <2>2. 0 \in 0 .. MaxKills
    BY Constants
  <2> QED BY <1>1, <2>1, <2>2, Constants DEF Init, TypeOK, Passes
<1>4. ContentInv /\ ManifestInv
  BY <1>1, EmptySlice DEF ContentInv, ManifestInv, Proper
<1>5. HealedInv
  BY <1>1, EmptySlice, Constants DEF HealedInv
<1>7. PresentInv
  BY <1>1 DEF Init, PresentInv, Awaited
<1>6. ReportInv /\ CoverInv /\ AllFlattened /\ NoHollowFile /\ FailureIsReal
  BY DEF Init, ReportInv, CoverInv, AllFlattened, NoHollowFile, FailureIsReal
<1> QED BY <1>2, <1>3, <1>4, <1>5, <1>6, <1>7 DEF IInv, CInv

-----------------------------------------------------------------------------
(* What is intact *)

(* Only Ninja, and a kill, may leave a slice with fewer files than before: *)
(* the passes remove all of a slice, and only where a file is truncated.   *)
LEMMA FilesKept ==
  ASSUME TypeOK, IsDisk, ContentInv, NEW s \in Slices,
         RepairSlice \/ SwapManifest \/ SkipSlice \/ Flatten \/ Kill \/ Rerun
  PROVE  /\ payload_entries(disk[s]) \subseteq payload_entries(disk'[s])
         /\ \A p \in payload_entries(disk[s]) \ {Temporary} : disk'[s].files[p] = disk[s].files[p]
         /\ disk'[s] # disk[s] => s = next /\ (SwapManifest \/ Kill)
<1>1. next \in Slices
  BY DEF TypeOK
<1>2. CASE SwapManifest
  <2>1. Changed(next, Slice(disk[next].files, wanted(disk[next])))
    BY <1>2, SwapDisk DEF SliceStep
  <2>2. disk'[next].files = disk[next].files /\ (s # next => disk'[s] = disk[s])
    BY <1>1, <2>1 DEF Changed, Slice
  <2> QED BY <1>2, <2>2 DEF payload_entries
<1>3. CASE Kill /\ swapping
  <2> DEFINE files == payload_entries(disk[next]) \cup {Temporary}
  <2> DEFINE f == [p \in files |-> IF p = Temporary THEN "full" ELSE disk[next].files[p]]
  <2>1. disk' = [disk EXCEPT ![next].files = f]
    BY <1>3 DEF Kill
  <2>2. Changed(next, Slice(f, disk[next].manifest))
    BY <1>1, <2>1, FilesReplaced
  <2>3. disk'[next].files = f /\ (s # next => disk'[s] = disk[s])
    BY <1>1, <2>2 DEF Changed, Slice
  <2>4. payload_entries(disk'[next]) = files
    BY <2>3 DEF payload_entries
  <2>5. \A p \in payload_entries(disk[next]) \ {Temporary} : disk'[next].files[p] = disk[next].files[p]
    BY <2>3
  <2>6. payload_entries(disk[next]) \subseteq files
    OBVIOUS
  <2> QED BY <1>3, <2>3, <2>4, <2>5, <2>6
<1>4. CASE UNCHANGED disk
  BY <1>4
<1> QED BY <1>2, <1>3, <1>4 DEF RepairSlice, SkipSlice, Flatten, Kill, Rerun

LEMMA IntactHasNoTruncated ==
  ASSUME NEW s \in Slices, NEW slice, Intact(s, slice) PROVE ~MustHeal(s, slice)
BY DEF Intact, MustHeal, truncated_payload_files

LEMMA IntactNext ==
  ASSUME TypeOK, IsDisk, ContentInv, [Next]_vars,
         NEW s \in Slices, pc # "build", Intact(s, disk[s])
  PROVE  Intact(s, disk'[s])
<1>1. \A p \in DOMAIN Upstream[s] : p # Temporary
  BY UpstreamPaths
<1>2. CASE RepairSlice \/ SwapManifest \/ SkipSlice \/ Flatten \/ Kill \/ Rerun
  BY <1>1, <1>2, FilesKept DEF Intact
<1>3. CASE HealSlice \/ KillHeal
  <2>1. MustHeal(next, disk[next]) /\ next \in Slices
    BY <1>3 DEF HealSlice, KillHeal, TypeOK
  <2>2. s # next
    BY <2>1, IntactHasNoTruncated
  <2>3. disk'[s] = disk[s]
    BY <1>3, <2>2 DEF HealSlice, KillHeal, IsDisk
  <2> QED BY <2>3
<1>4. CASE Populate \/ KillPopulate
  BY <1>4 DEF Populate, KillPopulate
<1>5. CASE UNCHANGED vars
  BY <1>5 DEF vars
<1> QED BY <1>2, <1>3, <1>4, <1>5 DEF Next, RunStep, KillStep

(* What no kill has cut is whole, from Populate on. *)
LEMMA PresentNext ==
  ASSUME TypeOK, IsDisk, ContentInv, PresentInv, ReportInv, [Next]_vars PROVE PresentInv'
<1>0. /\ next \in Slices /\ Slices = 1 .. Last /\ Last \in Nat
      /\ swapping \in BOOLEAN /\ missed \in BOOLEAN
  BY Constants DEF TypeOK, Slices
<1>1. wanted(Gone) = {}
  BY DEF wanted, Gone, derive_prefixes
<1>2. ASSUME NEW failed \in BOOLEAN, pc \in Passes, Advance(failed), NEW s \in Slices, Awaited(s)
      PROVE  Awaited(s)'
  <2>1. \/ pc' = pc
        \/ pc = "heal" /\ pc' = "build" /\ next' = 1
    BY <1>2, AdvanceFacts DEF Awaited, Passes
  <2> QED BY <1>0, <1>2, <2>1 DEF Awaited, Passes
<1>3. CASE HealSlice
  <2>1. /\ disk' = [disk EXCEPT ![next] = Gone] /\ partial' = partial \ {next}
        /\ ~swapping' /\ pc = "heal" /\ Advance(missed)
    BY <1>3 DEF HealSlice
  <2>2. \A s \in Slices : Awaited(s)'
    BY <1>0, <1>2, <2>1 DEF Awaited, Passes
  <2>3. disk'[next] = Gone /\ \A s \in Slices \ {next} : disk'[s] = disk[s]
    BY <1>0, <2>1 DEF IsDisk
  <2>4. \A s \in Slices \ partial' : s # next => s \in Slices \ partial
    BY <2>1
  <2> QED BY <2>1, <2>2, <2>3, <2>4 DEF PresentInv
<1>4. CASE RepairSlice
  <2>1. disk' = disk /\ partial' = partial /\ pc \in Passes /\ ~swapping
    BY <1>4 DEF RepairSlice
  <2>2. CASE swapping'
    <3>1. UNCHANGED <<next, pc>> /\ wanted(disk[next]) # {}
      BY <1>4, <2>1, <2>2 DEF RepairSlice
    <3> QED BY <1>1, <2>1, <3>1 DEF PresentInv, Awaited
  <2>3. CASE ~swapping'
    <3>1. PICK failed \in BOOLEAN : Advance(failed)
      BY <1>0, <1>4, <2>3 DEF RepairSlice
    <3> QED BY <1>2, <2>1, <2>3, <3>1 DEF PresentInv
  <2> QED BY <2>2, <2>3
<1>5. CASE SwapManifest
  <2>1. partial' = partial /\ pc \in Passes /\ ~swapping' /\ Advance(missed) /\ disk[next] # Gone
    BY <1>5 DEF SwapManifest, PresentInv
  <2>2. \A s \in Slices : payload_entries(disk[s]) \subseteq payload_entries(disk'[s])
    BY <1>5, FilesKept
  <2>3. \A s \in Slices : s # next => disk'[s] = disk[s]
    BY <1>5, FilesKept
  <2> QED BY <1>0, <1>2, <2>1, <2>2, <2>3 DEF PresentInv
<1>6. CASE SkipSlice
  <2>1. /\ disk' = disk /\ partial' = partial /\ pc \in Passes /\ Advance(missed)
        /\ swapping' = swapping /\ ~swapping
    BY <1>6 DEF SkipSlice, ReportInv
  <2> QED BY <1>0, <1>2, <2>1 DEF PresentInv
<1>7. CASE Populate
  <2>1. ~swapping' /\ pc = "build"
    BY <1>7 DEF Populate, ReportInv, Passes
  <2>2. \A s \in Slices : s # next /\ Awaited(s) => Awaited(s)'
    BY <1>0, <1>7 DEF Populate, Awaited
  <2>3. CASE UNCHANGED <<disk, partial>> /\ disk[next] # Gone
    BY <2>1, <2>2, <2>3 DEF PresentInv
  <2>4. CASE partial' = partial \ {next} /\ \E m \in {TrueManifest(next), {}} :
               disk' = [disk EXCEPT ![next] = [files |-> Upstream[next], manifest |-> m]]
    <3>1. PICK m : disk' = [disk EXCEPT ![next] = Slice(Upstream[next], m)]
      BY <2>4 DEF Slice
    <3>2. Changed(next, Slice(Upstream[next], m))
      BY <1>0, <3>1, SliceReplaced
    <3>3. disk'[next].files = Upstream[next] /\ \A s \in Slices \ {next} : disk'[s] = disk[s]
      BY <3>2 DEF Changed, Slice
    <3>4. \A s \in Slices \ partial' : s # next => s \in Slices \ partial
      BY <2>4
    <3>5. ASSUME NEW s \in Slices \ partial'
          PROVE  \/ DOMAIN Upstream[s] \subseteq payload_entries(disk'[s])
                 \/ disk'[s] = Gone /\ Awaited(s)'
      <4>1. CASE s = next
        BY <3>3, <4>1
      <4>2. CASE s # next
        BY <2>2, <3>3, <3>4, <4>2 DEF PresentInv
      <4> QED BY <4>1, <4>2
    <3> QED BY <2>1, <3>5 DEF PresentInv
  <2> QED BY <1>7, <2>3, <2>4 DEF Populate
<1>8. CASE KillPopulate \/ KillHeal
  <2>1. pc' = "down" /\ partial' = partial \cup {next}
    BY <1>8 DEF KillPopulate, KillHeal
  <2>2. \A s \in Slices \ {next} : disk'[s] = disk[s]
    BY <1>8 DEF KillPopulate, KillHeal, IsDisk
  <2> QED BY <2>1, <2>2 DEF PresentInv, Awaited, Passes
<1>9. CASE Kill
  <2>1. pc' = "down" /\ partial' = partial /\ pc \in Passes \cup {"flatten"}
    BY <1>9 DEF Kill
  <2>2. \A s \in Slices : payload_entries(disk[s]) \subseteq payload_entries(disk'[s])
    BY <1>9, FilesKept
  <2>3. \A s \in Slices : disk'[s] = disk[s] \/ (s = next /\ swapping)
    BY <1>9, FilesKept DEF Kill
  <2>4. swapping => pc \in Passes
    BY <2>1 DEF ReportInv, Passes
  <2>5. \A s \in Slices : disk[s] = Gone => disk'[s] = Gone
    BY <2>3, <2>4 DEF PresentInv
  <2> QED BY <2>1, <2>2, <2>5 DEF PresentInv, Awaited, Passes
<1>10. CASE Flatten \/ Rerun
  BY <1>10 DEF Flatten, Rerun, PresentInv, Awaited, Passes
<1>11. CASE UNCHANGED vars
  BY <1>11 DEF vars, PresentInv, Awaited
<1> QED
  BY <1>3, <1>4, <1>5, <1>6, <1>7, <1>8, <1>9, <1>10, <1>11 DEF Next, RunStep, KillStep

(* When the heal pass moves on, the slices behind it are those that were   *)
(* behind it before and the one it was at.                                 *)
LEMMA SeenBefore ==
  ASSUME TypeOK, pc = "heal", NEW failed \in BOOLEAN, Advance(failed), ~swapping',
         NEW s \in Active, Passed(s)', s # next
  PROVE  Passed(s)
<1>1. s \in Nat /\ next \in Nat /\ Last \in Nat /\ s <= Last
  BY Constants DEF TypeOK, Slices
<1>2. \/ next' = next + 1 /\ pc' = pc
      \/ next = Last /\ pc' = "build"
  BY AdvanceFacts DEF Passes
<1> QED BY <1>1, <1>2 DEF Passed

LEMMA HealedNext ==
  ASSUME TypeOK, IsDisk, ContentInv, HealedInv, ReportInv, [Next]_vars PROVE HealedInv'
<1> SUFFICES ASSUME NEW s \in Active, Passed(s)' PROVE ~MustHeal(s, disk'[s])
  BY DEF HealedInv
<1>0. next \in Slices /\ s \in Slices /\ missed \in BOOLEAN /\ Proper(next, disk[next])
  BY Constants DEF TypeOK, ContentInv, Proper
<1>1. CASE HealSlice
  <2>1. Changed(next, Gone) /\ ~MustHeal(next, Gone)
    BY <1>1, HealDisk DEF SliceStep
  <2>2. s # next => Passed(s)
    BY <1>0, <1>1, SeenBefore DEF HealSlice
  <2> QED BY <1>0, <2>1, <2>2 DEF Changed, HealedInv
<1>2. CASE RepairSlice
  <2>1. UNCHANGED disk /\ pc \in Passes /\ ~swapping /\ ~(pc = "heal" /\ MustHeal(next, disk[next]))
    BY <1>2 DEF RepairSlice
  <2>2. CASE pc = "heal" /\ s # next /\ UNCHANGED <<next, pc>>
    BY <2>1, <2>2 DEF HealedInv, Passed
  <2>3. CASE pc = "heal" /\ s # next /\ ~UNCHANGED <<next, pc>>
    <3>1. PICK failed \in BOOLEAN : Advance(failed) /\ swapping' = swapping
      BY <1>0, <1>2, <2>3 DEF RepairSlice
    <3> QED BY <2>1, <2>3, <3>1, SeenBefore DEF HealedInv
  <2>4. CASE pc = "heal" /\ s = next
    BY <2>1, <2>4
  <2>5. CASE pc = "repair"
    BY <2>1, <2>5 DEF HealedInv, Passed
  <2> QED BY <2>1, <2>2, <2>3, <2>4, <2>5 DEF Passes
<1>3. CASE SwapManifest
  <2> DEFINE after == Slice(disk[next].files, wanted(disk[next]))
  <2>1. Changed(next, after) /\ (MustHeal(next, after) <=> MustHeal(next, disk[next]))
    BY <1>0, <1>3, SwapDisk, Repaired DEF SliceStep
  <2>2. Passed(s)
    <3>1. s # next /\ pc = "heal" => Passed(s)
      BY <1>0, <1>3, SeenBefore DEF SwapManifest
    <3> QED BY <1>3, <3>1 DEF SwapManifest, Passed, Passes
  <2> HIDE DEF after
  <2> QED BY <1>0, <2>1, <2>2 DEF Changed, HealedInv
<1>4. CASE SkipSlice
  <2>1. UNCHANGED <<disk, swapping>> /\ s # next /\ ~swapping /\ pc \in Passes /\ Advance(missed)
    BY <1>4 DEF SkipSlice, ReportInv
  <2>2. pc = "heal" => Passed(s)
    BY <1>0, <2>1, SeenBefore
  <2> QED BY <2>1, <2>2 DEF HealedInv, Passed, Passes
<1>5. CASE Populate
  <2>1. Passed(s)
    BY <1>5 DEF Populate, Passed
  <2>2. UNCHANGED disk \/ \E slice : Changed(next, slice) /\ ~MustHeal(next, slice)
    BY <1>5, PopulateDisk DEF SliceStep
  <2> QED BY <1>0, <2>1, <2>2 DEF Changed, HealedInv
<1>6. CASE Flatten \/ KillStep \/ Rerun
  <2>1. ~Passed(s)'
    <3>1. s \in Nat /\ s >= 1
      BY <1>0, Constants DEF Slices
    <3> QED BY <1>6, <3>1 DEF Flatten, KillStep, KillPopulate, KillHeal, Kill, Rerun, Passed
  <2> QED BY <2>1
<1>7. CASE UNCHANGED vars
  BY <1>7 DEF vars, HealedInv, Passed
<1> QED BY <1>1, <1>2, <1>3, <1>4, <1>5, <1>6, <1>7 DEF Next, RunStep

-----------------------------------------------------------------------------
(* What a pass reports *)

(* The step of a pass: what it counts as failed so far, and whether it     *)
(* moves on with it or first swaps the manifest.                           *)
PassStep == HealSlice \/ RepairSlice \/ SwapManifest \/ SkipSlice

Counted(failed) ==
  \/ RepairSlice /\ failed = (missed \/ Missing(disk[next]) # {})
  \/ (HealSlice \/ SwapManifest \/ SkipSlice) /\ failed = missed

Stays(failed) ==
  /\ RepairSlice /\ ~swapping /\ swapping' /\ missed' = failed /\ UNCHANGED <<disk, next, pc>>
  /\ next \in Active

LEMMA PassCases ==
  ASSUME TypeOK, ReportInv, PassStep
  PROVE  /\ pc \in Passes
         /\ \E failed \in BOOLEAN :
              /\ Counted(failed)
              /\ (Advance(failed) /\ ~swapping') \/ Stays(failed)
<1>1. missed \in BOOLEAN /\ swapping \in BOOLEAN
  BY DEF TypeOK
<1>2. CASE RepairSlice
  <2> DEFINE failed == missed \/ Missing(disk[next]) # {}
  <2>1. failed \in BOOLEAN
    BY <1>1
  <2>2. /\ pc \in Passes
        /\ (Advance(failed) /\ ~swapping') \/ Stays(failed)
    BY <1>1, <1>2 DEF RepairSlice, Stays, Missing, CoveredBy
  <2>3. Counted(failed)
    BY <1>2 DEF Counted
  <2> HIDE DEF failed
  <2> QED BY <2>1, <2>2, <2>3
<1>3. CASE HealSlice \/ SwapManifest
  BY <1>1, <1>3 DEF HealSlice, SwapManifest, Counted, Passes
<1>4. CASE SkipSlice
  BY <1>1, <1>4 DEF SkipSlice, Counted, ReportInv
<1> QED BY <1>2, <1>3, <1>4 DEF PassStep

(* A step of the repair pass changes no payload, and no manifest but the   *)
(* one of the slice it is at, where what is missing stays the same.        *)
LEMMA PassDisk ==
  ASSUME TypeOK, IsDisk, ContentInv, PassStep, pc = "repair", NEW s \in Slices
  PROVE  /\ Missing(disk'[s]) = Missing(disk[s])
         /\ s # next \/ ~SwapManifest => disk'[s] = disk[s]
         /\ SwapManifest => Uncovered(disk'[next]) = Missing(disk[next])
<1>1. next \in Slices /\ Proper(next, disk[next])
  BY DEF TypeOK, ContentInv, Proper
<1>2. CASE SwapManifest
  <2>1. Changed(next, Slice(disk[next].files, wanted(disk[next])))
    BY <1>2, SwapDisk DEF SliceStep
  <2>2. /\ Missing(disk'[next]) = Missing(disk[next])
        /\ Uncovered(disk'[next]) = Missing(disk[next])
    BY <1>1, <2>1, Repaired DEF Changed
  <2>3. s # next => disk'[s] = disk[s]
    BY <2>1 DEF Changed
  <2> QED BY <1>2, <2>2, <2>3
<1>3. CASE ~SwapManifest
  <2>1. UNCHANGED disk
    BY <1>3 DEF PassStep, HealSlice, RepairSlice, SkipSlice
  <2> QED BY <1>3, <2>1
<1> QED BY <1>2, <1>3

(* What the repair pass counted is there, before the step and after it.    *)
LEMMA CountedIsThere ==
  ASSUME TypeOK, IsDisk, ContentInv, ReportInv, PassStep, pc = "repair", Counted(TRUE)
  PROVE  \E s \in Active : Missing(disk'[s]) # {}
<1>1. Active \subseteq Slices
  BY Constants
<1>2. CASE missed
  <2>1. PICK s \in Active : Missing(disk[s]) # {}
    BY <1>2 DEF ReportInv
  <2> QED BY <1>1, <2>1, PassDisk
<1>3. CASE ~missed
  <2>1. RepairSlice /\ Missing(disk[next]) # {}
    BY <1>3 DEF Counted
  <2>2. next \in Active
    BY <2>1 DEF RepairSlice
  <2> QED BY <1>1, <2>1, <2>2, PassDisk
<1> QED BY <1>2, <1>3

LEMMA MissingUncovered ==
  ASSUME NEW slice, Missing(slice) # {} PROVE Uncovered(slice) # {}
BY UncoveredAntitone DEF Missing, Uncovered, wanted

LEMMA ReportNext ==
  ASSUME TypeOK, IsDisk, ContentInv, ReportInv, [Next]_vars PROVE ReportInv'
<1>1. CASE PassStep
  <2>1. PICK failed \in BOOLEAN :
          Counted(failed) /\ ((Advance(failed) /\ ~swapping') \/ Stays(failed))
    BY <1>1, PassCases
  <2>2. pc \in Passes
    BY <1>1, PassCases
  <2>3. swapping' => pc' \in Passes \cup {"down"} /\ next' \in Active
    BY <2>1, <2>2 DEF Stays
  <2>4. /\ pc' = "build" => ~missed'
        /\ pc' = "repair" /\ missed' => pc = "repair" /\ failed
    <3>1. CASE Advance(failed)
      BY <2>2, <3>1, AdvanceFacts DEF Passes
    <3>2. CASE Stays(failed)
      BY <2>2, <3>2 DEF Stays, Passes
    <3> QED BY <2>1, <3>1, <3>2
  <2>5. pc' = "repair" /\ missed' => \E s \in Active : Missing(disk'[s]) # {}
    BY <1>1, <2>1, <2>4, CountedIsThere
  <2> QED BY <2>3, <2>4, <2>5 DEF ReportInv
<1>2. CASE Populate
  <2>1. ~missed' /\ ~swapping'
    BY <1>2 DEF Populate, ReportInv, Passes
  <2> QED BY <2>1 DEF ReportInv
<1>3. CASE Flatten \/ KillStep \/ Rerun
  BY <1>3 DEF Flatten, KillStep, KillPopulate, KillHeal, Kill, Rerun, ReportInv, Passes
<1>4. CASE UNCHANGED vars
  BY <1>4 DEF vars, ReportInv, Missing, uncovered_payload, wanted
<1> QED BY <1>1, <1>2, <1>3, <1>4 DEF Next, RunStep, PassStep

LEMMA FailureNext ==
  ASSUME TypeOK, IsDisk, ContentInv, ReportInv, FailureIsReal, [Next]_vars PROVE FailureIsReal'
<1> SUFFICES ASSUME pc' = "failed" PROVE \E s \in Active : Uncovered(disk'[s]) # {}
  BY DEF FailureIsReal, Uncovered
<1>1. CASE PassStep
  <2>1. PICK failed \in BOOLEAN : Counted(failed) /\ (Advance(failed) \/ Stays(failed))
    BY <1>1, PassCases
  <2>2. pc \in Passes
    BY <1>1, PassCases
  <2>3. pc = "repair" /\ failed
    BY <2>1, <2>2, AdvanceFacts DEF Stays, Passes
  <2> QED BY <1>1, <2>1, <2>3, CountedIsThere, MissingUncovered
<1>2. CASE Populate \/ Flatten \/ KillStep \/ Rerun
  BY <1>2 DEF Populate, Flatten, KillStep, KillPopulate, KillHeal, Kill, Rerun
<1>3. CASE UNCHANGED vars
  BY <1>3 DEF vars, FailureIsReal, Uncovered
<1> QED BY <1>1, <1>2, <1>3 DEF Next, RunStep, PassStep

(* No truncated file is left to flatten. *)
LEMMA HollowNext ==
  ASSUME TypeOK, ContentInv, HealedInv, NoHollowFile, [Next]_vars PROVE NoHollowFile'
<1>1. CASE Flatten
  <2> SUFFICES ASSUME NEW f \in dist', f[2] # Temporary PROVE f[3] = Upstream[f[1]][f[2]]
    BY DEF NoHollowFile
  <2> DEFINE s == f[1]
             p == f[2]
  <2>1. s \in Active /\ p \in payload_entries(disk[s]) /\ f[3] = disk[s].files[p]
    BY <1>1 DEF Flatten
  <2>2. s \in Slices /\ ~MustHeal(s, disk[s]) /\ Genuine(s, disk[s])
    BY <1>1, <2>1, Constants DEF Flatten, HealedInv, Passed, ContentInv
  <2>3. p \in DOMAIN Upstream[s] /\ disk[s].files[p] \in {"empty", Upstream[s][p]}
    BY <2>1, <2>2 DEF Genuine, Payload
  <2>4. Upstream[s][p] \in {"empty", "full"}
    BY <2>2, <2>3, UpstreamPaths DEF Sizes
  <2>5. ~(disk[s].files[p] = "empty" /\ Upstream[s][p] = "full")
    BY <2>1, <2>2, <2>3 DEF MustHeal, truncated_payload_files
  <2> QED BY <2>1, <2>3, <2>4, <2>5
<1>2. CASE UNCHANGED dist
  BY <1>2 DEF NoHollowFile
<1> QED
  BY <1>1, <1>2 DEF Next, RunStep, KillStep, HealSlice, RepairSlice, SwapManifest, SkipSlice,
     Populate, KillPopulate, KillHeal, Kill, Rerun, vars

-----------------------------------------------------------------------------
(* What a pass covers *)

(* A slice that the pass leaves as it is, with nothing missing, is covered *)
(* by the manifest it has.                                                 *)
LEMMA CompleteIsCovered ==
  ASSUME NEW s \in Slices, NEW slice, Proper(s, slice), Listed(slice), Missing(slice) = {},
         slice.manifest # {} \/ payload_entries(slice) = {} \/ wanted(slice) = {}
  PROVE  Uncovered(slice) = {}
<1> DEFINE files == payload_entries(slice)
<1>1. CASE files = {}
  BY <1>1 DEF Uncovered, uncovered_payload
<1>2. CASE files # {}
  <2>1. \A p \in files : \E q \in wanted(slice) : IsUnder(q, p)
    BY DEF Missing, uncovered_payload
  <2>2. slice.manifest # {}
    BY <1>2, <2>1
  <2>3. wanted(slice) \subseteq Prefixes
    BY DeriveType DEF wanted, Proper, SliceTypeOK
  <2>4. Payload(slice) = files
    BY <2>1, <2>3, TemporaryUncovered DEF Payload
  <2>5. wanted(slice) = slice.manifest
    BY <2>2, <2>4 DEF Listed, wanted
  <2> QED BY <2>5 DEF Missing, Uncovered
<1> QED BY <1>1, <1>2

(* The repair pass leaves the slice it was at covered, or says so. *)
LEMMA PassCovers ==
  ASSUME TypeOK, IsDisk, ContentInv, ReportInv, ManifestInv, CoverInv, PassStep, pc = "repair",
         NEW failed \in BOOLEAN, ~failed, Counted(failed), Advance(failed), next \in Active
  PROVE  Uncovered(disk'[next]) = {}
<1>1. next \in Slices /\ Proper(next, disk[next]) /\ Listed(disk[next])
  BY DEF TypeOK, ContentInv, Proper, ManifestInv
<1>2. CASE SwapManifest /\ ~missed
  <2>1. Missing(disk[next]) = {}
    BY <1>2 DEF CoverInv, SwapManifest
  <2> QED BY <1>1, <1>2, <2>1, PassDisk
<1>3. CASE RepairSlice
  <2>1. Missing(disk[next]) = {}
    BY <1>3 DEF Counted, RepairSlice, SwapManifest, SkipSlice, HealSlice
  <2>2. CASE swapping' = swapping
    <3>1. \/ disk[next].manifest # {} \/ payload_entries(disk[next]) = {}
          \/ wanted(disk[next]) = {}
      BY <1>3, <2>2 DEF RepairSlice, TypeOK
    <3>2. Uncovered(disk[next]) = {}
      BY <1>1, <2>1, <3>1, CompleteIsCovered
    <3> QED BY <1>3, <3>2 DEF RepairSlice
  <2>3. CASE swapping' # swapping
    <3>1. next' = next /\ pc' = pc
      BY <1>3, <2>3 DEF RepairSlice
    <3> QED BY <3>1, AdvanceFacts, <1>1, Constants DEF Slices, Passes
  <2> QED BY <2>2, <2>3
<1>4. RepairSlice \/ (SwapManifest /\ ~missed)
  <2>1. ~HealSlice /\ ~SkipSlice /\ ~(SwapManifest /\ RepairSlice)
    BY DEF HealSlice, SkipSlice, SwapManifest, RepairSlice
  <2> QED BY <2>1 DEF PassStep, Counted
<1> QED BY <1>2, <1>3, <1>4

LEMMA CoverNext ==
  ASSUME TypeOK, IsDisk, ContentInv, ReportInv, ManifestInv, CoverInv, [Next]_vars
  PROVE  CoverInv'
<1>0. Active \subseteq Slices /\ next \in Slices /\ Slices = 1 .. Last /\ Last \in Nat
  BY Constants DEF TypeOK, Slices
<1>1. CASE PassStep /\ pc = "repair"
  <2>1. PICK failed \in BOOLEAN :
          Counted(failed) /\ ((Advance(failed) /\ ~swapping') \/ Stays(failed))
    BY <1>1, PassCases
  <2>2. ~failed => ~missed
    BY <2>1 DEF Counted
  <2>3. CASE Advance(failed) /\ ~swapping' /\ ~failed
    <3>1. \A s \in Active : s <= next => Uncovered(disk'[s]) = {}
      <4> SUFFICES ASSUME NEW s \in Active, s <= next PROVE Uncovered(disk'[s]) = {}
        OBVIOUS
      <4>1. CASE s = next
        BY <1>1, <2>1, <2>3, <4>1, PassCovers
      <4>2. CASE s # next
        <5>1. s < next
          BY <1>0, <4>2
        <5>2. Uncovered(disk[s]) = {}
          BY <1>1, <2>2, <2>3, <5>1 DEF CoverInv
        <5> QED BY <1>0, <1>1, <4>2, <5>2, PassDisk
      <4> QED BY <4>1, <4>2
    <3>2. CASE next < Last
      <4>1. next' = next + 1 /\ pc' = "repair"
        BY <1>1, <2>3, <3>2 DEF Advance
      <4>2. \A s \in Active : s < next' => s <= next
        BY <1>0, <4>1
      <4> QED BY <2>3, <3>1, <4>1, <4>2 DEF CoverInv
    <3>3. CASE next = Last
      <4>1. pc' = "flatten"
        <5>1. ~(next < Last) /\ pc \in Passes
          BY <1>0, <1>1, <3>3 DEF Passes
        <5> QED BY <1>1, <2>3, <5>1, AdvanceFacts
      <4>2. \A s \in Active : s <= next
        BY <1>0, <3>3
      <4> QED BY <3>1, <4>1, <4>2 DEF CoverInv
    <3> QED BY <1>0, <3>2, <3>3
  <2>4. CASE Advance(failed) /\ failed
    <3>1. pc' = "failed" \/ (pc' = "repair" /\ missed')
      BY <1>1, <2>4, AdvanceFacts DEF Passes
    <3> QED BY <3>1 DEF CoverInv
  <2>5. CASE Stays(failed)
    <3>1. UNCHANGED <<disk, next, pc>> /\ missed' = failed /\ RepairSlice
      BY <2>5 DEF Stays
    <3>2. ~failed => Missing(disk[next]) = {}
      BY <2>1, <3>1 DEF Counted, RepairSlice, SwapManifest, SkipSlice, HealSlice
    <3> QED BY <1>1, <2>2, <3>1, <3>2 DEF CoverInv
  <2> QED BY <2>1, <2>3, <2>4, <2>5
<1>2. CASE PassStep /\ pc # "repair"
  <2>1. pc' \in {"heal", "build"}
    <3>1. PICK failed \in BOOLEAN : Counted(failed) /\ (Advance(failed) \/ Stays(failed))
      BY <1>2, PassCases
    <3>2. pc = "heal"
      BY <1>2, PassCases DEF Passes
    <3> QED BY <3>1, <3>2, AdvanceFacts DEF Stays, Passes
  <2> QED BY <2>1 DEF CoverInv
<1>3. CASE Populate
  <2>1. pc' = "build" \/ (pc' = "repair" /\ next' = 1 /\ ~swapping')
    BY <1>3 DEF Populate, ReportInv, Passes
  <2>2. \A s \in Active : ~(s < 1)
    BY <1>0
  <2> QED BY <2>1, <2>2 DEF CoverInv
<1>4. CASE Flatten \/ KillStep \/ Rerun
  BY <1>4 DEF Flatten, KillStep, KillPopulate, KillHeal, Kill, Rerun, CoverInv
<1>5. CASE UNCHANGED vars
  <2>1. UNCHANGED <<disk, pc, next, swapping, missed>>
    BY <1>5 DEF vars
  <2> QED BY <2>1 DEF CoverInv
<1> QED BY <1>1, <1>2, <1>3, <1>4, <1>5 DEF Next, RunStep, PassStep

(* artifact-flatten misses no covered file. *)
LEMMA FlattenedNext ==
  ASSUME TypeOK, CoverInv, AllFlattened, [Next]_vars PROVE AllFlattened'
<1>1. CASE Flatten
  <2> SUFFICES ASSUME NEW s \in Active \cap Packaged, NEW p \in payload_entries(disk[s])
               PROVE  <<s, p, disk[s].files[p]>> \in dist'
    BY <1>1 DEF Flatten, AllFlattened
  <2> DEFINE f == <<s, p, disk[s].files[p]>>
  <2>1. s \in Slices /\ p \in Paths /\ disk[s].files[p] \in Sizes
    BY Constants DEF TypeOK, SliceTypeOK
  <2>2. Uncovered(disk[s]) = {}
    BY <1>1 DEF Flatten, CoverInv
  <2>3. \E q \in disk[s].manifest : IsUnder(q, p)
    BY <2>2 DEF Uncovered, uncovered_payload
  <2>4. f \in (Active \cap Packaged) \X Paths \X Sizes
    BY <2>1
  <2> QED BY <1>1, <2>3, <2>4 DEF Flatten
<1>2. CASE UNCHANGED vars
  BY <1>2 DEF vars, AllFlattened
<1>3. CASE PassStep
  <2>1. pc \in Passes /\ (pc' = pc \/ pc' = AfterPass(TRUE) \/ pc' = AfterPass(FALSE))
    BY <1>3 DEF PassStep, HealSlice, RepairSlice, SwapManifest, SkipSlice, Advance, Passes, TypeOK
  <2>2. pc' # "passed"
    BY <2>1 DEF AfterPass, Passes
  <2> QED BY <2>2 DEF AllFlattened
<1>4. CASE Populate \/ KillStep \/ Rerun
  BY <1>4 DEF Populate, KillStep, KillPopulate, KillHeal, Kill, Rerun, AllFlattened
<1> QED BY <1>1, <1>2, <1>3, <1>4 DEF Next, RunStep, PassStep

-----------------------------------------------------------------------------
(* The theorems *)

LEMMA InvNext == IInv /\ [Next]_vars => IInv'
<1> SUFFICES ASSUME IInv, [Next]_vars PROVE IInv'
  OBVIOUS
<1> USE DEF IInv
<1>1. TypeOK'
  BY TypeNext
<1>2. IsDisk' /\ ContentInv'
  BY DiskNext DEF ContentInv, Proper
<1>3. HealedInv' /\ ReportInv' /\ FailureIsReal' /\ NoHollowFile' /\ PresentInv'
  BY HealedNext, ReportNext, FailureNext, HollowNext, PresentNext
<1> QED BY <1>1, <1>2, <1>3

LEMMA WholeNext ==
  ASSUME PartialManifests = FALSE
  PROVE  IInv /\ CInv /\ [Next]_vars => CInv'
<1> SUFFICES ASSUME IInv, CInv, [Next]_vars PROVE CInv'
  OBVIOUS
<1>1. ManifestInv'
  BY DiskNext DEF IInv, CInv
<1>2. CoverInv' /\ AllFlattened'
  BY CoverNext, FlattenedNext DEF IInv, CInv
<1> QED BY <1>1, <1>2 DEF CInv

(* The inductive invariant is one. *)
LEMMA Invariance == Spec => []IInv
BY InitInv, InvNext, PTL DEF Spec

(* Every variable keeps its type: no pass runs past the last slice, and no *)
(* manifest names a prefix that no path has.                               *)
THEOREM TypeCorrect == Spec => []TypeOK
<1>1. IInv => TypeOK
  BY DEF IInv
<1> QED BY <1>1, Invariance, PTL

(* --strict fails only when an active slice holds a file that its manifest *)
(* does not cover: main() of repair_artifact_manifests.py counts no file   *)
(* that is not there and covered by nothing.                               *)
THEOREM FailureGenuine == Spec => []FailureIsReal
<1>1. IInv => FailureIsReal
  BY DEF IInv
<1> QED BY <1>1, Invariance, PTL

(* The first half of DistIsWhole, whatever an interrupted Populate leaves  *)
(* of its manifest: no file with content upstream reaches dist/rocm empty, *)
(* since the heal pass of the same run deletes the slice of each.          *)
THEOREM NothingHollow == Spec => []NoHollowFile
<1>1. IInv => NoHollowFile
  BY DEF IInv
<1> QED BY <1>1, Invariance, PTL

(* What is as the stage trees have it is left so by both passes, by a kill *)
(* in them and by a rerun: truncated_payload_files asks for content        *)
(* upstream before a slice is deleted over an empty file.                  *)
THEOREM IntactKept == Spec => IntactIsKept
<1>1. IInv /\ [Next]_vars =>
        [\A s \in Slices : pc # "build" /\ Intact(s, disk[s]) => Intact(s, disk'[s])]_vars
  BY IntactNext DEF IInv
<1> QED BY <1>1, Invariance, PTL DEF Spec, IntactIsKept

(* What a passed run has flattened, where no kill left a part of a slice.  *)
LEMMA UpstreamIsFlattened ==
  ASSUME TypeOK, PresentInv, ContentInv, AllFlattened, NoHollowFile PROVE UpstreamFlattened
<1> SUFFICES ASSUME pc = "passed", NEW s \in (Active \cap Packaged) \ partial,
                    NEW p \in DOMAIN Upstream[s]
             PROVE  <<s, p, Upstream[s][p]>> \in dist
  BY DEF UpstreamFlattened
<1>1. s \in Slices /\ p # Temporary
  BY Constants, UpstreamPaths
<1>2. p \in payload_entries(disk[s])
  BY <1>1 DEF PresentInv, Awaited
<1>3. <<s, p, disk[s].files[p]>> \in dist
  BY <1>2 DEF AllFlattened
<1>4. disk[s].files[p] = Upstream[s][p]
  BY <1>1, <1>3 DEF NoHollowFile
<1> QED BY <1>3, <1>4

(* If an interrupted Populate leaves no manifest or an empty one, a run    *)
(* that passed has flattened every payload file of the active run, lib and *)
(* dev slices, and what is in the stage trees of every slice that no kill  *)
(* left with a part.  The hypothesis is needed: the run manifest_partial   *)
(* shows DistIsWhole violated without it.                                  *)
THEOREM DistWhole ==
  ASSUME PartialManifests = FALSE
  PROVE  Spec => []DistIsWhole
<1>1. IInv /\ CInv => DistIsWhole
  <2> SUFFICES ASSUME IInv, CInv PROVE DistIsWhole
    OBVIOUS
  <2>1. NoHollowFile /\ AllFlattened /\ UpstreamFlattened
    BY UpstreamIsFlattened DEF IInv, CInv
  <2> QED BY <2>1 DEF NoHollowFile, AllFlattened, UpstreamFlattened, DistIsWhole
<1>2. Init => IInv /\ CInv
  BY InitInv
<1>3. IInv /\ CInv /\ [Next]_vars => IInv' /\ CInv'
  BY InvNext, WholeNext
<1> QED BY <1>1, <1>2, <1>3, PTL DEF Spec
=============================================================================
