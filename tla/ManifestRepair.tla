--------------------------- MODULE ManifestRepair ---------------------------
(***************************************************************************)
(* scripts/repair_artifact_manifests.py inside the build script that runs  *)
(* it twice: with --heal before the build and with --strict after it, then *)
(* artifact-flatten copies what the manifests name.  A run may be killed   *)
(* between any two file-system operations and is then started again on     *)
(* the same build tree, as docs/BUILD_RECOVERY.md tells the operator.      *)
(***************************************************************************)
EXTENDS Naturals, Sequences

CONSTANTS
  Last,              \* slices are 1 .. Last, in the order of sorted()
  Active,            \* slices of projects in artifact_subprojects.json
  Packaged,          \* slices whose component is run, lib or dev
  Upstream,          \* Upstream[s]: what the stage trees hold for slice s,
                     \* a function from relative paths to Sizes
  PartialManifests,  \* may an interrupted Populate leave some manifest lines
  MaxKills           \* bound: how often a run is killed

Slices == 1 .. Last
Sizes == {"empty", "full"}

(* A relative path is the sequence of its components; the temporary file   *)
(* of write_manifest_atomic sits in the root of the slice.                 *)
Temporary == <<".artifact_manifest.tmp">>
Paths == (UNION {DOMAIN Upstream[s] : s \in Slices}) \cup {Temporary}

ASSUME SlicesAssumption ==
  Last \in Nat \ {0} /\ Active \subseteq Slices /\ Packaged \subseteq Slices
ASSUME UpstreamAssumption ==
  \A s \in Slices : \A p \in DOMAIN Upstream[s] :
    /\ p \in Seq(STRING) /\ p # <<>> /\ p # Temporary
    /\ Upstream[s][p] \in Sizes
ASSUME BoundAssumption == MaxKills \in Nat /\ PartialManifests \in BOOLEAN

-----------------------------------------------------------------------------
(* Prefixes *)

Terminals == {"stage", "dist"}

(* Mutant: the entries directly below a prefix are not counted as covered. *)
IsWellUnder(prefix, path) ==
  Len(prefix) + 1 < Len(path) /\ SubSeq(path, 1, Len(prefix)) = prefix

IsUnder(prefix, path) ==
  Len(prefix) < Len(path) /\ SubSeq(path, 1, Len(prefix)) = prefix

(* The ancestor up to the first `stage` or `dist` at depth three or more,  *)
(* else the first three components.                                        *)
prefix_for(path) ==
  LET ends == {k \in 3 .. Len(path) : path[k] \in Terminals}
  IN  IF ends = {}
      THEN SubSeq(path, 1, IF Len(path) < 3 THEN Len(path) ELSE 3)
      ELSE SubSeq(path, 1, CHOOSE k \in ends : \A l \in ends : k <= l)

(* Only a directory can be a prefix: a file at depth three without a       *)
(* terminal has none.                                                      *)
derive_prefixes(files) ==
  {q \in {prefix_for(p) : p \in files} : \E f \in files : IsUnder(q, f)}

uncovered_payload(files, prefixes) ==
  {p \in files : ~\E q \in prefixes : IsUnder(q, p)}

Prefixes == {prefix_for(p) : p \in Paths}

-----------------------------------------------------------------------------
(* The slice directories *)

(* A slice directory: the payload files with their sizes and the entries   *)
(* of artifact_manifest.txt; a manifest that is missing and one that is    *)
(* empty read alike.                                                       *)
Gone == [files |-> <<>>, manifest |-> {}]

payload_entries(slice) == DOMAIN slice.files

(* Mutant: truncated slices are not looked for. *)
NoTruncationScan(s, slice) == {}

(* Mutant: every 0-byte payload file counts, also one empty upstream.      *)
AnyEmptyFile(s, slice) == {p \in payload_entries(slice) : slice.files[p] = "empty"}

(* A 0-byte payload file whose counterpart in the build tree has content.  *)
truncated_payload_files(s, slice) ==
  {p \in payload_entries(slice) \cap DOMAIN Upstream[s] :
     slice.files[p] = "empty" /\ Upstream[s][p] = "full"}

MustHeal(s, slice) == truncated_payload_files(s, slice) # {}

TrueManifest(s) == derive_prefixes(DOMAIN Upstream[s])

VARIABLES
  disk,      \* disk[s]: the slice directory of s
  dist,      \* files of dist/rocm, as <<slice, path, size>>
  pc,        \* the stage the run is in
  next,      \* the slice the current pass is at
  swapping,  \* between mkstemp and os.replace of a manifest
  missed,    \* uncovered_after > 0 in the current pass
  kills,
  partial    \* observer: slices a kill left with part of their files, and
             \* that nothing has removed or regenerated since

vars == <<disk, dist, pc, next, swapping, missed, kills, partial>>

Passes == {"heal", "repair"}

Init ==
  /\ disk = [s \in Slices |-> Gone]
  /\ dist = {}
  /\ pc = "heal"
  /\ next = 1
  /\ swapping = FALSE
  /\ missed = FALSE
  /\ kills = 0
  /\ partial = {}

wanted(slice) == slice.manifest \cup derive_prefixes(payload_entries(slice))

(* Mutant: the coverage is judged by the manifest before its repair. *)
BeforeRepair(slice) == slice.manifest

(* The prefixes that `missing` is computed against. *)
CoveredBy(slice) == wanted(slice)

(* Where a pass goes after its last slice: only the second one is strict.  *)
AfterPass(failed) ==
  CASE pc = "heal"              -> "build"
    [] pc = "repair" /\ failed  -> "failed"
    [] pc = "repair" /\ ~failed -> "flatten"

(* Mutant: a pass runs one slice too far. *)
AdvancePastEnd(failed) ==
  IF next <= Last
  THEN next' = next + 1 /\ missed' = failed /\ UNCHANGED pc
  ELSE next' = 1 /\ missed' = FALSE /\ pc' = AfterPass(failed)

Advance(failed) ==
  IF next < Last
  THEN next' = next + 1 /\ missed' = failed /\ UNCHANGED pc
  ELSE next' = 1 /\ missed' = FALSE /\ pc' = AfterPass(failed)

(* The heal branch deletes a slice with a truncated payload. *)
HealSlice ==
  /\ pc = "heal" /\ ~swapping /\ next \in Active
  /\ MustHeal(next, disk[next])
  /\ disk' = [disk EXCEPT ![next] = Gone]
  /\ partial' = partial \ {next}
  /\ Advance(missed)
  /\ UNCHANGED <<dist, swapping, kills>>

(* Any other slice is counted complete, or its manifest is rewritten,      *)
(* which begins with mkstemp in the slice directory itself.                *)
RepairSlice ==
  /\ pc \in Passes /\ ~swapping
  /\ LET slice == disk[next]
         files == payload_entries(slice)
         missing == uncovered_payload(files, CoveredBy(slice))
         failed == missed \/ missing # {}
         complete == missing = {} /\ (slice.manifest # {} \/ files = {})
     IN  /\ next \in Active
         /\ ~(pc = "heal" /\ MustHeal(next, slice))
         /\ IF complete \/ wanted(slice) = {}
            THEN Advance(failed) /\ UNCHANGED <<disk, swapping>>
            ELSE swapping' = TRUE /\ missed' = failed /\ UNCHANGED <<disk, next, pc>>
  /\ UNCHANGED <<dist, kills, partial>>

(* os.replace(temporary, manifest) *)
SwapManifest ==
  /\ pc \in Passes /\ swapping
  /\ disk' = [disk EXCEPT ![next].manifest = wanted(disk[next])]
  /\ swapping' = FALSE
  /\ Advance(missed)
  /\ UNCHANGED <<dist, kills, partial>>

(* Slices of inactive projects are skipped. *)
SkipSlice ==
  /\ pc \in Passes /\ next \notin Active
  /\ Advance(missed)
  /\ UNCHANGED <<disk, dist, swapping, kills, partial>>

-----------------------------------------------------------------------------
(* The stages around it *)

(* Ninja's Populate step (external): a slice that is gone is regenerated,  *)
(* one that is there is kept or regenerated; the gfx906 build is known to  *)
(* end with the payload in place and a 0-byte manifest.                    *)
Populate ==
  /\ pc = "build"
  /\ \/ /\ \E m \in {TrueManifest(next), {}} :
             disk' = [disk EXCEPT ![next] = [files |-> Upstream[next], manifest |-> m]]
        /\ partial' = partial \ {next}
     \/ disk[next] # Gone /\ UNCHANGED <<disk, partial>>
  /\ IF next < Last
     THEN next' = next + 1 /\ UNCHANGED pc
     ELSE next' = 1 /\ pc' = "repair"
  /\ UNCHANGED <<dist, swapping, missed, kills>>

(* artifact-flatten (external) copies the files under the prefixes that    *)
(* the manifests of the active run, lib and dev slices name; dist/rocm is  *)
(* expunged first.                                                         *)
Flatten ==
  /\ pc = "flatten"
  /\ dist' = {f \in (Active \cap Packaged) \X Paths \X Sizes :
                LET slice == disk[f[1]]
                IN  /\ f[2] \in payload_entries(slice) /\ f[3] = slice.files[f[2]]
                    /\ \E q \in slice.manifest : IsUnder(q, f[2])}
  /\ pc' = "passed"
  /\ UNCHANGED <<disk, next, swapping, missed, kills, partial>>

(* A kill in the middle of Populate leaves some files, some of them empty, *)
(* and a manifest that is missing, or cut short.                           *)
KillPopulate ==
  /\ pc = "build" /\ kills < MaxKills
  /\ \E files \in SUBSET DOMAIN Upstream[next], cut \in SUBSET DOMAIN Upstream[next],
        m \in SUBSET TrueManifest(next) :
       /\ cut \subseteq files
       /\ m # {} => PartialManifests /\ files # {}
       /\ disk' = [disk EXCEPT ![next] =
                     [files |-> [p \in files |-> IF p \in cut THEN "empty"
                                                 ELSE Upstream[next][p]],
                      manifest |-> m]]
  /\ partial' = partial \cup {next}
  /\ pc' = "down" /\ kills' = kills + 1
  /\ UNCHANGED <<dist, next, swapping, missed>>

(* A kill in the middle of the rmtree of a healed slice. *)
KillHeal ==
  /\ pc = "heal" /\ ~swapping /\ next \in Active /\ kills < MaxKills
  /\ MustHeal(next, disk[next])
  /\ \E files \in SUBSET payload_entries(disk[next]), m \in {disk[next].manifest, {}} :
       disk' = [disk EXCEPT ![next] =
                  [files |-> [p \in files |-> disk[next].files[p]], manifest |-> m]]
  /\ partial' = partial \cup {next}
  /\ pc' = "down" /\ kills' = kills + 1
  /\ UNCHANGED <<dist, next, swapping, missed>>

(* A kill between two operations of a pass, or of artifact-flatten; the    *)
(* random name of mkstemp is never used again.                             *)
Kill ==
  /\ pc \in Passes \cup {"flatten"} /\ kills < MaxKills
  /\ IF swapping
     THEN LET files == payload_entries(disk[next]) \cup {Temporary}
          IN  disk' = [disk EXCEPT ![next].files =
                         [p \in files |-> IF p = Temporary THEN "full"
                                          ELSE disk[next].files[p]]]
     ELSE UNCHANGED disk
  /\ pc' = "down" /\ kills' = kills + 1
  /\ UNCHANGED <<dist, next, swapping, missed, partial>>

(* The operator starts the build script again on the same tree. *)
Rerun ==
  /\ pc \in {"down", "failed"}
  /\ pc' = "heal" /\ next' = 1 /\ swapping' = FALSE /\ missed' = FALSE
  /\ UNCHANGED <<disk, dist, kills, partial>>

RunStep == HealSlice \/ RepairSlice \/ SwapManifest \/ SkipSlice \/ Populate \/ Flatten
KillStep == KillPopulate \/ KillHeal \/ Kill

Next == RunStep \/ KillStep \/ Rerun

Spec == Init /\ [][Next]_vars

(* The script runs on until it ends or is killed, and the operator starts  *)
(* a run that did not pass again.                                          *)
FairSpec == Spec /\ WF_vars(RunStep) /\ WF_vars(Rerun)

-----------------------------------------------------------------------------
(* Properties *)

SliceTypeOK(slice) ==
  /\ payload_entries(slice) \subseteq Paths
  /\ \A p \in payload_entries(slice) : slice.files[p] \in Sizes
  /\ slice.manifest \subseteq Prefixes

(* Every variable has its type. *)
TypeOK ==
  /\ DOMAIN disk = Slices /\ \A s \in Slices : SliceTypeOK(disk[s])
  /\ dist \subseteq Slices \X Paths \X Sizes
  /\ pc \in Passes \cup {"build", "flatten", "passed", "failed", "down"}
  /\ next \in Slices
  /\ swapping \in BOOLEAN /\ missed \in BOOLEAN
  /\ kills \in 0 .. MaxKills
  /\ partial \subseteq Slices

(* "flattening empty files into the distribution", "report anything that   *)
(* is still uncovered so the build fails instead of shipping a hollow      *)
(* tree": whatever was killed when, no file reaches dist/rocm empty that   *)
(* has content upstream, and a run that passed has flattened every payload *)
(* file that lies in the active run, lib and dev slices, which is all that *)
(* upstream has but for slices that a kill left with a part of it: where   *)
(* Ninja keeps such a slice, the scripts take the part for the whole.      *)
DistIsWhole ==
  /\ \A f \in dist : f[2] # Temporary => f[3] = Upstream[f[1]][f[2]]
  /\ pc = "passed" =>
       \A s \in Active \cap Packaged : \A p \in payload_entries(disk[s]) :
         <<s, p, disk[s].files[p]>> \in dist
  /\ pc = "passed" =>
       \A s \in (Active \cap Packaged) \ partial : \A p \in DOMAIN Upstream[s] :
         <<s, p, Upstream[s][p]>> \in dist

(* "legitimately empty upstream": what is as upstream made it is left so.  *)
(* No pass, no kill in one and no rerun takes a file from an intact slice, *)
(* also where a file of it is empty; only Ninja's own steps may.           *)
Intact(s, slice) ==
  \A p \in DOMAIN Upstream[s] :
    p \in payload_entries(slice) /\ slice.files[p] = Upstream[s][p]

IntactIsKept ==
  [][\A s \in Slices : pc # "build" /\ Intact(s, disk[s]) => Intact(s, disk'[s])]_vars

(* --strict fails only when some active slice really holds a file that its *)
(* manifest on disk does not cover, so a failure is never spurious.        *)
FailureIsReal ==
  pc = "failed" =>
    \E s \in Active :
      uncovered_payload(payload_entries(disk[s]), disk[s].manifest) # {}

(* After the last kill a rerun passes, unless a kill inside                *)
(* write_manifest_atomic left its temporary file in a slice: no later run  *)
(* deletes or covers that file.                                            *)
Orphaned == \E s \in Active : Temporary \in payload_entries(disk[s])
RecoversUnlessOrphaned == <>(pc = "passed" \/ Orphaned)
=============================================================================
