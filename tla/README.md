# Verification of the MI50 ROCm build, packaging and installation

This directory holds TLA+ models of the scripts in `scripts/` of this
repository, the TLC configurations that check them on small instances, and
TLAPS proofs of the theorems that hold for every instance. The scripts build
ROCm from pinned sources for gfx906, package it, install it, validate it on a
host that may or may not have an MI50, and build PyTorch and llama.cpp on top.

None of them is large, but all of them are *resumed*: a build takes many hours,
is killed, and is started again over what it left; the installer may meet a
second installer; a validation run may lose its card. What is right about a
single undisturbed run is easy to see and to test. The models are about the
rest.

## 1. Inventory

| Component (sources) | State | Operations | Talks to | What is hard | What makes it correct |
|---|---|---|---|---|---|
| Archive installer (`install_rocm_mi50.py`) | prefix, `.previous-<stamp>` backups, private staging directories, the archive file | inspect, extract, audit, move aside, publish, write environment and manifest, roll back, clean up | file system, archive file (written by the packager), other installers | steps of two invocations in any order, Ctrl-C and kills between two renames, failing cleanup | nothing unaudited is ever published; what users had is not lost; a refused run restores what it found, or keeps it if that fails too; no staging litter |
| Artifact manifest repair (`repair_artifact_manifests.py`) | slices with payload and `artifact_manifest.txt` | `--heal` (remove truncated slices), strict repair (complete the manifests) | Ninja, artifact-flatten, the build script | a kill inside a removal or between temporary file and rename; partial manifests | what flatten copies is whole, and complete but for what a kill has deleted; intact slices are left alone; failure only for a real gap; reruns recover |
| Patch queue and source lock (`build_therock_gfx906.sh`, `verify_source_lock.py`) | TheRock checkout and submodules as git leaves them | offer each patch forward and reverse, supersession rules, lock check | git, the sources | reruns over a tree in which later patches changed earlier hunks; `git apply` cut off | what is configured has every patch wholly; a rerun is a no-op; refusals are real |
| Build script, delivery (`build_therock_gfx906.sh`, `package_rocm_gfx906.py`, `validate_*.py`, `filter_rocm_wheels.py`, `write_build_provenance.py`) | `dist/rocm`, archive, `dist_info.json`, wheels, reports, verdict, `mi50_features.json` | build, expunge and distribute, flatten, gate, package, wheels, publish reports, validate | the installer, the operator | what earlier runs with other settings left; every file is replaced on its own | a run that exits 0 leaves artifacts that belong together; no hollow archive |
| Hardware validation (`mi50_validation_suite.py`, gates, smokes, `rocminfo_parser.py`) | reports of the steps | run a step with a timeout, map its status, conclude | kernel, ROCm, GPU | the host changes between two observations; pending gates exit 0 | the verdict claims no more than every step met and hides no failure; it always comes |
| PyTorch builder (`build/pytorch/*`) | `SOURCE/build`, build directories, patched source, wheel, metadata | link, patch, hipify, compile, bundle, describe, unlink | setup.py, git, other runs | the link is shared, killed runs leave it, `git apply` cut off | the user's own `build` survives; no stray link at `SOURCE/build`; a success has every patch; refusals are real |
| Release gates (`validate_rocr_build.py`, `validate_dist_contents.py`, `validate_elf_dependencies.py`, checks of packager and installer) | none of their own: one tree, its RUNPATHs, the archive | validate ROCr, repair the RDC test's RUNPATH, look for required files and foreign code, ask `ldd`, exclude, inspect, audit | build script, packager, installer, two hosts | each looks for something else, by name or by bytes; `ldd` answers for the host it runs on; the packager drops files after the audit | what the gates passed is refused on another host for nothing they could see; nothing excluded or foreign is shipped |
| Wheel filter and validator (`filter_rocm_wheels.py`, `validate_python_packages.py`) | the package directory with wheels and temporary files | empty, build, read, rewrite, replace, validate | upstream's wheel tool, other runs | overlapping runs, kills, three different predicates for "excluded", RECORD rows | what is accepted is what was built less the excluded members, and RECORD describes it; no refusal without a reason; no half wheel |
| llama.cpp builder (`build/llama.cpp/build_llama_gfx906.sh`) | build directory with its CMake cache, installation, metadata | clean, configure, build, install in place, describe | cmake, git, whoever runs the installation | the cache survives, the checkout moves, files are replaced one by one | the metadata fits the files |
| LLM benchmark gate (`mi50_llm_benchmark.py`) | the report | look for card and binary, take a snapshot, run llama-bench, compare with a baseline | kernel, card, the builder's installation | card and files change between looking and running | a pass was measured on what it claims |
| Provenance and standalone verifiers (`audit_gfx906.py`, `verify_configure_gfx906.py`, `verify_patch_lock.py`, ...) | none that is kept | read, compare, print | | | stages of `Delivery` that may fail; otherwise not modelled |
| Doctor, feature report | none that is kept | report | | | not modelled |
| Dockerfile, CI, patches, GPU programs | | | | | not modelled: declarative, third-party or numerical |

The components meet in files. The patch queue leaves the tree that the build
configures; the build leaves slices that the manifest repair completes and
flatten copies into `dist/rocm`; the gates judge that tree and the packager puts
it into the archive; the wheel stage fills a directory beside it; the installer
unpacks the archive; the validation suite and the PyTorch builder use the
installed tree; the benchmark runs what the llama.cpp builder installed. Nothing
holds a lock anywhere.

`PROJECT.json` lists 40 hazards at their source lines, with the properties that
would catch each, or why none does.

## 2. Modules

| Module | Models | Correspondence |
|---|---|---|
| `Installer` | `main` and `install_archive` | `pc[i]` is the statement an invocation is at; a tree is a record of owner, content, environment file and manifest; `prefix`, `backups`, `staging` are the directories. Faults: a failing call (`RaiseError`, in the rollback itself too: `Restore`), an rmtree that deletes nothing or not all, `Interrupt` (which `except Exception` does not catch) and `Kill`. `Repackage` replaces the archive under a running installer, `Tick` moves the clock that names backups. |
| `AtomicInstall` | the promise: the installed tree switches in one step to a complete new one (`Replace`) and what was there is kept; a run that is broken off may leave nothing or half a tree (`BreakOff`), and keeps it too | refined by `Installer` (`ImplementsAtomicInstall`): while an invocation is under way, what it found still counts as installed, since it can give it back; a failed run maps to a stutter |
| `ManifestRepair` | heal, Ninja's Populate, strict repair, flatten, rerun | `disk[s]` is a slice (payload with sizes, manifest, stamp); paths are sequences of components, because prefixes are; `partial` remembers the slices whose removal was cut off |
| `PatchQueue` | `apply_patch_queue`, `verify` of the lock | `applied[p]` are the files that carry patch p; git's forward and reverse checks are derived from that and from which patches extend which |
| `Delivery` | configure to publication, run after run | a file is known by the edition (sources and settings) it was made from; every stage can be cut off with what it leaves half done; whether there is a `dist/rocm` at all is up to upstream (`Build`) and to the greps (`Distribute`) |
| `ValidationSuite` | suite, three gates, smoke scripts | a step is known by its kind; `seen` is an observer of what it really met, to compare with what it reported |
| `PyTorchBuild` | the PyTorch builder | `entry` is what is at `SOURCE/build`, `nested` the links that `ln -s` has put inside a directory; `Real` gives the physical name of a directory; testing for the entry and `ln -s` are two actions, so are reading and writing in `git apply`; `file` has patches and a length, since what is cut off behind the last patch looks whole to git |
| `Exclusion` | the three predicates for excluded payloads (wheel filter, validator, packager) | a path is the sequence of its components, a component knows whether it mentions an excluded name and what stands around it |
| `WheelFilter` | the wheel stage of the build script, `filter_wheel`, `_wheel_report` | `dist[p]` is a wheel: members, those that RECORD describes rightly, whether there is one RECORD; reading, writing the temporary file and `os.replace` are three actions; `meant[r]` remembers what an undisturbed run built |
| `ReleaseGates` | one tree through every gate, the packager, `inspect_archive` and the installer's audit | `tree[f]` says what a file is (whole, empty, a link to nothing or out of the tree), `Facts[f]` what the gates could tell of it, `rpath` its RUNPATH entries; `libs` and `ldd` are what two hosts have |
| `LlamaBuild` | the llama.cpp builder | a file is known by the commit and the ROCm it was made from; build and install go file by file |
| `Benchmark` | `run_benchmark`, composed with `LlamaBuild` | each observation of host and files is an action, and each may find another host; an agent has a name and perhaps a wavefront size; metrics are known by name and by whether they fell below the tolerance |
| `InstallerProofs`, `ManifestRepairProofs`, `BuildScriptProofs` (of `PatchQueue` and `Delivery`), `ValidationSuiteProofs`, `PyTorchBuildProofs`, `WheelFilterProofs`, `ReleaseGatesProofs`, `BenchmarkProofs` (with `LlamaBuild`) | theorems | section 5 |
| `MC*` | instances for TLC | |

Compositions: `Benchmark` extends `LlamaBuild` and runs interleaved with it;
`ReleaseGates` chains build, packager and installer over one tree on two hosts;
`WheelFilter` and `ReleaseGates` share `Exclusion`, whose predicates must agree
for either to be right; `Installer` implements `AtomicInstall`.

Definitions whose comment starts with "Mutant:" are the plausible mistakes that
the properties are measured against: with such a definition in place of the
one that follows it, TLC finds the property of that run violated
(`PROJECT.json`, "mutants").

## 3. Runs

| Run | Question | Bounds, and why they suffice |
|---|---|---|
| `installer_serial` | Does one invocation after the other, each of which may fail, be interrupted or be killed anywhere, implement the atomic replacement and lose nothing? | 3 invocations (one to install, one to replace, one that meets the other's leftovers), one kind of archive, 2 seconds so that backup names can collide, all faults |
| `installer_overlap` | What survives any interleaving, with the archive replaced meanwhile? | 2 invocations, 3 kinds of archive content (good, without markers, unsound), all faults |
| `manifest_repair` | Is what reaches `dist/rocm` whole, and does a rerun recover? | 3 slices: two prefixes, a file empty upstream, an inactive project; 2 kills, so that a recovery is itself cut off. The slices that a kill left partial are exempt from completeness |
| `manifest_partial` (violation) | And if an interrupted Populate left some manifest lines? | same, 1 kill |
| `patch_queue` | Are all patches in whatever is configured, after any rerun? | the repository's own 29 patches, files and rules; 3 submodules in every state; 1 cut |
| `delivery` | Do the artifacts of a run that exits 0 belong together? | 2 editions, any number of runs, any answer of the target greps, a tree that is there, not there or cleared, 2 faults |
| `delivery_stale` (violation) | Is the archive free of files of earlier configurations? | 2 editions, no fault |
| `validation_suite` | Is the verdict honest on a changing host? | 5 kinds of steps in the suite's order, 3 cards (two MI50s for RCCL, one foreign), 2 changes so that a card or `/dev/kfd` can go and come back; each ROCm root may be missing. The suite has 19 steps, but steps of one kind behave alike and share only `reports` |
| `pytorch_build` | Who may touch `SOURCE/build`, and is success whole? | 3 invocations of which 2 overlap, 2 build directories besides `build` (one of them below a symbolic link, so that its physical name is another), the 2 patches, all options, 1 fault; symmetric in runs (safety only, so symmetry is sound) |
| `wheel_filter` | Is what the wheel stage accepts exactly what it should be, and can overlapping or killed runs leave half a wheel? | 3 starts of which 2 overlap and 2 are cut off, so that a run meets the leftovers of two; 2 wheels (a library and the device wheel), since every step concerns one; 10 kinds of upstream wheels, with every flaw the scripts tell apart; symmetric in runs |
| `release_gates` | What do the gates of the build say of an installation elsewhere? | 22 files, one for each thing some gate looks for and for each marker of the installer; any set of the optional ones missing; at most one of seven empty, dangling, outward or absent, since the gates judge each file by itself; hosts with and without `ldd`, `patchelf` and a library; same or other host, build tree kept or deleted |
| `llama_bench` | What is a benchmark that says "pass" evidence of? | 1 benchmark while 2 invocations of the builder run, 2 commits, 2 ROCm roots, 1 fault; 8 hosts (a card that reports wave64, wave32 or no size, alone or with another agent), of which each observation may find any, or none; 2 metrics, every baseline |

Deadlock is checked where a run can always be started again (`patch_queue`,
`delivery`, `delivery_stale`). Elsewhere the invocations are finitely many, or a
run ends for good, and the system does stop.

### What the passing runs show

*Installer.* `ImplementsAtomicInstall`: with invocations one after the other, at
every fault, what users had installed is replaced in one step by a complete
tree or given back, and it is kept whenever it is neither.
`PassedInstallSurvives`: every installation that once passed is under the prefix
or whole in a backup, at every moment. `RefusalRestores`: a run that ends with
status 2 leaves the prefix it found. If a call of its rollback fails too, it
leaves its own tree there, whole or damaged and never with "pass" in its
manifest (rmtree), or no prefix at all (the rename of the backup), and what it
found is then whole in a backup. `OnlyAuditedTrees`, `NoLitter` and
`TreesPreserved` need no mutual exclusion. The last has two parts: an intact
backup is never overwritten (`BackupsPreserved`), and the last whole tree of an
installation is lost only in the rollback of an invocation that had published
(`LostOnlyByRollback`).

*Manifest repair.* `DistIsWhole` describes what flatten copies: nothing empty
that has content upstream, and once the run passed every payload file on disk,
which is every file upstream has except in slices whose removal by the heal pass
was cut off. `IntactIsKept` says that no pass takes a file from a slice that is
as upstream made it, though some of its files are empty. `FailureIsReal` says
that strict mode fails only over a file that is there and uncovered.

*Patch queue.* `ConfiguredComplete`, `Idempotent`, `RejectionIsReal`, and
`ResumesUnlessTorn`: reruns reach the configuration unless a patch was cut off
in the middle or a submodule is missing.

*Delivery.* `ArchiveUsable` holds even over a flatten that read an empty list
(the failure of the process substitution goes unseen): the contents gate stops
it. `DeliveredTogether` says what of a run that exits 0 is its own: reports,
verdict and wheels in any case, archive and digest where it had a distribution
tree. `DeliversUnlessTorn` says that reruns get there, unless
`mi50_features.json` was cut off or upstream never writes a tree.

*Suite.* `PassIsNative` and `ExitIsHonest` compare the verdict with what an
observer saw at each step, however the host changed; `SuiteEnds`.

*PyTorch.* `NoStrayLink` and `UsersEntryKept` hold for overlapping runs: without
a kill nothing of the script stays at `SOURCE/build`, and a link inside a
directory is the mark of a race. `SuccessIsWhole` and `RefusalIsReal` are stated
for runs that meet no other; they name the leftovers for which a success is not
whole, or a refusal not needed.

*Wheels.* `AcceptedIsExact` and `VerdictIsRight` characterise both verdicts for
a run that meets no other one, whatever cut off runs left in the directory; in
particular a stale RECORD is made good where something had to be filtered, and
a comma in a member's name turns a sound wheel into a refused one there.
`WheelsStayWhole` needs no mutual exclusion: temporary file and `os.replace`
suffice for it.

*Gates.* `GatesPredictInstall` lists (`Unforeseen`) everything that the installer
may refuse after all gates of the build have passed: data that is not in
`miopen/db`, links, a target without `ldd` or without a library the build host
had, and libraries that only the exclusion or a RUNPATH into the build tree
explains. `ShipsOnlyOwn` says what never gets into an archive.

*llama.cpp and benchmark.* `PassIsEvidence`: before a pass was measured, with
whole files, a gfx906 agent was shown, and a wave32 agent only beside a wave64
one; and where a metric was compared with a baseline, it was not computed on the
CPU. Neither that a card computed, nor which agent is wave64, follows from a
pass alone. `MeasuresOneBuild`: if the
metadata fitted the files when llama-bench was started, the pass is about the
build that the metadata describes, even though the builder may be replacing the
installation while it runs. The history variable `unclear` says when it did not
fit: during an installation, after a pull in the middle of a build, or with the
cache of another ROCm.

### Fairness

Liveness (`RecoversUnlessOrphaned`, `ResumesUnlessTorn`, `DeliversUnlessTorn`,
`SuiteEnds`) is checked under weak fairness of the steps of a process that is
running: the operating system schedules it, and none of its steps waits for
anybody. `ManifestRepair`, `PatchQueue` and `Delivery` also assume that the
operator repeats a run that failed (`docs/BUILD_RECOVERY.md` tells him to).
Kills and faults are never fair and are bounded, so that "after the last one"
exists. The other modules state safety only and assume no fairness. In `ValidationSuite` the fair steps include the timeout of a step that
hangs, which `subprocess.run(timeout=...)` guarantees.

## 4. Where the code does otherwise

Each is a run that TLC finds violated, with the quotation in `PROJECT.json`.

1. `manifest_partial`: a slice with a non-empty manifest and no missing entries
   is counted complete although the merged prefixes were never written; flatten
   drops what only they cover, and strict mode passes.
2. `delivery_stale`: the greps for `therock-dist` and `dist-rocm+expunge` want
   white space after the name, Ninja prints `name: phony`; besides, `grep -q`
   under `pipefail` can lose a match when it ends early. The old distribution
   then stays, and its files are archived again.

Known too, seen while modelling, without a run of their own:

- Two overlapping installers can lose a complete installation: the rollback of
  one removes whatever is at the prefix, which may be the other's.
  `TreesPreserved` says that nothing but such a rollback loses one.
- The rollback of the installer may fail as well: if the file system went
  read-only, its rmtree deletes nothing and hides that, or the `os.replace` that
  gives back the backup raises in the handler. The run then ends with status 2
  and its own tree, or nothing, under the prefix (`RefusalRestores`).
- A kill between `mkstemp` and `os.replace` in `write_manifest_atomic` leaves a
  temporary file that fails every later strict run: hence `Orphaned` in
  `RecoversUnlessOrphaned`.
- A kill in the middle of the rmtree of a healed slice leaves a part of it. If
  Ninja's stamp for it is still there Ninja keeps it, the repair writes a
  manifest for that part, and the distribution lacks the rest: hence `partial`
  in `DistIsWhole`. The second pass has no upstream tree to compare with.
- A kill while `mi50_features.json` is redirected leaves invalid JSON, which
  the validator of every later run meets first: hence `DeliversUnlessTorn`.
- A run in whose build directory upstream wrote no `dist/rocm` exits 4, unless it
  has wheels or files of TheRock's own: then it exits 0 beside the archive and
  `dist_info.json` of an earlier run, if there are any. Where a tree of an earlier
  run is still there and the list of artifacts is lost, that tree is archived
  again (`DeliveredTogether` says when the archive is the run's).
- `rocminfo_parser.py` collects names and wavefront sizes apart, so that a
  gfx906 agent that reports wave32 passes beside any agent that reports
  wave64 (docs/HARDWARE_VALIDATION.md:54 says "A contradictory wavefront report
  fails the gate"). Its pattern does not match a size printed as `64(0x40)`;
  the field is then taken for absent.
- The gate's docstring calls a host "With no card (or no `/dev/kfd`)" pending;
  with `/dev/kfd` and no card it fails (`GateDiagnose`).
- A PyTorch run that shares the link of another one loses it when that one
  exits; `setup.py` then builds in a fresh real `build` in the checkout, which
  makes later runs refuse.
- Two PyTorch runs that race for `SOURCE/build`: the second `ln -s` puts its link
  inside the directory of the first, where no trap removes it (`nested`).
- A `git apply` that is cut off behind the place of the last patch leaves a file
  that both checks of every later run take for patched: the run succeeds with a
  truncated `torch/cuda/__init__.py` (`SuccessIsWhole` says when).
- `readlink -f` gives a physical name and `pwd` a logical one: below a symbolic
  link the link that a killed run left is refused with status 6, though it leads
  to the very directory asked for (`Blocked` in `RefusalIsReal`).
- Every dry run of the PyTorch builder makes the default build directory and,
  for a moment, the link in the checkout; `--clean` is carried out before
  `--dry-run` is looked at, and so it is in the llama.cpp builder.
- The installer's rollback is in `except Exception`: Ctrl-C between the rename
  of the old tree and the write of the manifest leaves no prefix, or one without
  its manifest (`BreakOff` of `AtomicInstall`); the old tree is in the backup.
- The benchmark compares only metrics that its patterns find in the output, so
  a run whose output they do not match passes any baseline
  (`baseline.metrics \cap parsed` in `PassIsEvidence`), while
  IMPLEMENTATION_STATUS.md:229-230 promises "a 5% baseline-regression check".
  If the card is lost after the look or hidden from llama-bench, or with
  `--gpu-layers 0`, or with a llama-bench built without HIP, it computes on the
  CPU and exits 0; the snapshot taken afterwards is recorded and never judged.
  An agent list without wavefront sizes passes, and so does a wave32 gfx906
  beside a wave64 agent, although the docstring asks for "wave64" evidence. A
  benchmark that starts while the builder installs may load files of two builds
  and pass; nothing tells (`unclear`). A baseline that is
  a JSON list ends in a traceback. README.md:123 says the gate "returns 77
  before hardware"; it returns 0 with `GPU-test-pending`.
- The llama.cpp build keeps the ROCm in its CMake cache, whatever a later
  `--rocm` says without `--clean`; `--clean` refuses the checkout itself, not a
  directory that contains it.
- The filter writes RECORD rows without CSV quotes, replaces a bad RECORD only
  in wheels it has a reason to rewrite, and leaves rewritten wheels with the
  mode of a temporary file. The validator looks for an excluded name anywhere
  in a path, so that it refuses wheels in which the filter found nothing.
- The packager excludes the exact spelling only, below at least one directory,
  with any suffix. An excluded library that something needs may still be found
  on the build host through a RUNPATH into the build tree, until that is deleted
  (`sources` in `ReleaseGates`).
- `validate_rocr_build.py` looks for blit shaders and runtimes also in trees that
  are not distributed.
- With Python packages switched off the wheels of an earlier run stay beside the
  new archive, and `write_pytorch_metadata.py` lists every wheel it finds.
- The hardware gate keeps the last 12000 characters of `rocminfo`: on a host
  with many agents the first ones are not looked at.

## 5. What is proved

TLAPS checks these for all values of the constants, from the named ASSUMEs of
the modules. Where a theorem holds of some values only, its hypothesis is in the
table, and it is the one under which the property is stated and run.

| Theorem | Statement |
|---|---|
| `InstallerProofs!TypeCorrect`, `AuditedTrees`, `StagingRemoved` | `Spec => []TypeOK`, `[]OnlyAuditedTrees`, `[]NoLitter` |
| `InstallerProofs!TreesKept` | `Spec => TreesPreserved`, two action properties, for installers that overlap (from `BackupsKept` and `LossNeedsRollback`) |
| `InstallerProofs!OverlapKeepsAll` | `Spec => []PublishedKept`, for installers that overlap |
| `InstallerProofs!PassedSurvives` | `Overlap = FALSE` implies `Spec => []PassedInstallSurvives` |
| `InstallerProofs!RefusalsRestore` | `Overlap = FALSE` implies `Spec => RefusalRestores`, an action property |
| `InstallerProofs!AtomicSwitch` | `Overlap = FALSE` implies `Spec => ImplementsAtomicInstall`, the refinement of `AtomicInstall` |
| `ManifestRepairProofs!TypeCorrect`, `FailureGenuine`, `NothingHollow` | `Spec => []TypeOK`, `[]FailureIsReal`, and the first half of `DistIsWhole` |
| `ManifestRepairProofs!IntactKept` | `Spec => IntactIsKept`, an action property |
| `ManifestRepairProofs!DistWhole` | `PartialManifests = FALSE` implies `Spec => []DistIsWhole` |
| `BuildScriptProofs!QueueTypeCorrect`, `ConfiguredIsComplete` | `QueueSpec => []QueueTypeOK`, `[]ConfiguredComplete` |
| `BuildScriptProofs!QueueIdempotent`, `RejectionsAreReal` | `QueueSpec => Idempotent`, `RejectionIsReal`, action properties |
| `BuildScriptProofs!DeliveryTypeCorrect`, `ArchiveIsUsable`, `DeliversTogether` | `Spec => []TypeOK`, `[]ArchiveUsable`, `[]DeliveredTogether` |
| `BuildScriptProofs!FailuresHaveCause` | `Spec => RunsFailForCause`, an action property of `Delivery` |
| `ValidationSuiteProofs!TypeCorrect`, `PassNeedsHardware`, `ExitStatusHonest` | `Spec => []TypeOK`, `[]PassIsNative`, `[]ExitIsHonest` |
| `ValidationSuiteProofs!SuiteAdvances` | `Spec => Advances /\ [](Progress \in 0 .. MaxProgress)`: every step of the suite and of what it runs brings it nearer to a bound, no change of the host takes it back |
| `ValidationSuiteProofs!SuiteNeverAtALoss` | `Spec => []NeverAtALoss`: until the verdict the guard of one of its steps holds |
| `PyTorchBuildProofs!TypeCorrect`, `SuccessfulBuildIsWhole`, `RefusedForCause` | `Spec => []TypeOK`, `[]SuccessIsWhole`, `[]RefusalIsReal` |
| `PyTorchBuildProofs!LinksRemoved` | `Spec => NoStrayLink`, an invariant and an action property |
| `PyTorchBuildProofs!UsersEntrySafe` | `Spec => UsersEntryKept`, an action property |
| `ReleaseGatesProofs!GatesTypeCorrect`, `ShipsOwn`, `InstallPredicted` | `Spec => []TypeOK`, `[]ShipsOnlyOwn`, `[]GatesPredictInstall` |
| `WheelFilterProofs!WheelTypeCorrect`, `AcceptedExact`, `VerdictRight` | `Spec => []TypeOK`, `[]AcceptedIsExact`, `[]VerdictIsRight` |
| `WheelFilterProofs!WholeWheels` | `Spec => WheelsStayWhole`, an action property |
| `BenchmarkProofs!BenchTypeCorrect`, `PassOnEvidence`, `OneBuildMeasured` | `Spec => []TypeOK`, `[]PassIsEvidence`, `[]MeasuresOneBuild` |
| `BenchmarkProofs!ClearMetadataDescribes` | `Spec => []ClearInv`: metadata that no invocation left unclear describes both installed files |

`PublishedKept`, `RunsFailForCause`, `Advances`,
`NeverAtALoss` and `ClearInv` are stated in the proof modules and in no run; each
was found to hold by TLC on the instance of the component's run before it was
proved.

*Installer.* `OnlyAuditedTrees` is not inductive: what is published was audited
some steps before. `IInv` adds what staging holds at each label
(`StagingInv`: past the audit its content is sound, and once it was published
or deleted there is none), what the local `published` means
(`PublishedInv`) and that a stamp exists when a tree is moved aside
(`StampInv`). There is one lemma per action, for any number of invocations; the
argument never uses that an invocation is alone.

The serial guarantees do: where two installers overlap they are false (section
4). `SInv` adds to `IInv`, for invocations one after the other, who owns what
(`OwnersInv`: the prefix and the backups are trees of different invocations, each
of which published its own) and where the tree that the running invocation found
is, label by label (`Where`): still under the prefix until `retire`, then whole
in the backup that `stamp` names, until a rollback has moved it back; at
`restore` either of these, or the run's own unfinished tree that rmtree has left
at the prefix. `PassedInstallSurvives` is a part of it, since no step overwrites a
directory that an earlier invocation owns; `RefusalRestores` follows at the steps
that end with status 2, the failing `os.replace` of line 260 ("unrestored")
among them, which leaves the tree in the backup that `Where` names. For the
refinement, `live` of `AtomicInstall` is what the
running invocation found, and what is under the prefix when none runs: a step of the
installer is then a stutter, except the last of a successful run (`Replace`)
and one that ends a run by force (`BreakOff`).

For installers that overlap `Has(o)` says that o's tree is whole under the
prefix or in a backup. `LostOnlyByRollback` goes through every action that
touches a directory: a rename carries the whole tree along, the environment file
and the manifest change neither its content nor its owner, and only an
invocation that had published deletes at the prefix. `PublishedKept` follows
while no publication has failed, since `StagedOwner` makes each tree that is
published its invocation's own.

*Manifest repair.* Two invariants. `IInv` holds whatever was killed when. In it
`ContentInv` says that a file on disk has its upstream content or is empty,
`HealedInv` that the heal pass leaves no truncated slice behind it and that
nothing after it in the same run truncates one, and `ReportInv` that what the
repair pass has counted is there to be seen. `NothingHollow`, `FailureGenuine`
and `IntactKept` follow. `PresentInv` says that a slice has all of its upstream
files unless a kill left a part of it (`partial`), or it is gone and Ninja has
yet to come to it. `CInv` is about completeness and needs that an
interrupted Populate leaves no manifest or an empty one: `ManifestInv` says that
a non-empty manifest names every prefix of the payload, `CoverInv` that the
repair pass leaves no uncovered file behind it without saying so.
`CompleteIsCovered` is the lemma on which the shortcut of the script rests ("no
missing entries and a manifest that is not empty, so leave it"): it is right if
`ManifestInv` holds, and the run `manifest_partial` shows what happens if not.
It uses that no prefix covers a file in the root of a slice
(`TemporaryUncovered`), which is why an orphaned temporary file fails every
later run.

*Patch queue.* A run knows only what git's two checks say, so the invariant has
to link those answers to the tree. `LayerInv` says that where a patch which
extends another has left a trace the other is wholly applied, `SiteInv` that
patches sit only in checked-out roots, `QueueInv` that a patch before the cursor
is complete, or was skipped by git in a root that is not checked out, which the
lock check then notices. `SupersededMeansComplete` is the lemma that justifies the supersession
rules: where the later patch's reverse check passes, the earlier one is wholly
there. `RuleAssumption` records what the script's comments say of the patches
that have a rule; TLC evaluates it on the repository's own queue.

*Delivery.* `DeliveredTogether` speaks of the end of a run; `IInv` says what
holds from each stage on: the distribution contains the run's edition once it
was distributed, if `therock-dist` was recognised, and only that edition where
both targets were (`DistInv`); the archive is that tree once it is packaged, if
there is one, and the digest is the archive's once the metadata is written
(`ArchiveInv`); wheels and reports are the run's from their stages on
(`WheelInv`, `ReportInv`). `CutOutcomes` characterises what any cut leaves, so
that faults cost one lemma and not one per stage. `RunsFailForCause` is the safety
half of `DeliversUnlessTorn`: a run without a fault of its own fails at the gate,
with status 4 or in the validator only, and only over a tree that upstream did
not write, an artifact list that was lost or a torn `mi50_features.json`.

*Suite.* `ReportsInv` says that the report of each step is `StatusOf` what it
met, although the status passes through an exit status, a JSON file or both;
`OverrideInv` that under an ISA override no step gets beyond its first test, and
`VerdictInv` that the verdict is `Overall` of all reports. The proof goes through
each phase of each kind of step once (`ReportInv` for the steps that report). It
is for any list of steps, so for the 19 of the suite and not only for the five
kinds of the run. `SuiteAssumption` says that the list is not empty and the
cards are finitely many. The last two theorems are what `SuiteEnds` rests on:
`Progress` counts reports and, within a step, phases, so that the suite takes
at most `MaxProgress` steps; and `DevicesForeseen` shows that a smoke program
refuses any set of cards, finds too few or can use them. That a fair suite
therefore ends needs ENABLED and stays with the run.

*PyTorch.* `LinkInv` says that a link of the script at `SOURCE/build` has a run
that will remove it, if none was killed; `UserInv` that no run is about to make a link, or
believes to have made one, while the user's entry is there. Both hold for
overlapping runs. For a run that meets no other one `AloneInv` says label by
label what is at `SOURCE/build` (`EntryOf`), which patches are in the source
(`SourceOf`: all those before the cursor, the next one not if it is about to be
applied, and the file as long as it was found) and what the run may leave
(`ResultOf`); both exit statuses follow. That `ln -s` nests a link only after a
race is `EntryOf` at "ln": a run that met no other one finds nothing there.

*Gates.* The tree changes only in the repair of RUNPATHs, so what a gate found
still holds when a later one relies on it: `GateInv` carries `ContentsComplete`
and `ResolvedAtBuild` (what `ldd` found, without regard to whether the build
tree is still there) to the installer, and says that the archive is the tree
less the exclusions. `MarkerAssumption` links the two lists that have to agree,
the installer's `REQUIRED_MARKERS` and the contents gate's `REQUIRED_PATHS`:
without it `GatesPredictInstall` would not follow from the gates. TLC evaluates
it on the instance, which has a file for each of the seven markers.

*Wheels.* `WholeInv` says that a whole wheel in the directory is one of
upstream's, filtered or not, whoever wrote it; with `CopyInv` (what the filter
holds in memory is upstream's and needs rewriting) that gives
`WheelsStayWhole` for any number of overlapping runs. For a run that is alone,
`RunInv` relates directory and `meant` stage by stage: equal while building,
filtered below the cursor and untouched from it on in the filter, filtered
everywhere in the validator, whose `failed` summarises the wheels below its
cursor. `FlawedIsRefused` reduces both verdicts to a fact about one wheel.

*llama.cpp and benchmark.* The benchmark reads card, metadata and files one
after the other while the builder may be anywhere, so the invariant has one part
for each side. Of the builder, `StageInv` says which ROCm the cache names at
each stage, given what it named when the invocation began, and `BuiltInv` that
unless the checkout moved the files up to the loop counter are of this commit
and this ROCm, built ones in `build`, installed ones in `install`. Hence
`ClearInv`: metadata is written over two files of which it is true, or `unclear`
is set, and it is set again with the first file that an invocation installs. Of the
benchmark, `MeasureInv` says that what it has loaded so far is what it saw
described, and `EvidenceInv` with which evidence (`Accepted`, what the two tests of
the agent list imply) and which files it got as far as it did.
`PassIsEvidence` and `MeasuresOneBuild` follow. Each action of one side leaves
the other side's part alone (`BuilderFramed`, `BenchFramed`): what was loaded
stays loaded, whatever is installed over it.
`LlamaAssumption` asks for at least one commit and says nothing about how many
runs or faults there are; `BenchAssumption` does not restrict the hosts.

TLC found each of these invariants to hold on the instance of its run before it
was proved. One was not inductive for a good reason: `SwapManifest` lacked the
guard that its pass is still running, so that a killed run could finish the swap
it was killed in. The model now has it.

Only model-checked:

- liveness (`RecoversUnlessOrphaned`, `ResumesUnlessTorn`, `DeliversUnlessTorn`,
  `SuiteEnds`), which the prover does not reach;
- the two runs that expect a violation.

What the theorems do not say: `TreesPreserved`, `OnlyAuditedTrees`, `NoLitter` and
`PublishedKept` are all that is proved of installers
that overlap, in particular not whose environment file and manifest lie in a
tree, and nothing is proved of the exit
status of PyTorch and wheel runs that do. The bounds on faults, kills, starts
and seconds are constants with any value, so the theorems hold for any number of
them.

## 6. What is not modelled

- Installer: failure of the removal of its own staging directory, Ctrl-C between
  `mkdtemp` and `try` (lines 193-196, which would leave it behind), a prefix that
  is a link, the parsing of tar members (they are the set `Marked`), the ELF
  audit (`Sound`).
- Manifest repair: `--check-only`, use without a build root.
- Build script: cloning, preflight, `--configure-only`, RPATH repair, two builds
  at once in one directory; of the copied archives and wheels of TheRock's own
  only whether there are any (`Found`).
- Patch queue: submodules at another commit than the lock's, and a single file
  that is cut off behind the hunk of a patch.
- Gates: the undefined symbols that `nm` lists (passed over without `nm`), the
  wording of reports, the sha256 of the archive against `dist_info.json`.
- Wheels: the source distribution, sound member names, name and version in
  METADATA, which the filter does not touch.
- Audit, patch lock, configure verification, provenance of containers, host
  smoke: they read files that nothing changes meanwhile, compare text and print.
  Where the build script calls one it is a stage of `Delivery` that may fail.
- Standalone ROCr and container builds: one command after the other, in a
  directory of their own.
- Suite: wording of reports, sizes of captured output, the numerical tests, a
  native binary that survives the timeout of its shell.
- PyTorch: refused inputs, build directories that contain the checkout or share
  their last name (`ln -s` would then nest their links under one name), a
  `SOURCE/build` with another name than its own, several wheel versions in one
  directory.
- llama.cpp: a checkout without git, for which the metadata names no commit.
- Benchmark: the numbers themselves (a metric is there or not, slow or not), the
  two `amd-smi` records, which nothing judges; a llama-bench from elsewhere on
  PATH instead of the installed one. It is assumed that a baseline was measured
  on a card and that a CPU is slower than its tolerance in every metric.
- Doctor and feature report: printed in one go, no state that a later step
  relies on. Container image, CI, patches and GPU programs: declarative,
  third-party or numerical.

## 7. Plan

Order of work: installer, patch queue, manifest repair, delivery, suite,
PyTorch builder, wheel filter, release gates, llama.cpp builder with benchmark,
and the proofs of all of them (these exist), then

1. What overlapping installers still guarantee (`TreesPreserved`,
   `PublishedKept`) as an abstract specification of its own, beside
   `AtomicInstall`.
2. A composition of packager and installer over the archive and its digest
   (`Delivery` with `Installer`), in place of `Repackage`.
