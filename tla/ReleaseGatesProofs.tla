------------------------- MODULE ReleaseGatesProofs -------------------------
(***************************************************************************)
(* What the gates guarantee for every set of files, whatever the gates can *)
(* tell of them, on every pair of hosts.  Nothing changes the tree and,    *)
(* after the repair, the RUNPATHs; so what a gate has found still holds    *)
(* when a later one relies on it.                                          *)
(***************************************************************************)
EXTENDS ReleaseGates, TLAPS

(* Where the tree still is at a gate of the build, or was refused there. *)
Shipped == pc \in {"inspect", "audit", "installed"} \/ refusedBy \in {"inspect", "audit"}

(* The archive is the tree without what is excluded. *)
Archived == [f \in Files |->
               IF f \in Dist(tree) /\ ~Excluded(f) THEN tree[f] ELSE "absent"]

(* What the ELF gate found of f and lib, for any build tree. *)
FoundAtBuild(f, lib) ==
  IF InReach(tree, f, lib) /\ tree[lib] # "dangling"
    THEN tree[lib] \in {"whole", "outward"}
    ELSE \/ lib \in libs["build"]
         \/ "build" \in rpath[f] /\ lib \in Files /\ tree[lib] \in {"whole", "outward"}

ResolvedAtBuild ==
  \A f \in Dist(tree) : (Facts[f].elf /\ tree[f] = "whole") =>
    \A lib \in Facts[f].needs : FoundAtBuild(f, lib)

(* What has been established when the tree is at a gate. *)
GateInv ==
  /\ pc \in {"repair", "contents", "elf", "package"} => Newer = {}
  /\ pc \in {"elf", "package"} => ContentsComplete
  /\ pc = "package" => ResolvedAtBuild
  /\ Shipped => /\ Newer = {} /\ ContentsComplete /\ ResolvedAtBuild
                /\ archive = Archived
  /\ pc \in {"audit", "installed"} \/ refusedBy = "audit" =>
       \A f \in Files : archive[f] # "outward"

IInv == TypeOK /\ GateInv /\ ShipsOnlyOwn /\ GatesPredictInstall

USE GatesAssumption

(* What the scripts can tell of a file. *)
LEMMA FactsType ==
  ASSUME NEW f \in Files
  PROVE  /\ Facts[f] \in FileFacts
         /\ Facts[f].needs \subseteq Files \cup HostLibs
         /\ Facts[f].dist \in BOOLEAN /\ Facts[f].bootstrap \in BOOLEAN
         /\ Facts[f].elf \in BOOLEAN /\ Facts[f].required \in BOOLEAN
BY DEF FileFacts

LEMMA InitInv == Init => IInv
<1> SUFFICES ASSUME Init PROVE IInv
  OBVIOUS
<1>1. tree \in [Files -> Kinds]
  BY DEF Init, Kinds
<1>2. rpath \in [Files -> SUBSET Entries]
  BY DEF Init
<1>3. archive = Nothing /\ Nothing \in [Files -> Kinds]
  BY DEF Init, Nothing, Kinds
<1>4. TypeOK
  BY <1>1, <1>2, <1>3 DEF Init, TypeOK, Gates
<1>5. GateInv
  BY DEF Init, GateInv, Shipped
<1>6. There(archive) = {}
  BY <1>3 DEF Nothing, There
<1>7. ShipsOnlyOwn /\ GatesPredictInstall
  BY <1>6 DEF Init, ShipsOnlyOwn, GatesPredictInstall
<1> QED BY <1>4, <1>5, <1>7 DEF IInv

-----------------------------------------------------------------------------
(* Gates of the build: there is no archive yet *)

LEMMA NoArchive ==
  ASSUME TypeOK, pc \in {"rocr", "repair", "contents", "elf", "package"}
  PROVE  archive = Nothing /\ There(archive) = {} /\ refusedBy = "nobody"
BY DEF TypeOK, Nothing, There, Gates

(* A step that changes only pc, refusedBy and RUNPATHs, and comes from a   *)
(* gate of the build, keeps what is said of the archive.                   *)
LEMMA BuildStep ==
  ASSUME TypeOK, pc \in {"rocr", "repair", "contents", "elf"},
         UNCHANGED <<tree, archive, hosts, sources>>,
         rpath' \in [Files -> SUBSET Entries],
         \/ pc' \in {"repair", "contents", "elf", "package"} /\ UNCHANGED refusedBy
         \/ pc' = "refused" /\ refusedBy' \in {pc, "ldd"}
  PROVE  TypeOK' /\ ShipsOnlyOwn' /\ GatesPredictInstall' /\ ~Shipped'
<1>1. archive = Nothing /\ There(archive) = {} /\ refusedBy = "nobody"
  BY NoArchive
<1>2. TypeOK'
  BY <1>1 DEF TypeOK, Gates, hosts, Nothing
<1>3. There(archive)' = {}
  BY <1>1 DEF There
<1>4. ~Shipped' /\ pc' # "installed" /\ refusedBy' \notin {"inspect", "audit"}
  BY <1>1 DEF Shipped
<1> QED BY <1>2, <1>3, <1>4 DEF ShipsOnlyOwn, GatesPredictInstall

LEMMA ValidateRocrInv == ASSUME IInv, ValidateRocr PROVE IInv'
<1>1. TypeOK' /\ ShipsOnlyOwn' /\ GatesPredictInstall' /\ ~Shipped'
  BY BuildStep DEF IInv, TypeOK, ValidateRocr, Pass, Refuse
<1>2. pc' = "repair" => Newer = {}
  BY DEF ValidateRocr, RocrComplete, Refuse
<1>3. UNCHANGED tree /\ pc' \in {"repair", "refused"}
  BY DEF ValidateRocr, Pass, Refuse
<1>4. Newer' = Newer
  BY <1>3 DEF Newer, Regular
<1>5. refusedBy' # "audit"
  BY <1>1 DEF Shipped
<1>6. GateInv'
  BY <1>1, <1>2, <1>3, <1>4, <1>5 DEF GateInv
<1> QED BY <1>1, <1>6 DEF IInv

LEMMA RepairRdcInv == ASSUME IInv, RepairRdc PROVE IInv'
<1>1. rpath' \in [Files -> SUBSET Entries]
  BY DEF IInv, TypeOK, RepairRdc, Entries
<1>2. TypeOK' /\ ShipsOnlyOwn' /\ GatesPredictInstall' /\ ~Shipped'
  BY <1>1, BuildStep DEF IInv, RepairRdc, Pass, Refuse
<1>3. UNCHANGED tree /\ pc' \in {"contents", "refused"} /\ Newer = {}
  BY DEF RepairRdc, Pass, Refuse, IInv, GateInv
<1>4. Newer' = {}
  BY <1>3 DEF Newer, Regular
<1>5. refusedBy' # "audit"
  BY <1>2 DEF Shipped
<1>6. GateInv'
  BY <1>2, <1>3, <1>4, <1>5 DEF GateInv
<1> QED BY <1>2, <1>6 DEF IInv

LEMMA ContentsStay ==
  ASSUME UNCHANGED tree
  PROVE  /\ ContentsComplete' = ContentsComplete
         /\ Newer' = Newer
         /\ Dist(tree)' = Dist(tree)
BY DEF ContentsComplete, Present, Dist, There, IsFile, Newer, Regular

LEMMA ValidateContentsInv == ASSUME IInv, ValidateContents PROVE IInv'
<1>1. TypeOK' /\ ShipsOnlyOwn' /\ GatesPredictInstall' /\ ~Shipped'
  BY BuildStep DEF IInv, TypeOK, ValidateContents, Pass, Refuse
<1>2. /\ UNCHANGED tree /\ pc' \in {"elf", "refused"} /\ Newer = {}
      /\ pc' = "elf" => ContentsComplete
  BY DEF ValidateContents, Pass, Refuse, IInv, GateInv
<1>3. refusedBy' # "audit"
  BY <1>1 DEF Shipped
<1>4. GateInv'
  BY <1>1, <1>2, <1>3, ContentsStay DEF GateInv
<1> QED BY <1>1, <1>4 DEF IInv

(* Whatever ldd finds with the build tree there it has found without       *)
(* regard to it.                                                           *)
LEMMA ResolvedThen == ASSUME Resolved(tree, "build") PROVE ResolvedAtBuild
BY DEF Resolved, ResolvedAtBuild, Found, FoundAtBuild, ByBuildTree

LEMMA ResolvedStays ==
  ASSUME UNCHANGED <<tree, rpath, libs>>
  PROVE  ResolvedAtBuild' = ResolvedAtBuild /\ Archived' = Archived
<1>1. \A f, lib : InReach(tree, f, lib)' = InReach(tree, f, lib)
  BY DEF InReach, Dist, There
<1>2. \A f, lib : FoundAtBuild(f, lib)' = FoundAtBuild(f, lib)
  BY <1>1 DEF FoundAtBuild
<1>3. Dist(tree)' = Dist(tree)
  BY ContentsStay
<1> QED BY <1>2, <1>3 DEF ResolvedAtBuild, Archived

LEMMA AuditElfInv == ASSUME IInv, AuditElf PROVE IInv'
<1>1. TypeOK' /\ ShipsOnlyOwn' /\ GatesPredictInstall' /\ ~Shipped'
  BY BuildStep DEF IInv, TypeOK, AuditElf, Pass, Refuse, LddFails
<1>2. /\ UNCHANGED <<tree, rpath, libs>> /\ pc' \in {"package", "refused"}
      /\ Newer = {} /\ ContentsComplete
      /\ pc' = "package" => Resolved(tree, "build")
  BY DEF AuditElf, Pass, Refuse, LddFails, IInv, GateInv, AuditPasses, hosts
<1>3. refusedBy' # "audit"
  BY <1>1 DEF Shipped
<1>4. GateInv'
  BY <1>1, <1>2, <1>3, ContentsStay, ResolvedThen, ResolvedStays DEF GateInv
<1> QED BY <1>1, <1>4 DEF IInv

-----------------------------------------------------------------------------
(* The packager *)

(* What is packaged was in the tree. *)
LEMMA ArchiveFromTree ==
  ASSUME NEW f \in Files, archive = Archived, archive[f] # "absent"
  PROVE  f \in Dist(tree) /\ ~Excluded(f) /\ archive[f] = tree[f]
BY DEF Archived

LEMMA ShippedIsOwn ==
  ASSUME TypeOK, archive = Archived, Newer = {}, ContentsComplete
  PROVE  ShipsOnlyOwn
<1> SUFFICES ASSUME NEW f \in There(archive)
             PROVE  /\ ~PackagerExcludes(Facts[f].path)
                    /\ Facts[f].required => archive[f] # "empty"
                    /\ archive[f] \in {"whole", "empty"} =>
                         ~Facts[f].newer /\ ~(Facts[f].code /\ Facts[f].token = "foreign")
  BY DEF ShipsOnlyOwn
<1>1. f \in Files /\ f \in Dist(tree) /\ ~Excluded(f) /\ archive[f] = tree[f]
  BY ArchiveFromTree DEF There
<1>2. ~PackagerExcludes(Facts[f].path)
  BY <1>1 DEF Excluded
<1>3. Facts[f].required => archive[f] # "empty"
  BY <1>1 DEF ContentsComplete, Present
<1>4. ASSUME archive[f] \in {"whole", "empty"} PROVE ~Facts[f].newer
  <2>1. f \in Regular
    BY <1>1, <1>4 DEF Regular
  <2>2. f \in Distributable
    BY <1>1 DEF Distributable, Dist
  <2> QED BY <2>1, <2>2 DEF Newer
<1>5. ASSUME archive[f] \in {"whole", "empty"}
      PROVE  ~(Facts[f].code /\ Facts[f].token = "foreign")
  BY <1>1, <1>5 DEF ContentsComplete, Foreign, IsFile
<1> QED BY <1>2, <1>3, <1>4, <1>5

LEMMA PackageInv == ASSUME IInv, Package PROVE IInv'
<1>1. /\ UNCHANGED <<tree, rpath, libs>> /\ refusedBy = "nobody"
      /\ Newer = {} /\ ContentsComplete /\ ResolvedAtBuild
  BY NoArchive DEF Package, IInv, GateInv, hosts
<1>2. Newer' = {} /\ ContentsComplete' /\ ResolvedAtBuild'
  BY <1>1, ContentsStay, ResolvedStays
<1>3. CASE pc' = "inspect" /\ UNCHANGED refusedBy
  <2>1. archive' = Archived
    BY <1>3 DEF Package, Archived, Refuse
  <2>2. archive' = Archived'
    BY <2>1, <1>1, ResolvedStays
  <2>3. archive' \in [Files -> Kinds]
    BY <2>1 DEF Archived, IInv, TypeOK, Kinds
  <2>4. TypeOK'
    BY <1>1, <1>3, <2>3 DEF IInv, TypeOK, Package, hosts, Gates
  <2>5. ShipsOnlyOwn'
    <3>1. (TypeOK /\ archive = Archived /\ Newer = {} /\ ContentsComplete => ShipsOnlyOwn)'
      BY ShippedIsOwn, PTL
    <3> QED BY <3>1, <2>2, <2>4, <1>2
  <2>6. GatesPredictInstall'
    BY <1>1, <1>3 DEF GatesPredictInstall
  <2>7. GateInv'
    BY <1>1, <1>2, <1>3, <2>2 DEF GateInv
  <2> QED BY <2>4, <2>5, <2>6, <2>7 DEF IInv
<1>4. CASE pc' = "refused" /\ refusedBy' = "package" /\ UNCHANGED archive
  <2>1. archive = Nothing /\ There(archive)' = {}
    BY <1>4, NoArchive DEF Package, IInv, There
  <2>2. TypeOK'
    BY <1>1, <1>4, <2>1 DEF IInv, TypeOK, Package, hosts, Gates, Nothing
  <2>3. ShipsOnlyOwn' /\ GatesPredictInstall'
    BY <1>4, <2>1 DEF ShipsOnlyOwn, GatesPredictInstall
  <2>4. GateInv'
    BY <1>4 DEF GateInv, Shipped
  <2> QED BY <2>2, <2>3, <2>4 DEF IInv
<1> QED BY <1>3, <1>4 DEF Package, Pass, Refuse

-----------------------------------------------------------------------------
(* On the target *)

LEMMA DeleteSourcesInv == ASSUME IInv, DeleteSources PROVE IInv'
<1>1. /\ UNCHANGED <<tree, rpath, libs, ldd, here, archive, pc, refusedBy>>
      /\ pc # "refused"
  BY DEF DeleteSources, hosts
<1>2. TypeOK'
  BY <1>1 DEF IInv, TypeOK, DeleteSources, hosts, Nothing
<1>3. Shipped' = Shipped
  BY <1>1 DEF Shipped
<1>4. GateInv'
  BY <1>1, <1>3, ContentsStay, ResolvedStays DEF IInv, GateInv
<1>5. ShipsOnlyOwn'
  BY <1>1 DEF IInv, ShipsOnlyOwn, There
<1>6. refusedBy' = "nobody"
  BY <1>1 DEF IInv, TypeOK
<1> QED BY <1>2, <1>4, <1>5, <1>6 DEF IInv, GatesPredictInstall

(* Every marker is in the archive, unless the target has no data in        *)
(* miopen/db.                                                              *)
LEMMA MarkersShipped ==
  ASSUME TypeOK, archive = Archived, ContentsComplete, NEW m \in Markers,
         \A f \in There(archive) : Facts[f].marker # m
  PROVE  \A f \in Dist(tree) : ~OwnData(f, {"miopen/db"})
<1>1. ASSUME NEW f \in Files, Facts[f].marker = m, Ships(f) PROVE f \notin Dist(tree)
  BY <1>1 DEF Ships, Excluded, Archived, There, Dist
<1>2. ~\E f \in Files : Facts[f].marker = m /\ Facts[f].required /\ Ships(f)
  BY <1>1 DEF ContentsComplete, Present, Dist, There, Ships
<1>3. PICK place \in {"rocblas/library", "miopen/db"} :
        \A f \in Files : (OwnData(f, {place}) /\ Facts[f].dist) =>
                           (Facts[f].marker = m /\ Ships(f))
  BY <1>2, MarkerAssumption
<1>4. \A f \in Dist(tree) : ~OwnData(f, {place})
  BY <1>1, <1>3 DEF Dist, There
<1>5. place # "rocblas/library"
  BY <1>4 DEF ContentsComplete
<1> QED BY <1>4, <1>5

LEMMA InspectInv == ASSUME IInv, Inspect PROVE IInv'
<1>1. /\ UNCHANGED <<tree, rpath, archive, libs, ldd, here, sources>> /\ Shipped
      /\ pc = "inspect"
  BY DEF Inspect, hosts, Shipped
<1>2. TypeOK'
  BY <1>1 DEF IInv, TypeOK, Inspect, Pass, Refuse, hosts, Gates, Nothing
<1>3. ShipsOnlyOwn'
  BY <1>1 DEF IInv, ShipsOnlyOwn, There, Inspect, Pass, Refuse
<1>4. pc' = "audit" => \A f \in Files : archive[f] # "outward"
  BY <1>1 DEF Inspect, Refuse, There
<1>5. refusedBy' # "audit" /\ pc' \in {"audit", "refused"}
  BY <1>1 DEF Inspect, Pass, Refuse, IInv, TypeOK
<1>6. GateInv'
  BY <1>1, <1>4, <1>5, ContentsStay, ResolvedStays DEF IInv, GateInv
<1>7. ASSUME refusedBy' \in {"inspect", "audit"} PROVE Unforeseen
  <2>1. \/ \E f \in There(archive) : archive[f] = "outward"
        \/ \E m \in Markers : \A f \in There(archive) : Facts[f].marker # m
    BY <1>1, <1>7 DEF Inspect, Pass, IInv, TypeOK
  <2>2. archive = Archived /\ ContentsComplete
    BY <1>1 DEF IInv, GateInv
  <2>3. CASE \E f \in There(archive) : archive[f] = "outward"
    BY <2>2, <2>3, ArchiveFromTree DEF There, Unforeseen
  <2>4. CASE \E m \in Markers : \A f \in There(archive) : Facts[f].marker # m
    BY <2>2, <2>4, MarkersShipped DEF Unforeseen, IInv
  <2> QED BY <2>1, <2>3, <2>4
<1>8. Unforeseen' = Unforeseen
  BY <1>1 DEF Unforeseen, Dist, There, InReach
<1> QED BY <1>2, <1>3, <1>6, <1>7, <1>8 DEF IInv, GatesPredictInstall

(* What the audit of the target misses the audit of the build could not    *)
(* know of: it was on that host, was left out of the archive or links out  *)
(* of it, or was in the build tree.                                        *)
LEMMA TargetMisses ==
  ASSUME TypeOK, archive = Archived, ResolvedAtBuild,
         NEW f \in Dist(archive), Facts[f].elf, archive[f] = "whole",
         NEW lib \in Facts[f].needs, ~Found(archive, f, lib, "target")
  PROVE  Unforeseen
<1>1. f \in Files /\ f \in Dist(tree) /\ tree[f] = "whole"
  BY ArchiveFromTree DEF Dist, There
<1>2. FoundAtBuild(f, lib) /\ lib \in Files \cup HostLibs
  BY <1>1, FactsType DEF ResolvedAtBuild
<1>3. CASE lib \in Files /\ Excluded(lib)
  BY <1>1, <1>3 DEF Unforeseen, Excluded
<1>4. CASE ~(lib \in Files /\ Excluded(lib))
  <2>1. lib \in Dist(tree) => lib \in Dist(archive) /\ archive[lib] = tree[lib]
    BY <1>4 DEF Archived, Dist, There
  <2>2. lib \in Dist(archive) => lib \in Dist(tree)
    BY ArchiveFromTree DEF Dist, There
  <2>3. InReach(archive, f, lib) <=> InReach(tree, f, lib)
    BY <2>1, <2>2 DEF InReach
  <2>4. CASE InReach(tree, f, lib) /\ tree[lib] # "dangling"
    <3>1. lib \in Dist(tree) /\ tree[lib] \in {"whole", "outward"}
      BY <1>2, <2>4 DEF FoundAtBuild, InReach
    <3>2. tree[lib] # "whole"
      BY <2>1, <2>3, <2>4, <3>1 DEF Found
    <3> QED BY <3>1, <3>2 DEF Unforeseen
  <2>5. CASE ~(InReach(tree, f, lib) /\ tree[lib] # "dangling")
    <3>1. lib \notin libs["target"] /\ ~ByBuildTree(f, lib, "target")
      BY <2>1, <2>2, <2>3, <2>5 DEF Found, InReach
    <3>2. \/ lib \in libs["build"]
          \/ "build" \in rpath[f] /\ lib \in Files /\ tree[lib] \in {"whole", "outward"}
      BY <1>2, <2>5 DEF FoundAtBuild
    <3>3. CASE lib \in libs["build"]
      BY <1>1, <1>2, <3>1, <3>3 DEF Unforeseen
    <3>4. CASE "build" \in rpath[f] /\ lib \in Files /\ tree[lib] \in {"whole", "outward"}
      <4>1. ~InReach(tree, f, lib) /\ ~(here /\ sources)
        BY <2>5, <3>1, <3>4 DEF ByBuildTree
      <4> QED BY <1>1, <3>4, <4>1 DEF Unforeseen
    <3> QED BY <3>2, <3>3, <3>4
  <2> QED BY <2>4, <2>5
<1> QED BY <1>3, <1>4

LEMMA AuditInv == ASSUME IInv, Audit PROVE IInv'
<1>1. /\ UNCHANGED <<tree, rpath, archive, libs, ldd, patchelf, here, sources>> /\ Shipped
      /\ pc = "audit" /\ refusedBy = "nobody"
  BY DEF Audit, hosts, Shipped, IInv, TypeOK
<1>2. /\ archive = Archived /\ ContentsComplete /\ ResolvedAtBuild
      /\ \A f \in Files : archive[f] # "outward"
  BY <1>1 DEF IInv, GateInv
<1>3. /\ pc' \in {"installed", "refused"}
      /\ pc' = "installed" <=> refusedBy' = "nobody"
      /\ refusedBy' \in {"nobody", "audit", "ldd"}
      /\ refusedBy' = "audit" => ~(/\ \A f \in Hipcc : archive[f] = "whole"
                                  /\ AuditPasses(archive, "target"))
  BY <1>1 DEF Audit, Pass, Refuse, LddFails
<1>4. TypeOK'
  BY <1>1, <1>3 DEF IInv, TypeOK, Gates, Nothing
<1>5. GateInv'
  BY <1>1, <1>2, <1>3, ContentsStay, ResolvedStays DEF IInv, GateInv, Shipped
<1>6. ShipsOnlyOwn'
  BY <1>1 DEF IInv, ShipsOnlyOwn, There
<1>7. ASSUME refusedBy' = "audit" PROVE Unforeseen
  <2>1. CASE \E f \in Hipcc : archive[f] # "whole"
    <3>1. PICK f \in Hipcc : archive[f] # "whole"
      BY <2>1
    <3>2. f \in Files /\ Present(f) /\ Facts[f].dist /\ ~Excluded(f)
      BY <1>2, MarkerAssumption DEF Hipcc, ContentsComplete, Ships, Excluded
    <3>3. f \in Dist(tree) /\ archive[f] = tree[f]
      BY <1>2, <3>2 DEF Present, Dist, There, Archived
    <3>4. tree[f] = "dangling"
      BY <1>2, <3>1, <3>2, <3>3 DEF Present
    <3> QED BY <3>4 DEF Unforeseen
  <2>2. CASE "target" \notin ldd
    BY <2>2 DEF Unforeseen
  <2>3. CASE ~Resolved(archive, "target")
    BY <1>2, <2>3, TargetMisses DEF Resolved, IInv
  <2> QED BY <1>3, <1>7, <2>1, <2>2, <2>3 DEF AuditPasses
<1>8. Unforeseen' = Unforeseen
  BY <1>1 DEF Unforeseen, Dist, There, InReach
<1>9. GatesPredictInstall'
  BY <1>3, <1>7, <1>8 DEF GatesPredictInstall
<1> QED BY <1>4, <1>5, <1>6, <1>9 DEF IInv

-----------------------------------------------------------------------------

LEMMA NextInv == IInv /\ [Next]_vars => IInv'
<1> SUFFICES ASSUME IInv, [Next]_vars PROVE IInv'
  OBVIOUS
<1>1. CASE Next
  BY <1>1, ValidateRocrInv, RepairRdcInv, ValidateContentsInv, AuditElfInv, PackageInv,
     DeleteSourcesInv, InspectInv, AuditInv DEF Next
<1>2. CASE UNCHANGED vars
  <2>1. UNCHANGED <<tree, rpath, archive, libs, ldd, patchelf, here, sources, pc, refusedBy>>
    BY <1>2 DEF vars, hosts
  <2>2. TypeOK'
    BY <2>1 DEF IInv, TypeOK, Nothing
  <2>3. GateInv'
    BY <2>1, ContentsStay, ResolvedStays DEF IInv, GateInv, Shipped
  <2>4. Unforeseen' = Unforeseen
    BY <2>1 DEF Unforeseen, Dist, There, InReach
  <2>5. ShipsOnlyOwn' /\ GatesPredictInstall'
    BY <2>1, <2>4 DEF IInv, ShipsOnlyOwn, GatesPredictInstall, There
  <2> QED BY <2>2, <2>3, <2>5 DEF IInv
<1> QED BY <1>1, <1>2

LEMMA Invariance == Spec => []IInv
BY InitInv, NextInv, PTL DEF Spec

(* The variables keep their types, and every refusal has an author. *)
THEOREM GatesTypeCorrect == Spec => []TypeOK
BY Invariance, PTL DEF IInv

(* Whatever files there are and whatever the gates can tell of them, no    *)
(* archive holds another GPU's code objects, an excluded payload or an     *)
(* empty required file.                                                    *)
THEOREM ShipsOwn == Spec => []ShipsOnlyOwn
BY Invariance, PTL DEF IInv

(* Where each marker of the installer is a file that the contents gate     *)
(* requires or the target's data in one place, the installer refuses       *)
(* nothing that the build's gates could have seen.                         *)
THEOREM InstallPredicted == Spec => []GatesPredictInstall
BY Invariance, PTL DEF IInv
=============================================================================
