---------------------------- MODULE ReleaseGates ----------------------------
(***************************************************************************)
(* One distribution tree on its way through the gates: the ROCr validator, *)
(* the repair of the RDC test binary, the contents and ELF gates and the   *)
(* packager of build_therock_gfx906.sh on the build host, then the         *)
(* inspection and the ELF audit of install_rocm_mi50.py on the target.     *)
(* Each looks for something else, some at names and some at bytes, and the *)
(* tree is changed between them.                                           *)
(***************************************************************************)
EXTENDS Exclusion, FiniteSets

CONSTANTS
  Files,     \* the files that may be in the build tree
  Facts,     \* what the gates can tell of each of them
  Markers,   \* the kinds of files that inspect_archive requires
  Deviant,   \* bound: the files that may be other than whole
  Optional,  \* bound: the files that upstream may leave out
  HostLibs   \* libraries that a host may have installed

(* Where the gates look. *)
Places == {"lib", "sysdeps", "llvm/lib", "rocblas/library", "miopen/db",
           "miopen", "rdc", "elsewhere"}

FileFacts == [place : Places,
              dist : BOOLEAN,      \* in dist/rocm, or only in the build tree
              bootstrap : BOOLEAN, \* in the compiler's own runtimes tree
              role : {"none", "runtime", "trap", "blit", "image"},
              required : BOOLEAN,  \* one of REQUIRED_PATHS
              marker : Markers \cup {"none"},
              token : {"none", "own", "foreign"},  \* gfx906, or another gfx
              code : BOOLEAN,      \* a suffix of a device code object
              newer : BOOLEAN,     \* NEWER_OBJECT_RE matches the name
              elf : BOOLEAN,
              needs : SUBSET (Files \cup HostLibs),
              path : Path]

ASSUME GatesAssumption ==
  /\ Facts \in [Files -> FileFacts]
  /\ \A f \in Files : Facts[f].dist => ~Facts[f].bootstrap
  /\ Deviant \subseteq Files /\ Optional \subseteq Files
  /\ Files \cap HostLibs = {}

(* A whole file, an empty one, a link to nothing, or a link that leads out *)
(* of the tree to something on this host.                                  *)
Kinds == {"absent", "whole", "empty", "dangling", "outward"}

VARIABLES
  tree,      \* the files of the build tree, dist/rocm among them
  rpath,     \* the RUNPATH entries of each: $ORIGIN, the build tree
  archive,   \* the files in the archive
  libs,      \* the libraries installed on the build and the target host
  ldd,       \* the hosts that have ldd
  patchelf,  \* has the build host patchelf
  sources,   \* is the build tree still there
  pc,
  refusedBy, \* the gate that stopped the tree
  here       \* is the target the build host

hosts == <<libs, ldd, patchelf, here>>
vars == <<tree, rpath, archive, hosts, sources, pc, refusedBy>>

Entries == {"origin", "build"}
Hosts == {"build", "target"}
Nothing == [f \in Files |-> "absent"]

(* Upstream's tree has every file but some optional ones, and at most one  *)
(* that is not whole.                                                      *)
Init ==
  /\ \E missing \in SUBSET Optional :
       LET full == [f \in Files |-> IF f \in missing THEN "absent" ELSE "whole"] IN
       \/ tree = full
       \/ \E f \in Deviant \ missing, k \in Kinds \ {"absent"} :
            tree = [full EXCEPT ![f] = k]
  /\ \E some \in SUBSET Entries :
       rpath = [f \in Files |-> IF Facts[f].elf THEN some ELSE {}]
  /\ archive = Nothing
  /\ libs \in [Hosts -> SUBSET HostLibs]
  /\ ldd \in SUBSET Hosts /\ patchelf \in BOOLEAN
  /\ here \in BOOLEAN
  /\ here => libs["target"] = libs["build"] /\ ldd \in {{}, Hosts}
  /\ sources = TRUE /\ pc = "rocr" /\ refusedBy = "nobody"

There(t) == {f \in Files : t[f] # "absent"}
Dist(t) == {f \in There(t) : Facts[f].dist}
IsFile(t, f) == t[f] \in {"whole", "empty", "outward"}

Pass(next) == pc' = next /\ UNCHANGED refusedBy

(* Mutant: nothing says which gate it was. *)
RefuseSilently == pc' = "refused" /\ UNCHANGED refusedBy

Refuse == pc' = "refused" /\ refusedBy' = pc

-----------------------------------------------------------------------------
(* Gates on the build host *)

(* Links are not looked at. *)
Regular == {f \in Files : tree[f] \in {"whole", "empty"}}
Objects(role) == {f \in Regular : Facts[f].role = role}

Distributable == {f \in Files : ~Facts[f].bootstrap}

Newer == {f \in Regular \cap Distributable : Facts[f].newer}

(* validate_rocr_build: the trap handler is looked for among what can be   *)
(* distributed, the rest anywhere; the image object needs its metadata.    *)
RocrComplete ==
  /\ Objects("runtime") # {}
  /\ Objects("trap") \cap Distributable # {}
  /\ Objects("blit") # {}
  /\ \E f \in Objects("image") : tree[f] = "whole"
  /\ Newer = {}

ValidateRocr ==
  /\ pc = "rocr"
  /\ IF RocrComplete THEN Pass("repair") ELSE Refuse
  /\ UNCHANGED <<tree, rpath, archive, hosts, sources>>

Rdc(f) == Facts[f].place = "rdc" /\ Facts[f].elf
RdcTests == {f \in Dist(tree) : Rdc(f) /\ Facts[f].needs # {}}

(* The binary and the libraries beside it are there. *)
Repairable ==
  \E f \in RdcTests : tree[f] \in {"whole", "empty"}
    /\ \A g \in Facts[f].needs \cap Files : Facts[g].place = "rdc" => IsFile(tree, g)

(* patchelf is asked for before it is known to be needed, and fails on an  *)
(* empty file.                                                             *)
Patchable ==
  patchelf /\ \A f \in RdcTests : tree[f] = "whole"

(* $ORIGIN is put first into the RUNPATH of the test binary. *)
RepairRdc ==
  /\ pc = "repair"
  /\ \/ ~Repairable /\ Pass("contents") /\ UNCHANGED rpath
     \/ /\ Repairable /\ Patchable
        /\ rpath' = [f \in Files |-> IF f \in RdcTests THEN rpath[f] \cup {"origin"}
                                                       ELSE rpath[f]]
        /\ Pass("contents")
     \/ Repairable /\ ~Patchable /\ Refuse /\ UNCHANGED rpath
  /\ UNCHANGED <<tree, archive, hosts, sources>>

OwnData(f, where) == Facts[f].token = "own" /\ Facts[f].place \in where

(* Mutant: a file may be empty. *)
PresentByName(f) == tree[f] # "absent"

(* A link counts as present, whatever it leads to. *)
Present(f) == tree[f] \in {"whole", "dangling", "outward"}

Foreign(f) == Facts[f].token = "foreign" /\ Facts[f].code

(* validate_dist_contents *)
ContentsComplete ==
  /\ \A f \in Files : Facts[f].required => Present(f)
  /\ \E f \in Dist(tree) : OwnData(f, {"rocblas/library"})
  /\ \E f \in Dist(tree) : OwnData(f, {"miopen", "miopen/db"})
  /\ \A f \in Dist(tree) : IsFile(tree, f) => ~Foreign(f)

ValidateContents ==
  /\ pc = "contents"
  /\ IF ContentsComplete THEN Pass("elf") ELSE Refuse
  /\ UNCHANGED <<tree, rpath, archive, hosts, sources>>

-----------------------------------------------------------------------------
(* The ELF audit, of the gate and of the installer *)

(* LD_LIBRARY_PATH of the audit, and of mi50-env.sh. *)
Searched == {"lib", "sysdeps", "llvm/lib"}

(* Library lib lies in tree t where the loader looks on behalf of f: what  *)
(* it comes upon there ends the search, even an empty file.                *)
InReach(t, f, lib) ==
  /\ lib \in Dist(t)
  /\ \/ Facts[lib].place \in Searched
     \/ "origin" \in rpath[f] /\ Facts[lib].place = Facts[f].place

(* The build tree is where the RUNPATH says, with the library in it. *)
ByBuildTree(f, lib, h) ==
  /\ "build" \in rpath[f] /\ sources /\ (h = "build" \/ here)
  /\ lib \in Files /\ tree[lib] \in {"whole", "outward"}

Found(t, f, lib, h) ==
  IF InReach(t, f, lib) /\ t[lib] # "dangling"
    THEN t[lib] \in {"whole", "outward"}
    ELSE lib \in libs[h] \/ ByBuildTree(f, lib, h)

Resolved(t, h) ==
  \A f \in Dist(t) : (Facts[f].elf /\ t[f] = "whole") =>
    \A lib \in Facts[f].needs : Found(t, f, lib, h)

Elfs(t) == {f \in Dist(t) : Facts[f].elf /\ t[f] = "whole"}

(* validate_elf_dependencies; links are not audited. *)
AuditPasses(t, h) ==
  /\ Elfs(t) # {} => h \in ldd
  /\ Resolved(t, h)

(* ldd takes too long, or cannot be started. *)
LddFails == pc' = "refused" /\ refusedBy' = "ldd"

AuditElf ==
  /\ pc = "elf"
  /\ \/ AuditPasses(tree, "build") /\ Pass("package")
     \/ ~AuditPasses(tree, "build") /\ Refuse
     \/ LddFails
  /\ UNCHANGED <<tree, rpath, archive, hosts, sources>>

(* Mutant: the list of exclusions is not given to tar. *)
NoneExcluded(f) == FALSE

Excluded(f) == PackagerExcludes(Facts[f].path)

(* validate_source asks for a few files once more, llc not to be a link to *)
(* nothing; tar then leaves out what is excluded.                          *)
SourceComplete ==
  /\ \E f \in Dist(tree) : OwnData(f, {"rocblas/library"})
  /\ \E f \in Dist(tree) : OwnData(f, {"miopen", "miopen/db"})
  /\ \E f \in Dist(tree) : Facts[f].role = "runtime"
  /\ \E f \in Dist(tree) : Facts[f].marker = "llvm_llc" /\ IsFile(tree, f)

Package ==
  /\ pc = "package"
  /\ IF SourceComplete
       THEN /\ archive' = [f \in Files |->
                 IF f \in Dist(tree) /\ ~Excluded(f) THEN tree[f] ELSE "absent"]
            /\ Pass("inspect")
       ELSE Refuse /\ UNCHANGED archive
  /\ UNCHANGED <<tree, rpath, hosts, sources>>

(* The build tree is deleted, to make room. *)
DeleteSources ==
  /\ pc \in {"inspect", "audit", "installed"} /\ sources
  /\ sources' = FALSE
  /\ UNCHANGED <<tree, rpath, archive, hosts, pc, refusedBy>>

-----------------------------------------------------------------------------
(* On the target *)

(* inspect_archive: no link leads out, and every marker occurs by name.    *)
Inspect ==
  /\ pc = "inspect"
  /\ IF /\ \A f \in There(archive) : archive[f] # "outward"
        /\ \A m \in Markers : \E f \in There(archive) : Facts[f].marker = m
       THEN Pass("audit") ELSE Refuse
  /\ UNCHANGED <<tree, rpath, archive, hosts, sources>>

Hipcc == {f \in Files : Facts[f].marker = "hipcc"}

(* REQUIRED_MARKERS against REQUIRED_PATHS: each marker is that of a file  *)
(* that the contents gate requires, or of all the target's data in one     *)
(* place, and none of these is excluded.                                   *)
Ships(f) == Facts[f].dist /\ ~PackagerExcludes(Facts[f].path)

ASSUME MarkerAssumption ==
  /\ \A f \in Hipcc : Facts[f].required /\ Ships(f)
  /\ \A m \in Markers :
       \/ \E f \in Files : Facts[f].marker = m /\ Facts[f].required /\ Ships(f)
       \/ \E place \in {"rocblas/library", "miopen/db"} :
            \A f \in Files : (OwnData(f, {place}) /\ Facts[f].dist) =>
                               (Facts[f].marker = m /\ Ships(f))

(* hipcc must be a file with bytes in it; then the ELF audit of staging.   *)
Audit ==
  /\ pc = "audit"
  /\ LET passes == /\ \A f \in Hipcc : archive[f] = "whole"
                   /\ AuditPasses(archive, "target") IN
     \/ passes /\ Pass("installed")
     \/ ~passes /\ Refuse
     \/ LddFails
  /\ UNCHANGED <<tree, rpath, archive, hosts, sources>>

Next ==
  \/ ValidateRocr \/ RepairRdc \/ ValidateContents \/ AuditElf \/ Package
  \/ DeleteSources \/ Inspect \/ Audit

Spec == Init /\ [][Next]_vars

-----------------------------------------------------------------------------
(* Properties *)

Gates == {"rocr", "repair", "contents", "elf", "package", "inspect", "audit"}

(* Every variable has its type; there is an archive only from the packager *)
(* on, and a tree that is refused is refused by someone.                   *)
TypeOK ==
  /\ tree \in [Files -> Kinds] /\ archive \in [Files -> Kinds]
  /\ rpath \in [Files -> SUBSET Entries]
  /\ libs \in [Hosts -> SUBSET HostLibs] /\ ldd \subseteq Hosts /\ patchelf \in BOOLEAN
  /\ sources \in BOOLEAN /\ here \in BOOLEAN
  /\ pc \in Gates \cup {"refused", "installed"}
  /\ refusedBy \in Gates \cup {"nobody", "ldd"}
  /\ pc = "refused" <=> refusedBy # "nobody"
  /\ archive # Nothing =>
       pc \in {"inspect", "audit", "installed"} \/ refusedBy \in {"inspect", "audit", "ldd"}

(* What the build gates cannot see: whether the data of the target is in   *)
(* miopen/db, where a link leads, and what the target host has; and what   *)
(* the packager does after they have looked.                               *)
Unforeseen ==
  \/ \A f \in Dist(tree) : ~OwnData(f, {"miopen/db"})
  \/ \E f \in Dist(tree) : tree[f] = "outward"
  \/ \E f \in Hipcc : tree[f] = "dangling"
  \/ "target" \notin ldd
  \/ \E f \in Dist(tree), lib \in Files \cup HostLibs : lib \in Facts[f].needs /\
       \/ lib \in libs["build"] \ libs["target"]
       \/ lib \in Files /\ PackagerExcludes(Facts[lib].path)
       \/ lib \in Files /\ ~InReach(tree, f, lib) /\ ~(here /\ sources)

(* "Gate the merged tree on the files that make a ROCm distribution        *)
(* usable": a tree that passed every gate of the build is refused by the   *)
(* installer only for what those gates cannot see, never because a file    *)
(* they ask for is cut short, or a library is missing from the tree.       *)
GatesPredictInstall ==
  refusedBy \in {"inspect", "audit"} => Unforeseen

(* No code object of another GPU, under either naming, no excluded payload *)
(* and no required file without content gets into an archive, also where   *)
(* only one of the gates looks for it.                                     *)
ShipsOnlyOwn ==
  \A f \in There(archive) :
    /\ ~PackagerExcludes(Facts[f].path)
    /\ Facts[f].required => archive[f] # "empty"
    /\ archive[f] \in {"whole", "empty"} =>
         ~Facts[f].newer /\ ~(Facts[f].code /\ Facts[f].token = "foreign")
=============================================================================
