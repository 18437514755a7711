--------------------------- MODULE MCReleaseGates ---------------------------
(* A file of every kind that one of the gates looks for, among them one    *)
(* for each of the installer's REQUIRED_MARKERS.                           *)
EXTENDS ReleaseGates, TLC

CONSTANTS hipcc, llc, clang, libLLVM, tool, internal, libhsa, rocblas, fdb, kernels,
          rdctst, libgtest, solver, sparselt, foreign, fill10,
          trap, bootTrap, blit, image, header, ocml, libnuma

MCFiles == {hipcc, llc, clang, libLLVM, tool, internal, libhsa, rocblas, fdb, kernels,
            rdctst, libgtest, solver, sparselt, foreign, fill10,
            trap, bootTrap, blit, image, header, ocml}
MCHostLibs == {libnuma}
MCMarkers == {"hipcc", "llvm_llc", "hip_headers", "rocr_runtime", "llvm_ocml",
              "rocblas_gfx906", "miopen_gfx906"}
MCDeviant == {hipcc, llc, libhsa, rdctst, libgtest, libLLVM, image}
MCOptional == {fdb, tool, solver, foreign, fill10, trap}

Name(word) == [before |-> "lib", word |-> word, after |-> "text"]
Dir == [before |-> "", word |-> "none", after |-> "text"]
File == [place |-> "elsewhere", dist |-> TRUE, bootstrap |-> FALSE, role |-> "none",
         required |-> FALSE, marker |-> "none", token |-> "none", code |-> FALSE,
         newer |-> FALSE, elf |-> FALSE, needs |-> {}, path |-> <<Dir, Name("none")>>]
Elf(place, needs) == [File EXCEPT !.place = place, !.elf = TRUE, !.needs = needs]
Data(place, marker) == [File EXCEPT !.place = place, !.marker = marker, !.token = "own"]
Generated(role) == [File EXCEPT !.dist = FALSE, !.role = role]

MCFacts == [f \in MCFiles |->
  CASE f = hipcc -> [File EXCEPT !.required = TRUE, !.marker = "hipcc"]
    [] f = llc -> [Elf("elsewhere", {}) EXCEPT !.required = TRUE, !.marker = "llvm_llc"]
    [] f = clang -> Elf("elsewhere", {libLLVM})
    [] f = libLLVM -> Elf("llvm/lib", {})
    [] f = tool -> Elf("elsewhere", {internal})
    [] f = internal -> [Elf("lib", {}) EXCEPT !.dist = FALSE]
    [] f = libhsa -> [Elf("lib", {libnuma}) EXCEPT !.required = TRUE,
                       !.marker = "rocr_runtime", !.role = "runtime"]
    [] f = rocblas -> Data("rocblas/library", "rocblas_gfx906")
    [] f = fdb -> Data("miopen/db", "miopen_gfx906")
    [] f = kernels -> Data("miopen", "none")
    [] f = rdctst -> Elf("rdc", {libgtest})
    [] f = libgtest -> Elf("rdc", {})
    [] f = solver -> Elf("lib", {sparselt})
    [] f = sparselt -> [Elf("lib", {}) EXCEPT !.path = <<Dir, Name("exact")>>]
    [] f = foreign -> [File EXCEPT !.token = "foreign", !.code = TRUE]
    [] f = fill10 -> [File EXCEPT !.newer = TRUE, !.code = TRUE]
    [] f = trap -> Generated("trap")
    [] f = bootTrap -> [Generated("trap") EXCEPT !.bootstrap = TRUE]
    [] f = blit -> Generated("blit")
    [] f = image -> Generated("image")
    [] f = header -> [File EXCEPT !.required = TRUE, !.marker = "hip_headers"]
    [] f = ocml -> [File EXCEPT !.required = TRUE, !.marker = "llvm_ocml", !.code = TRUE]]
=============================================================================
