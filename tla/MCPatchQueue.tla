---------------------------- MODULE MCPatchQueue ----------------------------
(* The queue of patches/*.patch: 29 patches in TheRock and three           *)
(* submodules.  Files are numbered; those that only one patch touches need *)
(* no name of their own beyond the patch's number.                         *)
EXTENDS PatchQueue, TLC

(* rocm-systems, rocm-libraries and compiler/amd-llvm are tried in this order. *)
systems == 1
libraries == 2

MCHome == [p \in 1 .. 29 |->
  CASE p \in {2, 3, 4, 10, 11, 27, 28} -> systems
    [] p \in {6, 8, 9, 12, 13}         -> libraries
    [] OTHER                           -> 0]

(* 0025 names rocm-libraries/projects/miopen from the superproject. *)
MCSite == [MCHome EXCEPT ![25] = libraries]

targets == 101   \* cmake/therock_amdgpu_targets.cmake
blas == 102      \* math-libs/BLAS/CMakeLists.txt
ml == 103        \* ml-libs/CMakeLists.txt
core == 104      \* core/CMakeLists.txt
rocblas == 105   \* projects/rocblas/library/src/tensile_host.cpp
rocclr == 106    \* projects/clr/rocclr/cmake/ROCclrHSA.cmake
thunk == 107     \* projects/rocr-runtime/.../thunk_loader.cpp

MCFiles == [p \in 1 .. 29 |->
  CASE p \in {1, 7, 17}      -> {targets}
    [] p \in {16, 18, 19, 21} -> {blas}
    [] p \in {20, 26}        -> {ml}
    [] p = 22                -> {blas, ml}
    [] p \in {5, 23}         -> {core}
    [] p \in {8, 9, 12, 13}  -> {rocblas}
    [] p \in {10, 11}        -> {rocclr}
    [] p \in {27, 28}        -> {thunk}
    [] p = 2                 -> {2, 32, 62}
    [] p = 3                 -> {3, 33}
    [] OTHER                 -> {p}]

MCExtends == {<<1, 7>>, <<10, 11>>, <<18, 21>>, <<20, 26>>}
MCNarrow == {1, 18}
=============================================================================
