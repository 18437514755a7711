-------------------------- MODULE MCManifestRepair --------------------------
(* Two or three slices of the kind the build script describes: the HIP     *)
(* compiler with payload under two prefixes, a debugger test slice with a  *)
(* file that is empty upstream too, and a slice of an inactive project.    *)
EXTENDS ManifestRepair, TLC

hipcc   == <<"compiler", "amd-llvm", "stage", "bin", "hipcc">>
comgr   == <<"compiler", "amd-comgr", "stage", "lib", "libamd_comgr.so">>
fixture == <<"compiler", "rocgdb", "dist", "empty.fixture">>
header  == <<"math-libs", "BLAS", "include", "rocblas.h">>
stale   == <<"math-libs", "hipblaslt", "stage", "lib.so">>

MCUpstream ==
  << hipcc :> "full" @@ comgr :> "full" @@ fixture :> "empty",
     header :> "full",
     stale :> "full" >>
=============================================================================
