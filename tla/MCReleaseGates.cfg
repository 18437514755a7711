SPECIFICATION Spec
CONSTANTS
  hipcc = hipcc
  llc = llc
  clang = clang
  libLLVM = libLLVM
  tool = tool
  internal = internal
  libhsa = libhsa
  rocblas = rocblas
  fdb = fdb
  kernels = kernels
  rdctst = rdctst
  libgtest = libgtest
  solver = solver
  sparselt = sparselt
  foreign = foreign
  fill10 = fill10
  trap = trap
  bootTrap = bootTrap
  blit = blit
  image = image
  header = header
  ocml = ocml
  libnuma = libnuma
  Files <- MCFiles
  HostLibs <- MCHostLibs
  Markers <- MCMarkers
  Deviant <- MCDeviant
  Optional <- MCOptional
  Facts <- MCFacts
INVARIANTS
  TypeOK
  GatesPredictInstall
  ShipsOnlyOwn
CHECK_DEADLOCK FALSE
