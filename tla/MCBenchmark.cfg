SPECIFICATION Spec
CONSTANTS
  old = old
  new = new
  prompt = prompt
  decode = decode
  Roots <- MCRoots
  Hosts <- MCHosts
  Metrics <- MCMetrics
  MaxCommit = 2
  MaxRuns = 2
  MaxFaults = 1
  MaxBenches = 1
INVARIANTS
  TypeOK
  PassIsEvidence
  MeasuresOneBuild
CHECK_DEADLOCK FALSE
