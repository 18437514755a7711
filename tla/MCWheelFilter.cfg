SPECIFICATION Spec
CONSTANTS
  first = first
  second = second
  plain = plain
  excluded = excluded
  mentioned = mentioned
  quoted = quoted
  kernels = kernels
  cut = cut
  Runs <- MCRuns
  Count = 2
  Device <- MCDevice
  Members <- MCMembers
  Facts <- MCFacts
  Upstream <- MCUpstream
  MaxStarts = 3
  MaxFaults = 2
SYMMETRY MCSymmetry
INVARIANTS
  TypeOK
  AcceptedIsExact
  
PROPERTIES
  WheelsStayWhole
CHECK_DEADLOCK FALSE
