SPECIFICATION Spec
CONSTANTS
  Last = 3
  Active = {1, 2}
  Packaged = {1, 2, 3}
  Upstream <- MCUpstream
  PartialManifests = TRUE
  MaxKills = 1
INVARIANTS
  DistIsWhole
CHECK_DEADLOCK FALSE
