SPECIFICATION FairSpec
CONSTANTS
  Last = 3
  Active = {1, 2}
  Packaged = {1, 2, 3}
  Upstream <- MCUpstream
  PartialManifests = FALSE
  MaxKills = 2
INVARIANTS
  TypeOK
  DistIsWhole
  FailureIsReal
PROPERTIES
  IntactIsKept
  RecoversUnlessOrphaned
CHECK_DEADLOCK FALSE
