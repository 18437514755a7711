SPECIFICATION Spec
CONSTANTS
  Installers = {i1, i2}
  good = good
  unmarked = unmarked
  unsound = unsound
  Contents <- MCContents
  Marked <- MCMarked
  Sound <- MCSound
  Faults = {"io", "rmtree", "interrupt", "kill"}
  Overlap = TRUE
  MaxClock = 1
  Absent = Absent
  User = User
  None = None
  Old = Old
  Broken = Broken
  Torn = Torn
SYMMETRY Symmetry
INVARIANTS
  OnlyAuditedTrees
  NoLitter
PROPERTIES
  TreesPreserved
CHECK_DEADLOCK FALSE
