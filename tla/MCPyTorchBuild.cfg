SPECIFICATION Spec
CONSTANTS
  first = first
  second = second
  default = default
  linked = linked
  elsewhere = elsewhere
  Runs <- MCRuns
  BuildDirs <- MCBuildDirs
  Real <- MCReal
  Patches = 2
  MaxStarts = 3
  MaxFaults = 1
SYMMETRY MCSymmetry
INVARIANTS
  TypeOK
  
  RefusalIsReal
PROPERTIES
  NoStrayLink
  UsersEntryKept
CHECK_DEADLOCK FALSE
