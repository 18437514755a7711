SPECIFICATION Spec
CONSTANTS
  Installers = {i1, i2, i3}
  good = good
  unmarked = unmarked
  unsound = unsound
  Contents <- GoodOnly
  Marked <- GoodOnly
  Sound <- GoodOnly
  Faults = {"io", "rmtree", "interrupt", "kill"}
  Overlap = FALSE
  MaxClock = 1
  Absent = Absent
  User = User
  None = None
  Old = Old
  Broken = Broken
  Torn = Torn
SYMMETRY Symmetry
INVARIANTS
  TypeOK
  PassedInstallSurvives
PROPERTIES
  RefusalRestores
  ImplementsAtomicInstall
CHECK_DEADLOCK FALSE
