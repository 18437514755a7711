SPECIFICATION FairSpec
CONSTANTS
  mi50 = mi50
  sibling = sibling
  foreign = foreign
  Steps <- MCSteps
  Cards <- MCCards
  Agent <- MCAgent
  MaxChanges = 2
INVARIANTS
  TypeOK
  PassIsNative
  ExitIsHonest
PROPERTIES
  SuiteEnds
CHECK_DEADLOCK FALSE
