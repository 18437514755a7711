SPECIFICATION FairQueueSpec
CONSTANTS
  Last = 29
  Submodules = 3
  Home <- MCHome
  Site <- MCSite
  Files <- MCFiles
  Extends <- MCExtends
  Supersedes <- MCExtends
  Narrow <- MCNarrow
  MaxKills = 1
INVARIANTS
  QueueTypeOK
  ConfiguredComplete
PROPERTIES
  RejectionIsReal
  Idempotent
  ResumesUnlessTorn
