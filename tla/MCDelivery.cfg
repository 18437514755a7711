SPECIFICATION FairSpec
CONSTANTS
  full = full
  inference = inference
  Editions <- MCEditions
  MaxFaults = 2
INVARIANTS
  TypeOK
  ArchiveUsable
  DeliveredTogether
PROPERTIES
  DeliversUnlessTorn
