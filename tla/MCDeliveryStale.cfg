SPECIFICATION Spec
CONSTANTS
  full = full
  inference = inference
  Editions <- MCEditions
  MaxFaults = 0
INVARIANTS
  NoStaleFiles
