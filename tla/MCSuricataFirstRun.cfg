\* A rotation before the first record is checkpointed.
\* The system stops when the bounds are reached.
SPECIFICATION Spec
CONSTANTS
  MaxFiles = 2
  MaxSlot = 1
  MaxRecords = 2
  Kinds = {"flow"}
  Compression = FALSE
  NoFile = NoFile
  StableObservations = 2
  MaxCrashes = 0
  ScanRace = FALSE
INVARIANTS
  RetryBlocksLater
CHECK_DEADLOCK FALSE
