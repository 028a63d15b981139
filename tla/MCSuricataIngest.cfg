\* Three files and one archive slot, so that the oldest file expires; two records
\* of four kinds, compression, one crash.  The system stops when the bounds are reached.
SPECIFICATION FairSpec
CONSTANTS
  MaxFiles = 3
  MaxSlot = 1
  MaxRecords = 2
  Kinds = {"flow", "flowless", "bad", "other"}
  Compression = TRUE
  NoFile = NoFile
  StableObservations = 2
  MaxCrashes = 1
  ScanRace = FALSE
INVARIANTS
  TypeOK
  NoGap
  DuplicatesOnlyAfterCrash
PROPERTIES
  StreamInOrder
  CatchesUp
CHECK_DEADLOCK FALSE
