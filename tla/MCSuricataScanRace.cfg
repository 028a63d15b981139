\* A rotation between two stats of one directory scan.
\* The system stops when the bounds are reached.
SPECIFICATION Spec
CONSTANTS
  MaxFiles = 3
  MaxSlot = 2
  MaxRecords = 2
  Kinds = {"flow"}
  Compression = FALSE
  NoFile = NoFile
  StableObservations = 2
  MaxCrashes = 0
  ScanRace = TRUE
PROPERTIES
  DisplacedFileDrained
CHECK_DEADLOCK FALSE
