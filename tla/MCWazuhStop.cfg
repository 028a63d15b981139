\* A stop signal while an archive is drained.
\* The system stops when the bounds are reached.
SPECIFICATION Spec
CONSTANTS
  MaxDays = 2
  MaxRecords = 2
  Kinds = {"alert"}
  Expiry = FALSE
  NoDay = NoDay
  StartMode = "beginning"
  MaxStops = 1
  StopWhileDraining = TRUE
  DayChangeInside = FALSE
PROPERTIES
  DayLeftOnlyDrained
CHECK_DEADLOCK FALSE
