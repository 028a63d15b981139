\* A day change while the archives of earlier days are drained.
\* The system stops when the bounds are reached.
SPECIFICATION Spec
CONSTANTS
  MaxDays = 3
  MaxRecords = 2
  Kinds = {"alert"}
  Expiry = FALSE
  NoDay = NoDay
  StartMode = "beginning"
  MaxStops = 0
  StopWhileDraining = FALSE
  DayChangeInside = TRUE
INVARIANTS
  OldDayFirst
CHECK_DEADLOCK FALSE
