\* Three days of at most two records; archives may be compressed or deleted; one
\* crash or stop signal.  The system stops when the bounds are reached.
SPECIFICATION FairSpec
CONSTANTS
  MaxDays = 3
  MaxRecords = 2
  Kinds = {"alert", "bad"}
  Expiry = TRUE
  NoDay = NoDay
  StartMode = "end"
  MaxStops = 1
  StopWhileDraining = FALSE
  DayChangeInside = FALSE
INVARIANTS
  TypeOK
  NoGap
  AlertStoredOnce
PROPERTIES
  StreamInOrder
  CatchesUp
CHECK_DEADLOCK FALSE
