\* Two rows, one backup, two pauses whose batches hold two rows, or one at the row limit.  The system stops when
\* the bounds are reached.
SPECIFICATION FairSpec
CONSTANTS
  b1 = b1
  s1 = s1
  None = None
  Names = {b1}
  Snapshots = {s1}
  BatchSize = 2
  MaxInserts = 2
  MaxReviews = 1
  MaxFiles = 1
  MaxRestores = 0
  MaxCycles = 2
  RecoveryAttempts = 2
INVARIANTS
  TypeOK
  QuietMaintenance
PROPERTIES
  ExitTellsTruth
  CompletedIsClean
  MonitoringReturns
CHECK_DEADLOCK FALSE
