\* The commands by hand: two rows, three backup files under two names, one restore.
\* The system stops when the bounds are reached.
SPECIFICATION RetentionSpec
CONSTANTS
  b1 = b1
  b2 = b2
  None = None
  Names = {b1, b2}
  Snapshots = {}
  BatchSize = 2
  MaxInserts = 2
  MaxReviews = 1
  MaxFiles = 3
  MaxRestores = 1
INVARIANTS
  RetentionTypeOK
PROPERTIES
  PrunedIsBackedUp
CHECK_DEADLOCK FALSE
