\* An empty database, one of the first release, and one without the baselines;
\* four rows over two hours and two signatures; two backfills, one fault.  The
\* system stops when the bounds are reached.
SPECIFICATION Spec
CONSTANTS
  OldForms <- MCOldForms
  Sids = {s1, s2}
  MaxHour = 2
  MaxRows = 4
  MinAge = 1
  MinSamples = 1
  Sigmas = 1
  Window = 3
  CommitEvery = 2
  MaxBackfills = 2
  MaxFaults = 1
  NoData = NoData
INVARIANTS
  SpcTypeOK
  SchemaWhole
  BaselineIsHistory
  AlertedOnce
  NoveltyExact
SYMMETRY MCSymmetry
CHECK_DEADLOCK FALSE
