\* Two packaged defaults (the second also what an operator may draft), a raw
\* document that normalizes to it, an invalid one, two inventories that mounts may
\* change, one preview in flight, three generations.
\* The system stops when the generation bound is reached.
SPECIFICATION Spec
CONSTANTS
  pkg = pkg
  op = op
  raw = raw
  bad = bad
  inv1 = inv1
  inv2 = inv2
  NoDoc = NoDoc
  PrefilterDocs = {pkg, op, raw, bad}
  AssetDocs = {inv1, inv2}
  Valid = {pkg, op, raw, inv1, inv2}
  Canon <- MCCanon
  Broad = {op}
  AssetScoped = {op}
  Packaged = {pkg, op}
  MountDocs = {pkg, inv1, inv2}
  Sessions = {1}
  MaxGeneration = 3
INVARIANTS
  TypeOK
  PointersAgree
  BundlesRecorded
  RollbackTargetsWereActive
  ResumeKeepsLineage
  EvidenceTruthful
PROPERTIES
  AssetActivationInformed
  BundlesAppendOnly
  LineageImmutable
  DatabaseAuthority
CHECK_DEADLOCK FALSE
