\* Both consumers, mounts that change both documents, three generations, one
\* fault.  The system stops when the bounds are reached.
SPECIFICATION FairConsumersSpec
CONSTANTS
  pkg = pkg
  op = op
  bad = bad
  inv1 = inv1
  inv2 = inv2
  suricata = suricata
  wazuh = wazuh
  NoDoc = NoDoc
  PrefilterDocs = {pkg}
  AssetDocs = {inv1, inv2}
  Valid = {pkg, inv1, inv2}
  Canon <- MCCanon
  Broad = {}
  AssetScoped = {}
  Packaged = {pkg}
  MountDocs = {pkg, inv1, inv2}
  Sessions = {}
  MaxGeneration = 3
  Consumers = {suricata, wazuh}
  Observers = {suricata}
  MaxFaults = 1
INVARIANTS
  ConsumersTypeOK
  BundleTruthful
  StatusTruthful
PROPERTIES
  VerdictProvenance
  EventuallyCurrent
CHECK_DEADLOCK FALSE
