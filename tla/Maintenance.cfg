SPECIFICATION MaintenanceSpec
SYMMETRY Symmetry
CONSTANTS
  NumKeys = 2
  Tags = {"any", "a"}
  Configs <- MCConfigs
  Day = 2
  Span = 4
  BatchSize = 1
  MaxScan = 3
  MaxOps = 3
  MaxTime = 2
  Procs = {p1, p2}
  NumRecords = 2
  Batch = 1
  EnvKeys = {e1, e2}
  MaxKeys = 2
  MaxCrashes = 1
  FBuckets = {"b", "c"}
  FKeys = {"k", "l"}
  FUploads = {"u"}
  Blobs = {1, 2}
  MaxLosses = 2
  MaxStops = 1
INVARIANTS
  MaintenanceTypeOK
  KeysKeptAlone
  RepairRestores
PROPERTIES
  SparesNewer
  HeldVersionsStay
  KeepsClientChanges
  NeverEarly
  PassCompletes
  RewrapComplete
  RepairKeepsData
