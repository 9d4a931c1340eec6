SPECIFICATION Spec
CONSTANTS
  NumKeys = 1
  Tags = {"any", "a"}
  Configs <- MCConfigs
  Day = 2
  Span = 4
  BatchSize = 1
  MaxScan = 3
  MaxOps = 3
  MaxTime = 2
PROPERTY NoncurrentOnly
CHECK_DEADLOCK FALSE
