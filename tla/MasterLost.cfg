SPECIFICATION MkSpec
SYMMETRY Symmetry
CONSTANTS
  Procs = {p1, p2}
  NumRecords = 1
  Batch = 2
  EnvKeys = {}
  MaxKeys = 3
  MaxCrashes = 1
INVARIANT KeysKept
