SPECIFICATION Spec
SYMMETRY Symmetry
CONSTANTS
  Buckets = {b}
  Keys = {k}
  Reqs = {r1, r2}
  PartNumbers = {1, 2}
  Retentions = {"none"}
  Locking = {FALSE}
  Conditions = {FALSE}
  Callers = {"api", "internal"}
  MaxClock = 5
  MaxFaults = 1
CHECK_DEADLOCK FALSE
INVARIANTS
  TypeOK
  NoDanglingBlob
  RecordsHaveBucket
  NullPointerExact
  NoLeakedBlob
PROPERTY AuthorisedBucketOnly
