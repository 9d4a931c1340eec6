SPECIFICATION Spec
SYMMETRY Symmetry
CONSTANTS
  Buckets = {b}
  Keys = {k}
  Reqs = {r1, r2}
  PartNumbers = {1}
  Retentions = {"none"}
  Locking = {FALSE}
  Conditions = {TRUE, FALSE}
  Callers = {"api"}
  MaxClock = 4
  MaxFaults = 0
CHECK_DEADLOCK FALSE
PROPERTY ConditionalWriteIsLatest
