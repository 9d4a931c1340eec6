SPECIFICATION Spec
SYMMETRY Symmetry
CONSTANTS
  Names = {u1, u2}
  Groups = {g1}
  PolicyNames = {p1}
  Sessions = {s1, s2}
  Permitting = {s1}
  None = None
  Reqs = {r1, r2}
  MaxKeys = 2
  MaxOps = 3
INVARIANTS
  TypeOK
  ReferencesExact
  RestrictionsInherited
  KeysOwned
CHECK_DEADLOCK FALSE
