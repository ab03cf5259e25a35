SPECIFICATION Spec
CONSTANTS
  u1 = u1  u2 = u2  p1 = p1  p2 = p2
  Units = {u1, u2}
  Sessions = {p1, p2}
  MaxEpoch = 2
  MaxRevision = 7
  MaxSent = 1
  None = None
SYMMETRY Symmetry
CHECK_DEADLOCK FALSE
INVARIANTS MigrationSafety
PROPERTIES CommitsAreCurrent
