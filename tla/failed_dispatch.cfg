SPECIFICATION Spec
CONSTANTS
  Steps = {s1}
  NoStep = NoStep
  Digests = {d1}
  Workers = {w1}
  MaxTurns = 9
  MaxStill = 9
  MaxRevision = 9
  MaxLeases = 1
CHECK_DEADLOCK FALSE
INVARIANT AmbiguityIsShown
