SPECIFICATION BothSpec
CONSTANTS
  t1 = t1  t2 = t2  tab = tab  w1 = w1  w2 = w2  c1 = c1  c2 = c2  s1 = s1  s2 = s2  d1 = d1  d2 = d2
  Tasks = {t1, t2}
  Tabs = {tab}
  Workers = {w1, w2}
  Calls = {c1, c2}
  Steps = {s1, s2}
  NoTask = NoTask
  TabOf <- MCTabOf
  Deadline <- MCDeadline
  CommonDeadline = 2
  ActiveLimit = 1
  AttemptLimit = 2
  MaxTtl = 1
  Retention = 0
  PageSize = 2
  WireSize = 1
  MaxTime = 2
  MaxSetbacks = 1
  MaxRevision = 5
  MaxLeases = 2
  NoStep = NoStep
  PlanSteps = {s1, s2}
  Digests = {d1, d2}
  MaxTurns = 12
  MaxStill = 12
  MaxTransitions = 13
  MaxHolders = 3
SYMMETRY Symmetry
CHECK_DEADLOCK FALSE
INVARIANTS StoreSafety AuthorityIsNewest NoFalseCertainty CompletedIsKnown
PROPERTIES KeepsPromise NoBlindDispatch OnlyHolderAdvances
