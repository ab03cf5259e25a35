SPECIFICATION Spec
CONSTANTS
  r1 = r1  r2 = r2  t1 = t1  t2 = t2  NoRequest = NoRequest
  Requests = {r1, r2}
  Tabs = {t1}
  TabOf <- OneTab
  MaxGeneration = 1
  MaxEffects = 2
  MaxQueue = 2
  MaxFailures = 1
  MaxRestarts = 1
SYMMETRY SameTab
CHECK_DEADLOCK FALSE
INVARIANTS HonestOutcome WriteAhead TabExclusive DriverIsBudgeted StorageCatchesUp
PROPERTIES EffectIsMarked StepIsolation
