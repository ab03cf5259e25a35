SPECIFICATION FairSpec
CONSTANTS
  r1 = r1  r2 = r2  t1 = t1  t2 = t2  NoRequest = NoRequest
  Requests = {r1, r2}
  Tabs = {t1, t2}
  TabOf <- TabEach
  MaxGeneration = 0
  MaxEffects = 1
  MaxQueue = 2
  MaxFailures = 1
  MaxRestarts = 0
CHECK_DEADLOCK FALSE
PROPERTY EveryRequestEnds
