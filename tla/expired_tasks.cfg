SPECIFICATION FairSpec
CONSTANTS
  t1 = t1  t2 = t2  tab = tab  w1 = w1  w2 = w2  c1 = c1  c2 = c2  c3 = c3  s1 = s1  s2 = s2  s3 = s3
  Tasks = {t1}
  Tabs = {tab}
  Workers = {w1}
  Calls = {}
  Steps = {}
  NoTask = NoTask
  TabOf <- MCTabOf
  Deadline <- MCDeadline
  CommonDeadline = 1
  ActiveLimit = 1
  AttemptLimit = 1
  MaxTtl = 1
  Retention = 1
  PageSize = 2
  WireSize = 1
  MaxTime = 1
  MaxSetbacks = 0
  MaxRevision = 4
  MaxLeases = 1
CHECK_DEADLOCK FALSE
PROPERTY DeadlineEnds
