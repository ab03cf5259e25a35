SPECIFICATION PanelSpec
CONSTANTS
  q1 = q1  q2 = q2  m1 = m1  m2 = m2  m3 = m3  m4 = m4  k1 = k1  k2 = k2  t1 = t1  t2 = t2  s1 = s1  s2 = s2
  None = None
  Requests = {q1}
  MaxRevision = 5
  MaxIncidents = 3
  MaxTimeouts = 0
  Runs = {}
  Quota = 0
  MaxEvents = 0
  MaxRestarts = 0
  MaxClears = 0
  MaxPanels = 0
  Proposals = {}
  Handlers = {}
  Readings = {}
  MaxStarted = 0
  Kind <- MixedKinds
  Tab <- TwoTabs
INVARIANT EndIsTold
CHECK_DEADLOCK FALSE
