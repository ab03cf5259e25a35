SPECIFICATION MutationSpec
CONSTANTS
  q1 = q1  q2 = q2  m1 = m1  m2 = m2  m3 = m3  m4 = m4  k1 = k1  k2 = k2  t1 = t1  t2 = t2  s1 = s1  s2 = s2
  None = None
  Proposals = {m1, m2, m3, m4}
  Handlers = {k1, k2}
  Readings = {s1, s2}
  MaxStarted = 2
  Kind <- MixedKinds
  Tab <- TwoTabs
  Runs = {}
  Quota = 0
  MaxEvents = 0
  MaxRestarts = 0
  MaxClears = 0
  MaxPanels = 0
  Requests = {}
  MaxRevision = 1
  MaxIncidents = 0
  MaxTimeouts = 0
SYMMETRY HandlerSymmetry
INVARIANT MutationSafety
PROPERTY NoDispatchAfterAbort
CHECK_DEADLOCK FALSE
