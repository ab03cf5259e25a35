SPECIFICATION FairBoth
CONSTANTS
  s1 = s1  s2 = s2  t1 = t1  t2 = t2  provider = provider  k1 = k1  local = local
  Saves = {s1, s2}
  Tabs = {t1}
  Provider = provider
  MaxRestarts = 1
  None = None
  Keys = {k1, local}
  Local = {local}
  Sessions = {s1, s2}
  Tab <- TwoTabs
  MaxDecisions = 2
  MaxRevocations = 1
  MaxDeaths = 1
CHECK_DEADLOCK FALSE
INVARIANTS PolicySafety RevokedStaysRevoked
PROPERTIES SavesAreAnswered DenialHolds
