SPECIFICATION FairSpec
CONSTANTS
  Runs = {r1, r2}
  None = None
  Quota = 9
  MaxEvents = 2
  MaxRestarts = 1
  MaxClears = 1
  MaxPanels = 1
CHECK_DEADLOCK FALSE
INVARIANT ThreadSafety
PROPERTY PanelSettles
