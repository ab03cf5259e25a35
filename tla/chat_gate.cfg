SPECIFICATION Spec
CONSTANTS
  Runs = {r1, r2}
  None = None
  Quota = 9
  MaxEvents = 5
  MaxRestarts = 1
  MaxClears = 0
  MaxPanels = 1
INVARIANT NoInheritedGate
CHECK_DEADLOCK FALSE
