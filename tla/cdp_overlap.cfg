SPECIFICATION Spec
CONSTANTS
  Actions = {a1, a2}
  None = None
  MaxRestarts = 1
CHECK_DEADLOCK FALSE
INVARIANTS NoSessionLeak
