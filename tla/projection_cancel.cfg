SPECIFICATION Spec
CONSTANTS
  Nil = Nil
  Leases = {l1}
  Reads = {q1, q2, q3}
  ReadLimit = 2
  CallLimit = 4
  Others = 0
  MaxGraph = 0
  MaxLate = 0
INVARIANTS BridgeStays
CHECK_DEADLOCK FALSE
