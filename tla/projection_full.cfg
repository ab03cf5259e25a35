SPECIFICATION Spec
CONSTANTS
  Nil = Nil
  Leases = {l1, l2}
  Reads = {q1, q2}
  ReadLimit = 2
  CallLimit = 2
  Others = 0
  MaxGraph = 0
  MaxLate = 0
INVARIANTS GivenUpIsCancelled
CHECK_DEADLOCK FALSE
