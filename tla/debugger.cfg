SPECIFICATION FairBoth
CONSTANTS
  a1 = a1  a2 = a2  s1 = s1  s2 = s2  s3 = s3
  Actions = {a1, a2}
  Sessions = {s1, s2, s3}
  None = None
  MaxRestarts = 1
CHECK_DEADLOCK FALSE
INVARIANTS BrokerSafety AdapterSafety
PROPERTIES InputIsGranted AbortEnds
