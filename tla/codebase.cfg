SPECIFICATION FairBoth
CONSTANTS
  Nobody = Nobody
  NoDelta = NoDelta
  Nil = Nil
  p1 = p1  p2 = p2  b1 = b1  b2 = b2  r1 = r1  d1 = d1  m1 = m1
  l1 = l1  l2 = l2  q1 = q1  q2 = q2  q3 = q3
  Pages = {p1, p2}
  Batches = {b1, b2}
  Recipes = {r1}
  Managers = {m1}
  Sets = {d1}
  Capacity = 8
  TTL = 1
  Forever = 99
  MaxTime = 1
  MaxRevision = 2
  MaxSource = 3
  MaxCatalog = 3
  Leases = {l1}
  Reads = {q1, q2}
  ReadLimit = 2
  CallLimit = 4
  Others = 3
  MaxGraph = 1
  MaxLate = 2
CHECK_DEADLOCK FALSE
INVARIANTS StoreSafety AnsweredFresh
PROPERTIES ReadsSettle
