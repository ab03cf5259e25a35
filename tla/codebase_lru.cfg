SPECIFICATION Spec
CONSTANTS
  Nobody = Nobody
  NoDelta = NoDelta
  Pages = {p1, p2, p3}
  Batches = {b1, b2}
  Recipes = {}
  Managers = {}
  Sets = {}
  Capacity = 9
  TTL = 9
  Forever = 99
  MaxTime = 3
  MaxRevision = 2
  MaxSource = 2
  MaxCatalog = 0
PROPERTIES LeastRecentGoes
CHECK_DEADLOCK FALSE
