SPECIFICATION FairSpec
CONSTANTS
  Calls = {c1, c2}
  Steps = {s1}
  NoStep = NoStep
  NoCall = NoCall
  NoGrant = NoGrant
  Grants = {g1}
  Execs = {x1, x2}
  MaxWorld = 1
  MaxCommands = 1
  MaxCrashes = 1
CHECK_DEADLOCK FALSE
INVARIANTS CallSafety ReceiptsAreTrue
PROPERTIES RevocationHolds KeepsPromise ReservedSettles
