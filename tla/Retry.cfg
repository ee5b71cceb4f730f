SPECIFICATION FairSpec
CONSTANTS
  r1 = r1
  r2 = r2
  c1 = c1
  c2 = c2
  Runs = {r1, r2}
  Commands = {c1, c2}
  None = None
  Ops = {"start", "cancel", "retry"}
  Faults = {"driverFail"}
  MaxProgress = 0
  MaxPermissions = 0
  MaxCrashes = 0
CHECK_DEADLOCK FALSE
INVARIANTS
  OneDriverProcess
  ActiveHoldsLease
PROPERTIES
  NobodyWaitsForever
