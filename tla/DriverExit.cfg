SPECIFICATION FairSpec
CONSTANTS
  r1 = r1
  c1 = c1
  Runs = {r1}
  Commands = {c1}
  None = None
  Ops = {"start"}
  Faults = {"driverExit"}
  MaxProgress = 0
  MaxPermissions = 0
  MaxCrashes = 0
CHECK_DEADLOCK FALSE
PROPERTIES
  DeadDriverEndsRun
