SPECIFICATION FairSpec
CONSTANTS
  r1 = r1
  c1 = c1
  c2 = c2
  Runs = {r1}
  Commands = {c1, c2}
  None = None
  Ops = {"start", "decide", "cleanup", "complete"}
  Faults = {"outcomeFail", "rpcFail", "leaseExpiry"}
  MaxProgress = 0
  MaxPermissions = 2
  MaxCrashes = 0
CHECK_DEADLOCK FALSE
PROPERTIES
  WorkIsJudged
