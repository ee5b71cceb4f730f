SPECIFICATION Spec
CONSTANTS
  r1 = r1
  c1 = c1
  c2 = c2
  Runs = {r1}
  Commands = {c1, c2}
  None = None
  Ops = {"start", "decide", "cancel", "cleanup", "complete", "otherTask", "fallback", "relaunch"}
  Faults = {"startFail", "driverFail", "driverExit", "exportFail", "rpcFail", "outcomeFail"}
  MaxProgress = 0
  MaxPermissions = 1
  MaxCrashes = 0
SYMMETRY Symmetry
CHECK_DEADLOCK FALSE
INVARIANTS
  TypeOK
  NothingHalfDone
  AnswersFindTheirQuestion
PROPERTIES
  Implements
