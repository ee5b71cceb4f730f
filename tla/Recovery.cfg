SPECIFICATION Spec
CONSTANTS
  r1 = r1
  r2 = r2
  c1 = c1
  Runs = {r1, r2}
  Commands = {c1}
  None = None
  Ops = {"start", "decide", "fallback", "relaunch", "retry"}
  Faults = {"recoverFail"}
  MaxProgress = 1
  MaxPermissions = 1
  MaxCrashes = 1
SYMMETRY Symmetry
CHECK_DEADLOCK FALSE
INVARIANTS
  SomebodyListens
PROPERTIES
  Implements
