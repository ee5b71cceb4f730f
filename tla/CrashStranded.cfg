SPECIFICATION Spec
CONSTANTS
  r1 = r1
  c1 = c1
  Runs = {r1}
  Commands = {c1}
  None = None
  Ops = {"start"}
  Faults = {}
  MaxProgress = 0
  MaxPermissions = 0
  MaxCrashes = 1
SYMMETRY Symmetry
CHECK_DEADLOCK FALSE
INVARIANTS
  RunningTaskHasRun
