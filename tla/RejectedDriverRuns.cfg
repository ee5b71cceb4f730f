SPECIFICATION Spec
CONSTANTS
  r1 = r1
  r2 = r2
  c1 = c1
  c2 = c2
  Runs = {r1, r2}
  Commands = {c1, c2}
  None = None
  Ops = {"start", "decide", "retry"}
  Faults = {}
  MaxProgress = 0
  MaxPermissions = 1
  MaxCrashes = 0
SYMMETRY Symmetry
CHECK_DEADLOCK FALSE
INVARIANTS
  OneDriverProcess
