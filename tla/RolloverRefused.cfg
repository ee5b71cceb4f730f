SPECIFICATION SessionsSpec
CONSTANTS
  Nothing = Nothing
  a1 = a1
  k1 = k1
  c1 = c1
  NoSession = NoSession
  SessionRuns = {a1}
  RolloverKeys = {k1}
  RolloverCalls = {c1}
  MaxExternal = 2
  RolloverScenario = "SESSION_ROLLOVER"
CHECK_DEADLOCK FALSE
INVARIANT RolloversAreAssembled
