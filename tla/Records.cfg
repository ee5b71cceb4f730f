SPECIFICATION RecordsSpec
CONSTANTS
  \* ledger
  r1 = r1
  r2 = r2
  Runs <- MCRuns
  Approvals <- MCApprovals
  ApprovalRun <- MCApprovalRun
  Fallbacks <- MCFallbacks
  \* store
  k0 = k0
  g0 = g0
  k1 = k1
  k2 = k2
  g1 = g1
  g2 = g2
  w1 = w1
  w2 = w2
  StoreWriters = {w1, w2}
  FirstScope <- MCFirstScope
  StoreScopes <- MCStoreScopes
  PageLimit = 1
  \* contracts
  Nothing = Nothing
  t1 = t1
  l1 = l1
  l2 = l2
  h1 = h1
  c1 = c1
  c2 = c2
  ContractTasks = {t1}
  ContractCalls = {c1, c2}
  PackageKeys = {k1, k2}
  RelationIds = {l1, l2}
  HandoffIds = {h1}
  Contracts <- MCContracts
  Baselines = {1}
  \* sessions
  a1 = a1
  a2 = a2
  NoSession = NoSession
  SessionRuns = {a1, a2}
  RolloverKeys = {k1, k2}
  RolloverCalls = {c1, c2}
  MaxExternal = 3
  RolloverScenario = "ROLLOVER"
  \* rollover policy
  PolicySessions = 4
  ContextTenths = {5, 8, 10}
  RatioConfigs = {{}, {6}, {9}, {5, 9}}
  \* schema
  p1 = p1
  p2 = p2
  Openers = {p1, p2}
  MaxOpenDeaths = 1
  \* artifacts
  i1 = i1
  ArtifactIds = {i1}
  Contents = {c1, c2}
  PutCalls = {p1, p2}
  MaxDamage = 1
CHECK_DEADLOCK FALSE
INVARIANTS
  RecordsTypeOK
  OneLiveRun
  RunTaskAgreement
  BoundWhileLive
  WaitingIsDecidable
  PendingRequests
  ResultIsOfTheSuccess
  ArtifactsAreKept
  RunsAreFounded
  DatabasesOpenWhole
PROPERTIES
  OutcomesAreFinal
  OneSessionListens
  SqliteImplementsMemory
