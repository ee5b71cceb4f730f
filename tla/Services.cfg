SPECIFICATION ServicesSpec
CONSTANTS
  \* console
  None = None
  y1 = y1
  Streams = {1, 2}
  MaxConnections = 1
  QueueCapacity = 1
  PrefetchPerPoll = 1
  WireCapacity = 0
  MaxEvents = 2
  Syncs = {y1}
  Boards = {"tasks"}
  Mixes = {{"select", "write"}, {"select", "close"}, {"logout"}}
  \* requests
  t1 = t1
  t2 = t2
  k1 = k1
  k2 = k2
  q1 = q1
  q2 = q2
  s1 = s1
  Tokens = {t1, t2}
  Keys = {k1}
  Requests = {q1, q2}
  HttpSessions = {s1}
  Actions = {"cleanup"}
  MaxCommits = 2
  \* access
  c1 = c1
  c2 = c2
  NoKey = NoKey
  HttpRequests = {q1, q2}
  Cookies = {c1, c2}
  LogoutKeys = {k1, k2}
  MaxLaunches = 2
  MaxLaunchFailures = 2
  \* projection
  MaxTasks = 3
  ReadLimit = 2
  SnapshotAttempts = 2
  MaxChanges = 2
  \* pages
  PageTasks = 4
  TasksPerPage = 2
  MaxTaskCommits = 2
  \* transport
  Uses = {"work"}
  MaxCalls = 4
  MaxEmitted = 2
  \* claude
  ToolCalls = {t1, t2}
  MaxQueries = 2
  \* opencode
  OcCalls = {t1}
  OcSessions = 2
  OcStream = 1
  OcRestarts = 1
  \* bridges
  b1 = b1
  b2 = b2
  Processes = {b1, b2}
  LockAttempts = 3
  StaleLock = TRUE
  StartedRuns = {r1}
  \* leases, worktrees
  r1 = r1
  r2 = r2
  p1 = p1
  p2 = p2
  task = task
  NoLease = NoLease
  LeaseIds = {r1, r2}
  Owners = {r1, r2}
  Resources = {p1, p2, task}
  Paths = {p1, p2}
  TaskResource = task
  Ttls = {1, 2}
  MaxClock = 2
CHECK_DEADLOCK FALSE
INVARIANTS
  ServicesTypeOK
  NoSilentGap
  DoneMeansAll
  ExecutedOnceAsShown
  SecretOpensOneSession
  ShownAsItWas
  WorktreeIsOwnedOnce
  RunIsCarried
  RunTellsWhatHappened
  BoardsAreComplete
  BridgesTakeTurns
PROPERTIES
  DecisionsAreInformed
  LeasesAreExclusive
