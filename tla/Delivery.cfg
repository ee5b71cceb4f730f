SPECIFICATION DeliverySpec
CONSTANTS
  \* console
  None = None
  y1 = y1
  Streams = {1, 2}
  MaxConnections = 1
  QueueCapacity = 1
  PrefetchPerPoll = 1
  WireCapacity = 0
  MaxEvents = 2
  Syncs = {y1}
  Boards = {"tasks"}
  Mixes = {{"drop", "retry"}}
  \* outbox
  b1 = b1
  b2 = b2
  Bridges = {b1, b2}
  MaxRows = 3
  MaxAttempts = 3
  Corrupt = {3}
  \* verification
  Procs = {1, 2}
  MaxCommands = 2
  \* transport
  Uses = {"cancelTask"}
  MaxCalls = 4
  MaxEmitted = 1
CHECK_DEADLOCK FALSE
PROPERTIES
  PageCatchesUp
  EventsArePublished
  VerificationEnds
  EveryoneIsAnswered
