------------------------------ MODULE Console ------------------------------
(***************************************************************************)
(* The dashboard page in the operator's browser, and the reads and writes  *)
(* it sends to the management server while the event log moves.  The page  *)
(* reads the dashboard, the task list and the selected task in parallel,   *)
(* shows them only when all have the cursor it knows as the head, and      *)
(* lets the operator act only then.                                        *)
(*                                                                         *)
(* `generation` of the client state is kept as what it is compared with:   *)
(* a read in flight is `stale` once the generation has moved on.  The page *)
(* talks to one server instance; a restarted one has another port and no   *)
(* sessions, and the old page can only be opened anew.                     *)
(***************************************************************************)
EXTENDS EventStream

CONSTANTS Syncs,   \* synchronizeSnapshots calls in flight
          Boards   \* what is read and shown without a selected task

ASSUME ConsoleAssumption == Boards \subseteq {"dashboard", "tasks"}

VARIABLES page,   \* clientState, what is shown, the EventSource and the sync timer
          sync,   \* call -> its reads
          write   \* the decision or confirmation in flight

vars == <<streamVars, page, sync, write>>

Kinds == Boards \cup {"detail"}
NoSnapshots == [k \in Kinds |-> None]

IdleSync == [pc |-> "idle", stale |-> FALSE, selected |-> FALSE, began |-> 0, got |-> NoSnapshots]
NoWrite == [pc |-> "none", stream |-> None, cursor |-> 0, shown |-> NoSnapshots]

\* An EventSource keeps the cursor of its URL and the last id it received, which
\* the browser sends as Last-Event-ID when it connects again by itself.
Source(after) == [state |-> "connecting", after |-> after, last |-> None, stream |-> None]
NoSource == [Source(0) EXCEPT !.state = "none"]

\* The page is not open yet.
ConsoleInit ==
  /\ StreamInit
  /\ page = [phase |-> "reconnecting", stream |-> None, head |-> 0, selected |-> FALSE,
             snapshots |-> NoSnapshots, shown |-> NoSnapshots, timer |-> FALSE,
             source |-> NoSource]
  /\ sync = [y \in Syncs |-> IdleSync]
  /\ write = NoWrite

(***************************************************************************)
(* reduceDashboardClientState                                              *)
(***************************************************************************)
SnapshotsAreCurrent(p) ==
  /\ p.stream # None
  /\ \A k \in Boards : p.snapshots[k] = p.head
  /\ p.selected => p.snapshots["detail"] = p.head

WritesAllowed(p) == p.phase = "current" /\ SnapshotsAreCurrent(p)

IfCurrent(p) == IF SnapshotsAreCurrent(p) THEN [p EXCEPT !.phase = "current"] ELSE p

Reread(p, phase) == [p EXCEPT !.phase = phase, !.snapshots = NoSnapshots]

StreamReady(p, s, h)  == [Reread(p, "syncing") EXCEPT !.stream = s, !.head = h]
Invalidate(p, h)      == [Reread(p, "syncing") EXCEPT !.head = h]
StreamDisconnected(p) == [Reread(p, "reconnecting") EXCEPT !.stream = None]
Reset(p, h)           == [Reread(p, "reset") EXCEPT !.stream = None, !.head = h]
BeginSync(p)          == Reread(p, "syncing")
SyncError(p)          == Reread(p, "error")
Fatal(p)              == [Reread(p, "fatal") EXCEPT !.stream = None]
SelectTask(p) == [p EXCEPT !.selected = TRUE, !.snapshots["detail"] = None, !.shown["detail"] = None,
                           !.phase = IF @ = "current" THEN "syncing" ELSE @]
CloseTask(p)  == IfCurrent([p EXCEPT !.selected = FALSE, !.snapshots["detail"] = None,
                                     !.shown["detail"] = None])

\* Every action but "snapshot" and "sync_error" starts a new generation.
NextGeneration == [y \in Syncs |-> IF sync[y].pc = "idle" THEN IdleSync ELSE [sync[y] EXCEPT !.stale = TRUE]]

Scheduled(p) == [p EXCEPT !.timer = TRUE]

\* handleFatalSessionError
SessionLost(p) == [Fatal(p) EXCEPT !.source = NoSource]

\* openEventStream
OpenEventStream(p, after) == [StreamDisconnected(p) EXCEPT !.source = Source(after)]

\* startDashboard: the exchange of the session answers the cursor of the log.
StartDashboard ==
  /\ page.source = NoSource /\ page.phase # "fatal"
  /\ page' = OpenEventStream([page EXCEPT !.head = head], head)
  /\ sync' = NextGeneration
  /\ UNCHANGED <<streamVars, write>>

(***************************************************************************)
(* The EventSource.                                                        *)
(***************************************************************************)
ConnectionRefused(p) == [StreamDisconnected(p) EXCEPT !.source.state = "failed", !.source.stream = None]

\* GET /internal/v1/events, up to the wait of ManagementSseService.open.
ConflictingCursors == page.source.last \notin {None, page.source.after}

Connect(s) ==
  /\ page.source.state = "connecting"
  /\ \A t \in Streams : t < s => stream[t].pc # "unused"
  /\ ~ConflictingCursors
  /\ Accept(s, page.source.after)
  /\ page' = [page EXCEPT !.source.state = "open", !.source.stream = s]
  /\ UNCHANGED <<sync, write>>

\* SESSION_EXPIRED, CURSOR_CONFLICT or SSE_CONNECTION_LIMIT: an EventSource does not
\* try again after such an answer.
ConnectRefused ==
  /\ page.source.state = "connecting"
  /\ ~session \/ ConflictingCursors \/ Cardinality(Connected) >= MaxConnections
  /\ page' = ConnectionRefused(page)
  /\ sync' = NextGeneration
  /\ UNCHANGED <<streamVars, write>>

\* Mutant: after a notice the page does not read again.
ReceivedUnread(p, m, s) ==
  CASE m.type = "ready"      -> Scheduled(StreamReady(p, s, m.head))
    [] m.type = "invalidate" -> Invalidate(p, m.head)
    [] m.type = "reset"      -> OpenEventStream(Reset(p, m.head), m.head)

Received(p, m, s) ==
  CASE m.type = "ready"      -> Scheduled(StreamReady(p, s, m.head))
    [] m.type = "invalidate" -> Scheduled(Invalidate(p, m.head))
    [] m.type = "reset"      -> OpenEventStream(Reset(p, m.head), m.head)

Receive(s) ==
  /\ s = page.source.stream
  /\ wire[s] # <<>>
  /\ page' = Received([page EXCEPT !.source.last = Head(wire[s]).id], Head(wire[s]), s)
  /\ sync' = NextGeneration
  /\ wire' = [wire EXCEPT ![s] = Tail(@)]
  /\ UNCHANGED <<mix, head, session, stream, write>>

\* onerror: the browser connects again by itself.
ConnectionLost(s) ==
  /\ s = page.source.stream
  /\ stream[s].pc = "closed"
  /\ page' = [StreamDisconnected(page) EXCEPT !.source.state = "connecting", !.source.stream = None]
  /\ sync' = NextGeneration
  /\ wire' = [wire EXCEPT ![s] = <<>>]
  /\ UNCHANGED <<mix, head, session, stream, write>>

(***************************************************************************)
(* synchronizeSnapshots                                                    *)
(***************************************************************************)
StartSync(y) ==
  /\ page.timer
  /\ page' = [page EXCEPT !.timer = FALSE]
  /\ \/ /\ page.stream = None
        /\ UNCHANGED sync
     \/ /\ page.stream # None
        /\ sync[y].pc = "idle"
        /\ sync' = [sync EXCEPT ![y] = [IdleSync EXCEPT !.pc = "reading", !.began = head,
                                                    !.selected = page.selected]]
  /\ UNCHANGED <<streamVars, write>>

Wanted(y) == IF sync[y].selected THEN Kinds ELSE Boards
Busy == MaxEvents + 1
Expired == MaxEvents + 2

\* A projection is read at one cursor, or SNAPSHOT_BUSY is answered, which takes a
\* commit during the call; so do two pages of the task list at different cursors.
ReadSnapshot(y, k) ==
  /\ sync[y].pc = "reading"
  /\ k \in Wanted(y)
  /\ sync[y].got[k] = None
  /\ \/ /\ session
        /\ sync' = [sync EXCEPT ![y].got[k] = head]
        /\ stream' = Noted(head)
     \/ /\ session /\ sync[y].began < head
        /\ sync' = [sync EXCEPT ![y].got[k] = Busy]
        /\ UNCHANGED stream
     \/ /\ ~session
        /\ sync' = [sync EXCEPT ![y].got[k] = Expired]
        /\ UNCHANGED stream
  /\ UNCHANGED <<mix, head, session, wire, page, write>>

Answered(y) == {k \in Wanted(y) : sync[y].got[k] # None}

\* Promise.all rejects with the first error; it is not compared with the generation.
SyncFails(y) ==
  /\ sync[y].pc = "reading"
  /\ \E k \in Answered(y) :
       \/ /\ sync[y].got[k] = Busy
          /\ page' = SyncError(page)
          /\ sync' = [sync EXCEPT ![y] = IdleSync]
       \/ /\ sync[y].got[k] = Expired
          /\ page' = SessionLost(page)
          /\ sync' = [NextGeneration EXCEPT ![y] = IdleSync]
  /\ UNCHANGED <<streamVars, write>>

AgreeWithHead(y) == \A k \in Wanted(y) : sync[y].got[k] = page.head

\* The three snapshots are taken over and dispatched together.
TakeOver(p, y) ==
  IfCurrent([p EXCEPT !.shown = sync[y].got, !.snapshots = sync[y].got])

SyncReturns(y) ==
  /\ sync[y].pc = "reading"
  /\ \A k \in Wanted(y) : sync[y].got[k] \in Cursors
  /\ sync' = [sync EXCEPT ![y] = IdleSync]
  /\ \/ /\ sync[y].stale
        /\ UNCHANGED page
     \/ /\ ~sync[y].stale /\ ~AgreeWithHead(y)
        /\ page' = Scheduled(page)
     \/ /\ ~sync[y].stale /\ AgreeWithHead(y)
        /\ page' = TakeOver(page, y)
  /\ UNCHANGED <<streamVars, write>>

(***************************************************************************)
(* The operator.                                                           *)
(***************************************************************************)
UserSelects ==
  /\ "select" \in mix
  /\ page' = Scheduled(SelectTask(page))
  /\ sync' = NextGeneration
  /\ UNCHANGED <<streamVars, write>>

UserCloses ==
  /\ "close" \in mix
  /\ page.selected
  /\ page' = CloseTask(page)
  /\ sync' = NextGeneration
  /\ UNCHANGED <<streamVars, write>>

\* The range buttons, and the retry button while a stream is open.
UserRefreshes ==
  /\ "retry" \in mix
  /\ page.stream # None
  /\ page' = Scheduled(BeginSync(page))
  /\ sync' = NextGeneration
  /\ UNCHANGED <<streamVars, write>>

\* The retry button without a stream: the old EventSource is closed.
UserReconnects ==
  /\ "retry" \in mix
  /\ page.stream = None
  /\ page' = OpenEventStream(page, page.head)
  /\ sync' = NextGeneration
  /\ UNCHANGED <<streamVars, write>>

\* decideApproval and confirmRiskAction: performWrite and the headers.
UserWrites ==
  /\ "write" \in mix
  /\ WritesAllowed(page)
  /\ page.selected
  /\ write.pc = "none"
  /\ write' = [pc |-> "sent", stream |-> page.stream, cursor |-> page.head, shown |-> page.shown]
  /\ UNCHANGED <<streamVars, page, sync>>

(***************************************************************************)
(* The write on the server: the session and the stream, then (after an     *)
(* await) the cursors of the stream, then the command, which commits at    *)
(* the cursor of the request or not at all, then the cursor of the answer. *)
(***************************************************************************)
WriteTo(pc) == write' = [write EXCEPT !.pc = pc]

CheckStream ==
  /\ write.pc = "sent"
  /\ WriteTo(CASE ~session                       -> "SESSION_EXPIRED"
               [] write.stream \notin Connected  -> "STREAM_NOT_CURRENT"
               [] OTHER                          -> "checking")
  /\ UNCHANGED <<streamVars, page, sync>>

CheckCursors ==
  /\ write.pc = "checking"
  /\ WriteTo(IF StreamIsCurrent(write.stream) THEN "executing" ELSE "STREAM_NOT_CURRENT")
  /\ UNCHANGED <<streamVars, page, sync>>

\* Mutant: the commit does not state the cursor of the request.
ExecuteAnyway ==
  /\ write.pc = "executing"
  /\ head < MaxEvents
  /\ head' = head + 1
  /\ WriteTo("committed")
  /\ UNCHANGED <<mix, session, stream, wire, page, sync>>

Execute ==
  /\ write.pc = "executing"
  /\ write.cursor = head
  /\ head < MaxEvents
  /\ head' = head + 1
  /\ WriteTo("committed")
  /\ UNCHANGED <<mix, session, stream, wire, page, sync>>

ExecuteRefused ==
  /\ write.pc = "executing"
  /\ write.cursor # head \/ head = MaxEvents
  /\ WriteTo("STALE_EVENT_CURSOR")
  /\ UNCHANGED <<streamVars, page, sync>>

Answer ==
  /\ write.pc = "committed"
  /\ write' = [write EXCEPT !.pc = "answered", !.cursor = head]
  /\ UNCHANGED <<streamVars, page, sync>>

\* beginPostWriteSync
WriteSucceeds ==
  /\ write.pc = "answered"
  /\ page' = Scheduled(Invalidate(page, write.cursor))
  /\ sync' = NextGeneration
  /\ write' = NoWrite
  /\ UNCHANGED streamVars

\* handleActionError
WriteFails ==
  /\ \/ /\ write.pc \in {"STREAM_NOT_CURRENT", "STALE_EVENT_CURSOR"}
        /\ page' = Scheduled(BeginSync(page))
     \/ /\ write.pc = "SESSION_EXPIRED"
        /\ page' = SessionLost(page)
  /\ sync' = NextGeneration
  /\ write' = NoWrite
  /\ UNCHANGED streamVars

OnServer == /\ StreamNext
            /\ UNCHANGED <<page, sync, write>>

ConsoleNext ==
  \/ StartDashboard
  \/ OnServer
  \/ \E s \in Streams : \/ Connect(s)
                        \/ Receive(s)
                        \/ ConnectionLost(s)
  \/ ConnectRefused
  \/ \E y \in Syncs : \/ StartSync(y)
                      \/ \E k \in Kinds : ReadSnapshot(y, k)
                      \/ SyncFails(y)
                      \/ SyncReturns(y)
  \/ UserSelects \/ UserCloses \/ UserRefreshes \/ UserReconnects \/ UserWrites
  \/ CheckStream \/ CheckCursors \/ Execute \/ ExecuteRefused \/ Answer
  \/ WriteSucceeds \/ WriteFails

ConsoleSpec == ConsoleInit /\ [][ConsoleNext]_vars

\* The browser and the server go on; nobody has to act, and the log may stop.
ConsoleFairness ==
  /\ \A s \in Streams : /\ WF_vars(OnServer /\ Reading(s))
                        /\ WF_vars(OnServer /\ Delivered(s))
                        /\ WF_vars(Receive(s))
                        /\ WF_vars(ConnectionLost(s))
  /\ WF_vars(ConnectRefused \/ \E s \in Streams : Connect(s))
  /\ \A y \in Syncs : WF_vars(\/ StartSync(y) \/ SyncFails(y) \/ SyncReturns(y)
                             \/ \E k \in Kinds : ReadSnapshot(y, k))

-----------------------------------------------------------------------------
ConsoleTypeOK ==
  /\ page.phase \in {"reconnecting", "syncing", "current", "reset", "error", "fatal"}
  /\ page.stream \in Streams \cup {None}
  /\ page.head \in Cursors
  /\ page.snapshots \in [Kinds -> Cursors \cup {None}]
  /\ page.shown \in [Kinds -> Cursors \cup {None}]
  /\ page.source.state \in {"none", "connecting", "open", "failed"}
  /\ \A y \in Syncs : /\ sync[y].pc \in {"idle", "reading"}
                      /\ sync[y].got \in [Kinds -> Cursors \cup {None, Busy, Expired}]
  /\ write.pc \in {"none", "sent", "checking", "executing", "committed", "answered",
                  "SESSION_EXPIRED", "STREAM_NOT_CURRENT", "STALE_EVENT_CURSOR"}
  /\ write.cursor \in Cursors

\* A decision that is committed was taken on what the log held right before it: all
\* that was on the screen when the operator clicked had the cursor of the commit
\* (management-http.ts decideApproval, management-sse.ts assertCurrent).
DecisionsAreInformed ==
  [][write.pc # "committed" /\ write'.pc = "committed" => \A k \in Kinds : write.shown[k] = head]_vars

\* A page comes back to a state where the operator may act on the head of the log,
\* however reads, commits, notices, polls and slow writes overlap, unless the operator
\* keeps clicking. After an answer to a write or a closed detail this is not so (README),
\* so those are left out (event-fanout.ts, management-sse.ts, dashboard: openEventStream,
\* synchronizeSnapshots).
PageCatchesUp ==
  \/ []<><<UserSelects \/ UserRefreshes \/ UserReconnects>>_vars
  \/ []<>(\/ page.phase = "current" /\ page.head = head
          \/ page.phase \in {"error", "fatal"}
          \/ page.source.state \in {"none", "failed"}
          \/ page.source.state = "connecting" /\ \A s \in Streams : stream[s].pc # "unused"
          \/ mix \cap {"close", "write"} # {})
=============================================================================
