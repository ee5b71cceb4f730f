---------------------------- MODULE EventStream ----------------------------
(***************************************************************************)
(* The event streams of one management session: PersistentEventFanout      *)
(* reads the event log into the bounded queue of each subscription and     *)
(* ManagementSseService writes what it takes from the queue to the HTTP    *)
(* response.  A cursor is the number of events before it; `head` is the    *)
(* cursor of the log.                                                      *)
(*                                                                         *)
(* wire[s] holds what the server wrote and the browser has not read.       *)
(* Response.write reports back-pressure when more than WireCapacity        *)
(* messages are unread, and the writer then waits for the drain.           *)
(***************************************************************************)
EXTENDS Naturals, Sequences, FiniteSets

CONSTANTS Streams,         \* numbers of the connections opened over time
          None,
          MaxConnections,  \* MAX_CONNECTIONS_PER_SESSION
          QueueCapacity,
          PrefetchPerPoll,
          WireCapacity,
          MaxEvents,       \* bound: events committed
          Mixes            \* what may happen in a behaviour: it is one of these sets

ASSUME StreamBounds == /\ Streams \subseteq Nat
                       /\ MaxConnections \in Nat \ {0}
                       /\ QueueCapacity \in Nat \ {0}
                       /\ PrefetchPerPoll \in 1..QueueCapacity
                       /\ WireCapacity \in Nat
                       /\ MaxEvents \in Nat
                       /\ None \notin Nat
ASSUME MixesAssumption ==
  \A m \in Mixes : m \subseteq {"drop", "logout", "select", "close", "retry", "write"}

VARIABLES
  mix,      \* never changes
  head,     \* cursor of the event log
  session,  \* the cookie's session exists
  stream,   \* connection -> its StreamState and SubscriptionState
  wire

streamVars == <<mix, head, session, stream, wire>>

Cursors == 0..MaxEvents

\* snapshot is snapshot_cursor; queue, fetched, fetching and sending are the
\* subscription's queue, fetchingCursor, the events its prefetch fetched so far,
\* and the event that onEvent has not returned for.
Unused == [pc |-> "unused", delivered |-> 0, snapshot |-> None, queue |-> <<>>,
           fetched |-> 0, fetching |-> None, sending |-> None]
Closed == [Unused EXCEPT !.pc = "closed"]

Message(type, id, at) == [type |-> type, id |-> id, head |-> at]
Notice(c) == Message("invalidate", c, c)

StreamInit == /\ mix \in Mixes
              /\ head = 0
              /\ session = TRUE
              /\ stream = [s \in Streams |-> Unused]
              /\ wire = [s \in Streams |-> <<>>]

Connected == {s \in Streams : stream[s].pc \in {"greeting", "live"}}

\* Any component commits: a run, another task, another page.
CommitEvent == /\ head < MaxEvents
               /\ head' = head + 1
               /\ UNCHANGED <<mix, session, stream, wire>>

(***************************************************************************)
(* ManagementSseService.open: the limit is looked at before the head is    *)
(* read, the stream is added after.                                        *)
(***************************************************************************)
Accept(s, after) ==
  /\ session
  /\ stream[s].pc = "unused"
  /\ Cardinality(Connected) < MaxConnections
  /\ stream' = [stream EXCEPT ![s] = [Unused EXCEPT !.pc = "opening", !.delivered = after]]
  /\ UNCHANGED <<mix, head, session, wire>>

Greet(s) ==
  /\ stream[s].pc = "opening"
  /\ stream[s].delivered <= head
  /\ stream' = [stream EXCEPT ![s].pc = "greeting"]
  /\ wire' = [wire EXCEPT ![s] = Append(@, Message("ready", stream[s].delivered, head))]
  /\ UNCHANGED <<mix, head, session>>

CursorUnavailable(s) ==
  /\ stream[s].pc = "opening"
  /\ stream[s].delivered > head
  /\ stream' = [stream EXCEPT ![s] = Closed]
  /\ wire' = [wire EXCEPT ![s] = Append(@, Message("reset", head, head))]
  /\ UNCHANGED <<mix, head, session>>

Writable(s) == Len(wire[s]) <= WireCapacity

\* Mutant: the subscription begins at the head of the log, not where the page was.
SubscribeAtHead(s) ==
  /\ stream[s].pc = "greeting"
  /\ Writable(s)
  /\ stream' = [stream EXCEPT ![s].pc = "live", ![s].fetched = head]
  /\ UNCHANGED <<mix, head, session, wire>>

Subscribe(s) ==
  /\ stream[s].pc = "greeting"
  /\ Writable(s)
  /\ stream' = [stream EXCEPT ![s].pc = "live", ![s].fetched = stream[s].delivered]
  /\ UNCHANGED <<mix, head, session, wire>>

(***************************************************************************)
(* PersistentEventFanout.  Every outbox publication and every tick of the  *)
(* catch-up timer polls each subscription.                                 *)
(***************************************************************************)
SlowConsumer(s) == stream[s].sending # None /\ Len(stream[s].queue) >= QueueCapacity

\* onDisconnect drops what was not read when the consumer was slow.
Disconnect(S) ==
  /\ stream' = [s \in Streams |-> IF s \in S THEN Closed ELSE stream[s]]
  /\ UNCHANGED <<mix, head, session>>

Poll(s) ==
  /\ stream[s].pc = "live"
  /\ stream[s].fetching = None
  /\ \/ /\ SlowConsumer(s)
        /\ Disconnect({s})
        /\ wire' = [wire EXCEPT ![s] = <<>>]
     \/ /\ ~SlowConsumer(s)
        /\ stream' = [stream EXCEPT ![s].fetching = 0]
        /\ UNCHANGED <<mix, head, session, wire>>

\* startDrain and the part of drain before its await: deliver forgets the snapshot
\* and writes the notice.
Send(st, c) == [st EXCEPT !.sending = c, !.snapshot = None]

\* Mutant: a prefetch takes one event more than it may.
FetchesOneMore(st) == st.fetching <= PrefetchPerPoll /\ Len(st.queue) < QueueCapacity

FetchesMore(st) == st.fetching < PrefetchPerPoll /\ Len(st.queue) < QueueCapacity

Fetch(s) ==
  LET st == stream[s]
      c  == st.fetched + 1
  IN /\ st.pc = "live"
     /\ st.fetching # None
     /\ UNCHANGED <<mix, head, session>>
     /\ \/ /\ ~FetchesMore(st) \/ st.fetched = head
           /\ stream' = [stream EXCEPT ![s].fetching = None]
           /\ UNCHANGED wire
        \/ /\ FetchesMore(st) /\ st.fetched < head
           /\ st.sending # None
           /\ stream' = [stream EXCEPT ![s].fetched = c, ![s].fetching = @ + 1,
                                       ![s].queue = Append(@, c)]
           /\ UNCHANGED wire
        \/ /\ FetchesMore(st) /\ st.fetched < head
           /\ st.sending = None
           /\ stream' = [stream EXCEPT ![s] =
                           Send([st EXCEPT !.fetched = c, !.fetching = @ + 1], c)]
           /\ wire' = [wire EXCEPT ![s] = Append(@, Notice(c))]

\* The write returned: last_delivered_cursor moves and drain takes the next event.
Delivered(s) ==
  LET done == [stream[s] EXCEPT !.delivered = stream[s].sending, !.sending = None]
  IN /\ stream[s].pc = "live"
     /\ stream[s].sending # None
     /\ Writable(s)
     /\ UNCHANGED <<mix, head, session>>
     /\ \/ /\ done.queue = <<>>
           /\ stream' = [stream EXCEPT ![s] = done]
           /\ UNCHANGED wire
        \/ /\ done.queue # <<>>
           /\ stream' = [stream EXCEPT ![s] =
                           Send([done EXCEPT !.queue = Tail(@)], Head(done.queue))]
           /\ wire' = [wire EXCEPT ![s] = Append(@, Notice(Head(done.queue)))]

\* The response closed: the network, or a browser that left.
Drop(s) ==
  /\ "drop" \in mix
  /\ s \in Connected
  /\ Disconnect({s})
  /\ UNCHANGED wire

\* deleteSession (a logout in another tab): revokeSession closes the streams it knows.
LogoutElsewhere ==
  /\ "logout" \in mix
  /\ session
  /\ session' = FALSE
  /\ stream' = [s \in Streams |-> IF s \in Connected THEN Closed ELSE stream[s]]
  /\ UNCHANGED <<mix, head, wire>>

\* noteSnapshot: the session has read a projection of cursor c.
Noted(c) ==
  [s \in Streams |->
     IF s \in Connected /\ c = head /\ stream[s].delivered = head
     THEN [stream[s] EXCEPT !.snapshot = head]
     ELSE stream[s]]

\* assertCurrent, after its await.
StreamIsCurrent(s) == stream[s].delivered = head /\ stream[s].snapshot = head

Reading(s) == Greet(s) \/ CursorUnavailable(s) \/ Subscribe(s) \/ Poll(s) \/ Fetch(s)

StreamNext ==
  \/ CommitEvent
  \/ LogoutElsewhere
  \/ \E s \in Streams : Reading(s) \/ Delivered(s) \/ Drop(s)

-----------------------------------------------------------------------------
StreamTypeOK ==
  /\ head \in Cursors
  /\ session \in BOOLEAN
  /\ \A s \in Streams :
       /\ stream[s].pc \in {"unused", "opening", "greeting", "live", "closed"}
       /\ stream[s].delivered \in Nat
       /\ stream[s].snapshot \in Cursors \cup {None}
       /\ stream[s].queue \in Seq(Cursors)
       /\ stream[s].fetched \in Cursors
       /\ stream[s].fetching \in (0..PrefetchPerPoll) \cup {None}
       /\ stream[s].sending \in Cursors \cup {None}
       /\ wire[s] \in Seq([type : {"ready", "invalidate", "reset"}, id : Cursors, head : Cursors])

\* What a live stream has delivered, is sending, holds in its queue and has yet to
\* fetch are consecutive: no event is skipped, repeated or put out of order by the
\* prefetch, the queue limit and the back-pressure (event-fanout.ts prefetch, drain).
Pipeline(s) == (IF stream[s].sending = None THEN <<>> ELSE <<stream[s].sending>>)
                 \o stream[s].queue

NoSilentGap ==
  \A s \in Streams :
    stream[s].pc = "live" =>
      /\ stream[s].fetched = stream[s].delivered + Len(Pipeline(s))
      /\ \A i \in 1..Len(Pipeline(s)) : Pipeline(s)[i] = stream[s].delivered + i
      /\ Len(stream[s].queue) <= QueueCapacity
=============================================================================
