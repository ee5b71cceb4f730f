---------------------------- MODULE ConsoleProofs ----------------------------
(***************************************************************************)
(* Proofs about what people see and do: the event stream and the dashboard *)
(* page, for any number of connections, reads in flight and events, and    *)
(* any capacity of the queue, the prefetch and the wire; the management    *)
(* API, for any number of requests, sessions and pages; the projections,   *)
(* for any number of tasks, commits and attempts and pages of any length.  *)
(* No event is skipped between the log and the page, a decision that is    *)
(* committed was taken on the head of the log, a launch secret opens one   *)
(* session, a confirmed action is executed once, as it was shown, and a    *)
(* board that is answered is the board of the cursor it names.             *)
(***************************************************************************)
EXTENDS Console, ManagementAccess, ManagementRequests, Projection,
        FiniteSetTheorems, SequenceTheorems, TLAPS

(***************************************************************************)
(* The event streams.                                                      *)
(***************************************************************************)

Messages == [type : {"ready", "invalidate", "reset"}, id : Cursors, head : Cursors]
StreamRecords ==
  [pc : {"unused", "opening", "greeting", "live", "closed"}, delivered : Cursors,
   snapshot : Cursors \cup {None}, queue : Seq(Cursors), fetched : Cursors,
   fetching : (0..PrefetchPerPoll) \cup {None}, sending : Cursors \cup {None}]

\* The subscription of a live stream: the event that is being sent is the next one, those
\* in the queue follow it, and nothing waits in the queue while nothing is sent.
Consecutive(st) ==
  /\ st.sending = None => st.queue = <<>> /\ st.fetched = st.delivered
  /\ st.sending # None =>
       /\ st.sending = st.delivered + 1
       /\ st.fetched = st.delivered + 1 + Len(st.queue)
       /\ \A i \in 1..Len(st.queue) : st.queue[i] = st.delivered + 1 + i
  /\ Len(st.queue) <= QueueCapacity

\* Up to a log of length h.
Gapless(st, h) ==
  /\ st.pc = "greeting" => st.delivered <= h
  /\ st.pc # "live" => st.queue = <<>> /\ st.sending = None
  /\ st.pc = "live" => st.fetched <= h /\ Consecutive(st)

StreamInv ==
  /\ head \in Cursors
  /\ stream \in [Streams -> StreamRecords]
  /\ wire \in [Streams -> Seq(Messages)]
  /\ \A s \in Streams : Gapless(stream[s], head)

LEMMA ClosedIsGapless == Closed \in StreamRecords /\ \A h : Gapless(Closed, h)
<1>1. Closed = [pc |-> "closed", delivered |-> 0, snapshot |-> None, queue |-> <<>>,
                fetched |-> 0, fetching |-> None, sending |-> None]
  BY DEF Closed, Unused
<1>2. 0 \in Cursors /\ <<>> \in Seq(Cursors)
  BY StreamBounds DEF Cursors
<1> QED
  BY <1>1, <1>2 DEF StreamRecords, Gapless

\* The stream of one connection changes, and what is on its wire.
LEMMA OneStream ==
  ASSUME StreamInv, NEW s \in Streams, NEW st \in StreamRecords, Gapless(st, head),
         stream' = [stream EXCEPT ![s] = st], head' = head, wire' \in [Streams -> Seq(Messages)]
  PROVE  StreamInv'
  BY DEF StreamInv

LEMMA HeadGrows ==
  ASSUME StreamInv, head < MaxEvents, head' = head + 1, UNCHANGED <<stream, wire>>
  PROVE  StreamInv'
<1>1. head \in Nat /\ head' \in Cursors /\ head <= head'
  BY StreamBounds DEF StreamInv, Cursors
<1>2. ASSUME NEW s \in Streams PROVE Gapless(stream[s], head')
  <2>1. /\ stream[s] \in StreamRecords /\ Gapless(stream[s], head)
        /\ stream[s].delivered \in Nat /\ stream[s].fetched \in Nat
    BY DEF StreamInv, StreamRecords, Cursors
  <2> QED BY <1>1, <2>1 DEF Gapless
<1> QED BY <1>1, <1>2 DEF StreamInv

LEMMA WireGrows ==
  ASSUME StreamInv, NEW s \in Streams, NEW m \in Messages
  PROVE  [wire EXCEPT ![s] = Append(@, m)] \in [Streams -> Seq(Messages)]
  BY DEF StreamInv

LEMMA NoticeIsMessage == \A c \in Cursors : Notice(c) \in Messages
  BY DEF Notice, Message, Messages

LEMMA ConsecutiveNumbers ==
  ASSUME NEW st \in StreamRecords, st.sending # None, st.sending = st.delivered + 1,
         st.fetched = st.delivered + 1 + Len(st.queue),
         \A i \in 1..Len(st.queue) : st.queue[i] = st.delivered + 1 + i,
         Len(st.queue) <= QueueCapacity
  PROVE  Consecutive(st)
  BY DEF Consecutive

LEMMA StreamInductive == StreamInv /\ StreamNext => StreamInv'
<1> SUFFICES ASSUME StreamInv, StreamNext PROVE StreamInv'
  OBVIOUS
<1> USE StreamBounds
<1>a. /\ head \in Cursors /\ stream \in [Streams -> StreamRecords]
      /\ wire \in [Streams -> Seq(Messages)]
      /\ \A s \in Streams : stream[s] \in StreamRecords /\ Gapless(stream[s], head)
  BY DEF StreamInv
<1>1. CASE CommitEvent
  BY <1>1, HeadGrows DEF CommitEvent
<1>2. CASE LogoutElsewhere
  BY <1>2, <1>a, ClosedIsGapless DEF LogoutElsewhere, StreamInv
<1>3. ASSUME NEW s \in Streams, Greet(s) PROVE StreamInv'
  <2> DEFINE st == [stream[s] EXCEPT !.pc = "greeting"]
             m == Message("ready", stream[s].delivered, head)
  <2>1. /\ stream[s].pc = "opening" /\ stream[s].delivered <= head
        /\ stream' = [stream EXCEPT ![s] = st]
        /\ wire' = [wire EXCEPT ![s] = Append(@, m)]
        /\ head' = head
    BY <1>3, <1>a DEF Greet
  <2>2. st \in StreamRecords /\ Gapless(st, head)
    BY <1>a, <2>1 DEF StreamRecords, Gapless
  <2>3. m \in Messages
    BY <1>a DEF Message, Messages, StreamRecords
  <2>4. wire' \in [Streams -> Seq(Messages)]
    BY <2>1, <2>3, WireGrows
  <2> HIDE DEF st, m
  <2> QED BY <2>1, <2>2, <2>4, OneStream
<1>4. ASSUME NEW s \in Streams, CursorUnavailable(s) PROVE StreamInv'
  BY <1>4, <1>a, OneStream, ClosedIsGapless, WireGrows DEF CursorUnavailable, Message, Messages
<1>5. ASSUME NEW s \in Streams, Subscribe(s) PROVE StreamInv'
  <2> DEFINE st == [stream[s] EXCEPT !.pc = "live", !.fetched = stream[s].delivered]
  <2>1. /\ stream[s].pc = "greeting" /\ wire' = wire /\ head' = head
        /\ stream' = [stream EXCEPT ![s] = st]
    BY <1>5, <1>a DEF Subscribe
  <2>2. st \in StreamRecords
    BY <1>a DEF StreamRecords
  <2>3. st.queue = <<>> /\ st.sending = None /\ st.fetched = st.delivered /\ st.delivered <= head
    BY <1>a, <2>1 DEF StreamRecords, Gapless
  <2>4. Gapless(st, head)
    BY <2>2, <2>3 DEF Gapless, Consecutive, StreamRecords
  <2> HIDE DEF st
  <2> QED BY <1>a, <2>1, <2>2, <2>4, OneStream
<1>6. ASSUME NEW s \in Streams, Poll(s) PROVE StreamInv'
  <2>1. CASE SlowConsumer(s)
    <3>1. /\ wire' = [wire EXCEPT ![s] = <<>>] /\ head' = head
          /\ stream' = [t \in Streams |-> IF t \in {s} THEN Closed ELSE stream[t]]
      BY <1>6, <2>1 DEF Poll, Disconnect
    <3>2. wire' \in [Streams -> Seq(Messages)]
      BY <1>a, <3>1
    <3> QED BY <1>a, <3>1, <3>2, ClosedIsGapless DEF StreamInv
  <2>2. CASE ~SlowConsumer(s)
    <3> DEFINE st == [stream[s] EXCEPT !.fetching = 0]
    <3>1. /\ stream[s].pc = "live" /\ wire' = wire /\ head' = head
          /\ stream' = [stream EXCEPT ![s] = st]
      BY <1>6, <1>a, <2>2 DEF Poll
    <3>2. 0 \in 0..PrefetchPerPoll
      OBVIOUS
    <3>3. st \in StreamRecords /\ Gapless(st, head)
      BY <1>a, <3>1, <3>2 DEF StreamRecords, Gapless, Consecutive
    <3> HIDE DEF st
    <3> QED BY <1>a, <3>1, <3>3, OneStream
  <2> QED BY <2>1, <2>2
<1>7. ASSUME NEW s \in Streams, Fetch(s) PROVE StreamInv'
  <2> DEFINE st == stream[s]
             c == st.fetched + 1
  <2>1. /\ st.pc = "live" /\ st.fetching \in 0..PrefetchPerPoll /\ head' = head
        /\ st \in StreamRecords /\ Consecutive(st) /\ st.fetched <= head
    BY <1>7, <1>a DEF Fetch, Gapless, StreamRecords
  <2>2. CASE /\ stream' = [stream EXCEPT ![s].fetching = None]
             /\ UNCHANGED wire
    <3> DEFINE new == [st EXCEPT !.fetching = None]
    <3>1. new \in StreamRecords /\ Gapless(new, head) /\ stream' = [stream EXCEPT ![s] = new]
      BY <1>a, <2>1, <2>2 DEF StreamRecords, Gapless, Consecutive
    <3> HIDE DEF new
    <3> QED BY <1>a, <2>1, <2>2, <3>1, OneStream
  <2>3. ASSUME FetchesMore(st), st.fetched < head
        PROVE  /\ c \in Cursors /\ st.fetching + 1 \in 0..PrefetchPerPoll
               /\ st.fetching + 1 \in (0..PrefetchPerPoll) \cup {None}
               /\ Len(st.queue) < QueueCapacity /\ st.queue \in Seq(Cursors) /\ c <= head
    BY <1>a, <2>1, <2>3 DEF FetchesMore, StreamRecords, Cursors
  <2>4. CASE /\ FetchesMore(st) /\ st.fetched < head /\ st.sending # None
             /\ stream' = [stream EXCEPT ![s].fetched = c, ![s].fetching = @ + 1,
                                         ![s].queue = Append(@, c)]
             /\ UNCHANGED wire
    <3> DEFINE new == [st EXCEPT !.fetched = c, !.fetching = @ + 1, !.queue = Append(@, c)]
    <3>1. stream' = [stream EXCEPT ![s] = new]
      BY <1>a, <2>4
    <3>2. new \in StreamRecords
      <4>1. Append(st.queue, c) \in Seq(Cursors)
        BY <2>3, <2>4
      <4> QED BY <2>1, <2>3, <2>4, <4>1 DEF StreamRecords
    <3>3. /\ new.queue = Append(st.queue, c) /\ new.fetched = c /\ new.delivered = st.delivered
          /\ new.sending = st.sending /\ new.pc = "live"
      BY <2>1 DEF StreamRecords
    <3>4. /\ Len(new.queue) = Len(st.queue) + 1
          /\ \A i \in 1..Len(st.queue) : new.queue[i] = st.queue[i]
          /\ new.queue[Len(st.queue) + 1] = c
      BY <2>3, <2>4, <3>3
    <3>5. Consecutive(new)
      <4>1. /\ st.sending = st.delivered + 1 /\ st.fetched = st.delivered + 1 + Len(st.queue)
            /\ \A i \in 1..Len(st.queue) : st.queue[i] = st.delivered + 1 + i
            /\ st.delivered \in Nat /\ Len(st.queue) \in Nat /\ QueueCapacity \in Nat
        BY <2>1, <2>4 DEF Consecutive, StreamRecords, Cursors
      <4>a. st.sending # None /\ Len(st.queue) < QueueCapacity /\ c = st.fetched + 1
        BY <2>3, <2>4
      <4> HIDE DEF new, c, st
      <4>2. /\ new.sending # None /\ new.sending = new.delivered + 1
            /\ new.fetched = new.delivered + 1 + Len(new.queue)
            /\ Len(new.queue) <= QueueCapacity
        <5>1. \A d, n, q \in Nat : n < q => n + 1 <= q /\ (d + 1 + n) + 1 = d + 1 + (n + 1)
          OBVIOUS
        <5>a. Len(st.queue) + 1 <= QueueCapacity
              /\ (st.delivered + 1 + Len(st.queue)) + 1 = st.delivered + 1 + (Len(st.queue) + 1)
          BY <4>1, <4>a, <5>1
        <5>b. new.fetched = (st.delivered + 1 + Len(st.queue)) + 1
          BY <3>3, <4>1, <4>a
        <5>2. Len(new.queue) <= QueueCapacity /\ new.fetched = st.delivered + 1 + (Len(st.queue) + 1)
          BY <3>4, <5>a, <5>b
        <5>3. new.sending # None /\ new.sending = new.delivered + 1
          BY <3>3, <4>1, <4>a
        <5> QED BY <3>3, <3>4, <5>2, <5>3
      <4>3. \A i \in 1..Len(new.queue) : new.queue[i] = new.delivered + 1 + i
        <5> SUFFICES ASSUME NEW i \in 1..Len(new.queue) PROVE new.queue[i] = st.delivered + 1 + i
          BY <3>3
        <5>1. CASE i = Len(st.queue) + 1
          <6>1. \A d, n \in Nat : (d + 1 + n) + 1 = d + 1 + (n + 1)
            OBVIOUS
          <6>2. new.queue[i] = (st.delivered + 1 + Len(st.queue)) + 1
            BY <3>4, <4>1, <4>a, <5>1
          <6> QED BY <4>1, <5>1, <6>1, <6>2
        <5>2. CASE i # Len(st.queue) + 1
          <6>1. i \in 1..Len(st.queue)
            BY <3>4, <4>1, <5>2
          <6> QED BY <3>4, <4>1, <6>1
        <5> QED BY <5>1, <5>2
      <4> QED BY <3>2, <4>2, <4>3, ConsecutiveNumbers
    <3>6. Gapless(new, head)
      BY <2>3, <2>4, <3>3, <3>5 DEF Gapless
    <3> HIDE DEF new
    <3> QED BY <1>a, <2>1, <2>4, <3>1, <3>2, <3>6, OneStream
  <2>5. CASE /\ FetchesMore(st) /\ st.fetched < head /\ st.sending = None
             /\ stream' = [stream EXCEPT ![s] =
                            Send([st EXCEPT !.fetched = c, !.fetching = @ + 1], c)]
             /\ wire' = [wire EXCEPT ![s] = Append(@, Notice(c))]
    <3> DEFINE new == Send([st EXCEPT !.fetched = c, !.fetching = @ + 1], c)
    <3>1. new \in StreamRecords
      BY <2>1, <2>3, <2>5 DEF StreamRecords, Send
    <3>2. /\ new.queue = <<>> /\ new.sending = c /\ new.fetched = c
          /\ new.delivered = st.delivered /\ st.fetched = st.delivered /\ new.pc = "live"
      BY <2>1, <2>5 DEF StreamRecords, Send, Consecutive
    <3>3. Consecutive(new)
      <4>1. Len(new.queue) = 0 /\ 1..Len(new.queue) = {} /\ st.delivered \in Nat /\ QueueCapacity \in Nat
        <5>1. new.queue = <<>> /\ st \in StreamRecords
          BY <2>1, <3>2
        <5> HIDE DEF new
        <5> QED BY <5>1 DEF StreamRecords, Cursors
      <4> HIDE DEF new
      <4>2. new.sending # None /\ c = st.delivered + 1
        <5>1. c \in Nat /\ None \notin Nat
          BY <2>3, <2>5 DEF Cursors
        <5>2. c = st.delivered + 1
          BY <3>2
        <5> QED BY <3>2, <5>1, <5>2
      <4> QED BY <3>1, <3>2, <4>1, <4>2, ConsecutiveNumbers
    <3>4. Gapless(new, head)
      BY <2>3, <2>5, <3>2, <3>3 DEF Gapless
    <3>5. wire' \in [Streams -> Seq(Messages)]
      BY <2>3, <2>5, NoticeIsMessage, WireGrows
    <3>6. stream' = [stream EXCEPT ![s] = new]
      BY <2>5
    <3> HIDE DEF new
    <3> QED BY <2>1, <3>1, <3>4, <3>5, <3>6, OneStream
  <2> QED BY <1>7, <2>2, <2>4, <2>5 DEF Fetch
<1>8. ASSUME NEW s \in Streams, Delivered(s) PROVE StreamInv'
  <2> DEFINE st == stream[s]
             sent == [st EXCEPT !.delivered = st.sending, !.sending = None]
  <2>1. /\ st.pc = "live" /\ st.sending # None /\ head' = head
        /\ st \in StreamRecords /\ Consecutive(st) /\ st.fetched <= head
    BY <1>8, <1>a DEF Delivered, Gapless
  <2>2. /\ sent \in StreamRecords /\ sent.pc = "live" /\ sent.queue = st.queue
        /\ sent.delivered = st.delivered + 1 /\ sent.fetched = st.fetched /\ sent.sending = None
    BY <2>1 DEF StreamRecords, Consecutive
  <2>3. CASE /\ sent.queue = <<>>
             /\ stream' = [stream EXCEPT ![s] = sent]
             /\ UNCHANGED wire
    <3>1. Consecutive(sent)
      BY <2>1, <2>2, <2>3 DEF Consecutive, StreamRecords, Cursors
    <3>2. Gapless(sent, head)
      BY <2>1, <2>2, <3>1 DEF Gapless
    <3> HIDE DEF sent
    <3> QED BY <1>a, <2>1, <2>2, <2>3, <3>2, OneStream
  <2>4. CASE /\ sent.queue # <<>>
             /\ stream' = [stream EXCEPT ![s] =
                            Send([sent EXCEPT !.queue = Tail(@)], Head(sent.queue))]
             /\ wire' = [wire EXCEPT ![s] = Append(@, Notice(Head(sent.queue)))]
    <3> DEFINE new == Send([sent EXCEPT !.queue = Tail(@)], Head(sent.queue))
    <3>1. /\ st.queue \in Seq(Cursors) /\ st.queue # <<>>
          /\ Head(st.queue) \in Cursors /\ Tail(st.queue) \in Seq(Cursors)
          /\ Head(st.queue) = st.queue[1] /\ Len(Tail(st.queue)) = Len(st.queue) - 1
          /\ \A i \in 1..Len(Tail(st.queue)) : Tail(st.queue)[i] = st.queue[i + 1]
      BY <2>1, <2>2, <2>4 DEF StreamRecords
    <3>2. /\ new.queue = Tail(st.queue) /\ new.sending = Head(st.queue)
          /\ new.delivered = st.delivered + 1 /\ new.fetched = st.fetched /\ new.pc = "live"
          /\ new \in StreamRecords
      BY <2>2, <3>1 DEF StreamRecords, Send
    <3>3. Consecutive(new)
      <4>1. /\ st.sending = st.delivered + 1 /\ st.fetched = st.delivered + 1 + Len(st.queue)
            /\ \A i \in 1..Len(st.queue) : st.queue[i] = st.delivered + 1 + i
            /\ st.delivered \in Nat /\ Len(st.queue) \in Nat \ {0} /\ QueueCapacity \in Nat
            /\ Len(st.queue) <= QueueCapacity
        BY <2>1, <3>1 DEF Consecutive, StreamRecords, Cursors
      <4> HIDE DEF new, sent, st
      <4>a. st.queue[1] = st.delivered + 2 /\ Head(st.queue) # None
        <5>1. st.queue[1] = st.delivered + 1 + 1
          <6>1. 1 \in 1..Len(st.queue)
            BY <4>1
          <6> QED BY <4>1, <6>1
        <5>2. Head(st.queue) # None
          BY <3>1 DEF Cursors
        <5> QED BY <4>1, <5>1, <5>2
      <4>b. ASSUME NEW i \in 1..Len(Tail(st.queue)) PROVE st.queue[i + 1] = st.delivered + 2 + i
        <5>1. i + 1 \in 1..Len(st.queue)
          BY <3>1, <4>1
        <5>2. st.queue[i + 1] = st.delivered + 1 + (i + 1)
          BY <4>1, <5>1
        <5>3. i \in Nat
          BY <3>1, <4>1
        <5>4. st.delivered \in Nat
          BY <4>1
        <5>5. st.delivered + 1 + (i + 1) = st.delivered + 2 + i
          BY <5>3, <5>4
        <5> QED BY <5>2, <5>5
      <4>2. /\ new.sending # None /\ new.sending = new.delivered + 1
            /\ new.fetched = new.delivered + 1 + Len(new.queue)
            /\ Len(new.queue) <= QueueCapacity
        <5>1. \A d, n \in Nat : n # 0 => d + 1 + n = (d + 1) + 1 + (n - 1) /\ d + 2 = (d + 1) + 1
          OBVIOUS
        <5>2. st.fetched = (st.delivered + 1) + 1 + (Len(st.queue) - 1)
              /\ st.delivered + 2 = (st.delivered + 1) + 1
          BY <4>1, <5>1
        <5>3. new.fetched = new.delivered + 1 + Len(new.queue)
          BY <3>1, <3>2, <5>2
        <5>4. new.sending # None /\ new.sending = new.delivered + 1
          BY <3>1, <3>2, <4>a, <5>2
        <5>5. Len(new.queue) <= QueueCapacity
          <6>1. \A n, q \in Nat : n # 0 /\ n <= q => n - 1 <= q
            OBVIOUS
          <6>2. Len(st.queue) - 1 <= QueueCapacity
            BY <4>1, <6>1
          <6> QED BY <3>1, <3>2, <6>2
        <5> QED BY <5>3, <5>4, <5>5
      <4>3. \A i \in 1..Len(new.queue) : new.queue[i] = new.delivered + 1 + i
        BY <3>1, <3>2, <4>1, <4>b
      <4> QED BY <3>2, <4>2, <4>3, ConsecutiveNumbers
    <3>4. Gapless(new, head)
      BY <2>1, <3>2, <3>3 DEF Gapless
    <3>5. wire' \in [Streams -> Seq(Messages)]
      BY <2>2, <2>4, <3>1, NoticeIsMessage, WireGrows
    <3>6. stream' = [stream EXCEPT ![s] = new]
      BY <2>4
    <3> HIDE DEF new, sent
    <3> QED BY <2>1, <3>2, <3>4, <3>5, <3>6, OneStream
  <2> QED BY <1>8, <2>3, <2>4 DEF Delivered
<1>9. ASSUME NEW s \in Streams, Drop(s) PROVE StreamInv'
  BY <1>9, <1>a, ClosedIsGapless DEF Drop, Disconnect, StreamInv
<1> QED
  BY <1>1, <1>2, <1>3, <1>4, <1>5, <1>6, <1>7, <1>8, <1>9 DEF StreamNext, Reading

LEMMA StreamAccepts ==
  ASSUME StreamInv, NEW s \in Streams, NEW after \in Cursors, Accept(s, after)
  PROVE  StreamInv'
<1> DEFINE st == [Unused EXCEPT !.pc = "opening", !.delivered = after]
<1>1. /\ stream' = [stream EXCEPT ![s] = st] /\ UNCHANGED <<head, wire>>
  BY DEF Accept
<1>2. 0 \in Cursors /\ <<>> \in Seq(Cursors)
  BY StreamBounds DEF Cursors
<1>3. Unused \in StreamRecords /\ Unused.queue = <<>> /\ Unused.sending = None
  BY <1>2 DEF Unused, StreamRecords
<1>4. st \in StreamRecords /\ Gapless(st, head)
  BY <1>3 DEF StreamRecords, Gapless
<1>5. wire \in [Streams -> Seq(Messages)]
  BY DEF StreamInv
<1> HIDE DEF st
<1> QED
  BY <1>1, <1>4, <1>5, OneStream

LEMMA StreamNotes ==
  ASSUME StreamInv, stream' = Noted(head), UNCHANGED <<head, wire>>
  PROVE  StreamInv'
<1>1. ASSUME NEW s \in Streams
      PROVE  stream'[s] \in StreamRecords /\ Gapless(stream'[s], head)
  <2>1. stream[s] \in StreamRecords /\ Gapless(stream[s], head) /\ head \in Cursors
    BY DEF StreamInv
  <2>2. stream'[s] = stream[s] \/ stream'[s] = [stream[s] EXCEPT !.snapshot = head]
    BY DEF Noted
  <2>3. [stream[s] EXCEPT !.snapshot = head] \in StreamRecords
    BY <2>1 DEF StreamRecords
  <2>4. Gapless([stream[s] EXCEPT !.snapshot = head], head)
    BY <2>1 DEF StreamRecords, Gapless, Consecutive
  <2> QED
    BY <2>1, <2>2, <2>3, <2>4
<1> QED
  BY <1>1 DEF StreamInv, Noted

(***************************************************************************)
(* The page, its reads and its write.                                      *)
(***************************************************************************)

Phases == {"reconnecting", "syncing", "current", "reset", "error", "fatal"}
Answers == [Kinds -> Nat \cup {None}]
Sources == [state : {"none", "connecting", "open", "failed"}, after : Cursors,
            last : Cursors \cup {None}, stream : Streams \cup {None}]
Pages == [phase : Phases, stream : Streams \cup {None}, head : Cursors, selected : BOOLEAN,
          snapshots : Answers, shown : Answers, timer : BOOLEAN, source : Sources]
Reads == [pc : {"idle", "reading"}, stale : BOOLEAN, selected : BOOLEAN, began : Cursors,
          got : Answers]
Writes == [pc : {"none", "sent", "checking", "executing", "committed", "answered",
                 "SESSION_EXPIRED", "STREAM_NOT_CURRENT", "STALE_EVENT_CURSOR"},
           stream : Streams \cup {None}, cursor : Cursors, shown : Answers]

\* What the page holds current is what is on the screen.
Honest(p) == p \in Pages /\ \A k \in Kinds : p.snapshots[k] \in {None, p.shown[k]}

ConsoleInv ==
  /\ StreamInv
  /\ Honest(page)
  /\ sync \in [Syncs -> Reads]
  /\ write \in Writes
  /\ write.pc \in {"sent", "checking", "executing"} => \A k \in Kinds : write.shown[k] = write.cursor

LEMMA PageOperations ==
  ASSUME NEW p, Honest(p)
  PROVE  /\ Honest(StreamDisconnected(p)) /\ Honest(BeginSync(p)) /\ Honest(SyncError(p))
         /\ Honest(Fatal(p)) /\ Honest(SelectTask(p)) /\ Honest(CloseTask(p))
         /\ Honest(Scheduled(p)) /\ Honest(SessionLost(p)) /\ Honest(ConnectionRefused(p))
<1>1. /\ p \in Pages /\ None \notin Nat
      /\ NoSnapshots \in Answers /\ \A k \in Kinds : NoSnapshots[k] = None
  BY StreamBounds DEF Honest, NoSnapshots, Answers
<1>2. Honest(StreamDisconnected(p))
  BY <1>1 DEF StreamDisconnected, Reread, Honest, Pages, Phases
<1>3. Honest(BeginSync(p)) /\ Honest(SyncError(p)) /\ Honest(Fatal(p))
  BY <1>1 DEF BeginSync, SyncError, Fatal, Reread, Honest, Pages, Phases
<1>4. Honest(Scheduled(p))
  BY <1>1 DEF Scheduled, Honest, Pages
<1>5. NoSource \in Sources
  BY StreamBounds DEF Source, NoSource, Sources, Cursors
<1>6. Honest(SessionLost(p))
  BY <1>3, <1>5 DEF SessionLost, Honest, Pages
<1>7. Honest(ConnectionRefused(p))
  BY <1>2 DEF ConnectionRefused, Honest, Pages, Sources
<1>8. Honest(SelectTask(p))
  BY <1>1 DEF SelectTask, Honest, Pages, Phases, Answers, Kinds
<1>9. Honest(CloseTask(p))
  <2> DEFINE q == [p EXCEPT !.selected = FALSE, !.snapshots["detail"] = None,
                            !.shown["detail"] = None]
  <2>1. Honest(q)
    BY <1>1 DEF Honest, Pages, Answers, Kinds
  <2>2. CloseTask(p) = q \/ CloseTask(p) = [q EXCEPT !.phase = "current"]
    BY DEF CloseTask, IfCurrent
  <2> HIDE DEF q
  <2> QED BY <2>1, <2>2 DEF Honest, Pages, Phases
<1> QED
  BY <1>2, <1>3, <1>4, <1>6, <1>7, <1>8, <1>9

LEMMA PageNews ==
  ASSUME NEW p, Honest(p), NEW h \in Cursors
  PROVE  /\ Honest(Invalidate(p, h)) /\ Honest(Reset(p, h)) /\ Honest(OpenEventStream(p, h))
         /\ \A s \in Streams : Honest(StreamReady(p, s, h))
<1>1. /\ p \in Pages /\ None \notin Nat
      /\ NoSnapshots \in Answers /\ \A k \in Kinds : NoSnapshots[k] = None
  BY StreamBounds DEF Honest, NoSnapshots, Answers
<1>2. Honest(Invalidate(p, h)) /\ Honest(Reset(p, h)) /\ \A s \in Streams : Honest(StreamReady(p, s, h))
  BY <1>1 DEF StreamReady, Invalidate, Reset, Reread, Honest, Pages, Phases
<1>3. Source(h) \in Sources
  BY StreamBounds DEF Source, Sources, Cursors
<1>4. Honest(OpenEventStream(p, h))
  BY <1>3, PageOperations DEF OpenEventStream, Honest, Pages
<1> QED
  BY <1>2, <1>4

LEMMA ConsoleInductive == ConsoleInv /\ [ConsoleNext]_vars => ConsoleInv'
<1> SUFFICES ASSUME ConsoleInv, [ConsoleNext]_vars PROVE ConsoleInv'
  OBVIOUS
<1> USE StreamBounds
<1>a. /\ StreamInv /\ Honest(page) /\ sync \in [Syncs -> Reads] /\ write \in Writes
      /\ head \in Cursors /\ page \in Pages
      /\ write.pc \in {"sent", "checking", "executing"} =>
           \A k \in Kinds : write.shown[k] = write.cursor
  BY DEF ConsoleInv, StreamInv, Honest
<1>b. ASSUME UNCHANGED <<head, stream, wire>> PROVE StreamInv'
  BY <1>a, <1>b DEF StreamInv
<1>c. ASSUME UNCHANGED write
      PROVE  write' \in Writes /\ (write'.pc \in {"sent", "checking", "executing"} =>
                                    \A k \in Kinds : write'.shown[k] = write'.cursor)
  BY <1>a, <1>c
\* The steps of the page: nothing changes on the server.
<1>d. ASSUME UNCHANGED <<streamVars, write>>, Honest(page'), sync' \in [Syncs -> Reads]
      PROVE  ConsoleInv'
  BY <1>b, <1>c, <1>d DEF ConsoleInv, streamVars
<1>e. NextGeneration \in [Syncs -> Reads] /\ IdleSync \in Reads
  <2>1. IdleSync \in Reads
    BY DEF IdleSync, Reads, NoSnapshots, Answers, Cursors
  <2>2. ASSUME NEW y \in Syncs PROVE [sync[y] EXCEPT !.stale = TRUE] \in Reads
    <3>1. sync[y] \in Reads
      BY <1>a
    <3> QED BY <3>1 DEF Reads
  <2> QED BY <2>1, <2>2 DEF NextGeneration
\* The steps of the server.
<1>f. ASSUME StreamInv', UNCHANGED <<page, sync, write>> PROVE ConsoleInv'
  BY <1>a, <1>f DEF ConsoleInv, Honest
<1>1. CASE UNCHANGED vars
  BY <1>1, <1>a, <1>d DEF vars
<1>2. CASE StartDashboard
  <2>1. Honest([page EXCEPT !.head = head])
    BY <1>a DEF Honest, Pages
  <2> QED BY <1>2, <1>a, <1>d, <1>e, <2>1, PageNews DEF StartDashboard
<1>3. CASE OnServer
  BY <1>3, <1>a, <1>f, StreamInductive DEF OnServer
<1>4. ASSUME NEW s \in Streams, Connect(s) PROVE ConsoleInv'
  <2>1. page.source.after \in Cursors
    BY <1>a DEF Pages, Sources
  <2>2. StreamInv'
    BY <1>4, <1>a, <2>1, StreamAccepts DEF Connect
  <2>3. Honest(page')
    BY <1>4, <1>a DEF Connect, Honest, Pages, Sources
  <2> QED BY <1>4, <1>a, <1>c, <2>2, <2>3 DEF Connect, ConsoleInv
<1>5. ASSUME NEW s \in Streams, Receive(s) PROVE ConsoleInv'
  <2> DEFINE m == Head(wire[s])
             p == [page EXCEPT !.source.last = m.id]
  <2>1. /\ s = page.source.stream /\ wire[s] # <<>> /\ page' = Received(p, m, s)
        /\ sync' = NextGeneration /\ wire' = [wire EXCEPT ![s] = Tail(@)]
        /\ UNCHANGED <<head, stream, write>>
    BY <1>5 DEF Receive
  <2>2. wire \in [Streams -> Seq(Messages)]
    BY <1>a DEF StreamInv
  <2>3. m \in Messages /\ Tail(wire[s]) \in Seq(Messages)
    BY <2>1, <2>2
  <2>4. StreamInv'
    BY <1>a, <2>1, <2>2, <2>3 DEF StreamInv
  <2>5. m.id \in Cursors /\ m.head \in Cursors /\ m.type \in {"ready", "invalidate", "reset"}
    BY <2>3 DEF Messages
  <2>6. Honest(p)
    BY <1>a, <2>5 DEF Honest, Pages, Sources
  <2> HIDE DEF m, p
  <2>7. CASE m.type = "ready"
    <3>1. page' = Scheduled(StreamReady(p, s, m.head))
      BY <2>1, <2>7 DEF Received
    <3>2. Honest(page')
      BY <2>5, <2>6, <3>1, PageNews, PageOperations
    <3> QED BY <1>c, <1>e, <2>1, <2>4, <3>2 DEF ConsoleInv
  <2>8. CASE m.type = "invalidate"
    <3>1. page' = Scheduled(Invalidate(p, m.head))
      BY <2>1, <2>8 DEF Received
    <3>2. Honest(page')
      BY <2>5, <2>6, <3>1, PageNews, PageOperations
    <3> QED BY <1>c, <1>e, <2>1, <2>4, <3>2 DEF ConsoleInv
  <2>9. CASE m.type = "reset"
    <3>1. page' = OpenEventStream(Reset(p, m.head), m.head)
      BY <2>1, <2>9 DEF Received
    <3>2. Honest(page')
      BY <2>5, <2>6, <3>1, PageNews
    <3> QED BY <1>c, <1>e, <2>1, <2>4, <3>2 DEF ConsoleInv
  <2> QED BY <2>5, <2>7, <2>8, <2>9
<1>6. ASSUME NEW s \in Streams, ConnectionLost(s) PROVE ConsoleInv'
  <2>1. StreamInv'
    BY <1>6, <1>a DEF ConnectionLost, StreamInv
  <2>2. Honest(StreamDisconnected(page))
    BY <1>a, PageOperations
  <2>3. Honest(page')
    BY <1>6, <2>2 DEF ConnectionLost, Honest, Pages, Sources
  <2> QED BY <1>6, <1>c, <1>e, <2>1, <2>3 DEF ConnectionLost, ConsoleInv
<1>7. CASE ConnectRefused
  BY <1>7, <1>a, <1>d, <1>e, PageOperations DEF ConnectRefused
<1>8. ASSUME NEW y \in Syncs, StartSync(y) PROVE ConsoleInv'
  <2>1. Honest(page')
    BY <1>8, <1>a DEF StartSync, Honest, Pages
  <2>2. [IdleSync EXCEPT !.pc = "reading", !.began = head, !.selected = page.selected] \in Reads
    BY <1>a, <1>e DEF Reads, Pages
  <2>3. sync' \in [Syncs -> Reads]
    BY <1>8, <1>a, <2>2 DEF StartSync
  <2> QED BY <1>8, <1>d, <2>1, <2>3 DEF StartSync
<1>9. ASSUME NEW y \in Syncs, NEW k \in Kinds, ReadSnapshot(y, k) PROVE ConsoleInv'
  <2>1. StreamInv'
    BY <1>9, <1>a, <1>b, StreamNotes DEF ReadSnapshot
  <2>2. \E v \in {head, Busy, Expired} : sync' = [sync EXCEPT ![y].got[k] = v]
    BY <1>9 DEF ReadSnapshot
  <2>3. {head, Busy, Expired} \subseteq Nat
    BY <1>a DEF Busy, Expired, Cursors
  <2>4. sync' \in [Syncs -> Reads]
    <3>1. PICK v \in Nat : sync' = [sync EXCEPT ![y].got[k] = v]
      BY <2>2, <2>3
    <3> DEFINE got == [sync[y].got EXCEPT ![k] = v]
    <3>2. sync[y] \in Reads /\ sync[y].got \in Answers
      BY <1>a DEF Reads
    <3>3. got \in Answers
      BY <3>2 DEF Answers
    <3>4. sync' = [sync EXCEPT ![y] = [sync[y] EXCEPT !.got = got]]
      BY <1>a, <3>1
    <3> HIDE DEF got
    <3>5. [sync[y] EXCEPT !.got = got] \in Reads
      BY <3>2, <3>3 DEF Reads
    <3> QED BY <1>a, <3>4, <3>5
  <2> QED BY <1>9, <1>a, <1>c, <2>1, <2>4 DEF ReadSnapshot, ConsoleInv
<1>10. ASSUME NEW y \in Syncs, SyncFails(y) PROVE ConsoleInv'
  <2>1. Honest(page')
    BY <1>10, <1>a, PageOperations DEF SyncFails
  <2>2. sync' \in [Syncs -> Reads]
    BY <1>10, <1>a, <1>e DEF SyncFails
  <2> QED BY <1>10, <1>d, <2>1, <2>2 DEF SyncFails
<1>11. ASSUME NEW y \in Syncs, SyncReturns(y) PROVE ConsoleInv'
  <2> DEFINE p == [page EXCEPT !.shown = sync[y].got, !.snapshots = sync[y].got]
  <2>1. Honest(p)
    <3>1. sync[y].got \in Answers
      BY <1>a DEF Reads
    <3> QED BY <1>a, <3>1 DEF Honest, Pages
  <2>2. TakeOver(page, y) = p \/ TakeOver(page, y) = [p EXCEPT !.phase = "current"]
    BY DEF TakeOver, IfCurrent
  <2> HIDE DEF p
  <2>3. Honest(TakeOver(page, y))
    BY <2>1, <2>2 DEF Honest, Pages, Phases
  <2>4. Honest(page')
    BY <1>11, <1>a, <2>3, PageOperations DEF SyncReturns
  <2>5. sync' \in [Syncs -> Reads]
    BY <1>11, <1>a, <1>e DEF SyncReturns
  <2> QED BY <1>11, <1>d, <2>4, <2>5 DEF SyncReturns
<1>12. CASE UserSelects
  <2>1. Honest(SelectTask(page))
    BY <1>a, PageOperations
  <2>2. Honest(Scheduled(SelectTask(page)))
    BY <2>1, PageOperations
  <2> QED BY <1>12, <1>d, <1>e, <2>2 DEF UserSelects
<1>13. CASE UserCloses
  BY <1>13, <1>a, <1>d, <1>e, PageOperations DEF UserCloses
<1>14. CASE UserRefreshes
  <2>1. Honest(BeginSync(page))
    BY <1>a, PageOperations
  <2>2. Honest(Scheduled(BeginSync(page)))
    BY <2>1, PageOperations
  <2> QED BY <1>14, <1>d, <1>e, <2>2 DEF UserRefreshes
<1>15. CASE UserReconnects
  <2>1. page.head \in Cursors
    BY <1>a DEF Pages
  <2> QED BY <1>15, <1>a, <1>d, <1>e, <2>1, PageNews DEF UserReconnects
<1>16. CASE UserWrites
  <2>1. /\ page.phase = "current" /\ SnapshotsAreCurrent(page) /\ page.selected
        /\ write' = [pc |-> "sent", stream |-> page.stream, cursor |-> page.head,
                     shown |-> page.shown]
        /\ UNCHANGED <<streamVars, page, sync>>
    BY <1>16 DEF UserWrites, WritesAllowed
  <2>2. \A k \in Kinds : page.snapshots[k] = page.head
    BY <2>1 DEF SnapshotsAreCurrent, Kinds
  <2>3. page.head \in Nat /\ None \notin Nat
    BY <1>a DEF Pages, Cursors
  <2>4. \A k \in Kinds : page.shown[k] = page.head
    BY <1>a, <2>2, <2>3 DEF Honest
  <2>5. write' \in Writes /\ \A k \in Kinds : write'.shown[k] = write'.cursor
    BY <1>a, <2>1, <2>4 DEF Writes, Pages
  <2>6. StreamInv'
    BY <1>b, <2>1 DEF streamVars
  <2> QED BY <1>a, <2>1, <2>5, <2>6 DEF ConsoleInv, Honest
<1>17. CASE CheckStream \/ CheckCursors \/ ExecuteRefused
  <2>1. /\ \E pc \in {"SESSION_EXPIRED", "STREAM_NOT_CURRENT", "checking", "executing",
                       "STALE_EVENT_CURSOR"} : write' = [write EXCEPT !.pc = pc]
        /\ write.pc \in {"sent", "checking", "executing"}
        /\ UNCHANGED <<streamVars, page, sync>>
    BY <1>17 DEF CheckStream, CheckCursors, ExecuteRefused, WriteTo
  <2>2. write' \in Writes /\ \A k \in Kinds : write'.shown[k] = write'.cursor
    BY <1>a, <2>1 DEF Writes
  <2>3. StreamInv'
    BY <1>b, <2>1 DEF streamVars
  <2> QED BY <1>a, <2>1, <2>2, <2>3 DEF ConsoleInv, Honest
<1>18. CASE Execute
  <2>1. StreamInv'
    BY <1>18, <1>a, HeadGrows DEF Execute
  <2>2. write' \in Writes /\ write'.pc = "committed"
    BY <1>18, <1>a DEF Execute, WriteTo, Writes
  <2> QED BY <1>18, <1>a, <2>1, <2>2 DEF Execute, ConsoleInv, Honest
<1>19. CASE Answer
  <2>1. write' \in Writes /\ write'.pc = "answered"
    BY <1>19, <1>a DEF Answer, Writes
  <2>2. StreamInv'
    BY <1>19, <1>b DEF Answer, streamVars
  <2> QED BY <1>19, <1>a, <2>1, <2>2 DEF Answer, ConsoleInv, Honest
<1>20. CASE WriteSucceeds \/ WriteFails
  <2>1. write' \in Writes /\ write'.pc = "none"
    <3>1. write' = NoWrite
      BY <1>20 DEF WriteSucceeds, WriteFails
    <3>2. NoSnapshots \in Answers /\ 0 \in Cursors
      BY DEF NoSnapshots, Answers, Cursors
    <3> QED BY <3>1, <3>2 DEF NoWrite, Writes
  <2>2. write.cursor \in Cursors
    BY <1>a DEF Writes
  <2>3. /\ Honest(Invalidate(page, write.cursor)) /\ Honest(BeginSync(page))
        /\ Honest(SessionLost(page))
    BY <1>a, <2>2, PageOperations, PageNews
  <2>4. Honest(Scheduled(Invalidate(page, write.cursor))) /\ Honest(Scheduled(BeginSync(page)))
    BY <2>3, PageOperations
  <2>5. Honest(page')
    BY <1>20, <2>3, <2>4 DEF WriteSucceeds, WriteFails
  <2>6. StreamInv'
    BY <1>20, <1>b DEF WriteSucceeds, WriteFails, streamVars
  <2> QED BY <1>20, <1>e, <2>1, <2>5, <2>6 DEF WriteSucceeds, WriteFails, ConsoleInv
<1> QED
  BY <1>1, <1>2, <1>3, <1>4, <1>5, <1>6, <1>7, <1>8, <1>9, <1>10, <1>11, <1>12, <1>13, <1>14,
     <1>15, <1>16, <1>17, <1>18, <1>19, <1>20 DEF ConsoleNext

LEMMA ConsoleStarts == ConsoleInit => ConsoleInv
<1> SUFFICES ASSUME ConsoleInit PROVE ConsoleInv
  OBVIOUS
<1>1. 0 \in Cursors /\ <<>> \in Seq(Cursors) /\ NoSnapshots \in Answers
  BY StreamBounds DEF Cursors, NoSnapshots, Answers
<1>2. Unused \in StreamRecords /\ \A h : Gapless(Unused, h)
  BY <1>1 DEF Unused, StreamRecords, Gapless
<1>3. StreamInv
  BY <1>1, <1>2 DEF ConsoleInit, StreamInit, StreamInv
<1>4. NoSource \in Sources
  BY <1>1 DEF NoSource, Source, Sources
<1>5. Honest(page)
  BY <1>1, <1>4 DEF ConsoleInit, Honest, Pages, Phases, NoSnapshots
<1>6. sync \in [Syncs -> Reads]
  BY <1>1 DEF ConsoleInit, IdleSync, Reads
<1>7. write \in Writes /\ write.pc = "none"
  BY <1>1 DEF ConsoleInit, NoWrite, Writes
<1> QED
  BY <1>3, <1>5, <1>6, <1>7 DEF ConsoleInv

LEMMA ConsoleInvariance == ConsoleSpec => []ConsoleInv
  BY ConsoleStarts, ConsoleInductive, PTL DEF ConsoleSpec

\* What a live stream has delivered, is sending, holds and has yet to fetch are
\* consecutive, in a queue that stays within its capacity.
THEOREM EventsArriveInOrder == ConsoleSpec => []NoSilentGap
<1>1. ASSUME ConsoleInv PROVE NoSilentGap
  <2> SUFFICES ASSUME NEW s \in Streams, stream[s].pc = "live"
               PROVE  /\ stream[s].fetched = stream[s].delivered + Len(Pipeline(s))
                      /\ \A i \in 1..Len(Pipeline(s)) : Pipeline(s)[i] = stream[s].delivered + i
                      /\ Len(stream[s].queue) <= QueueCapacity
    BY DEF NoSilentGap
  <2> DEFINE st == stream[s]
  <2>1. st \in StreamRecords /\ Consecutive(st)
    BY <1>1 DEF ConsoleInv, StreamInv, Gapless
  <2>2. st.queue \in Seq(Cursors) /\ st.delivered \in Nat
    BY <2>1, StreamBounds DEF StreamRecords, Cursors
  <2>3. CASE st.sending = None
    BY <2>1, <2>2, <2>3 DEF Consecutive, Pipeline
  <2>4. CASE st.sending # None
    <3> DEFINE pipe == <<st.sending>> \o st.queue
    <3>1. /\ st.sending = st.delivered + 1 /\ st.fetched = st.delivered + 1 + Len(st.queue)
          /\ \A i \in 1..Len(st.queue) : st.queue[i] = st.delivered + 1 + i
          /\ Len(st.queue) <= QueueCapacity /\ Len(st.queue) \in Nat
      BY <2>1, <2>2, <2>4 DEF Consecutive
    <3>2. Pipeline(s) = pipe
      BY <2>4 DEF Pipeline
    <3>3. /\ Len(pipe) = Len(st.queue) + 1 /\ pipe[1] = st.sending
          /\ \A i \in 2..Len(pipe) : pipe[i] = st.queue[i - 1]
      <4>1. <<st.sending>> \in Seq(Cursors)
        BY <2>1, <2>4 DEF StreamRecords
      <4> QED BY <2>2, <4>1
    <3> HIDE DEF pipe, st
    <3>4. Len(pipe) = Len(st.queue) + 1 /\ st.fetched = st.delivered + Len(pipe)
      <4>1. Len(pipe) = Len(st.queue) + 1
        BY <3>3
      <4>2. st.delivered + 1 + Len(st.queue) = st.delivered + (Len(st.queue) + 1)
        <5>1. \A a, b \in Nat : a + 1 + b = a + (b + 1)
          OBVIOUS
        <5> QED BY <2>2, <3>1, <5>1
      <4> QED BY <3>1, <4>1, <4>2
    <3>5. ASSUME NEW i \in 1..Len(pipe) PROVE pipe[i] = st.delivered + i
      <4>1. CASE i = 1
        BY <2>2, <3>1, <3>3, <4>1
      <4>2. CASE i # 1
        <5>1. i \in 2..Len(pipe) /\ i - 1 \in 1..Len(st.queue)
          BY <3>1, <3>3, <4>2
        <5>2. st.queue[i - 1] = st.delivered + 1 + (i - 1)
          BY <3>1, <5>1
        <5>3. i \in Nat /\ st.delivered + 1 + (i - 1) = st.delivered + i
          BY <2>2, <3>4
        <5>4. pipe[i] = st.queue[i - 1]
          BY <3>3, <5>1
        <5> QED BY <5>2, <5>3, <5>4
      <4> QED BY <4>1, <4>2
    <3> QED BY <3>1, <3>2, <3>4, <3>5 DEF st
  <2> QED BY <2>3, <2>4
<1> QED
  BY <1>1, ConsoleInvariance, PTL

\* A decision that is committed was taken on what the log held right before it.
THEOREM NoBlindDecision == ConsoleSpec => DecisionsAreInformed
<1>1. ConsoleInv /\ [ConsoleNext]_vars =>
        [write.pc # "committed" /\ write'.pc = "committed" => \A k \in Kinds : write.shown[k] = head]_vars
  <2> SUFFICES ASSUME ConsoleInv, ConsoleNext, write.pc # "committed", write'.pc = "committed"
               PROVE  \A k \in Kinds : write.shown[k] = head
    BY DEF vars
  <2>1. write \in Writes /\ write' # write
    BY DEF ConsoleInv
  <2>2. ~UserWrites /\ ~Answer /\ ~WriteSucceeds /\ ~WriteFails
    BY DEF UserWrites, Answer, WriteSucceeds, WriteFails, NoWrite
  <2>3. ~CheckStream /\ ~CheckCursors /\ ~ExecuteRefused
    BY <2>1 DEF CheckStream, CheckCursors, ExecuteRefused, WriteTo, Writes
  <2>4. \A s \in Streams : ~Connect(s) /\ ~Receive(s) /\ ~ConnectionLost(s)
    BY <2>1 DEF Connect, Receive, ConnectionLost
  <2>5. \A y \in Syncs : /\ ~StartSync(y) /\ ~SyncFails(y) /\ ~SyncReturns(y)
                         /\ \A k \in Kinds : ~ReadSnapshot(y, k)
    BY <2>1 DEF StartSync, SyncFails, SyncReturns, ReadSnapshot
  <2>6. /\ ~StartDashboard /\ ~OnServer /\ ~ConnectRefused
        /\ ~UserSelects /\ ~UserCloses /\ ~UserRefreshes /\ ~UserReconnects
    BY <2>1 DEF StartDashboard, OnServer, ConnectRefused, UserSelects, UserCloses, UserRefreshes,
                UserReconnects
  <2>7. Execute
    BY <2>2, <2>3, <2>4, <2>5, <2>6 DEF ConsoleNext
  <2> QED BY <2>7 DEF Execute, ConsoleInv
<1> QED
  BY <1>1, ConsoleInvariance, PTL DEF ConsoleSpec, DecisionsAreInformed


(***************************************************************************)
(* Launch secrets and sessions.                                            *)
(***************************************************************************)

Secrets == [n : 0..launches, expired : BOOLEAN, failures : 0..(MaxLaunchFailures - 1)]
Handlers == {NoHandler} \cup [pc : {"exchanging"}, n : 1..launches]
              \cup [pc : {"leaving"}, cookie : Cookies, key : LogoutKeys]

\* A launch secret is in one place: not made yet, to be used, on its way to a session in
\* one handler, or the origin of one cookie.
AccessInv ==
  /\ launches \in Nat /\ launches <= MaxLaunches
  /\ secret \in Secrets
  /\ sessions \subseteq Cookies
  /\ replays \in [Cookies -> LogoutKeys \cup {NoKey}]
  /\ opened \in [Cookies -> 0..launches]
  /\ http \in [HttpRequests -> Handlers]
  /\ \A c, d \in Cookies : opened[c] # 0 /\ opened[c] = opened[d] => c = d
  /\ \A c \in Cookies : secret.n # 0 => opened[c] # secret.n
  /\ \A q \in HttpRequests : http[q].pc = "exchanging" =>
       /\ http[q].n # secret.n
       /\ \A c \in Cookies : opened[c] # http[q].n
       /\ \A p \in HttpRequests : http[p].pc = "exchanging" /\ http[p].n = http[q].n => p = q
  /\ \A c \in sessions : opened[c] # 0 /\ replays[c] = NoKey
  /\ \A c \in Cookies : opened[c] = 0 => replays[c] = NoKey
  /\ \A q \in HttpRequests : http[q].pc = "leaving" => opened[http[q].cookie] # 0

LEMMA AccessInductive == AccessInv /\ [AccessNext]_accessVars => AccessInv'
<1> SUFFICES ASSUME AccessInv, [AccessNext]_accessVars PROVE AccessInv'
  OBVIOUS
<1> USE AccessAssumption DEF Secrets, Handlers, NoHandler, NoSecret
<1>1. CASE UNCHANGED accessVars
  BY <1>1 DEF accessVars, AccessInv
<1>2. CASE ActivateLaunchSecret
  <2>1. /\ launches' = launches + 1 /\ launches' \in Nat /\ launches' <= MaxLaunches
        /\ secret' = [n |-> launches', expired |-> FALSE, failures |-> 0]
        /\ UNCHANGED <<sessions, replays, http, opened>>
    <3>1. launches < MaxLaunches /\ launches' = launches + 1
      BY <1>2 DEF ActivateLaunchSecret
    <3>2. launches' \in Nat /\ launches' <= MaxLaunches
      BY <3>1 DEF AccessInv
    <3>3. secret' = [n |-> launches', expired |-> FALSE, failures |-> 0]
      BY <1>2 DEF ActivateLaunchSecret
    <3>4. UNCHANGED <<sessions, replays, http, opened>>
      BY <1>2 DEF ActivateLaunchSecret
    <3> QED
      BY <3>1, <3>2, <3>3, <3>4
  <2>2. /\ \A c \in Cookies : opened[c] \in 0..launches
        /\ \A q \in HttpRequests : http[q].pc = "exchanging" => http[q].n \in 1..launches
    BY DEF AccessInv
  <2>3. secret' \in Secrets'
    BY <2>1
  <2>4. opened' \in [Cookies -> 0..launches'] /\ http' \in [HttpRequests -> Handlers']
    <3>1. 0..launches \subseteq 0..launches' /\ 1..launches \subseteq 1..launches'
      BY <2>1 DEF AccessInv
    <3> QED BY <2>1, <3>1 DEF AccessInv
  <2>5. \A c \in Cookies : opened'[c] # secret'.n
    BY <2>1, <2>2 DEF AccessInv
  <2>6. \A q \in HttpRequests : http'[q].pc = "exchanging" => http'[q].n # secret'.n
    BY <2>1, <2>2 DEF AccessInv
  <2> QED
    BY <2>1, <2>3, <2>4, <2>5, <2>6 DEF AccessInv
<1>3. CASE SecretExpires
  BY <1>3 DEF SecretExpires, AccessInv
<1>4. CASE RevokeAll
  BY <1>4 DEF RevokeAll, AccessInv
<1>5. ASSUME NEW n \in 1..MaxLaunches, ExchangeRefused(n) PROVE AccessInv'
  BY <1>5 DEF ExchangeRefused, Unusable, Failure, AccessInv
<1>6. ASSUME NEW n \in 1..MaxLaunches, NEW q \in HttpRequests, ConsumeSecret(q, n)
      PROVE  AccessInv'
  BY <1>6 DEF ConsumeSecret, Unusable, AccessInv
<1>7. ASSUME NEW q \in HttpRequests, NEW c \in Cookies, OpenSession(q, c) PROVE AccessInv'
  BY <1>7 DEF OpenSession, AccessInv
<1>8. ASSUME NEW q \in HttpRequests, NEW c \in Cookies, NEW k \in LogoutKeys, Logout(q, c, k)
      PROVE  AccessInv'
  BY <1>8 DEF Logout, AccessInv
<1>9. ASSUME NEW q \in HttpRequests, LoggedOut(q) PROVE AccessInv'
  BY <1>9 DEF LoggedOut, AccessInv
<1> QED
  BY <1>1, <1>2, <1>3, <1>4, <1>5, <1>6, <1>7, <1>8, <1>9 DEF AccessNext

\* A page that is opened leads to one session at most, and a session that has ended stays
\* ended.
THEOREM OneSessionPerSecret == AccessSpec => []SecretOpensOneSession
<1>1. AccessInit => AccessInv
  BY AccessAssumption DEF AccessInit, AccessInv, Secrets, Handlers, NoHandler, NoSecret
<1>2. AccessInv => SecretOpensOneSession
  BY DEF AccessInv, SecretOpensOneSession
<1> QED
  BY <1>1, <1>2, AccessInductive, PTL DEF AccessSpec

(***************************************************************************)
(* Previews and confirmations.                                             *)
(***************************************************************************)

Facts == [cursor : 0..MaxCommits, revision : 0..MaxCommits, left : BOOLEAN]
Confirmations ==
  {NoConfirmation} \cup [state : {"live", "gone"}, session : HttpSessions, action : Actions,
                         shown : [revision : 0..MaxCommits, left : BOOLEAN]]
RequestRecords ==
  {NoRequest} \cup [pc : {"cursor", "rebuild", "commit", "driver"}, session : HttpSessions,
                    action : Actions, token : Tokens, key : Keys, cursor : 0..MaxCommits,
                    revision : 0..MaxCommits]
Executions == [token : Tokens, action : Actions, key : Keys, revision : 0..MaxCommits]

\* The token is taken and nothing is committed for it.
HasTaken(r, t) == request[r].pc \in {"rebuild", "commit"} /\ request[r].token = t

RequestsTyped ==
  /\ fact \in Facts /\ fact.revision <= fact.cursor
  /\ confirmation \in [Tokens -> Confirmations]
  /\ request \in [Requests -> RequestRecords]
  /\ \A r \in Requests : request[r] # NoRequest => confirmation[request[r].token] # NoConfirmation
  /\ receipts \subseteq Actions \X Keys
  /\ done \subseteq Executions

\* A token that is taken is gone for ever, and one request holds it.
TakenOnce ==
  \A r \in Requests, t \in Tokens : HasTaken(r, t) =>
    /\ confirmation[t].state = "gone"
    /\ request[r].revision = confirmation[t].shown.revision
    /\ \A d \in done : d.token # t
    /\ \A q \in Requests : HasTaken(q, t) => q = r

\* It is used for one commit, of the revision that was shown with it, which leaves a
\* receipt of its key.
UsedOnce ==
  /\ \A d \in done : /\ confirmation[d.token].state = "gone"
                     /\ d.revision = confirmation[d.token].shown.revision
                     /\ <<d.action, d.key>> \in receipts
  /\ \A d, e \in done : d.token = e.token \/ <<d.action, d.key>> = <<e.action, e.key>> => d = e

RequestsInv == RequestsTyped /\ TakenOnce /\ UsedOnce

LEMMA RequestsInductive == RequestsInv /\ [RequestsNext]_requestVars => RequestsInv'
<1> SUFFICES ASSUME RequestsInv, [RequestsNext]_requestVars PROVE RequestsInv'
  OBVIOUS
<1>a. RequestsTyped /\ TakenOnce /\ UsedOnce
  BY DEF RequestsInv
<1>b. ASSUME UNCHANGED <<confirmation, receipts, done>> PROVE UsedOnce'
  BY <1>a, <1>b DEF UsedOnce
\* A step that takes no token and uses none: the requests it touches no longer hold one,
\* and of the confirmations it leaves what was shown, and "gone" what is gone.
<1>c. ASSUME UNCHANGED <<receipts, done>>,
             \A r \in Requests : request'[r] = request[r]
                                \/ request'[r].pc \notin {"rebuild", "commit"},
             \A t \in Tokens : confirmation[t].state = "gone" => confirmation'[t] = confirmation[t]
      PROVE  TakenOnce' /\ UsedOnce'
  <2>1. \A r \in Requests, t \in Tokens : HasTaken(r, t)' => HasTaken(r, t) /\ request'[r] = request[r]
    BY <1>c DEF HasTaken
  <2>2. TakenOnce'
    BY <1>a, <1>c, <2>1 DEF TakenOnce
  <2>3. \A d \in done : d.token \in Tokens
    BY <1>a DEF RequestsTyped, Executions
  <2>4. UsedOnce'
    BY <1>a, <1>c, <2>3 DEF UsedOnce
  <2> QED BY <2>2, <2>4
<1> USE RequestsAssumption
<1>1. CASE UNCHANGED requestVars
  <2>1. RequestsTyped'
    BY <1>1, <1>a DEF requestVars, RequestsTyped
  <2> QED BY <1>1, <1>c, <2>1 DEF requestVars, RequestsInv
<1>2. CASE SomebodyCommits
  <2>1. fact' \in Facts /\ fact'.revision <= fact'.cursor
    <3>1. /\ fact \in Facts /\ fact.revision <= fact.cursor /\ fact.cursor < MaxCommits
          /\ \E v \in {fact.revision, fact.revision + 1} :
                fact' = [fact EXCEPT !.cursor = @ + 1, !.revision = v]
      BY <1>2, <1>a DEF SomebodyCommits, RequestsTyped
    <3>2. PICK v \in {fact.revision, fact.revision + 1} :
                fact' = [fact EXCEPT !.cursor = @ + 1, !.revision = v]
      BY <3>1
    <3>3. fact' = [cursor |-> fact.cursor + 1, revision |-> v, left |-> fact.left]
      BY <3>1, <3>2 DEF Facts
    <3> QED BY <3>1, <3>2, <3>3 DEF Facts
  <2>2. RequestsTyped'
    BY <1>2, <1>a, <2>1 DEF SomebodyCommits, RequestsTyped
  <2> QED BY <1>2, <1>c, <2>2 DEF SomebodyCommits, RequestsInv
<1>3. CASE ResourcesGo
  <2>1. RequestsTyped'
    BY <1>3, <1>a DEF ResourcesGo, RequestsTyped, Facts
  <2> QED BY <1>3, <1>c, <2>1 DEF ResourcesGo, RequestsInv
<1>4. CASE RestartServer
  <2>1. RequestsTyped'
    BY <1>4, <1>a DEF RestartServer, RequestsTyped, Confirmations, NoConfirmation, RequestRecords
  <2>2. \A t \in Tokens : confirmation[t].state = "gone" => confirmation'[t] = confirmation[t]
    BY <1>4, <1>a DEF RestartServer, RequestsTyped
  <2>3. \A r \in Requests : request'[r].pc \notin {"rebuild", "commit"}
    BY <1>4 DEF RestartServer, NoRequest
  <2> QED BY <1>4, <1>c, <2>1, <2>2, <2>3 DEF RestartServer, RequestsInv
<1>5. ASSUME NEW t \in Tokens, NEW s \in HttpSessions, NEW a \in Actions, Preview(t, s, a)
      PROVE  RequestsInv'
  <2>1. View(a) \in [revision : 0..MaxCommits, left : BOOLEAN]
    <3>1. (IF a = "cleanup" THEN fact.left ELSE FALSE) \in BOOLEAN
      BY <1>a DEF RequestsTyped, Facts
    <3>2. fact.revision \in 0..MaxCommits
      BY <1>a DEF RequestsTyped, Facts
    <3> QED BY <3>1, <3>2 DEF View
  <2>2. [state |-> "live", session |-> s, action |-> a, shown |-> View(a)] \in Confirmations
    BY <2>1 DEF Confirmations
  <2>3. RequestsTyped'
    <3>1. /\ confirmation' \in [Tokens -> Confirmations]
          /\ \A u \in Tokens : confirmation[u] # NoConfirmation => confirmation'[u] = confirmation[u]
      BY <1>5, <1>a, <2>2 DEF Preview, RequestsTyped, Confirmations, NoConfirmation
    <3>2. \A r \in Requests : request[r] # NoRequest => request[r].token \in Tokens
      BY <1>a DEF RequestsTyped, RequestRecords
    <3> QED BY <1>5, <1>a, <3>1, <3>2 DEF Preview, RequestsTyped
  <2>4. \A u \in Tokens : confirmation[u].state = "gone" => confirmation'[u] = confirmation[u]
    BY <1>5, <1>a DEF Preview, RequestsTyped
  <2> QED BY <1>5, <1>c, <2>3, <2>4 DEF Preview, RequestsInv
<1>6. ASSUME NEW t \in Tokens, ConfirmationExpires(t) PROVE RequestsInv'
  <2>1. RequestsTyped'
    BY <1>6, <1>a DEF ConfirmationExpires, RequestsTyped, Confirmations, NoConfirmation
  <2>2. \A u \in Tokens : confirmation[u].state = "gone" => confirmation'[u] = confirmation[u]
    BY <1>6, <1>a DEF ConfirmationExpires, RequestsTyped
  <2> QED BY <1>6, <1>c, <2>1, <2>2 DEF ConfirmationExpires, RequestsInv
<1>7. ASSUME NEW s \in Scopes, EntryExpires(s) PROVE RequestsInv'
  <2>1. RequestsTyped'
    BY <1>7, <1>a DEF EntryExpires, RequestsTyped
  <2> QED BY <1>7, <1>c, <2>1 DEF EntryExpires, RequestsInv
<1>d. ASSUME NEW r \in Requests, NEW code, Replies(r, code),
             UNCHANGED <<fact, confirmation, receipts, done>>
      PROVE  RequestsInv'
  <2>1. RequestsTyped'
    BY <1>d, <1>a DEF Replies, RequestsTyped, RequestRecords
  <2>2. \A q \in Requests : request'[q] = request[q] \/ request'[q].pc \notin {"rebuild", "commit"}
    BY <1>d, <1>a DEF Replies, RequestsTyped, NoRequest
  <2> QED BY <1>d, <1>c, <2>1, <2>2 DEF RequestsInv
<1>8. ASSUME NEW r \in Requests, NEW t \in Tokens, NEW k \in Keys,
             NEW c \in 0..fact.cursor, Confirm(r, t, k, c)
      PROVE  RequestsInv'
  <2> DEFINE q == [pc |-> "cursor", session |-> confirmation[t].session,
                   action |-> confirmation[t].action, token |-> t, key |-> k,
                   cursor |-> c, revision |-> confirmation[t].shown.revision]
  <2>1. CASE request' = [request EXCEPT ![r] = q]
    <3>1. confirmation[t] \in Confirmations \ {NoConfirmation} /\ c \in 0..MaxCommits
      <4>1. confirmation[t] \in Confirmations \ {NoConfirmation}
        <5>1. confirmation[t].state # "none"
          BY <1>8 DEF Confirm
        <5> QED BY <1>a, <5>1 DEF RequestsTyped, NoConfirmation
      <4>2. c \in 0..MaxCommits
        BY <1>a DEF RequestsTyped, Facts
      <4> QED BY <4>1, <4>2
    <3>2. q \in RequestRecords
      BY <3>1 DEF Confirmations, RequestRecords
    <3>3. RequestsTyped'
      <4>1. UNCHANGED <<fact, confirmation, receipts, done>>
        BY <1>8 DEF Confirm
      <4>2. request' \in [Requests -> RequestRecords]
        BY <1>a, <2>1, <3>2 DEF RequestsTyped
      <4>3. \A p \in Requests : request'[p] # NoRequest => confirmation[request'[p].token] # NoConfirmation
        BY <1>a, <2>1, <3>1 DEF RequestsTyped
      <4> QED BY <1>a, <4>1, <4>2, <4>3 DEF RequestsTyped
    <3>4. \A p \in Requests : request'[p] = request[p] \/ request'[p].pc \notin {"rebuild", "commit"}
      BY <1>a, <2>1 DEF RequestsTyped
    <3> QED BY <1>8, <1>c, <3>3, <3>4 DEF Confirm, RequestsInv
  <2>2. CASE \E code : Replies(r, code)
    BY <1>8, <1>d, <2>2 DEF Confirm
  <2> QED BY <1>8, <2>1, <2>2 DEF Confirm
<1>9. ASSUME NEW r \in Requests, ConsumeToken(r) PROVE RequestsInv'
  <2> DEFINE t == request[r].token
  <2>1. request[r] \in RequestRecords \ {NoRequest} /\ t \in Tokens /\ request[r].pc = "cursor"
    BY <1>9, <1>a DEF ConsumeToken, RequestsTyped, RequestRecords, NoRequest
  <2>2. /\ confirmation' = [confirmation EXCEPT ![t].state = "gone"]
        /\ UNCHANGED <<fact, receipts, done>>
    BY <1>9 DEF ConsumeToken
  <2>a. confirmation[t] \in Confirmations \ {NoConfirmation}
    BY <1>a, <2>1 DEF RequestsTyped
  <2>b. /\ confirmation' \in [Tokens -> Confirmations]
        /\ \A u \in Tokens : confirmation[u] # NoConfirmation => confirmation'[u] # NoConfirmation
    BY <1>a, <2>1, <2>2, <2>a DEF RequestsTyped, Confirmations, NoConfirmation
  <2>3. \A u \in Tokens : confirmation[u].state = "gone" => confirmation'[u] = confirmation[u]
    BY <1>a, <2>1, <2>2, <2>a DEF RequestsTyped, Confirmations
  <2>4. CASE Matches(r)
    <3>1. request' = [request EXCEPT ![r].pc = "rebuild"]
      BY <1>9, <2>4 DEF ConsumeToken
    <3>2. confirmation[t].state = "live" /\ confirmation[t].shown.revision = request[r].revision
      BY <2>4 DEF Matches
    <3>5. request' \in [Requests -> RequestRecords]
      BY <1>a, <2>1, <3>1 DEF RequestsTyped, RequestRecords
    <3>6. confirmation'[t].state = "gone" /\ confirmation'[t].shown.revision = request'[r].revision
      BY <1>a, <2>1, <2>2, <2>a, <3>1, <3>2 DEF RequestsTyped, RequestRecords, Confirmations
    <3>7. \A d \in done : d.token # t
      BY <1>a, <3>2 DEF UsedOnce
    <3>8. \A q \in Requests, u \in Tokens :
             HasTaken(q, u)' <=> (q = r /\ u = t) \/ (q # r /\ HasTaken(q, u))
      BY <1>a, <2>1, <3>1 DEF RequestsTyped, RequestRecords, NoRequest, HasTaken
    <3>9. \A q \in Requests : ~HasTaken(q, t)
      BY <1>a, <2>1, <3>2 DEF TakenOnce
    <3>10. TakenOnce'
      <4> SUFFICES ASSUME NEW q \in Requests, NEW u \in Tokens, HasTaken(q, u)'
                   PROVE  /\ confirmation'[u].state = "gone"
                          /\ request'[q].revision = confirmation'[u].shown.revision
                          /\ \A d \in done' : d.token # u
                          /\ \A p \in Requests : HasTaken(p, u)' => p = q
        BY DEF TakenOnce
      <4>1. CASE q = r
        BY <2>2, <3>6, <3>7, <3>8, <3>9, <4>1
      <4>2. CASE q # r
        <5>1. HasTaken(q, u) /\ u # t /\ request'[q] = request[q]
          BY <1>a, <3>1, <3>8, <3>9, <4>2 DEF RequestsTyped
        <5> QED BY <1>a, <2>2, <2>3, <3>8, <5>1 DEF TakenOnce
      <4> QED BY <4>1, <4>2
    <3>11. \A d \in done : d.token \in Tokens
      BY <1>a DEF RequestsTyped, Executions
    <3>12. UsedOnce'
      BY <1>a, <2>2, <2>3, <3>11 DEF UsedOnce
    <3>13. \A q \in Requests : request'[q] # NoRequest => confirmation'[request'[q].token] # NoConfirmation
      BY <1>a, <2>1, <2>b, <3>1 DEF RequestsTyped, RequestRecords, NoRequest
    <3> QED BY <1>a, <2>2, <2>b, <3>5, <3>10, <3>12, <3>13 DEF RequestsTyped, RequestsInv
  <2>5. CASE ~Matches(r)
    <3>1. request' = [request EXCEPT ![r] = NoRequest]
      BY <1>9, <2>5 DEF ConsumeToken, Fails, Replies
    <3>2. RequestsTyped'
      BY <1>a, <2>1, <2>2, <2>b, <3>1 DEF RequestsTyped, RequestRecords, NoRequest
    <3>3. \A q \in Requests : request'[q] = request[q] \/ request'[q].pc \notin {"rebuild", "commit"}
      BY <1>a, <3>1 DEF RequestsTyped, NoRequest
    <3> QED BY <1>c, <2>2, <2>3, <3>2, <3>3 DEF RequestsInv
  <2> QED BY <2>4, <2>5
<1>10. ASSUME NEW r \in Requests, StaleCursor(r) \/ CommitRefused(r) \/ Settles(r)
       PROVE  RequestsInv'
  BY <1>10, <1>d DEF StaleCursor, CommitRefused, Settles, Fails
<1>11. ASSUME NEW r \in Requests, Rebuild(r) PROVE RequestsInv'
  <2> DEFINE shows == View(request[r].action) = confirmation[request[r].token].shown
  <2>1. CASE shows
    <3>1. /\ request' = [request EXCEPT ![r].pc = "commit"]
          /\ request[r].pc = "rebuild"
          /\ UNCHANGED <<fact, confirmation, receipts, done>>
      BY <1>11, <2>1 DEF Rebuild
    <3>2. request[r] \in RequestRecords \ {NoRequest}
      BY <1>a, <3>1 DEF RequestsTyped, NoRequest
    <3>3. RequestsTyped'
      BY <1>a, <3>1, <3>2 DEF RequestsTyped, RequestRecords, NoRequest
    <3>4. \A q \in Requests, u \in Tokens : /\ HasTaken(q, u)' <=> HasTaken(q, u)
                                            /\ request'[q].revision = request[q].revision
      BY <1>a, <3>1, <3>2 DEF RequestsTyped, RequestRecords, HasTaken
    <3>5. TakenOnce'
      BY <1>a, <3>1, <3>4 DEF TakenOnce
    <3> QED BY <1>b, <3>1, <3>3, <3>5 DEF RequestsInv
  <2>2. CASE ~shows
    BY <1>11, <1>d, <2>2 DEF Rebuild, Fails
  <2> QED BY <2>1, <2>2
<1>12. ASSUME NEW r \in Requests, CommitAction(r) PROVE RequestsInv'
  <2> DEFINE d == [token |-> request[r].token, action |-> request[r].action,
                   key |-> request[r].key, revision |-> fact.revision]
  <2>1. /\ request[r].pc = "commit" /\ Accepted(r) /\ fact.cursor < MaxCommits
        /\ fact' = [fact EXCEPT !.cursor = @ + 1, !.revision = @ + 1]
        /\ receipts' = receipts \cup {Receipt(r)}
        /\ done' = done \cup {d}
        /\ request' = [request EXCEPT ![r].pc = "driver"]
        /\ UNCHANGED <<confirmation, cache>>
    BY <1>12 DEF CommitAction
  <2>2. /\ request[r] \in RequestRecords \ {NoRequest}
        /\ d \in Executions /\ d.token \in Tokens /\ Receipt(r) \in Actions \X Keys
    BY <1>a, <2>1 DEF RequestsTyped, RequestRecords, NoRequest, Facts, Executions, Receipt
  <2>3. fact' \in Facts /\ fact'.revision <= fact'.cursor
    <3>1. /\ fact' = [cursor |-> fact.cursor + 1, revision |-> fact.revision + 1, left |-> fact.left]
          /\ fact \in Facts /\ fact.revision <= fact.cursor
      BY <1>a, <2>1 DEF RequestsTyped, Facts
    <3> QED BY <2>1, <3>1 DEF Facts
  <2>4. request' \in [Requests -> RequestRecords]
    BY <1>a, <2>1, <2>2 DEF RequestsTyped, RequestRecords
  <2>5. \A q \in Requests : request'[q] # NoRequest => confirmation'[request'[q].token] # NoConfirmation
    BY <1>a, <2>1, <2>2 DEF RequestsTyped, RequestRecords, NoRequest
  <2>6. RequestsTyped'
    BY <1>a, <2>1, <2>2, <2>3, <2>4, <2>5 DEF RequestsTyped
  <2>7. /\ confirmation[d.token].state = "gone"
        /\ d.revision = confirmation[d.token].shown.revision
        /\ \A e \in done : e.token # d.token
        /\ \A q \in Requests : HasTaken(q, d.token) => q = r
    BY <1>a, <2>1, <2>2 DEF TakenOnce, HasTaken, Accepted
  <2>8. \A q \in Requests, u \in Tokens : HasTaken(q, u)' => HasTaken(q, u) /\ q # r /\ request'[q] = request[q]
    BY <1>a, <2>1, <2>2 DEF RequestsTyped, RequestRecords, HasTaken
  <2>9. TakenOnce'
    BY <1>a, <2>1, <2>7, <2>8 DEF TakenOnce
  <2>10. \A e \in done : <<e.action, e.key>> # <<d.action, d.key>>
    BY <1>a, <2>1 DEF UsedOnce, Accepted, Receipt
  <2>11. <<d.action, d.key>> \in receipts'
    BY <2>1 DEF Receipt
  <2>12. UsedOnce'
    BY <1>a, <2>1, <2>7, <2>10, <2>11 DEF UsedOnce
  <2> QED BY <2>6, <2>9, <2>12 DEF RequestsInv
<1> QED
  BY <1>1, <1>2, <1>3, <1>4, <1>5, <1>6, <1>7, <1>8, <1>9, <1>10, <1>11, <1>12
  DEF RequestsNext

\* An action is executed once for its token and once for its key, on the run as it was
\* shown.
THEOREM ExecutedOnce == RequestsSpec => []ExecutedOnceAsShown
<1>1. RequestsInit => RequestsInv
  BY RequestsAssumption DEF RequestsInit, RequestsInv, RequestsTyped, TakenOnce, UsedOnce, Facts,
     Confirmations, RequestRecords, Executions, NoConfirmation, NoRequest, HasTaken
<1>2. RequestsInv => ExecutedOnceAsShown
  BY DEF RequestsInv, UsedOnce, ExecutedOnceAsShown
<1> QED
  BY <1>1, <1>2, RequestsInductive, PTL DEF RequestsSpec

(***************************************************************************)
(* The shares of the four buckets.                                         *)
(***************************************************************************)
One(P) == IF P THEN 1 ELSE 0
NumberOf4(S) == One(1 \in S) + One(2 \in S) + One(3 \in S) + One(4 \in S)

LEMMA CountsOfFour ==
  ASSUME NEW S \in SUBSET (1..4)
  PROVE  Cardinality(S) = NumberOf4(S)
<1> DEFINE U(n) == {i \in S : i <= n}
<1>1. IsFiniteSet(U(0)) /\ Cardinality(U(0)) = 0
  <2>1. U(0) = {}
    <3>1. \A i \in S : ~(i <= 0)
      OBVIOUS
    <3> QED BY <3>1
  <2> HIDE DEF U
  <2> QED BY <2>1, FS_EmptySet
<1>2. ASSUME NEW n \in 0..3, IsFiniteSet(U(n)), Cardinality(U(n)) \in Nat
      PROVE  IsFiniteSet(U(n + 1)) /\ Cardinality(U(n + 1)) = Cardinality(U(n)) + One(n + 1 \in S)
  <2>1. n + 1 \notin U(n)
    OBVIOUS
  <2>2. CASE n + 1 \in S
    <3>1. U(n + 1) = U(n) \cup {n + 1}
      <4>1. \A i \in S : i <= n + 1 <=> i <= n \/ i = n + 1
        OBVIOUS
      <4>2. n + 1 <= n + 1
        OBVIOUS
      <4> QED BY <2>2, <4>1, <4>2
    <3> HIDE DEF U
    <3> QED BY <1>2, <2>1, <2>2, <3>1, FS_AddElement DEF One
  <2>3. CASE n + 1 \notin S
    <3>1. U(n + 1) = U(n)
      <4>1. \A i \in S : i <= n + 1 <=> i <= n
        BY <2>3
      <4> QED BY <4>1
    <3> HIDE DEF U
    <3> QED BY <1>2, <2>3, <3>1 DEF One
  <2> QED BY <2>2, <2>3
<1>3. U(4) = S
  <2>1. \A i \in S : i <= 4
    OBVIOUS
  <2> QED BY <2>1
<1>4. \A P : One(P) \in Nat
  BY DEF One
<1> HIDE DEF U
<1>5. IsFiniteSet(U(1)) /\ Cardinality(U(1)) = One(1 \in S)
  <2>1. 0 \in 0..3 /\ 0 + 1 = 1
    OBVIOUS
  <2> QED BY <1>1, <1>2, <1>4, <2>1
<1>6. IsFiniteSet(U(2)) /\ Cardinality(U(2)) = One(1 \in S) + One(2 \in S)
  <2>1. 1 \in 0..3 /\ 1 + 1 = 2
    OBVIOUS
  <2> QED BY <1>2, <1>4, <1>5, <2>1
<1>7. IsFiniteSet(U(3)) /\ Cardinality(U(3)) = One(1 \in S) + One(2 \in S) + One(3 \in S)
  <2>1. 2 \in 0..3 /\ 2 + 1 = 3
    OBVIOUS
  <2> QED BY <1>2, <1>4, <1>6, <2>1
<1>8. IsFiniteSet(U(4)) /\ Cardinality(U(4)) = One(1 \in S) + One(2 \in S) + One(3 \in S) + One(4 \in S)
  <2>1. 3 \in 0..3 /\ 3 + 1 = 4
    OBVIOUS
  <2> QED BY <1>2, <1>4, <1>7, <2>1
<1> QED BY <1>3, <1>8 DEF NumberOf4

\* The largest remainders r of four get one more each, d of them; b(i) come before r(i).
ComeBefore(r1, r2, r3, r4, b1, b2, b3, b4) ==
  /\ b1 = One(r2 > r1) + One(r3 > r1) + One(r4 > r1)
  /\ b2 = One(r1 >= r2) + One(r3 > r2) + One(r4 > r2)
  /\ b3 = One(r1 >= r3) + One(r2 >= r3) + One(r4 > r3)
  /\ b4 = One(r1 >= r4) + One(r2 >= r4) + One(r3 >= r4)

Awarded(r1, r2, r3, r4, b1, b2, b3, b4, d) ==
  /\ d \in 0..3
  /\ One(b1 < d) + One(b2 < d) + One(b3 < d) + One(b4 < d) = d
  /\ b1 < d => r1 > 0
  /\ b2 < d => r2 > 0
  /\ b3 < d => r3 > 0
  /\ b4 < d => r4 > 0

LEMMA LargestRemainders ==
  ASSUME NEW r1 \in Nat, NEW r2 \in Nat, NEW r3 \in Nat, NEW r4 \in Nat,
         NEW total \in Nat, total > 0, r1 < total, r2 < total, r3 < total, r4 < total,
         NEW d \in Int, d * total = r1 + r2 + r3 + r4,
         NEW b1, NEW b2, NEW b3, NEW b4, ComeBefore(r1, r2, r3, r4, b1, b2, b3, b4)
  PROVE  Awarded(r1, r2, r3, r4, b1, b2, b3, b4, d)
<1> USE DEF ComeBefore, Awarded
<1>1. d >= 0
  <2>1. d * total >= 0
    OBVIOUS
  <2>2. d < 0 => d * total < 0
    OBVIOUS
  <2> QED BY <2>1, <2>2
<1>2. d < 4
  <2>1. d * total < 4 * total
    OBVIOUS
  <2>2. d >= 4 => d * total >= 4 * total
    OBVIOUS
  <2> QED BY <2>1, <2>2
<1>3. d = 0 \/ d = 1 \/ d = 2 \/ d = 3
  BY <1>1, <1>2
<1>4. CASE d = 0
  <2>1. r1 + r2 + r3 + r4 = 0
    BY <1>4
  <2> QED BY <1>4, <2>1 DEF One
<1>5. CASE d = 1
  <2>1. r1 + r2 + r3 + r4 = total
    BY <1>5
  <2> QED BY <1>5, <2>1 DEF One
<1>6. CASE d = 2
  <2>1. r1 + r2 + r3 + r4 = 2 * total
    BY <1>6
  <2> QED BY <1>6, <2>1 DEF One
<1>7. CASE d = 3
  <2>1. r1 + r2 + r3 + r4 = 3 * total
    BY <1>7
  <2> QED BY <1>7, <2>1 DEF One
<1> QED BY <1>3, <1>4, <1>5, <1>6, <1>7

LEMMA Division ==
  ASSUME NEW a \in Nat, NEW t \in Nat, t > 0
  PROVE  /\ a \div t \in Nat /\ a % t \in Nat /\ a % t < t
         /\ a = t * (a \div t) + (a % t)
  OBVIOUS

\* The larger of two numbers has the larger quotient, or the larger remainder.
LEMMA Quotients ==
  ASSUME NEW a \in Nat, NEW b \in Nat, a > b, NEW t \in Nat, t > 0,
         NEW f \in Nat, NEW g \in Nat, NEW r \in Nat, NEW q \in Nat, r < t, q < t,
         a = t * f + r, b = t * g + q
  PROVE  f >= g /\ (f = g => r > q)
<1>1. f < g => t * f + t <= t * g
  <2>1. f < g => f + 1 <= g
    OBVIOUS
  <2>2. f + 1 <= g => t * (f + 1) <= t * g
    OBVIOUS
  <2>3. t * (f + 1) = t * f + t
    OBVIOUS
  <2> QED BY <2>1, <2>2, <2>3
<1> DEFINE ft == t * f
           gt == t * g
<1>2. ft \in Nat /\ gt \in Nat /\ (f < g => ft + t <= gt) /\ a = ft + r /\ b = gt + q /\ (f = g => ft = gt)
  BY <1>1
<1> HIDE DEF ft, gt
<1> QED BY <1>2

LEMMA SharesAreFair ==
  ASSUME NEW counts \in [1..4 -> Nat]
  PROVE  /\ SumOf(counts) > 0 => SumOf(Shares(counts)) = SharePoints
         /\ SumOf(counts) > 0 => \A b \in 1..4 :
              LET off == Shares(counts)[b] * SumOf(counts) - counts[b] * SharePoints
              IN off < SumOf(counts) /\ off > -SumOf(counts)
         /\ \A b, c \in 1..4 : counts[b] > counts[c] => Shares(counts)[b] >= Shares(counts)[c]
<1> DEFINE total == SumOf(counts)
           shares == Shares(counts)
           floor(i) == (counts[i] * SharePoints) \div total
           rest(i) == (counts[i] * SharePoints) % total
           before(i) == {j \in 1..4 : rest(j) > rest(i) \/ (rest(j) = rest(i) /\ j < i)}
           d == SharePoints - (floor(1) + floor(2) + floor(3) + floor(4))
           more(i) == One(Cardinality(before(i)) < d)
<1>1. /\ 1 \in 1..4 /\ 2 \in 1..4 /\ 3 \in 1..4 /\ 4 \in 1..4
      /\ \A i \in 1..4 : counts[i] \in Nat
  OBVIOUS
<1>2. total \in Nat /\ total = counts[1] + counts[2] + counts[3] + counts[4]
  BY <1>1 DEF SumOf
<1>3. CASE total = 0
  <2>1. shares = counts
    BY <1>3 DEF Shares
  <2>2. \A b, c \in 1..4 : counts[b] > counts[c] => shares[b] >= shares[c]
    BY <1>1, <2>1
  <2>3. ~(total > 0)
    BY <1>3
  <2> QED BY <2>2, <2>3
<1>4. CASE total > 0
  <2>0. total # 0
    BY <1>2, <1>4
  <2>1. \A i \in 1..4 : shares[i] = floor(i) + more(i)
    <3>1. SumOf([i \in DOMAIN counts |-> floor(i)]) = floor(1) + floor(2) + floor(3) + floor(4)
      BY <1>1 DEF SumOf
    <3> QED BY <2>0, <3>1 DEF Shares, One
  <2>2. \A i \in 1..4 : counts[i] * SharePoints \in Nat
    BY <1>1 DEF SharePoints
  <2>3. \A i \in 1..4 : /\ floor(i) \in Nat /\ rest(i) \in Nat /\ rest(i) < total
                        /\ counts[i] * SharePoints = total * floor(i) + rest(i)
    <3> HIDE DEF total
    <3> QED BY <1>2, <1>4, <2>2, Division
  <2> HIDE DEF total, floor, rest, d
  <2>4. d \in Int /\ d = SharePoints - (floor(1) + floor(2) + floor(3) + floor(4))
    BY <1>1, <2>3 DEF d, SharePoints
  <2>5. d * total = rest(1) + rest(2) + rest(3) + rest(4)
    <3> DEFINE p(i) == total * floor(i)
               f == floor(1) + floor(2) + floor(3) + floor(4)
    <3>1. \A i \in 1..4 : p(i) \in Nat /\ counts[i] * SharePoints = p(i) + rest(i)
      BY <1>2, <2>3 DEF total
    <3>2. total * f = p(1) + p(2) + p(3) + p(4)
      <4>1. \A a, b, c, e, t \in Nat : t * (a + b + c + e) = t * a + t * b + t * c + t * e
        OBVIOUS
      <4> QED BY <1>1, <1>2, <2>3, <4>1 DEF total
    <3>3. f \in Nat /\ d = SharePoints - f
      BY <1>1, <2>3, <2>4
    <3>4. d * total = SharePoints * total - total * f
      <4>1. \A a \in Int : \A b, t \in Nat : (a - b) * t = a * t - t * b
        OBVIOUS
      <4> HIDE DEF f
      <4> QED BY <1>2, <3>3, <4>1 DEF SharePoints, total
    <3>5. SharePoints * total = counts[1] * SharePoints + counts[2] * SharePoints
                                + counts[3] * SharePoints + counts[4] * SharePoints
      BY <1>1, <1>2 DEF SharePoints
    <3> DEFINE tf == total * f
               st == SharePoints * total
    <3>6. tf \in Int /\ st \in Int
      BY <1>2, <3>3 DEF SharePoints, total
    <3> HIDE DEF p, f
    <3>7. /\ st = (p(1) + rest(1)) + (p(2) + rest(2)) + (p(3) + rest(3)) + (p(4) + rest(4))
          /\ tf = p(1) + p(2) + p(3) + p(4) /\ d * total = st - tf
      BY <1>1, <3>1, <3>2, <3>4, <3>5
    <3> HIDE DEF tf, st
    <3> QED BY <1>1, <2>3, <3>1, <3>6, <3>7
  <2>6. \A i \in 1..4 : Cardinality(before(i)) = NumberOf4(before(i))
    BY CountsOfFour
  <2>7. /\ Cardinality(before(1)) = One(rest(2) > rest(1)) + One(rest(3) > rest(1)) + One(rest(4) > rest(1))
        /\ Cardinality(before(2)) = One(rest(1) >= rest(2)) + One(rest(3) > rest(2)) + One(rest(4) > rest(2))
        /\ Cardinality(before(3)) = One(rest(1) >= rest(3)) + One(rest(2) >= rest(3)) + One(rest(4) > rest(3))
        /\ Cardinality(before(4)) = One(rest(1) >= rest(4)) + One(rest(2) >= rest(4)) + One(rest(3) >= rest(4))
    <3>1. \A i, j \in 1..4 : j \in before(i) <=> rest(j) > rest(i) \/ (rest(j) = rest(i) /\ j < i)
      OBVIOUS
    <3> HIDE DEF before
    <3>2. \A i \in 1..4 : i \notin before(i)
      BY <2>3, <3>1
    <3>3. \A i, j \in 1..4 : /\ j < i => (j \in before(i) <=> rest(j) >= rest(i))
                             /\ i < j => (j \in before(i) <=> rest(j) > rest(i))
      BY <2>3, <3>1
    <3>4. One(FALSE) = 0
      BY DEF One
    <3> QED BY <1>1, <2>6, <3>2, <3>3, <3>4 DEF NumberOf4, One
  <2>8. /\ d \in 0..3 /\ more(1) + more(2) + more(3) + more(4) = d
        /\ \A i \in 1..4 : Cardinality(before(i)) < d => rest(i) > 0
    <3> DEFINE b(i) == Cardinality(before(i))
    <3> HIDE DEF before, b
    <3> DEFINE r1 == rest(1)
               r2 == rest(2)
               r3 == rest(3)
               r4 == rest(4)
               b1 == b(1)
               b2 == b(2)
               b3 == b(3)
               b4 == b(4)
    <3>1. /\ r1 \in Nat /\ r2 \in Nat /\ r3 \in Nat /\ r4 \in Nat
          /\ r1 < total /\ r2 < total /\ r3 < total /\ r4 < total
      BY <1>1, <2>3
    <3>2. total \in Nat /\ total > 0 /\ d \in Int /\ d * total = r1 + r2 + r3 + r4
      BY <1>2, <1>4, <2>4, <2>5 DEF total
    <3>3. ComeBefore(r1, r2, r3, r4, b1, b2, b3, b4)
      BY <2>7 DEF b, ComeBefore
    <3> HIDE DEF r1, r2, r3, r4, b1, b2, b3, b4
    <3>4. Awarded(r1, r2, r3, r4, b1, b2, b3, b4, d)
      BY <3>1, <3>2, <3>3, LargestRemainders
    <3>5. \A i \in 1..4 : i = 1 \/ i = 2 \/ i = 3 \/ i = 4
      OBVIOUS
    <3> QED BY <3>4, <3>5 DEF Awarded, b, r1, r2, r3, r4, b1, b2, b3, b4
  <2>9. \A i \in 1..4 : more(i) \in {0, 1} /\ (more(i) = 1 => rest(i) > 0)
    <3> TAKE i \in 1..4
    <3> DEFINE chosen == Cardinality(before(i)) < d
    <3>1. chosen => rest(i) > 0
      BY <2>8
    <3> HIDE DEF chosen
    <3>2. more(i) = One(chosen)
      BY DEF chosen
    <3> HIDE DEF more
    <3> QED BY <3>1, <3>2 DEF One
  <2> HIDE DEF more, shares, before
  <2>10. SumOf(shares) = SharePoints
    BY <1>1, <2>1, <2>3, <2>4, <2>8, <2>9 DEF SumOf, SharePoints
  <2>11. ASSUME NEW b \in 1..4
         PROVE  LET off == shares[b] * total - counts[b] * SharePoints
                IN off < total /\ off > -total
    <3> DEFINE p == total * floor(b)
    <3>1. shares[b] * total = p + more(b) * total
      <4>1. \A a, c, t \in Nat : (a + c) * t = t * a + c * t
        OBVIOUS
      <4>2. floor(b) \in Nat /\ more(b) \in Nat /\ total \in Nat
        BY <1>2, <2>3, <2>9 DEF total
      <4> QED BY <2>1, <4>1, <4>2
    <3>2. p \in Nat /\ counts[b] * SharePoints = p + rest(b)
      BY <1>2, <2>3 DEF total
    <3> HIDE DEF p
    <3>3. CASE more(b) = 0
      <4>1. more(b) * total = 0
        BY <1>2, <3>3 DEF total
      <4> QED BY <1>2, <1>4, <2>3, <3>1, <3>2, <4>1 DEF total
    <3>4. CASE more(b) = 1
      <4>1. more(b) * total = total
        BY <1>2, <3>4 DEF total
      <4> QED BY <1>2, <1>4, <2>3, <2>9, <3>1, <3>2, <3>4, <4>1 DEF total
    <3> QED BY <2>9, <3>3, <3>4
  <2>12. ASSUME NEW b \in 1..4, NEW c \in 1..4, counts[b] > counts[c]
         PROVE  shares[b] >= shares[c]
    <3>1. counts[b] * SharePoints > counts[c] * SharePoints
      BY <1>1, <2>12 DEF SharePoints
    <3>2. floor(b) >= floor(c) /\ (floor(b) = floor(c) => rest(b) > rest(c))
      <4> DEFINE x == counts[b] * SharePoints
                 y == counts[c] * SharePoints
      <4>1. /\ x \in Nat /\ y \in Nat /\ x > y /\ total \in Nat /\ total > 0
            /\ floor(b) \in Nat /\ rest(b) \in Nat /\ rest(b) < total /\ x = total * floor(b) + rest(b)
            /\ floor(c) \in Nat /\ rest(c) \in Nat /\ rest(c) < total /\ y = total * floor(c) + rest(c)
        BY <1>2, <1>4, <2>2, <2>3, <3>1
      <4> HIDE DEF x, y
      <4> QED BY <4>1, Quotients
    <3>3. rest(b) > rest(c) => more(b) >= more(c)
      <4> SUFFICES ASSUME rest(b) > rest(c) PROVE more(b) >= more(c)
        OBVIOUS
      <4>1. before(b) \subseteq before(c)
        <5> SUFFICES ASSUME NEW j \in 1..4, rest(j) > rest(b) \/ (rest(j) = rest(b) /\ j < b)
                     PROVE  rest(j) > rest(c)
          BY DEF before
        <5> QED BY <2>3
      <4>2. IsFiniteSet(before(c))
        <5>1. IsFiniteSet(1..4) /\ before(c) \in SUBSET (1..4)
          <6>1. 1 \in Int /\ 4 \in Int
            OBVIOUS
          <6> QED BY <6>1, FS_Interval DEF before
        <5> QED BY <5>1, FS_Subset
      <4>3. Cardinality(before(b)) <= Cardinality(before(c)) /\ Cardinality(before(b)) \in Nat
            /\ Cardinality(before(c)) \in Nat
        <5>1. IsFiniteSet(before(b))
          BY <4>1, <4>2, FS_Subset
        <5> QED BY <4>1, <4>2, <5>1, FS_Subset, FS_CardinalityType
      <4> QED BY <2>8, <4>3 DEF more, One
    <3> QED BY <2>1, <2>3, <2>9, <3>2, <3>3
  <2> QED BY <2>10, <2>11, <2>12 DEF total, shares
<1> QED BY <1>2, <1>3, <1>4

(***************************************************************************)
(* What was shown.                                                         *)
(***************************************************************************)
Statuses == {"QUEUED", "RUNNING", "WAITING_APPROVAL", "SUBMITTED", "COMPLETED", "INTERRUPTED"}
RunStates == {"none", "running", "waiting_permission", "succeeded", "interrupted"}
TaskFacts == [status : Statuses, run : RunStates, pending : BOOLEAN, usage : Int,
              recent : BOOLEAN, bucket : 0..4]
BoardFacts == [BoardTasks -> TaskFacts]

\* The approval of a task is pending exactly while the task waits for it.
ApprovalsAgree(board) ==
  \A t \in BoardTasks : board[t].pending <=> board[t].status = "WAITING_APPROVAL"

Readings == [pc : {"idle", "tasks", "facts", "compare", "again", "answered", "SNAPSHOT_BUSY"},
             attempt : 0..SnapshotAttempts, before : Nat, tasks : Seq(Statuses),
             view : {<<>>} \cup BoardFacts]

PastIsKept ==
  /\ cursor \in 0..MaxChanges
  /\ past \in Seq(BoardFacts) /\ Len(past) = cursor
  /\ facts \in BoardFacts /\ ApprovalsAgree(facts)
  /\ \A i \in 1..Len(past) : ApprovalsAgree(past[i])

\* What has been read is what the records are, unless the cursor has moved since.
ReadAsItIs ==
  reading.before = cursor =>
    /\ reading.pc \in {"tasks", "facts"} =>
         \A i \in 1..Len(reading.tasks) : reading.tasks[i] = facts[i].status
    /\ reading.pc = "compare" => reading.view = facts

ReadingIsSound ==
  /\ reading \in Readings
  /\ reading.before <= cursor
  /\ Len(reading.tasks) <= MaxTasks
  /\ reading.pc = "facts" => Len(reading.tasks) = MaxTasks
  /\ ReadAsItIs
  /\ reading.pc = "answered" => reading.view = FactsAt(reading.before)

ProjectionInv == PastIsKept /\ ReadingIsSound

LEMMA ProjectionStarts == ProjectionInit => ProjectionInv
<1> SUFFICES ASSUME ProjectionInit PROVE ProjectionInv
  OBVIOUS
<1> USE ProjectionAssumption
<1>1. \A f \in FirstFacts : f \in TaskFacts /\ (f.pending <=> f.status = "WAITING_APPROVAL")
  <2> DEFINE Recorded(status, run, usage, recent, bucket) ==
               [status |-> status, run |-> run, pending |-> status = "WAITING_APPROVAL",
                usage |-> usage, recent |-> recent, bucket |-> bucket]
             Fits(f) == f \in TaskFacts /\ (f.pending <=> f.status = "WAITING_APPROVAL")
  <2>1. \A status \in Statuses, run \in RunStates, usage \in Int, recent \in BOOLEAN, bucket \in 0..4 :
          Fits(Recorded(status, run, usage, recent, bucket))
    <3> TAKE status \in Statuses, run \in RunStates, usage \in Int, recent \in BOOLEAN, bucket \in 0..4
    <3> DEFINE waits == status = "WAITING_APPROVAL"
               f == [status |-> status, run |-> run, pending |-> waits, usage |-> usage,
                     recent |-> recent, bucket |-> bucket]
    <3>1. waits \in BOOLEAN
      OBVIOUS
    <3> HIDE DEF waits
    <3>2. f \in TaskFacts /\ f.pending = waits /\ f.status = status
      BY <3>1 DEF TaskFacts
    <3> HIDE DEF f
    <3>3. Fits(f)
      BY <3>1, <3>2 DEF waits
    <3> QED BY <3>3 DEF f, waits
  <2>2. \A f \in FirstFacts :
          \/ f = Recorded("QUEUED", "none", -1, FALSE, 0)
          \/ f = Recorded("RUNNING", "running", -1, TRUE, 1)
          \/ f = Recorded("WAITING_APPROVAL", "waiting_permission", -1, TRUE, 2)
          \/ f = Recorded("SUBMITTED", "succeeded", 1, TRUE, 3)
          \/ \E r \in BOOLEAN : f = Recorded("COMPLETED", "succeeded", 2, r, 4)
    BY DEF FirstFacts
  <2> HIDE DEF Recorded, Fits
  <2>3. /\ Fits(Recorded("QUEUED", "none", -1, FALSE, 0))
        /\ Fits(Recorded("RUNNING", "running", -1, TRUE, 1))
        /\ Fits(Recorded("WAITING_APPROVAL", "waiting_permission", -1, TRUE, 2))
        /\ Fits(Recorded("SUBMITTED", "succeeded", 1, TRUE, 3))
        /\ \A r \in BOOLEAN : Fits(Recorded("COMPLETED", "succeeded", 2, r, 4))
    <3>1. /\ -1 \in Int /\ 1 \in Int /\ 2 \in Int
          /\ 0 \in 0..4 /\ 1 \in 0..4 /\ 2 \in 0..4 /\ 3 \in 0..4 /\ 4 \in 0..4
          /\ TRUE \in BOOLEAN /\ FALSE \in BOOLEAN
      OBVIOUS
    <3>2. /\ {"QUEUED", "RUNNING", "WAITING_APPROVAL", "SUBMITTED", "COMPLETED"} \subseteq Statuses
          /\ {"none", "running", "waiting_permission", "succeeded"} \subseteq RunStates
      BY DEF Statuses, RunStates
    <3>3. Fits(Recorded("QUEUED", "none", -1, FALSE, 0))
      BY <2>1, <3>1, <3>2
    <3>4. Fits(Recorded("RUNNING", "running", -1, TRUE, 1))
      BY <2>1, <3>1, <3>2
    <3>5. Fits(Recorded("WAITING_APPROVAL", "waiting_permission", -1, TRUE, 2))
      BY <2>1, <3>1, <3>2
    <3>6. Fits(Recorded("SUBMITTED", "succeeded", 1, TRUE, 3))
      BY <2>1, <3>1, <3>2
    <3>7. \A r \in BOOLEAN : Fits(Recorded("COMPLETED", "succeeded", 2, r, 4))
      BY <2>1, <3>1, <3>2
    <3> QED BY <3>3, <3>4, <3>5, <3>6, <3>7
  <2>4. \A f \in FirstFacts : Fits(f)
    BY <2>2, <2>3
  <2> QED BY <2>4 DEF Fits
<1>2. PastIsKept
  BY <1>1 DEF ProjectionInit, PastIsKept, BoardFacts, ApprovalsAgree
<1>3. ReadingIsSound
  BY DEF ProjectionInit, ReadingIsSound, Readings, Nothing, ReadAsItIs, BoardTasks
<1> QED BY <1>2, <1>3 DEF ProjectionInv

\* A commit adds the board as it was to the past.
LEMMA CommitStep ==
  ASSUME ProjectionInv, NEW t \in BoardTasks, NEW f \in TaskFacts,
         f.pending <=> f.status = "WAITING_APPROVAL", Changed(t, f)
  PROVE  ProjectionInv'
<1> USE ProjectionAssumption
<1> DEFINE g == [f EXCEPT !.recent = TRUE]
<1>1. g \in TaskFacts /\ g.pending = f.pending /\ g.status = f.status
  BY DEF TaskFacts
<1>2. /\ cursor < MaxChanges /\ facts' = [facts EXCEPT ![t] = g] /\ past' = Append(past, facts)
      /\ cursor' = cursor + 1 /\ reading' = reading
  BY DEF Changed
<1> HIDE DEF g
<1>3. PastIsKept'
  <2>1. facts' \in BoardFacts /\ ApprovalsAgree(facts)'
    BY <1>1, <1>2 DEF ProjectionInv, PastIsKept, BoardFacts, ApprovalsAgree
  <2>2. /\ past' \in Seq(BoardFacts) /\ Len(past') = Len(past) + 1
        /\ \A i \in 1..Len(past) : past'[i] = past[i]
        /\ past'[Len(past) + 1] = facts
    BY <1>2, AppendProperties DEF ProjectionInv, PastIsKept
  <2>3. \A i \in 1..Len(past') : ApprovalsAgree(past'[i])
    <3> TAKE i \in 1..Len(past')
    <3>1. i \in 1..Len(past) \/ i = Len(past) + 1
      BY <2>2 DEF ProjectionInv, PastIsKept
    <3> QED BY <2>2, <3>1 DEF ProjectionInv, PastIsKept
  <2> QED BY <1>2, <2>1, <2>2, <2>3 DEF ProjectionInv, PastIsKept, ApprovalsAgree
<1>4. \A c \in 0..cursor : FactsAt(c)' = FactsAt(c)
  <2> TAKE c \in 0..cursor
  <2>1. /\ \A i \in 1..Len(past) : past'[i] = past[i]
        /\ past'[Len(past) + 1] = facts
    BY <1>2, AppendProperties DEF ProjectionInv, PastIsKept
  <2>2. cursor \in Nat /\ Len(past) = cursor /\ c # cursor'
    BY <1>2 DEF ProjectionInv, PastIsKept
  <2>3. c # cursor => c + 1 \in 1..Len(past)
    BY <2>2
  <2> QED BY <2>1, <2>2, <2>3 DEF FactsAt
<1>5. ReadingIsSound'
  <2>1. reading.before \in 0..cursor /\ reading.before # cursor' /\ reading.before <= cursor'
    BY <1>2 DEF ProjectionInv, PastIsKept, ReadingIsSound, Readings
  <2> QED BY <1>2, <1>4, <2>1 DEF ProjectionInv, ReadingIsSound, ReadAsItIs
<1> QED BY <1>3, <1>5 DEF ProjectionInv

LEMMA BoardStep ==
  ASSUME ProjectionInv, NEW t \in BoardTasks,
         \/ BoardStarts(t) \/ BoardAsks(t) \/ BoardDecides(t) \/ BoardSubmits(t) \/ BoardCompletes(t)
  PROVE  ProjectionInv'
<1>1. facts[t] \in TaskFacts /\ (facts[t].pending <=> facts[t].status = "WAITING_APPROVAL")
  BY DEF ProjectionInv, PastIsKept, BoardFacts, ApprovalsAgree
<1>2. CASE BoardStarts(t)
  <2> DEFINE f == [facts[t] EXCEPT !.status = "RUNNING", !.run = "running"]
  <2>1. f \in TaskFacts /\ (f.pending <=> f.status = "WAITING_APPROVAL")
    BY <1>1, <1>2 DEF BoardStarts, TaskFacts, Statuses, RunStates
  <2>2. Changed(t, f)
    BY <1>2 DEF BoardStarts
  <2> HIDE DEF f
  <2> QED BY <2>1, <2>2, CommitStep
<1>3. CASE BoardAsks(t)
  <2> DEFINE f == [facts[t] EXCEPT !.status = "WAITING_APPROVAL", !.pending = TRUE,
                                   !.run = "waiting_permission"]
  <2>1. f \in TaskFacts /\ (f.pending <=> f.status = "WAITING_APPROVAL")
    BY <1>1 DEF TaskFacts, Statuses, RunStates
  <2>2. Changed(t, f)
    BY <1>3 DEF BoardAsks
  <2> HIDE DEF f
  <2> QED BY <2>1, <2>2, CommitStep
<1>4. CASE BoardDecides(t)
  <2> DEFINE f == [facts[t] EXCEPT !.status = "RUNNING", !.pending = FALSE, !.run = "running"]
             g == [facts[t] EXCEPT !.status = "INTERRUPTED", !.pending = FALSE, !.run = "interrupted"]
  <2>1. /\ f \in TaskFacts /\ (f.pending <=> f.status = "WAITING_APPROVAL")
        /\ g \in TaskFacts /\ (g.pending <=> g.status = "WAITING_APPROVAL")
    BY <1>1 DEF TaskFacts, Statuses, RunStates
  <2>2. Changed(t, f) \/ Changed(t, g)
    BY <1>4 DEF BoardDecides
  <2> HIDE DEF f, g
  <2> QED BY <2>1, <2>2, CommitStep
<1>5. CASE BoardSubmits(t)
  <2> DEFINE f == [facts[t] EXCEPT !.status = "SUBMITTED", !.run = "succeeded", !.usage = 1]
  <2>1. f \in TaskFacts /\ (f.pending <=> f.status = "WAITING_APPROVAL")
    <3>1. facts[t].status = "RUNNING"
      BY <1>5 DEF BoardSubmits
    <3>2. facts[t].pending = FALSE
      BY <1>1, <3>1 DEF TaskFacts
    <3>3. \A x \in TaskFacts, u \in Int :
            LET y == [x EXCEPT !.status = "SUBMITTED", !.run = "succeeded", !.usage = u]
            IN y \in TaskFacts /\ y.pending = x.pending /\ y.status = "SUBMITTED"
      BY DEF TaskFacts, Statuses, RunStates
    <3>4. 1 \in Int
      OBVIOUS
    <3> QED BY <1>1, <3>2, <3>3, <3>4
  <2>2. Changed(t, f)
    BY <1>5 DEF BoardSubmits
  <2> HIDE DEF f
  <2> QED BY <2>1, <2>2, CommitStep
<1>6. CASE BoardCompletes(t)
  <2> DEFINE f == [facts[t] EXCEPT !.status = "COMPLETED"]
  <2>1. f \in TaskFacts /\ (f.pending <=> f.status = "WAITING_APPROVAL")
    BY <1>1, <1>6 DEF BoardCompletes, TaskFacts, Statuses, RunStates
  <2>2. Changed(t, f)
    BY <1>6 DEF BoardCompletes
  <2> HIDE DEF f
  <2> QED BY <2>1, <2>2, CommitStep
<1> QED BY <1>2, <1>3, <1>4, <1>5, <1>6

LEMMA PageStep == ProjectionInv /\ ReadTaskPage => ProjectionInv'
<1> SUFFICES ASSUME ProjectionInv, ReadTaskPage PROVE ProjectionInv'
  OBVIOUS
<1> USE ProjectionAssumption
<1> DEFINE n == Len(reading.tasks)
           k == Min({ReadLimit, MaxTasks - n})
           next == [i \in 1..k |-> facts[n + i].status]
           read == [reading EXCEPT !.tasks = @ \o next,
                                   !.pc = IF Len(next) < ReadLimit THEN "facts" ELSE "tasks"]
<1>1. n \in 0..MaxTasks /\ reading.tasks \in Seq(Statuses)
  BY DEF ProjectionInv, ReadingIsSound, Readings
<1>2. /\ k \in Nat /\ n + k <= MaxTasks
      /\ k < ReadLimit => n + k = MaxTasks
  <2>1. ReadLimit \in Int /\ MaxTasks - n \in Nat /\ ReadLimit >= 1
    BY <1>1
  <2>2. \E x \in {ReadLimit, MaxTasks - n} : \A y \in {ReadLimit, MaxTasks - n} : x <= y
    BY <2>1
  <2>3. k \in {ReadLimit, MaxTasks - n} /\ k <= ReadLimit /\ k <= MaxTasks - n
    BY <2>2 DEF Min
  <2> HIDE DEF k, n
  <2> QED BY <1>1, <2>1, <2>3
<1> HIDE DEF k
<1>3. /\ reading.pc = "tasks" /\ reading' = read
      /\ facts' = facts /\ cursor' = cursor /\ past' = past
  BY DEF ReadTaskPage, k
<1>4. next \in Seq(Statuses) /\ Len(next) = k
  <2>1. \A i \in 1..k : n + i \in BoardTasks
    BY <1>1, <1>2 DEF BoardTasks
  <2>2. \A i \in 1..k : facts[n + i].status \in Statuses
    BY <2>1 DEF ProjectionInv, PastIsKept, BoardFacts, TaskFacts
  <2> HIDE DEF n
  <2>3. next \in [1..k -> Statuses]
    BY <2>2
  <2> HIDE DEF next
  <2> QED BY <1>2, <2>3
<1>5. \A i \in 1..k : next[i] = facts[n + i].status
  OBVIOUS
<1> HIDE DEF next
<1> DEFINE tasks == reading.tasks \o next
<1>6. /\ tasks \in Seq(Statuses) /\ Len(tasks) = n + k
      /\ \A i \in 1..n : tasks[i] = reading.tasks[i]
      /\ \A i \in 1..k : tasks[n + i] = next[i]
  <2> DEFINE s == reading.tasks
  <2>1. s \in Seq(Statuses) /\ Len(s) = n
    BY <1>1
  <2> HIDE DEF s, n
  <2>2. Len(s \o next) = n + k /\ s \o next \in Seq(Statuses)
    BY <1>4, <2>1, ConcatProperties
  <2>3. \A i \in 1..(Len(s) + Len(next)) : (s \o next)[i] = IF i <= Len(s) THEN s[i] ELSE next[i - Len(s)]
    BY <1>4, <2>1, ConcatProperties
  <2>4. \A i \in 1..n : i \in 1..(n + k) /\ i <= n
    BY <1>1, <1>2
  <2>5. \A i \in 1..k : n + i \in 1..(n + k) /\ ~(n + i <= n) /\ (n + i) - n = i
    BY <1>1, <1>2
  <2>6. \A i \in 1..n : (s \o next)[i] = s[i]
    BY <1>4, <2>1, <2>3, <2>4
  <2>7. \A i \in 1..k : (s \o next)[n + i] = next[i]
    BY <1>4, <2>1, <2>3, <2>5
  <2> QED BY <2>2, <2>6, <2>7 DEF s
<1> DEFINE pc == IF k < ReadLimit THEN "facts" ELSE "tasks"
<1>7. /\ read = [reading EXCEPT !.tasks = tasks, !.pc = pc] /\ pc \in {"facts", "tasks"}
      /\ pc = "facts" => n + k = MaxTasks
  BY <1>2, <1>4
<1> HIDE DEF tasks, pc, read
<1>8. /\ read \in Readings /\ read.tasks = tasks /\ read.pc = pc
      /\ read.before = reading.before
  BY <1>6, <1>7 DEF ProjectionInv, ReadingIsSound, Readings
<1>9. reading.before = cursor => \A i \in 1..Len(tasks) : tasks[i] = facts[i].status
  <2> SUFFICES ASSUME reading.before = cursor, NEW i \in 1..Len(tasks)
               PROVE  tasks[i] = facts[i].status
    OBVIOUS
  <2>1. CASE i <= n
    <3>1. i \in 1..n
      BY <1>1, <1>6, <2>1
    <3>2. reading.tasks[i] = facts[i].status
      BY <1>3, <3>1 DEF ProjectionInv, ReadingIsSound, ReadAsItIs
    <3> QED BY <1>6, <3>1, <3>2
  <2>2. CASE i > n
    <3>1. i - n \in 1..k /\ n + (i - n) = i
      <4> HIDE DEF n
      <4> QED BY <1>1, <1>2, <1>6, <2>2
    <3>2. tasks[n + (i - n)] = next[i - n] /\ next[i - n] = facts[n + (i - n)].status
      BY <1>5, <1>6, <3>1
    <3> QED BY <3>1, <3>2
  <2> HIDE DEF n
  <2> QED BY <1>1, <1>2, <1>6, <2>1, <2>2
<1>10. ReadingIsSound'
  <2>1. reading' \in Readings /\ reading'.before <= cursor'
    BY <1>3, <1>8 DEF ProjectionInv, ReadingIsSound
  <2>2. Len(reading'.tasks) <= MaxTasks /\ (reading'.pc = "facts" => Len(reading'.tasks) = MaxTasks)
    BY <1>2, <1>3, <1>6, <1>7, <1>8
  <2>3. ReadAsItIs'
    BY <1>3, <1>7, <1>8, <1>9 DEF ReadAsItIs
  <2> QED BY <1>3, <1>7, <1>8, <2>1, <2>2, <2>3 DEF ReadingIsSound
<1>11. PastIsKept'
  BY <1>3 DEF ProjectionInv, PastIsKept, ApprovalsAgree
<1> QED BY <1>10, <1>11 DEF ProjectionInv

LEMMA FactsStep == ProjectionInv /\ ReadFacts => ProjectionInv'
<1> SUFFICES ASSUME ProjectionInv, ReadFacts PROVE ProjectionInv'
  OBVIOUS
<1> DEFINE view == [t \in BoardTasks |-> [facts[t] EXCEPT !.status = reading.tasks[t]]]
           read == [reading EXCEPT !.pc = "compare", !.view = view]
<1>1. /\ reading.pc = "facts" /\ reading' = read
      /\ facts' = facts /\ cursor' = cursor /\ past' = past
  BY DEF ReadFacts
<1>2. reading.tasks \in Seq(Statuses) /\ BoardTasks = 1..Len(reading.tasks)
  BY <1>1 DEF ProjectionInv, ReadingIsSound, Readings, BoardTasks
<1>3. facts \in [BoardTasks -> TaskFacts]
  BY DEF ProjectionInv, PastIsKept, BoardFacts
<1>4. view \in BoardFacts
  <2>1. \A t \in BoardTasks : reading.tasks[t] \in Statuses
    BY <1>2
  <2>2. \A f \in TaskFacts, s \in Statuses : [f EXCEPT !.status = s] \in TaskFacts
    BY DEF TaskFacts
  <2> QED BY <1>3, <2>1, <2>2 DEF BoardFacts
<1>5. reading.before = cursor => view = facts
  <2> SUFFICES ASSUME reading.before = cursor PROVE view = facts
    OBVIOUS
  <2>1. \A t \in BoardTasks : reading.tasks[t] = facts[t].status
    BY <1>1, <1>2 DEF ProjectionInv, ReadingIsSound, ReadAsItIs
  <2>2. \A f \in TaskFacts : [f EXCEPT !.status = f.status] = f
    BY DEF TaskFacts
  <2>3. \A t \in BoardTasks : view[t] = facts[t]
    BY <1>3, <2>1, <2>2
  <2> QED BY <1>3, <2>3
<1> HIDE DEF view
<1>6. /\ read \in Readings /\ read.pc = "compare" /\ read.view = view /\ read.tasks = reading.tasks
      /\ read.before = reading.before
  BY <1>4 DEF ProjectionInv, ReadingIsSound, Readings
<1> HIDE DEF read
<1>7. ReadingIsSound'
  BY <1>1, <1>5, <1>6 DEF ProjectionInv, ReadingIsSound, ReadAsItIs
<1>8. PastIsKept'
  BY <1>1 DEF ProjectionInv, PastIsKept, ApprovalsAgree
<1> QED BY <1>7, <1>8 DEF ProjectionInv

LEMMA SnapshotSteps == ProjectionInv /\ (BeginSnapshot \/ EndSnapshot) => ProjectionInv'
<1> SUFFICES ASSUME ProjectionInv, BeginSnapshot \/ EndSnapshot PROVE ProjectionInv'
  OBVIOUS
<1> USE ProjectionAssumption
<1>1. facts' = facts /\ cursor' = cursor /\ past' = past
  BY DEF BeginSnapshot, EndSnapshot
<1>2. PastIsKept'
  BY <1>1 DEF ProjectionInv, PastIsKept, ApprovalsAgree
<1>3. CASE BeginSnapshot
  <2> DEFINE read == [Nothing EXCEPT !.pc = "tasks", !.attempt = reading.attempt + 1, !.before = cursor]
  <2>1. reading' = read /\ reading.attempt < SnapshotAttempts
    BY <1>3 DEF BeginSnapshot
  <2>2. reading.attempt + 1 \in 0..SnapshotAttempts /\ cursor \in Nat
    BY <2>1 DEF ProjectionInv, ReadingIsSound, Readings, PastIsKept
  <2>3. Nothing \in Readings /\ Nothing.tasks = <<>>
    BY DEF Nothing, Readings
  <2>4. /\ read \in Readings /\ read.before = cursor /\ read.pc = "tasks" /\ Len(read.tasks) = 0
    BY <2>2, <2>3 DEF Readings
  <2> HIDE DEF read
  <2>5. ReadingIsSound'
    BY <1>1, <2>1, <2>2, <2>4 DEF ReadingIsSound, ReadAsItIs
  <2> QED BY <1>2, <2>5 DEF ProjectionInv
<1>4. CASE EndSnapshot
  <2>1. PICK pc \in {"answered", "again", "SNAPSHOT_BUSY"} :
           /\ reading' = [reading EXCEPT !.pc = pc]
           /\ pc = "answered" => cursor = reading.before
    BY <1>4 DEF EndSnapshot
  <2> DEFINE read == [reading EXCEPT !.pc = pc]
  <2>2. /\ read \in Readings /\ read.before = reading.before /\ read.pc = pc
        /\ read.tasks = reading.tasks /\ read.view = reading.view
    BY DEF ProjectionInv, ReadingIsSound, Readings
  <2>3. reading.pc = "compare"
    BY <1>4 DEF EndSnapshot
  <2> HIDE DEF read
  <2>4. reading' = read
    BY <2>1 DEF read
  <2>5. pc = "answered" => reading.view = FactsAt(reading.before)
    BY <2>1, <2>3 DEF ProjectionInv, ReadingIsSound, ReadAsItIs, FactsAt
  <2>6. FactsAt(reading.before)' = FactsAt(reading.before)
    BY <1>1, <2>2, <2>4 DEF FactsAt
  <2>7. ReadingIsSound'
    BY <1>1, <2>1, <2>2, <2>4, <2>5, <2>6 DEF ProjectionInv, ReadingIsSound, ReadAsItIs
  <2> QED BY <1>2, <2>7 DEF ProjectionInv
<1> QED BY <1>3, <1>4

LEMMA ProjectionInductive == ProjectionInv /\ [ProjectionNext]_projectionVars => ProjectionInv'
<1> SUFFICES ASSUME ProjectionInv, [ProjectionNext]_projectionVars PROVE ProjectionInv'
  OBVIOUS
<1>1. CASE \E t \in BoardTasks : \/ BoardStarts(t) \/ BoardAsks(t) \/ BoardDecides(t)
                                 \/ BoardSubmits(t) \/ BoardCompletes(t)
  BY <1>1, BoardStep
<1>2. CASE BeginSnapshot \/ ReadTaskPage \/ ReadFacts \/ EndSnapshot
  BY <1>2, SnapshotSteps, PageStep, FactsStep
<1>3. CASE UNCHANGED projectionVars
  BY <1>3 DEF projectionVars, ProjectionInv, PastIsKept, ApprovalsAgree, ReadingIsSound, ReadAsItIs, FactsAt
<1> QED BY <1>1, <1>2, <1>3 DEF ProjectionNext

\* Every task of the range is in one bucket, or its times are not reported.
LEMMA BucketsAddUp ==
  ASSUME NEW view \in BoardFacts, NEW T \in SUBSET BoardTasks
  PROVE  LET B(b) == {t \in T : view[t].bucket = b}
         IN /\ \A b \in 0..4 : Cardinality(B(b)) \in Nat
            /\ Cardinality(T) = Cardinality(B(0)) + Cardinality(B(1)) + Cardinality(B(2))
                                + Cardinality(B(3)) + Cardinality(B(4))
<1> USE ProjectionAssumption
<1> DEFINE B(b) == {t \in T : view[t].bucket = b}
           U(b) == {t \in T : view[t].bucket <= b}
<1>1. IsFiniteSet(T)
  <2>1. IsFiniteSet(BoardTasks)
    BY FS_Interval DEF BoardTasks
  <2> QED BY <2>1, FS_Subset
<1>2. \A b : B(b) \in SUBSET T /\ U(b) \in SUBSET T
  OBVIOUS
<1>3. \A t \in T : view[t].bucket \in 0..4
  BY DEF BoardFacts, TaskFacts
<1>4. U(0) = B(0) /\ U(4) = T
  BY <1>3
<1>5. \A b \in 0..3 : U(b + 1) = U(b) \cup B(b + 1) /\ U(b) \cap B(b + 1) = {}
  BY <1>3
<1> HIDE DEF U, B
<1>6. \A b : /\ IsFiniteSet(B(b)) /\ IsFiniteSet(U(b))
             /\ Cardinality(B(b)) \in Nat /\ Cardinality(U(b)) \in Nat
  BY <1>1, <1>2, FS_Subset, FS_CardinalityType
<1>7. \A b \in 0..3 : Cardinality(U(b + 1)) = Cardinality(U(b)) + Cardinality(B(b + 1))
  <2> TAKE b \in 0..3
  <2>1. Cardinality(U(b) \cup B(b + 1))
          = Cardinality(U(b)) + Cardinality(B(b + 1)) - Cardinality(U(b) \cap B(b + 1))
    BY <1>6, FS_Union
  <2>2. U(b) \cap B(b + 1) = {} /\ Cardinality({}) = 0
    <3>1. U(b) \cap B(b + 1) = {}
      BY <1>5
    <3>2. Cardinality({}) = 0
      BY FS_EmptySet, Zenon
    <3> QED BY <3>1, <3>2
  <2> DEFINE x == Cardinality(U(b))
             y == Cardinality(B(b + 1))
  <2>3. x \in Nat /\ y \in Nat /\ U(b + 1) = U(b) \cup B(b + 1)
    BY <1>5, <1>6
  <2>4. Cardinality(U(b) \cup B(b + 1)) = x + y - 0
    BY <2>1, <2>2
  <2> HIDE DEF x, y
  <2>5. x + y - 0 = x + y
    BY <2>3
  <2> QED BY <2>3, <2>4, <2>5 DEF x, y
<1>8. /\ Cardinality(U(1)) = Cardinality(U(0)) + Cardinality(B(1))
      /\ Cardinality(U(2)) = Cardinality(U(1)) + Cardinality(B(2))
      /\ Cardinality(U(3)) = Cardinality(U(2)) + Cardinality(B(3))
      /\ Cardinality(U(4)) = Cardinality(U(3)) + Cardinality(B(4))
  <2>1. /\ 0 \in 0..3 /\ 1 \in 0..3 /\ 2 \in 0..3 /\ 3 \in 0..3
        /\ 0 + 1 = 1 /\ 1 + 1 = 2 /\ 2 + 1 = 3 /\ 3 + 1 = 4
    OBVIOUS
  <2> QED BY <1>7, <2>1
<1>9. Cardinality(T) = Cardinality(B(0)) + Cardinality(B(1)) + Cardinality(B(2))
                       + Cardinality(B(3)) + Cardinality(B(4))
  BY <1>4, <1>6, <1>8
<1> QED BY <1>6, <1>9 DEF B

LEMMA BoardAddsUp ==
  ASSUME NEW view \in BoardFacts
  PROVE  SharesAddUp(Dashboard(view))
<1> DEFINE T == {t \in DOMAIN view : BelongsToRange(view[t])}
           n(b) == Cardinality({t \in T : view[t].bucket = b})
           counts == [b \in 1..4 |-> n(b)]
           d == Dashboard(view)
<1>1. d.total = Cardinality(T) /\ d.counts = counts /\ d.shares = Shares(counts) /\ d.unreported = n(0)
  BY DEF Dashboard
<1>2. T \in SUBSET BoardTasks
  BY DEF BoardFacts
<1> HIDE DEF T
<1>3. /\ \A b \in 0..4 : n(b) \in Nat
      /\ Cardinality(T) = n(0) + n(1) + n(2) + n(3) + n(4)
  BY <1>2, BucketsAddUp
<1> HIDE DEF n
<1>4. counts \in [1..4 -> Nat]
  BY <1>3
<1>5. SumOf(counts) = n(1) + n(2) + n(3) + n(4)
  BY DEF SumOf
<1>6. SumOf(counts) + n(0) = Cardinality(T)
  <2>1. n(0) \in Nat /\ n(1) \in Nat /\ n(2) \in Nat /\ n(3) \in Nat /\ n(4) \in Nat
    BY <1>3
  <2> QED BY <1>3, <1>5, <2>1
<1> HIDE DEF counts, d
<1> QED BY <1>1, <1>4, <1>6, SharesAreFair DEF SharesAddUp, d

LEMMA StageIsApproval ==
  ASSUME NEW f \in TaskFacts, f.pending <=> f.status = "WAITING_APPROVAL"
  PROVE  DisplayStage(f) = "waiting_approval" <=> "approve" \in AvailableActions(f)
<1>1. CASE f.pending
  BY <1>1 DEF DisplayStage, AvailableActions
<1>2. CASE ~f.pending
  <2>1. "approve" \notin AvailableActions(f)
    BY <1>2 DEF AvailableActions
  <2>2. f.status # "WAITING_APPROVAL"
    BY <1>2
  <2>3. DisplayStage(f) # "waiting_approval"
    BY <1>2, <2>2 DEF DisplayStage
  <2> QED BY <2>1, <2>3
<1> QED BY <1>1, <1>2

\* What a projection answers is the board of the cursor it names, and every part of it fits
\* the others, whatever was committed while it was read.
THEOREM BoardsAreShownAsTheyWere == ProjectionSpec => []ShownAsItWas
<1>1. ProjectionInv => ShownAsItWas
  <2> SUFFICES ASSUME ProjectionInv, reading.pc = "answered"
               PROVE  /\ Dashboard(reading.view) = Dashboard(FactsAt(reading.before))
                      /\ SharesAddUp(Dashboard(reading.view))
                      /\ \A t \in BoardTasks :
                           LET f == reading.view[t]
                           IN /\ DisplayStage(f) = DisplayStage(FactsAt(reading.before)[t])
                              /\ DisplayStage(f) = "waiting_approval" <=> "approve" \in AvailableActions(f)
    BY DEF ShownAsItWas
  <2>1. reading.view = FactsAt(reading.before)
    BY DEF ProjectionInv, ReadingIsSound
  <2>2. FactsAt(reading.before) \in BoardFacts /\ ApprovalsAgree(FactsAt(reading.before))
    <3>1. reading.before \in 0..cursor /\ cursor \in Nat /\ Len(past) = cursor
      BY DEF ProjectionInv, PastIsKept, ReadingIsSound, Readings
    <3>2. reading.before # cursor => reading.before + 1 \in 1..Len(past)
      BY <3>1
    <3> QED BY <3>1, <3>2 DEF ProjectionInv, PastIsKept, FactsAt
  <2> DEFINE view == reading.view
  <2>3. view \in BoardFacts /\ ApprovalsAgree(view) /\ view = FactsAt(reading.before)
    BY <2>1, <2>2
  <2> HIDE DEF view
  <2>4. SharesAddUp(Dashboard(view))
    BY <2>3, BoardAddsUp
  <2>5. \A t \in BoardTasks : DisplayStage(view[t]) = "waiting_approval" <=> "approve" \in AvailableActions(view[t])
    BY <2>3, StageIsApproval DEF BoardFacts, ApprovalsAgree
  <2> QED BY <2>1, <2>4, <2>5 DEF view
<1> QED BY <1>1, ProjectionStarts, ProjectionInductive, PTL DEF ProjectionSpec
=============================================================================
