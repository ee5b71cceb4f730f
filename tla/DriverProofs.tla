---------------------------- MODULE DriverProofs ----------------------------
(***************************************************************************)
(* Proofs about the drivers: the events of a run tell what its queries and *)
(* sessions did, and somebody is there to end them, for any number of tool *)
(* calls, queries, sessions and restarts, and however long the streams.    *)
(***************************************************************************)
EXTENDS ClaudeDriver, OpenCodeDriver, SequenceTheorems, TLAPS

(***************************************************************************)
(* The Claude driver.                                                      *)
(***************************************************************************)
Decisions == {"none", "allow", "deny"}
ToolEvents == [type : {"tool.started", "permission.requested", "tool.completed"}, call : ToolCalls]
RunEvents == [type : {"result", "runtime.error"}, call : {NoCall}]
RunRecords == [result : {"none", "succeeded", "failed", "cancelled"}, query : Queries \cup {0},
               request : {"none", "start", "resume", "feedback", "successor", "cancel"},
               with : Queries \cup {0}, idle : {"no run", "no", "not continued", "restored"}]
Mappers == [open : SUBSET ToolCalls, asked : SUBSET ToolCalls, answered : SUBSET ToolCalls,
            completed : SUBSET ToolCalls, cancelling : BOOLEAN, terminal : BOOLEAN]
Checks == [open : SUBSET ToolCalls, pending : SUBSET ToolCalls, cancellation : BOOLEAN]
QueryRecords == [sdk : {"none", "live", "over"}, queue : Seq(ToolEvents \cup RunEvents),
                 pump : {"none", "on", "over"}, aborted : BOOLEAN, calls : SUBSET ToolCalls,
                 waiting : SUBSET ToolCalls, ended : SUBSET ToolCalls, told : [ToolCalls -> Decisions]]

ClaudeTyped ==
  /\ record \in RunRecords /\ mapper \in Mappers /\ checked \in Checks
  /\ query \in [Queries -> QueryRecords] /\ said \in [ToolCalls -> Decisions]

\* The record and the mapper agree, the validator sees what the mapper sees.
RecordFits ==
  /\ record.result # "none" <=> mapper.terminal
  /\ mapper.open = checked.open /\ mapper.asked = checked.pending
  /\ record.request # "none" => record.query = 0 /\ record.result = "none"
  /\ record.idle = "no run" => record.query = 0 /\ record.result = "none"
                                /\ record.request # "cancel"
  /\ record.result = "none" /\ Idle /\ record.idle = "no" =>
       record.query # 0 /\ query[record.query].pump = "on"

\* A query that lives is the current one, or the one the request under way stops.
LiveFits(q) ==
  /\ query[q].sdk = "live" => /\ record.result # "cancelled"
                              /\ \/ q = record.query
                                 \/ record.request # "none" /\ q = record.with
  /\ query[q].pump = "over" => query[q].sdk = "over" \/ record.result = "failed"
LivesFit == \A q \in Queries : LiveFits(q)

\* A query knows its calls, and calls are of one query; what waits for an answer has none.
CallsFit(c) ==
  /\ \A i \in 1..Len(c.queue) : c.queue[i] \in ToolEvents => c.queue[i].call \in c.calls
  /\ c.waiting \subseteq c.calls
  /\ \A t \in c.waiting : c.told[t] = "none"
  /\ \A t \in ToolCalls : t \notin c.calls => c.told[t] = "none"
QueriesFit ==
  /\ \A q \in Queries : CallsFit(query[q])
  /\ \A p, q \in Queries : p # q => query[p].calls \cap query[q].calls = {}
\* What was asked is a call of some query, what was answered is said.
SaidFits ==
  /\ \A t \in mapper.open \cup mapper.asked \cup mapper.answered : \E q \in Queries : t \in query[q].calls
  /\ mapper.asked \cap mapper.answered = {}
  /\ \A t \in ToolCalls : said[t] = "none" <=> t \notin mapper.answered
ToldFits(q) ==
  \A t \in ToolCalls :
    /\ query[q].told[t] = "allow" => said[t] = "allow"
    /\ said[t] # "none" /\ t \in query[q].calls /\ query[q].told[t] # said[t] => record.result = "failed"
ToldsFit == \A q \in Queries : ToldFits(q)

ClaudeInv == ClaudeTyped /\ RecordFits /\ LivesFit /\ QueriesFit /\ SaidFits /\ ToldsFit

AllEvents == ToolEvents \cup RunEvents

LEMMA QueryIds == \A q \in Queries : q # 0
  BY ClaudeAssumption DEF Queries

LEMMA QueueGrows ==
  ASSUME ClaudeInv, NEW q \in Queries, NEW events \in Seq(AllEvents), NEW C \in SUBSET ToolCalls,
         query[q].calls \subseteq C,
         \A i \in 1..Len(events) : events[i] \in ToolEvents => events[i].call \in C
  PROVE  /\ query[q].queue \o events \in Seq(AllEvents)
         /\ \A i \in 1..Len(query[q].queue \o events) :
              (query[q].queue \o events)[i] \in ToolEvents => (query[q].queue \o events)[i].call \in C
<1> DEFINE queue == query[q].queue
<1>1. queue \in Seq(AllEvents) /\ CallsFit(query[q])
  BY DEF ClaudeInv, ClaudeTyped, QueryRecords, QueriesFit, AllEvents
<1>2. /\ queue \o events \in Seq(AllEvents) /\ Len(queue \o events) = Len(queue) + Len(events)
      /\ \A i \in 1..(Len(queue) + Len(events)) :
           (queue \o events)[i] = IF i <= Len(queue) THEN queue[i] ELSE events[i - Len(queue)]
  BY <1>1, ConcatProperties
<1>3. Len(queue) \in Nat /\ Len(events) \in Nat
  BY <1>1
<1> SUFFICES ASSUME NEW i \in 1..Len(queue \o events), (queue \o events)[i] \in ToolEvents
             PROVE  (queue \o events)[i].call \in C
  BY <1>2
<1> HIDE DEF queue
<1>4. CASE i <= Len(queue)
  <2>1. (queue \o events)[i] = queue[i] /\ i \in 1..Len(queue)
    BY <1>2, <1>3, <1>4
  <2> QED BY <1>1, <2>1 DEF CallsFit, queue
<1>5. CASE ~(i <= Len(queue))
  <2>1. (queue \o events)[i] = events[i - Len(queue)] /\ i - Len(queue) \in 1..Len(events)
    BY <1>2, <1>3, <1>5
  <2> QED BY <2>1
<1> QED BY <1>4, <1>5

\* A step of the SDK: a query gets calls nobody has, and what waits may be denied.
LEMMA SdkStep ==
  ASSUME ClaudeInv, NEW q \in Queries, NEW new \in QueryRecords, Sdk(q, new), CallsFit(new),
         new.pump = query[q].pump,
         new.sdk = query[q].sdk \/ (query[q].sdk = "live" /\ new.sdk = "over"),
         query[q].calls \subseteq new.calls, \A t \in new.calls \ query[q].calls : Fresh(t),
         \A t \in ToolCalls : \/ new.told[t] = query[q].told[t]
                              \/ t \in query[q].waiting /\ new.told[t] = "deny"
  PROVE  ClaudeInv'
<1> USE DEF ClaudeInv
<1>1. /\ query' \in [Queries -> QueryRecords] /\ query'[q] = new
      /\ \A p \in Queries \ {q} : query'[p] = query[p]
      /\ UNCHANGED <<record, mapper, checked, said>>
  BY DEF Sdk, ClaudeTyped
<1>2. ClaudeTyped'
  BY <1>1 DEF ClaudeTyped
<1>3. RecordFits'
  <2>1. record.query # 0 => record.query \in Queries
    BY DEF ClaudeTyped, RunRecords
  <2> QED BY <1>1, <2>1 DEF RecordFits, Idle
<1>4. LivesFit'
  BY <1>1 DEF LivesFit, LiveFits
<1>5. QueriesFit'
  <2>1. \A p \in Queries : CallsFit(query'[p])
    BY <1>1 DEF QueriesFit
  <2>2. ASSUME NEW p \in Queries, p # q PROVE query'[p].calls \cap query'[q].calls = {}
    BY <1>1, <2>2 DEF QueriesFit, Fresh
  <2>3. \A p, r \in Queries : p # r => query'[p].calls \cap query'[r].calls = {}
    BY <1>1, <2>2 DEF QueriesFit
  <2>4. \A p \in Queries : CallsFit(query[p])'
    BY <2>1 DEF CallsFit
  <2> QED BY <2>3, <2>4 DEF QueriesFit
<1>6. SaidFits'
  BY <1>1 DEF SaidFits
<1>7. ToldsFit'
  <2> SUFFICES ASSUME NEW p \in Queries, NEW t \in ToolCalls
               PROVE  /\ query'[p].told[t] = "allow" => said[t] = "allow"
                      /\ said[t] # "none" /\ t \in query'[p].calls /\ query'[p].told[t] # said[t] =>
                           record.result = "failed"
    BY <1>1 DEF ToldsFit, ToldFits
  <2>1. /\ query[p].told[t] = "allow" => said[t] = "allow"
        /\ said[t] # "none" /\ t \in query[p].calls /\ query[p].told[t] # said[t] =>
             record.result = "failed"
    BY DEF ToldsFit, ToldFits
  <2>2. CASE p # q
    BY <1>1, <2>1, <2>2
  <2>3. CASE p = q
    <3>1. Fresh(t) => said[t] = "none"
      BY DEF SaidFits, Fresh, ClaudeTyped, Mappers
    <3>2. t \in query[q].waiting => query[q].told[t] = "none" /\ t \in query[q].calls
      BY DEF QueriesFit, CallsFit
    <3> QED BY <1>1, <2>1, <2>3, <3>1, <3>2
  <2> QED BY <2>2, <2>3
<1> QED BY <1>2, <1>3, <1>4, <1>5, <1>6, <1>7

\* A step of the pump: it takes an event or ends, and the run goes on or ends with it.
LEMMA PumpStep ==
  ASSUME ClaudeInv, NEW q \in Queries, NEW new \in QueryRecords, CallsFit(new),
         query' = [query EXCEPT ![q] = new], said' = said,
         new.sdk = query[q].sdk, new.calls = query[q].calls, new.waiting = query[q].waiting,
         new.told = query[q].told, mapper' \in Mappers, checked' \in Checks,
         mapper'.open = checked'.open, mapper'.asked = checked'.pending,
         mapper'.answered = mapper.answered, mapper'.asked \cap mapper.answered = {},
         mapper'.open \cup mapper'.asked \subseteq mapper.open \cup mapper.asked \cup query[q].calls,
         \/ record' = record /\ mapper'.terminal = mapper.terminal
         \/ /\ ~mapper.terminal /\ mapper'.terminal
            /\ \E result \in {"succeeded", "failed"} : record' = [record EXCEPT !.result = result]
            /\ q = record.query,
         \/ new.pump = query[q].pump
         \/ /\ new.pump = "over" /\ (query[q].sdk = "over" \/ record'.result = "failed")
            /\ (~Current(q) \/ record'.result # "none")
  PROVE  ClaudeInv'
<1> USE DEF ClaudeInv
<1>1. /\ query' \in [Queries -> QueryRecords] /\ query'[q] = new
      /\ \A p \in Queries \ {q} : query'[p] = query[p]
  BY DEF ClaudeTyped
<1>2. /\ record' \in RunRecords /\ record'.query = record.query /\ record'.request = record.request
      /\ record'.with = record.with /\ record'.idle = record.idle
      /\ record'.result # record.result =>
           record.result = "none" /\ record'.result \in {"succeeded", "failed"}
      /\ record'.result # "none" <=> mapper'.terminal
      /\ record'.result # record.result => q = record.query
  BY DEF ClaudeTyped, RunRecords, RecordFits
<1>3. ClaudeTyped'
  BY <1>1, <1>2 DEF ClaudeTyped
<1>4. RecordFits'
  <2>1. record.query # 0 => record.query \in Queries
    BY DEF ClaudeTyped, RunRecords
  <2>2. record'.request # "none" => record'.query = 0 /\ record'.result = "none"
    <3>1. record.request # "none" => record.query = 0 /\ record.result = "none"
      BY DEF RecordFits
    <3>2. q # 0
      BY QueryIds
    <3> QED BY <1>2, <3>1, <3>2
  <2>3. ASSUME record'.result = "none", Idle', record'.idle = "no"
        PROVE  record.query # 0 /\ query'[record.query].pump = "on"
    <3>1. record.result = "none" /\ ~mapper.terminal /\ record' .result = record.result
      BY <1>2, <2>3 DEF RecordFits
    <3>2. record.query # 0 /\ query[record.query].pump = "on"
      BY <1>2, <2>3, <3>1 DEF RecordFits, Idle
    <3> QED BY <1>1, <1>2, <2>1, <2>3, <3>1, <3>2 DEF Current
  <2>4. record'.idle = "no run" =>
          record'.query = 0 /\ record'.result = "none" /\ record'.request # "cancel"
    BY <1>2, QueryIds DEF RecordFits
  <2> QED BY <1>2, <2>2, <2>3, <2>4 DEF RecordFits, Idle
<1>5. LivesFit'
  BY <1>1, <1>2 DEF LivesFit, LiveFits
<1>6. QueriesFit'
  <2>1. \A p \in Queries : CallsFit(query[p])'
    BY <1>1 DEF QueriesFit, CallsFit
  <2> QED BY <1>1, <2>1 DEF QueriesFit
<1>7. SaidFits'
  BY <1>1 DEF SaidFits
<1>8. ToldsFit'
  BY <1>1, <1>2 DEF ToldsFit, ToldFits
<1> QED BY <1>3, <1>4, <1>5, <1>6, <1>7, <1>8

LEMMA QueryKnown ==
  ASSUME ClaudeInv, NEW q \in Queries
  PROVE  query[q] \in QueryRecords /\ CallsFit(query[q]) /\ LiveFits(q)
  BY DEF ClaudeInv, ClaudeTyped, QueriesFit, LivesFit

LEMMA SdkUsesToolKeeps ==
  ASSUME ClaudeInv, NEW q \in Queries, NEW t \in ToolCalls, SdkUsesTool(q, t)
  PROVE  ClaudeInv'
<1> DEFINE old == query[q]
           events == <<RuntimeEvent("tool.started", t)>>
           queue == old.queue \o events
           C == old.calls \cup {t}
           new == [Pushed(q, events) EXCEPT !.calls = @ \cup {t}]
<1>1. old \in QueryRecords /\ CallsFit(old) /\ Fresh(t) /\ Sdk(q, new)
  BY QueryKnown DEF SdkUsesTool
<1>2. queue \in Seq(AllEvents)
      /\ \A i \in 1..Len(queue) : queue[i] \in ToolEvents => queue[i].call \in C
  <2>1. events \in Seq(AllEvents) /\ \A i \in 1..Len(events) : events[i].call \in C
    BY DEF AllEvents, ToolEvents, RuntimeEvent
  <2>2. C \in SUBSET ToolCalls /\ old.calls \subseteq C
    BY <1>1 DEF QueryRecords
  <2> HIDE DEF events, C
  <2> QED BY <2>1, <2>2, QueueGrows
<1> HIDE DEF queue, events, old
<1>3. /\ new.queue = queue /\ new.calls = C /\ new.sdk = old.sdk /\ new.pump = old.pump
      /\ new.waiting = old.waiting /\ new.told = old.told /\ new \in QueryRecords
  BY <1>1, <1>2 DEF QueryRecords, Pushed, AllEvents, old, queue
<1> HIDE DEF new
<1>4. CallsFit(new)
  BY <1>1, <1>2, <1>3 DEF CallsFit
<1> QED BY <1>1, <1>3, <1>4, SdkStep DEF old

LEMMA SdkAsksKeeps ==
  ASSUME ClaudeInv, NEW q \in Queries, NEW t \in ToolCalls, SdkAsks(q, t)
  PROVE  ClaudeInv'
<1> DEFINE old == query[q]
           events == <<RuntimeEvent("tool.started", t), RuntimeEvent("permission.requested", t)>>
           queue == old.queue \o events
           C == old.calls \cup {t}
           W == old.waiting \cup {t}
           new == [Pushed(q, events) EXCEPT !.calls = @ \cup {t}, !.waiting = @ \cup {t}]
<1>1. /\ old \in QueryRecords /\ CallsFit(old) /\ Sdk(q, new)
      /\ (Fresh(t) \/ t \in old.calls) /\ old.told[t] = "none"
  BY QueryKnown DEF SdkAsks, Fresh, CallsFit
<1>2. queue \in Seq(AllEvents)
      /\ \A i \in 1..Len(queue) : queue[i] \in ToolEvents => queue[i].call \in C
  <2>1. events \in Seq(AllEvents) /\ \A i \in 1..Len(events) : events[i].call \in C
    BY DEF AllEvents, ToolEvents, RuntimeEvent
  <2>2. C \in SUBSET ToolCalls /\ old.calls \subseteq C
    BY <1>1 DEF QueryRecords
  <2> HIDE DEF events, C
  <2> QED BY <2>1, <2>2, QueueGrows
<1> HIDE DEF queue, events, old
<1>3. /\ new.queue = queue /\ new.calls = C /\ new.sdk = old.sdk /\ new.pump = old.pump
      /\ new.waiting = W /\ new.told = old.told /\ new \in QueryRecords
  BY <1>1, <1>2 DEF QueryRecords, Pushed, AllEvents, old, queue
<1> HIDE DEF new
<1>4. CallsFit(new)
  BY <1>1, <1>2, <1>3 DEF CallsFit
<1> QED BY <1>1, <1>3, <1>4, SdkStep DEF old

LEMMA SdkAbandonsKeeps ==
  ASSUME ClaudeInv, NEW q \in Queries, NEW t \in ToolCalls, SdkAbandons(q, t)
  PROVE  ClaudeInv'
<1> DEFINE old == query[q]
           new == [old EXCEPT !.waiting = @ \ {t}, !.told[t] = "deny"]
<1>1. old \in QueryRecords /\ CallsFit(old) /\ t \in old.waiting /\ Sdk(q, new)
  BY QueryKnown DEF SdkAbandons
<1>2. /\ new.queue = old.queue /\ new.calls = old.calls /\ new.sdk = old.sdk
      /\ new.pump = old.pump /\ new.waiting = old.waiting \ {t}
      /\ new.told = [old.told EXCEPT ![t] = "deny"] /\ new \in QueryRecords
  BY <1>1 DEF QueryRecords, Decisions
<1>3. old.told \in [ToolCalls -> Decisions]
  BY <1>1 DEF QueryRecords
<1> HIDE DEF new, old
<1>4. CallsFit(new)
  BY <1>1, <1>2, <1>3 DEF CallsFit
<1> QED BY <1>1, <1>2, <1>3, <1>4, SdkStep DEF old

LEMMA SdkToolEndsKeeps ==
  ASSUME ClaudeInv, NEW q \in Queries, NEW t \in ToolCalls, SdkToolEnds(q, t)
  PROVE  ClaudeInv'
<1> DEFINE old == query[q]
           events == <<RuntimeEvent("tool.completed", t)>>
           queue == old.queue \o events
           new == [Pushed(q, events) EXCEPT !.ended = @ \cup {t}]
<1>1. old \in QueryRecords /\ CallsFit(old) /\ t \in old.calls /\ Sdk(q, new)
  BY QueryKnown DEF SdkToolEnds
<1>2. queue \in Seq(AllEvents)
      /\ \A i \in 1..Len(queue) : queue[i] \in ToolEvents => queue[i].call \in old.calls
  <2>1. events \in Seq(AllEvents) /\ \A i \in 1..Len(events) : events[i].call \in old.calls
    BY <1>1 DEF AllEvents, ToolEvents, RuntimeEvent
  <2>2. old.calls \in SUBSET ToolCalls
    BY <1>1 DEF QueryRecords
  <2> HIDE DEF events
  <2> QED BY <2>1, <2>2, QueueGrows
<1> HIDE DEF queue, events, old
<1>3. /\ new.queue = queue /\ new.calls = old.calls /\ new.sdk = old.sdk /\ new.pump = old.pump
      /\ new.waiting = old.waiting /\ new.told = old.told /\ new \in QueryRecords
  BY <1>1, <1>2 DEF QueryRecords, Pushed, AllEvents, old, queue
<1> HIDE DEF new
<1>4. CallsFit(new)
  BY <1>1, <1>2, <1>3 DEF CallsFit
<1> QED BY <1>1, <1>3, <1>4, SdkStep DEF old

LEMMA QueryOverKeeps ==
  ASSUME ClaudeInv, NEW q \in Queries, query[q].sdk = "live",
         NEW events \in {<<>>, <<RuntimeEvent("result", NoCall)>>, <<RuntimeEvent("runtime.error", NoCall)>>},
         QueryOver(q, events)
  PROVE  ClaudeInv'
<1> DEFINE old == query[q]
           queue == old.queue \o events
           told == DenyWaiting(q)
           new == [Pushed(q, events) EXCEPT !.sdk = "over", !.waiting = {}, !.told = told]
<1>1. old \in QueryRecords /\ CallsFit(old) /\ Sdk(q, new)
  BY QueryKnown DEF QueryOver
<1>2. queue \in Seq(AllEvents)
      /\ \A i \in 1..Len(queue) : queue[i] \in ToolEvents => queue[i].call \in old.calls
  <2>1. events \in Seq(AllEvents) /\ \A i \in 1..Len(events) : events[i] \notin ToolEvents
    <3>1. CASE events = <<>>
      BY <3>1
    <3>2. CASE events # <<>>
      <4>1. PICK type \in {"result", "runtime.error"} : events = <<RuntimeEvent(type, NoCall)>>
        BY <3>2
      <4>2. RuntimeEvent(type, NoCall) \in RunEvents /\ RuntimeEvent(type, NoCall) \notin ToolEvents
        BY DEF RunEvents, ToolEvents, RuntimeEvent
      <4> QED BY <4>1, <4>2 DEF AllEvents
    <3> QED BY <3>1, <3>2
  <2>2. old.calls \in SUBSET ToolCalls
    BY <1>1 DEF QueryRecords
  <2> QED BY <2>1, <2>2, QueueGrows
<1>3. told \in [ToolCalls -> Decisions]
      /\ \A t \in ToolCalls : told[t] = IF t \in old.waiting THEN "deny" ELSE old.told[t]
  BY <1>1 DEF DenyWaiting, QueryRecords, Decisions
<1> HIDE DEF queue, old, told
<1>4. /\ new.queue = queue /\ new.calls = old.calls /\ new.sdk = "over" /\ new.pump = old.pump
      /\ new.waiting = {} /\ new.told = told /\ new \in QueryRecords
  BY <1>1, <1>2, <1>3 DEF QueryRecords, Pushed, AllEvents, old, queue
<1> HIDE DEF new
<1>5. CallsFit(new)
  BY <1>1, <1>2, <1>3, <1>4 DEF CallsFit
<1> QED BY <1>1, <1>3, <1>4, <1>5, SdkStep DEF old

LEMMA EventTaken ==
  ASSUME ClaudeInv, NEW q \in Queries, query[q].queue # <<>>
  PROVE  /\ Head(query[q].queue) \in ToolEvents \cup RunEvents
         /\ Head(query[q].queue) \in ToolEvents => Head(query[q].queue).call \in query[q].calls
         /\ Tail(query[q].queue) \in Seq(AllEvents)
         /\ \A i \in 1..Len(Tail(query[q].queue)) :
              Tail(query[q].queue)[i] \in ToolEvents => Tail(query[q].queue)[i].call \in query[q].calls
<1> DEFINE queue == query[q].queue
<1>1. queue \in Seq(AllEvents) /\ CallsFit(query[q]) /\ queue # <<>>
  BY QueryKnown DEF QueryRecords, AllEvents
<1> HIDE DEF queue
<1>2. /\ Head(queue) = queue[1] /\ 1 \in 1..Len(queue) /\ queue[1] \in AllEvents
      /\ Tail(queue) \in Seq(AllEvents) /\ Len(Tail(queue)) = Len(queue) - 1 /\ Len(queue) \in Nat
      /\ \A i \in 1..Len(Tail(queue)) : Tail(queue)[i] = queue[i + 1] /\ i + 1 \in 1..Len(queue)
  BY <1>1, HeadTailProperties
<1> QED BY <1>1, <1>2 DEF CallsFit, queue, AllEvents

LEMMA PumpEventKeeps ==
  ASSUME ClaudeInv, NEW q \in Queries, PumpEvent(q)
  PROVE  ClaudeInv'
<1> DEFINE old == query[q]
           e == Head(old.queue)
           rest == Tail(old.queue)
           new == [old EXCEPT !.queue = rest]
           over == [old EXCEPT !.queue = rest, !.pump = "over"]
<1>1. /\ old \in QueryRecords /\ CallsFit(old)
      /\ rest \in Seq(AllEvents) /\ e \in ToolEvents \cup RunEvents
      /\ e \in ToolEvents => e.call \in old.calls /\ e.call \in ToolCalls
      /\ \A i \in 1..Len(rest) : rest[i] \in ToolEvents => rest[i].call \in old.calls
  BY QueryKnown, EventTaken DEF PumpEvent, ToolEvents
<1>2. \/ query' = [query EXCEPT ![q] = new] /\ UNCHANGED <<record, mapper, checked, said>>
      \/ query' = [query EXCEPT ![q] = new] /\ Current(q) /\ Mapped(e)
      \/ query' = [query EXCEPT ![q] = over] /\ Current(q) /\ FailRun
  BY DEF PumpEvent, ClaudeInv, ClaudeTyped
<1>3. mapper \in Mappers /\ checked \in Checks /\ record \in RunRecords /\ RecordFits /\ SaidFits
  BY DEF ClaudeInv, ClaudeTyped
<1> HIDE DEF old, e, rest
<1>4. /\ new.queue = rest /\ new.calls = old.calls /\ new.sdk = old.sdk /\ new.pump = old.pump
      /\ new.waiting = old.waiting /\ new.told = old.told /\ new \in QueryRecords /\ CallsFit(new)
  BY <1>1 DEF QueryRecords, CallsFit, AllEvents
<1>5. /\ over.queue = rest /\ over.calls = old.calls /\ over.sdk = old.sdk /\ over.pump = "over"
      /\ over.waiting = old.waiting /\ over.told = old.told /\ over \in QueryRecords /\ CallsFit(over)
  BY <1>1 DEF QueryRecords, CallsFit, AllEvents
<1> HIDE DEF new, over
<1>6. CASE query' = [query EXCEPT ![q] = new] /\ UNCHANGED <<record, mapper, checked, said>>
  BY <1>3, <1>4, <1>6, PumpStep DEF RecordFits, SaidFits, old
<1>7. CASE query' = [query EXCEPT ![q] = new] /\ Current(q) /\ Mapped(e)
  <2>1. /\ mapper' \in Mappers /\ checked' \in Checks /\ said' = said
        /\ mapper'.open = checked'.open /\ mapper'.asked = checked'.pending
        /\ mapper'.answered = mapper.answered /\ mapper'.asked \cap mapper.answered = {}
        /\ mapper'.open \cup mapper'.asked \subseteq mapper.open \cup mapper.asked \cup old.calls
        /\ \/ record' = record /\ mapper'.terminal = mapper.terminal
           \/ /\ ~mapper.terminal /\ mapper'.terminal
              /\ \E result \in {"succeeded", "failed"} : record' = [record EXCEPT !.result = result]
              /\ q = record.query
    <3> DEFINE t == e.call
    <3>1. CASE /\ e.type = "tool.started"
               /\ mapper' = [mapper EXCEPT !.open = @ \cup {t}]
               /\ checked' = [checked EXCEPT !.open = @ \cup {t}]
               /\ UNCHANGED <<record, said>>
      <4>1. t \in old.calls /\ t \in ToolCalls
        BY <1>1, <3>1 DEF RunEvents
      <4> QED BY <1>3, <3>1, <4>1 DEF Mappers, Checks, RecordFits, SaidFits
    <3>2. CASE /\ e.type = "permission.requested" /\ t \in mapper.open \ (mapper.asked \cup mapper.answered)
               /\ mapper' = [mapper EXCEPT !.asked = @ \cup {t}]
               /\ checked' = [checked EXCEPT !.pending = @ \cup {t}]
               /\ UNCHANGED <<record, said>>
      <4>1. t \in ToolCalls /\ t \in mapper.open /\ t \notin mapper.answered
        BY <1>3, <3>2 DEF Mappers
      <4>2. /\ mapper' \in Mappers /\ mapper'.open = mapper.open /\ mapper'.answered = mapper.answered
            /\ mapper'.asked = mapper.asked \cup {t} /\ mapper'.terminal = mapper.terminal
            /\ checked' \in Checks /\ checked'.open = checked.open
            /\ checked'.pending = checked.pending \cup {t}
        BY <1>3, <3>2, <4>1 DEF Mappers, Checks
      <4> QED BY <1>3, <3>2, <4>1, <4>2 DEF RecordFits, SaidFits
    <3>3. CASE /\ e.type = "tool.completed" /\ t \in mapper.open
               /\ mapper' = [mapper EXCEPT !.open = @ \ {t}, !.completed = @ \cup {t}]
               /\ checked' = [checked EXCEPT !.open = @ \ {t}]
               /\ UNCHANGED <<record, said>>
      BY <1>3, <3>3 DEF Mappers, Checks, RecordFits, SaidFits
    <3>4. CASE \E result \in {"succeeded", "failed"} : Terminal(result)
      BY <1>3, <1>7, <3>4 DEF Mappers, Checks, RecordFits, SaidFits, Terminal, Current
    <3> QED BY <1>7, <3>1, <3>2, <3>3, <3>4 DEF Mapped
  <2> QED BY <1>4, <1>7, <2>1, PumpStep DEF old
<1>8. CASE query' = [query EXCEPT ![q] = over] /\ Current(q) /\ FailRun
  <2>1. /\ mapper' = [mapper EXCEPT !.terminal = TRUE] /\ ~mapper.terminal /\ q = record.query
        /\ record' = [record EXCEPT !.result = "failed"] /\ UNCHANGED <<checked, said>>
    BY <1>8 DEF Current, FailRun, Terminal
  <2>2. /\ mapper' \in Mappers /\ mapper'.open = mapper.open /\ mapper'.asked = mapper.asked
        /\ mapper'.answered = mapper.answered /\ mapper'.terminal /\ record'.result = "failed"
        /\ mapper.open = checked.open /\ mapper.asked = checked.pending
        /\ mapper.asked \cap mapper.answered = {}
    BY <1>3, <2>1 DEF Mappers, RunRecords, RecordFits, SaidFits
  <2> QED BY <1>3, <1>5, <1>8, <2>1, <2>2, PumpStep DEF old
<1> QED BY <1>2, <1>6, <1>7, <1>8

LEMMA PumpEndsKeeps ==
  ASSUME ClaudeInv, NEW q \in Queries, PumpEnds(q)
  PROVE  ClaudeInv'
<1> DEFINE old == query[q]
           over == [old EXCEPT !.pump = "over"]
<1>1. /\ old \in QueryRecords /\ CallsFit(old) /\ old.sdk = "over"
      /\ query' = [query EXCEPT ![q] = over]
      /\ IF Current(q) THEN FailRun ELSE UNCHANGED <<record, mapper, checked, said>>
  BY QueryKnown DEF PumpEnds, ClaudeInv, ClaudeTyped
<1>2. mapper \in Mappers /\ checked \in Checks /\ record \in RunRecords /\ RecordFits /\ SaidFits
  BY DEF ClaudeInv, ClaudeTyped
<1> HIDE DEF old
<1>3. /\ over.calls = old.calls /\ over.sdk = old.sdk /\ over.pump = "over"
      /\ over.waiting = old.waiting /\ over.told = old.told /\ over \in QueryRecords /\ CallsFit(over)
  BY <1>1 DEF QueryRecords, CallsFit
<1> HIDE DEF over
<1>4. CASE ~Current(q)
  BY <1>1, <1>2, <1>3, <1>4, PumpStep DEF RecordFits, SaidFits, old
<1>5. CASE Current(q)
  <2>1. /\ mapper' = [mapper EXCEPT !.terminal = TRUE] /\ ~mapper.terminal /\ q = record.query
        /\ record' = [record EXCEPT !.result = "failed"] /\ UNCHANGED <<checked, said>>
    BY <1>1, <1>5 DEF Current, FailRun, Terminal
  <2>2. /\ mapper' \in Mappers /\ mapper'.open = mapper.open /\ mapper'.asked = mapper.asked
        /\ mapper'.answered = mapper.answered /\ mapper'.terminal /\ record'.result = "failed"
        /\ mapper.open = checked.open /\ mapper.asked = checked.pending
        /\ mapper.asked \cap mapper.answered = {}
    BY <1>2, <2>1 DEF Mappers, RunRecords, RecordFits, SaidFits
  <2> QED BY <1>1, <1>2, <1>3, <2>1, <2>2, PumpStep DEF old
<1> QED BY <1>4, <1>5

(***************************************************************************)
(* The requests of the host.                                               *)
(***************************************************************************)
\* The queries stay as they are but for their ends, and no query begins.
LEMMA QueriesStay ==
  ASSUME ClaudeInv, query' \in [Queries -> QueryRecords], said' = said,
         record'.result = record.result \/ record.result = "none",
         \A q \in Queries : /\ query'[q].calls = query[q].calls /\ query'[q].waiting = query[q].waiting
                            /\ query'[q].told = query[q].told
                            /\ query'[q].queue \in {query[q].queue, <<>>}
  PROVE  QueriesFit' /\ ToldsFit'
<1> USE DEF ClaudeInv
<1>1. ASSUME NEW q \in Queries PROVE CallsFit(query'[q])
  <2>1. CallsFit(query[q]) /\ Len(<<>>) = 0
    BY DEF QueriesFit
  <2> QED BY <2>1 DEF CallsFit
<1>2. \A q \in Queries : CallsFit(query[q])'
  BY <1>1 DEF CallsFit
<1>3. QueriesFit'
  BY <1>2 DEF QueriesFit
<1>4. ToldsFit'
  BY DEF ToldsFit, ToldFits
<1> QED BY <1>3, <1>4

LEMMA StartTaskKeeps ==
  ASSUME ClaudeInv, StartTask
  PROVE  ClaudeInv'
<1> USE DEF ClaudeInv
<1>1. /\ record.request = "none" /\ record.idle = "no run" /\ record.result = "none"
      /\ record' = [record EXCEPT !.request = "start"]
      /\ UNCHANGED <<mapper, checked, query, said>>
  BY DEF StartTask, Idle, RecordFits
<1>2. /\ record' \in RunRecords /\ record'.request = "start" /\ record'.query = record.query
      /\ record'.with = record.with /\ record'.idle = record.idle /\ record'.result = record.result
  BY <1>1 DEF ClaudeTyped, RunRecords
<1>3. ClaudeTyped' /\ RecordFits' /\ LivesFit' /\ SaidFits'
  BY <1>1, <1>2 DEF ClaudeTyped, RecordFits, LivesFit, LiveFits, SaidFits, Idle
<1>4. QueriesFit' /\ ToldsFit'
  BY <1>1, <1>2, QueriesStay DEF ClaudeTyped
<1> QED BY <1>3, <1>4

\* A request stops the current query and waits for its pump.
LEMMA StoppingKeeps ==
  ASSUME ClaudeInv, Idle, record.result = "none", record.idle # "no run",
         NEW request \in {"resume", "feedback", "successor", "cancel"}, Stopping(request),
         mapper' \in Mappers, checked' \in Checks, said' = said,
         mapper'.open = mapper.open, mapper'.asked = mapper.asked, mapper'.answered = mapper.answered,
         mapper'.terminal = mapper.terminal,
         checked'.open = checked.open, checked'.pending = checked.pending
  PROVE  ClaudeInv'
<1> USE DEF ClaudeInv
<1>1. record' \in RunRecords /\ record'.request = request /\ record'.query = 0
      /\ record'.with = record.query /\ record'.idle = record.idle /\ record'.result = "none"
  BY DEF Stopping, ClaudeTyped, RunRecords
<1>2. query' \in [Queries -> QueryRecords]
      /\ \A q \in Queries : /\ query'[q].calls = query[q].calls /\ query'[q].waiting = query[q].waiting
                            /\ query'[q].told = query[q].told /\ query'[q].queue = query[q].queue
                            /\ query'[q].sdk = query[q].sdk /\ query'[q].pump = query[q].pump
  <2>1. CASE record.query = 0
    BY <2>1 DEF Stopping, Aborts, ClaudeTyped
  <2>2. CASE record.query # 0
    <3> DEFINE current == record.query
               new == [query[current] EXCEPT !.aborted = TRUE]
    <3>1. current \in Queries /\ query' = [query EXCEPT ![current] = new]
      BY <2>2 DEF Stopping, Aborts, ClaudeTyped, RunRecords
    <3>2. query[current] \in QueryRecords /\ query \in [Queries -> QueryRecords]
      BY <3>1 DEF ClaudeTyped
    <3> HIDE DEF current
    <3>3. /\ new \in QueryRecords /\ new.calls = query[current].calls
          /\ new.waiting = query[current].waiting /\ new.told = query[current].told
          /\ new.queue = query[current].queue /\ new.sdk = query[current].sdk
          /\ new.pump = query[current].pump
      BY <3>2 DEF QueryRecords
    <3> HIDE DEF new
    <3> QED BY <3>1, <3>2, <3>3
  <2> QED BY <2>1, <2>2
<1>3. ClaudeTyped' /\ RecordFits' /\ SaidFits'
  BY <1>1, <1>2 DEF ClaudeTyped, RecordFits, SaidFits, Idle
<1>4. LivesFit'
  BY <1>1, <1>2 DEF LivesFit, LiveFits, Idle
<1>5. QueriesFit' /\ ToldsFit'
  BY <1>1, <1>2, QueriesStay
<1> QED BY <1>3, <1>4, <1>5

LEMMA ContinuesKeeps ==
  ASSUME ClaudeInv, NEW request \in {"resume", "feedback", "successor"}, Continues(request)
  PROVE  ClaudeInv'
  BY StoppingKeeps DEF Continues, ClaudeInv, ClaudeTyped

LEMMA CancelTaskKeeps ==
  ASSUME ClaudeInv, CancelTask
  PROVE  ClaudeInv'
<1>1. /\ mapper' \in Mappers /\ checked' \in Checks
      /\ mapper'.open = mapper.open /\ mapper'.asked = mapper.asked
      /\ mapper'.answered = mapper.answered /\ mapper'.terminal = mapper.terminal
      /\ checked'.open = checked.open /\ checked'.pending = checked.pending
  BY DEF CancelTask, ClaudeInv, ClaudeTyped, Mappers, Checks
<1> QED BY <1>1, StoppingKeeps DEF CancelTask

\* While a request waits for the pump, only the query it stops can live; then none does.
LEMMA NoneLives ==
  ASSUME ClaudeInv, record.request # "none", PumpOver
  PROVE  \A q \in Queries : query[q].sdk # "live"
<1> SUFFICES ASSUME NEW q \in Queries, query[q].sdk = "live" PROVE FALSE
  OBVIOUS
<1>1. LiveFits(q) /\ q # 0 /\ record.query = 0 /\ record.result = "none"
  BY QueryIds DEF ClaudeInv, LivesFit, RecordFits
<1>2. q = record.with
  BY <1>1 DEF LiveFits
<1> QED BY <1>1, <1>2 DEF PumpOver, LiveFits

LEMMA CancelledKeeps ==
  ASSUME ClaudeInv, Cancelled
  PROVE  ClaudeInv'
<1> USE DEF ClaudeInv
<1>1. /\ record.request = "cancel" /\ PumpOver /\ record.query = 0 /\ record.result = "none"
      /\ mapper' = [mapper EXCEPT !.terminal = TRUE]
      /\ record' = [record EXCEPT !.result = "cancelled", !.request = "none"]
      /\ UNCHANGED <<checked, query, said>>
  BY DEF Cancelled, RecordFits
<1>2. /\ record' \in RunRecords /\ record'.request = "none" /\ record'.query = record.query
      /\ record'.idle = record.idle /\ record'.result = "cancelled"
      /\ mapper' \in Mappers /\ mapper'.terminal /\ mapper'.open = mapper.open
      /\ mapper'.asked = mapper.asked /\ mapper'.answered = mapper.answered
  BY <1>1 DEF ClaudeTyped, RunRecords, Mappers
<1>3. ClaudeTyped' /\ RecordFits' /\ SaidFits'
  BY <1>1, <1>2 DEF ClaudeTyped, RecordFits, SaidFits, Idle
<1>4. LivesFit'
  BY <1>1, <1>2, NoneLives DEF LivesFit, LiveFits
<1>5. QueriesFit' /\ ToldsFit'
  BY <1>1, <1>2, QueriesStay DEF ClaudeTyped
<1> QED BY <1>3, <1>4, <1>5

LEMMA QueryStartsKeeps ==
  ASSUME ClaudeInv, QueryStarts
  PROVE  ClaudeInv'
<1> USE DEF ClaudeInv
<1>1. PICK q \in Queries :
        /\ query[q].sdk = "none"
        /\ \/ /\ query' = [query EXCEPT ![q].sdk = "live", ![q].pump = "on"]
              /\ record' = [record EXCEPT !.request = "none", !.query = q, !.idle = "no"]
           \/ /\ query' = [query EXCEPT ![q].sdk = "over", ![q].aborted = TRUE]
              /\ record' = [record EXCEPT !.request = "none",
                              !.idle = IF record.request = "start" THEN "no run" ELSE "not continued"]
  BY DEF QueryStarts, NextQuery
<1>2. /\ record.request # "none" /\ PumpOver /\ UNCHANGED <<mapper, checked, said>>
      /\ record.query = 0 /\ record.result = "none" /\ q # 0
      /\ \A p \in Queries : query[p].sdk # "live"
      /\ \A p \in Queries : query[p].pump = "over" => query[p].sdk = "over"
  <2>1. record.request # "none" /\ PumpOver /\ UNCHANGED <<mapper, checked, said>>
    BY DEF QueryStarts
  <2>2. record.query = 0 /\ record.result = "none" /\ q # 0
    BY <2>1, QueryIds DEF RecordFits
  <2>3. \A p \in Queries : query[p].pump = "over" => query[p].sdk = "over"
    BY <2>2 DEF LivesFit, LiveFits
  <2> QED BY <2>1, <2>2, <2>3, NoneLives
<1>3. /\ query' \in [Queries -> QueryRecords]
      /\ \A p \in Queries : /\ query'[p].calls = query[p].calls /\ query'[p].waiting = query[p].waiting
                            /\ query'[p].told = query[p].told /\ query'[p].queue = query[p].queue
      /\ \A p \in Queries \ {q} : query'[p] = query[p]
  <2> DEFINE old == query[q]
             live == [old EXCEPT !.sdk = "live", !.pump = "on"]
             over == [old EXCEPT !.sdk = "over", !.aborted = TRUE]
  <2>1. old \in QueryRecords /\ query \in [Queries -> QueryRecords]
    BY DEF ClaudeTyped
  <2>2. query' = [query EXCEPT ![q] = live] \/ query' = [query EXCEPT ![q] = over]
    BY <1>1, <2>1
  <2> HIDE DEF old
  <2>3. /\ live \in QueryRecords /\ live.calls = old.calls /\ live.waiting = old.waiting
        /\ live.told = old.told /\ live.queue = old.queue
        /\ over \in QueryRecords /\ over.calls = old.calls /\ over.waiting = old.waiting
        /\ over.told = old.told /\ over.queue = old.queue
    BY <2>1 DEF QueryRecords
  <2> HIDE DEF live, over
  <2> QED BY <2>1, <2>2, <2>3 DEF old
<1>4. /\ record' \in RunRecords /\ record'.request = "none" /\ record'.result = "none"
      /\ \/ record'.query = q /\ record'.idle = "no" /\ query'[q].sdk = "live" /\ query'[q].pump = "on"
         \/ record'.query = 0 /\ record'.idle # "no" /\ query'[q].sdk = "over"
  <2>1. record \in RunRecords /\ query \in [Queries -> QueryRecords] /\ query[q] \in QueryRecords
    BY DEF ClaudeTyped
  <2>2. CASE /\ query' = [query EXCEPT ![q].sdk = "live", ![q].pump = "on"]
             /\ record' = [record EXCEPT !.request = "none", !.query = q, !.idle = "no"]
    <3>1. query'[q].sdk = "live" /\ query'[q].pump = "on"
      BY <2>1, <2>2 DEF QueryRecords
    <3> QED BY <1>2, <2>1, <2>2, <3>1 DEF RunRecords
  <2>3. CASE /\ query' = [query EXCEPT ![q].sdk = "over", ![q].aborted = TRUE]
             /\ record' = [record EXCEPT !.request = "none",
                             !.idle = IF record.request = "start" THEN "no run" ELSE "not continued"]
    <3>1. query'[q].sdk = "over"
      BY <2>1, <2>3 DEF QueryRecords
    <3>2. PICK idle \in {"no run", "not continued"} :
            record' = [record EXCEPT !.request = "none", !.idle = idle]
      BY <2>3
    <3> QED BY <1>2, <2>1, <3>1, <3>2 DEF RunRecords
  <2> QED BY <1>1, <2>2, <2>3
<1>5. ClaudeTyped' /\ RecordFits' /\ SaidFits'
  BY <1>2, <1>3, <1>4 DEF ClaudeTyped, RecordFits, SaidFits, Idle
<1>6. LivesFit'
  BY <1>2, <1>3, <1>4 DEF LivesFit, LiveFits
<1>7. QueriesFit' /\ ToldsFit'
  BY <1>2, <1>3, <1>4, QueriesStay
<1> QED BY <1>5, <1>6, <1>7

LEMMA RestoreKeeps ==
  ASSUME ClaudeInv, Restore
  PROVE  ClaudeInv'
<1> USE DEF ClaudeInv
<1>1. /\ record' = [record EXCEPT !.query = 0, !.idle = "restored"]
      /\ query' = [q \in Queries |-> IF query[q].sdk = "none" THEN query[q]
                                     ELSE [query[q] EXCEPT !.sdk = "over", !.pump = "over", !.queue = <<>>]]
      /\ UNCHANGED <<mapper, checked, said>> /\ record.request = "none"
  BY DEF Restore, Idle
<1>2. /\ record' \in RunRecords /\ record'.request = "none" /\ record'.query = 0
      /\ record'.idle = "restored" /\ record'.result = record.result
  BY <1>1 DEF ClaudeTyped, RunRecords
<1>3. ASSUME NEW q \in Queries
      PROVE  /\ query'[q] \in QueryRecords
             /\ query'[q].calls = query[q].calls /\ query'[q].waiting = query[q].waiting
             /\ query'[q].told = query[q].told /\ query'[q].queue \in {query[q].queue, <<>>}
             /\ (query'[q] = query[q] /\ query[q].sdk = "none") \/ query'[q].sdk = "over"
  <2>1. query[q] \in QueryRecords
    BY DEF ClaudeTyped
  <2>2. CASE query[q].sdk = "none"
    BY <1>1, <2>1, <2>2
  <2>3. CASE query[q].sdk # "none"
    <3>1. query'[q] = [query[q] EXCEPT !.sdk = "over", !.pump = "over", !.queue = <<>>]
      BY <1>1, <2>3
    <3>2. <<>> \in Seq(ToolEvents \cup RunEvents)
      OBVIOUS
    <3> QED BY <2>1, <3>1, <3>2 DEF QueryRecords
  <2> QED BY <2>2, <2>3
<1>4. query' \in [Queries -> QueryRecords]
  BY <1>1, <1>3
<1>5. ClaudeTyped' /\ RecordFits' /\ SaidFits'
  BY <1>1, <1>2, <1>3, <1>4 DEF ClaudeTyped, RecordFits, SaidFits, Idle
<1>6. LivesFit'
  BY <1>2, <1>3 DEF LivesFit, LiveFits
<1>7. QueriesFit' /\ ToldsFit'
  BY <1>1, <1>2, <1>3, <1>4, QueriesStay
<1> QED BY <1>5, <1>6, <1>7

\* An answer is told to the SDK that waits for it, or the run fails.
LEMMA RespondKeeps ==
  ASSUME ClaudeInv, NEW t \in ToolCalls, NEW decision \in {"allow", "deny"},
         RespondToPermission(t, decision)
  PROVE  ClaudeInv'
<1> USE DEF ClaudeInv
<1> DEFINE q == record.query
           old == query[q]
           new == [old EXCEPT !.waiting = @ \ {t}, !.told[t] = decision]
           m == [mapper EXCEPT !.asked = @ \ {t}, !.answered = @ \cup {t}]
<1>1. /\ record.request = "none" /\ record.result = "none" /\ t \in mapper.asked /\ q \in Queries
      /\ ~mapper.terminal /\ said' = [said EXCEPT ![t] = decision]
      /\ checked' = [checked EXCEPT !.pending = @ \ {t}]
  BY DEF RespondToPermission, Idle, ClaudeTyped, RunRecords, RecordFits
<1>2. /\ mapper \in Mappers /\ checked \in Checks /\ record \in RunRecords
      /\ old \in QueryRecords /\ query \in [Queries -> QueryRecords]
      /\ said \in [ToolCalls -> Decisions] /\ mapper.open = checked.open
      /\ mapper.asked = checked.pending /\ mapper.asked \cap mapper.answered = {}
      /\ said[t] = "none"
  BY <1>1 DEF ClaudeTyped, RecordFits, SaidFits
<1>3. /\ m \in Mappers /\ m.open = mapper.open /\ m.asked = mapper.asked \ {t}
      /\ m.answered = mapper.answered \cup {t} /\ m.terminal = mapper.terminal
      /\ checked' \in Checks /\ checked'.open = checked.open
      /\ checked'.pending = checked.pending \ {t}
      /\ said' \in [ToolCalls -> Decisions] /\ said'[t] = decision
      /\ \A u \in ToolCalls \ {t} : said'[u] = said[u]
  BY <1>1, <1>2 DEF Mappers, Checks, Decisions
<1> HIDE DEF m
<1>4. ASSUME NEW told, told \in [Queries -> [ToolCalls -> Decisions]],
             \A p \in Queries, u \in ToolCalls : p # q \/ u # t => told[p][u] = query[p].told[u],
             \/ t \in old.waiting /\ told[q][t] = decision
             \/ told[q][t] = old.told[t] /\ record'.result = "failed",
             record'.result \in {"none", "failed"}
      PROVE  \A p \in Queries : \A u \in ToolCalls :
               /\ told[p][u] = "allow" => said'[u] = "allow"
               /\ said'[u] # "none" /\ u \in query[p].calls /\ told[p][u] # said'[u] =>
                    record'.result = "failed"
  <2> SUFFICES ASSUME NEW p \in Queries, NEW u \in ToolCalls
               PROVE  /\ told[p][u] = "allow" => said'[u] = "allow"
                      /\ said'[u] # "none" /\ u \in query[p].calls /\ told[p][u] # said'[u] =>
                           record'.result = "failed"
    OBVIOUS
  <2>1. /\ query[p].told[u] = "allow" => said[u] = "allow"
        /\ said[u] # "none" /\ u \in query[p].calls /\ query[p].told[u] # said[u] =>
             record.result = "failed"
    BY DEF ToldsFit, ToldFits
  <2>2. CASE u # t
    BY <1>1, <1>3, <1>4, <2>1, <2>2
  <2>3. CASE u = t /\ p = q
    BY <1>2, <1>3, <1>4, <2>1, <2>3
  <2>4. CASE u = t /\ p # q
    <3>1. t \in old.waiting => t \notin query[p].calls
      BY <1>1, <2>4 DEF QueriesFit, CallsFit
    <3> QED BY <1>2, <1>3, <1>4, <2>1, <2>4, <3>1
  <2> QED BY <2>2, <2>3, <2>4
<1>5. \A u \in mapper.open \cup mapper.asked \cup mapper.answered : \E p \in Queries : u \in query[p].calls
  BY DEF SaidFits
<1>6. \A u \in ToolCalls : said[u] = "none" <=> u \notin mapper.answered
  BY DEF SaidFits
<1>7. CASE t \in old.waiting
  <2>1. query' = [query EXCEPT ![q] = new] /\ mapper' = m /\ record' = record
    BY <1>1, <1>2, <1>7 DEF RespondToPermission, m
  <2>2. old.told \in [ToolCalls -> Decisions] /\ CallsFit(old)
    BY <1>1, <1>2 DEF QueryRecords, QueriesFit
  <2>3. /\ new \in QueryRecords /\ new.queue = old.queue /\ new.calls = old.calls
        /\ new.waiting = old.waiting \ {t} /\ new.sdk = old.sdk /\ new.pump = old.pump
        /\ new.told = [old.told EXCEPT ![t] = decision]
    BY <1>2 DEF QueryRecords, Decisions
  <2> HIDE DEF new, old
  <2>4. /\ query' \in [Queries -> QueryRecords] /\ query'[q] = new
        /\ \A p \in Queries \ {q} : query'[p] = query[p]
    BY <1>1, <1>2, <2>1, <2>3
  <2>5. CallsFit(new)
    BY <1>7, <2>2, <2>3 DEF CallsFit
  <2>6. ClaudeTyped'
    BY <1>2, <1>3, <2>1, <2>4 DEF ClaudeTyped
  <2>7. RecordFits'
    <3>1. \A p \in Queries : query'[p].pump = query[p].pump
      BY <2>3, <2>4 DEF old
    <3>2. record.query # 0 => record.query \in Queries
      BY <1>2 DEF RunRecords
    <3> QED BY <1>2, <1>3, <2>1, <3>1, <3>2 DEF RecordFits, Idle
  <2>8. LivesFit'
    BY <2>1, <2>3, <2>4 DEF LivesFit, LiveFits, old
  <2>9. QueriesFit'
    <3>1. \A p \in Queries : CallsFit(query[p])'
      BY <2>4, <2>5 DEF QueriesFit, CallsFit
    <3>2. \A p \in Queries : query'[p].calls = query[p].calls
      BY <2>3, <2>4 DEF old
    <3> QED BY <3>1, <3>2 DEF QueriesFit
  <2>10. SaidFits'
    <3>1. \A p \in Queries : query'[p].calls = query[p].calls
      BY <2>3, <2>4 DEF old
    <3> QED BY <1>1, <1>2, <1>3, <1>5, <1>6, <2>1, <3>1 DEF SaidFits
  <2>11. ToldsFit'
    <3> DEFINE told == [p \in Queries |-> query'[p].told]
    <3>1. told \in [Queries -> [ToolCalls -> Decisions]]
      BY <2>4 DEF QueryRecords
    <3>2. \A p \in Queries, u \in ToolCalls : p # q \/ u # t => told[p][u] = query[p].told[u]
      BY <2>2, <2>3, <2>4 DEF old
    <3>3. told[q][t] = decision
      BY <1>1, <2>2, <2>3, <2>4
    <3>4. \A p \in Queries : query'[p].calls = query[p].calls /\ told[p] = query'[p].told
      BY <2>3, <2>4 DEF old
    <3> HIDE DEF told
    <3>5. \A p \in Queries : \A u \in ToolCalls :
            /\ told[p][u] = "allow" => said'[u] = "allow"
            /\ said'[u] # "none" /\ u \in query[p].calls /\ told[p][u] # said'[u] =>
                 record'.result = "failed"
      BY <1>1, <1>4, <1>7, <2>1, <3>1, <3>2, <3>3 DEF old
    <3> QED BY <3>4, <3>5 DEF ToldsFit, ToldFits
  <2> QED BY <2>6, <2>7, <2>8, <2>9, <2>10, <2>11
<1>8. CASE t \notin old.waiting
  <2>1. /\ mapper' = [m EXCEPT !.terminal = TRUE] /\ query' = query
        /\ record' = [record EXCEPT !.result = "failed"]
    BY <1>8 DEF RespondToPermission, m
  <2>2. /\ record' \in RunRecords /\ record'.result = "failed" /\ record'.query = q
        /\ record'.request = "none" /\ record'.with = record.with /\ record'.idle = record.idle
        /\ mapper' \in Mappers /\ mapper'.terminal /\ mapper'.open = m.open
        /\ mapper'.asked = m.asked /\ mapper'.answered = m.answered
    BY <1>1, <1>2, <1>3, <2>1 DEF RunRecords, Mappers
  <2>3. record.idle # "no run"
    BY <1>1, QueryIds DEF RecordFits
  <2>4. ClaudeTyped' /\ RecordFits' /\ LivesFit'
    BY <1>2, <1>3, <2>1, <2>2, <2>3 DEF ClaudeTyped, RecordFits, LivesFit, LiveFits, Idle
  <2>5. QueriesFit'
    BY <2>1 DEF QueriesFit, CallsFit
  <2>6. SaidFits'
    BY <1>1, <1>2, <1>3, <1>5, <1>6, <2>1, <2>2 DEF SaidFits
  <2>7. ToldsFit'
    <3> DEFINE told == [p \in Queries |-> query[p].told]
    <3>1. told \in [Queries -> [ToolCalls -> Decisions]]
      BY <1>2 DEF QueryRecords
    <3>2. \A p \in Queries, u \in ToolCalls : told[p][u] = query[p].told[u]
      OBVIOUS
    <3> HIDE DEF told
    <3>3. \A p \in Queries : \A u \in ToolCalls :
            /\ told[p][u] = "allow" => said'[u] = "allow"
            /\ said'[u] # "none" /\ u \in query[p].calls /\ told[p][u] # said'[u] =>
                 record'.result = "failed"
      BY <1>1, <1>4, <2>2, <3>1, <3>2
    <3> QED BY <2>1, <3>2, <3>3 DEF ToldsFit, ToldFits
  <2> QED BY <2>4, <2>5, <2>6, <2>7
<1> QED BY <1>7, <1>8

LEMMA EmptyQueue == \A S : <<>> \in Seq(S) /\ \A i \in 1..Len(<<>>) : FALSE
<1>1. Len(<<>>) = 0
  OBVIOUS
<1>2. \A i \in 1..0 : FALSE
  OBVIOUS
<1> QED BY <1>1, <1>2

LEMMA ClaudeInitFits == ClaudeInit => ClaudeInv
<1> SUFFICES ASSUME ClaudeInit PROVE ClaudeInv
  OBVIOUS
<1> USE DEF ClaudeInit
<1>1. NoQuery \in QueryRecords /\ CallsFit(NoQuery)
  <2>1. <<>> \in Seq(ToolEvents \cup RunEvents) /\ \A i \in 1..Len(<<>>) : FALSE
    BY EmptyQueue
  <2>2. /\ [t \in ToolCalls |-> "none"] \in [ToolCalls -> Decisions]
        /\ \A t \in ToolCalls : [u \in ToolCalls |-> "none"][t] = "none"
    BY DEF Decisions
  <2>3. NoQuery \in QueryRecords
    BY <2>1, <2>2 DEF NoQuery, QueryRecords
  <2>4. /\ NoQuery.queue = <<>> /\ NoQuery.waiting = {} /\ NoQuery.calls = {}
        /\ \A t \in ToolCalls : NoQuery.told[t] = "none"
    BY <2>2 DEF NoQuery
  <2>5. \A i \in 1..Len(NoQuery.queue) : FALSE
    BY <2>1, <2>4
  <2> QED BY <2>3, <2>4, <2>5 DEF CallsFit
<1>2. ClaudeTyped
  BY <1>1 DEF ClaudeTyped, RunRecords, Mappers, Checks, Decisions
<1>3. RecordFits /\ SaidFits
  BY DEF RecordFits, SaidFits, Idle
<1>4. LivesFit
  BY DEF LivesFit, LiveFits, NoQuery
<1>5. QueriesFit
  BY <1>1 DEF QueriesFit, NoQuery
<1>6. ToldsFit
  BY DEF ToldsFit, ToldFits, NoQuery
<1> QED BY <1>2, <1>3, <1>4, <1>5, <1>6 DEF ClaudeInv

LEMMA ClaudeStepKeeps == ClaudeInv /\ [ClaudeNext]_claudeVars => ClaudeInv'
<1> SUFFICES ASSUME ClaudeInv, [ClaudeNext]_claudeVars PROVE ClaudeInv'
  OBVIOUS
<1>1. ASSUME NEW q \in Queries, NEW t \in ToolCalls,
             SdkUsesTool(q, t) \/ SdkAsks(q, t) \/ SdkAbandons(q, t) \/ SdkToolEnds(q, t)
      PROVE  ClaudeInv'
  BY <1>1, SdkUsesToolKeeps, SdkAsksKeeps, SdkAbandonsKeeps, SdkToolEndsKeeps
<1>2. ASSUME NEW q \in Queries, SdkSucceeds(q) \/ SdkFails(q) \/ SdkStops(q)
      PROVE  ClaudeInv'
  BY <1>2, QueryOverKeeps DEF SdkSucceeds, SdkFails, SdkStops, Live
<1>3. ASSUME NEW q \in Queries, PumpEvent(q) \/ PumpEnds(q)
      PROVE  ClaudeInv'
  BY <1>3, PumpEventKeeps, PumpEndsKeeps
<1>4. CASE \/ StartTask \/ ResumeTask \/ SendFeedback \/ CreateSuccessorSession
           \/ QueryStarts \/ CancelTask \/ Cancelled \/ Restore
  BY <1>4, StartTaskKeeps, ContinuesKeeps, QueryStartsKeeps, CancelTaskKeeps, CancelledKeeps,
     RestoreKeeps DEF ResumeTask, SendFeedback, CreateSuccessorSession
<1>5. ASSUME NEW t \in ToolCalls, NEW d \in {"allow", "deny"}, RespondToPermission(t, d)
      PROVE  ClaudeInv'
  BY <1>5, RespondKeeps
<1>6. CASE UNCHANGED claudeVars
  <2>1. UNCHANGED <<record, mapper, checked, query, said>>
    BY <1>6 DEF claudeVars
  <2>2. ClaudeTyped' /\ RecordFits'
    BY <2>1 DEF ClaudeInv, ClaudeTyped, RecordFits, Idle
  <2>3. LivesFit' /\ ToldsFit'
    BY <2>1 DEF ClaudeInv, LivesFit, LiveFits, ToldsFit, ToldFits
  <2>4. QueriesFit' /\ SaidFits'
    BY <2>1 DEF ClaudeInv, QueriesFit, CallsFit, SaidFits
  <2> QED BY <2>2, <2>3, <2>4 DEF ClaudeInv
<1>7. CASE ClaudeNext
  BY <1>1, <1>2, <1>3, <1>4, <1>5, <1>7 DEF ClaudeNext
<1> QED BY <1>6, <1>7

\* A Claude run has somebody who ends its events, and the SDK acts only on decisions the
\* events tell, for any number of tool calls and queries (driver.ts, runtime.ts).
THEOREM ClaudeRunsAreCarried == ClaudeSpec => []RunIsCarried
<1>1. ClaudeInv => RunIsCarried
  BY DEF ClaudeInv, RunIsCarried, RecordFits, LivesFit, LiveFits, ToldsFit, ToldFits
<1> QED BY ClaudeInitFits, ClaudeStepKeeps, <1>1, PTL DEF ClaudeSpec

(***************************************************************************)
(* The OpenCode driver.                                                    *)
(***************************************************************************)
OcEnds == {"succeeded", "failed", "cancelled"}
OcRuns == [state : {"none", "running", "waiting_permission", "cancelling"} \cup OcEnds,
           session : OcIds \cup {0}, pump : {"none", "on", "over"}, aborted : BOOLEAN, restores : Nat]
OcPlain == [op : {"none", "start", "feedback", "resume", "successor", "cancel"}]
OcAnswers == [op : {"respond", "responded"}, call : OcCalls, decision : {"allow", "deny"}]
OcMappers == [session : OcIds \cup {0}, open : SUBSET OcCalls, asked : SUBSET OcCalls,
              answered : SUBSET OcCalls, completed : SUBSET OcCalls,
              cancelling : BOOLEAN, terminal : BOOLEAN]
OcStates == [exists : BOOLEAN, busy : BOOLEAN, calls : SUBSET OcCalls, ended : SUBSET OcCalls,
             waiting : SUBSET OcCalls, told : [OcCalls -> Decisions]]
OcCallEvents == [type : {"tool", "tool.ended", "permission.requested", "permission.replied"},
                 session : OcIds, call : OcCalls]
OcEvents == OcCallEvents \cup [type : {"session.idle", "session.error"}, session : OcIds, call : {NoOcCall}]

OcTyped ==
  /\ ocRun \in OcRuns /\ ocRequest \in OcPlain \cup OcAnswers /\ ocMapper \in OcMappers
  /\ ocServer \in [OcIds -> OcStates] /\ ocSaid \in [OcCalls -> Decisions]
  /\ ocStream \in [open : BOOLEAN, events : Seq(OcEvents)]

\* The record and the mapper agree, and a pump that is over left a run that ends.
OcRunFits ==
  /\ ocMapper.session = ocRun.session
  /\ ocMapper.terminal <=> ocRun.state \in OcEnds
  /\ ocRun.pump = "over" => ocMapper.terminal \/ ocMapper.cancelling
  /\ ocRun.aborted => ocMapper.terminal
  /\ ocRun.state = "succeeded" => ocMapper.asked = {}
  /\ ocRequest.op # "none" => ocRun.state # "none"
  /\ ocRun.state # "none" \/ ocRun.pump # "none" => ocRun.session \in OcIds

\* Calls are of one session; what waits for an answer has none.
OcServerFits ==
  /\ \A s \in OcIds : /\ ocServer[s].waiting \subseteq ocServer[s].calls
                      /\ \A t \in ocServer[s].waiting : ocServer[s].told[t] = "none"
                      /\ \A t \in OcCalls \ ocServer[s].calls : ocServer[s].told[t] = "none"
  /\ \A r, s \in OcIds : r # s => ocServer[r].calls \cap ocServer[s].calls = {}

\* An event tells what the server did.
OcEventFits(e) ==
  /\ e \in OcCallEvents => e.call \in ocServer[e.session].calls
  /\ e.type = "tool.ended" => e.call \in ocServer[e.session].ended
  /\ e.type = "permission.replied" => ocServer[e.session].told[e.call] # "none"
OcEventsFit == \A i \in 1..Len(ocStream.events) : OcEventFits(ocStream.events[i])

\* So does the mapper.
OcKnown(t) == \E s \in OcIds : t \in ocServer[s].calls
OcMapperFits ==
  /\ \A t \in ocMapper.asked \cup ocMapper.completed : OcKnown(t)
  /\ \A t \in OcCalls : ocSaid[t] # "none" => OcKnown(t)
  /\ \A s \in OcIds : ocMapper.completed \cap ocServer[s].calls \subseteq ocServer[s].ended

\* What is said was told; what was told and not said is on its way, or the run is at its end.
OcGone == ocRun.state \in {"failed", "cancelled"}
OcToldFits ==
  \A s \in OcIds : \A t \in ocServer[s].calls :
    /\ ocSaid[t] # "none" => ocServer[s].told[t] = ocSaid[t]
    /\ ocServer[s].told[t] # "none" /\ ocSaid[t] = "none" =>
         OcGone \/ (ocRequest.op = "responded" /\ ocRequest.call = t)
OcRequestFits ==
  /\ ocRequest.op = "respond" =>
       /\ OcKnown(ocRequest.call)
       /\ \/ ocRequest.call \in ocMapper.asked
          \/ \A s \in OcIds : ocRequest.call \in ocServer[s].calls =>
               ocServer[s].told[ocRequest.call] # "none"
  /\ ocRequest.op = "responded" =>
       /\ \E s \in OcIds : ocRequest.call \in ocServer[s].calls
                           /\ ocServer[s].told[ocRequest.call] = ocRequest.decision
       /\ OcGone \/ ocRequest.call \in ocMapper.asked \/ ocSaid[ocRequest.call] = ocRequest.decision

OcInv == OcTyped /\ OcRunFits /\ OcServerFits /\ OcEventsFit /\ OcMapperFits /\ OcToldFits /\ OcRequestFits

LEMMA OcInitFits == OpenCodeInit => OcInv
<1> SUFFICES ASSUME OpenCodeInit PROVE OcInv
  OBVIOUS
<1> USE DEF OpenCodeInit
<1>1. Undecided \in [OcCalls -> Decisions] /\ \A t \in OcCalls : Undecided[t] = "none"
  BY DEF Undecided, Decisions
<1> HIDE DEF Undecided
<1>2. ocServer \in [OcIds -> OcStates]
  BY <1>1 DEF OcStates
<1>3. ocRun \in OcRuns /\ ocMapper \in OcMappers /\ ocRequest \in OcPlain
  BY DEF OcRuns, OcMappers, OcPlain, NoOcRequest
<1>4. ocStream \in [open : BOOLEAN, events : Seq(OcEvents)] /\ Len(ocStream.events) = 0
  BY EmptySeq
<1>5. OcTyped
  BY <1>1, <1>2, <1>3, <1>4 DEF OcTyped
<1>6. OcRunFits
  BY DEF OcRunFits, OcEnds, NoOcRequest
<1>7. OcServerFits
  BY <1>1 DEF OcServerFits
<1>8. OcEventsFit
  BY <1>4 DEF OcEventsFit
<1>9. OcMapperFits /\ OcToldFits /\ OcRequestFits
  BY <1>1 DEF OcMapperFits, OcToldFits, OcRequestFits, NoOcRequest
<1> QED BY <1>5, <1>6, <1>7, <1>8, <1>9 DEF OcInv

LEMMA QueueShrinks ==
  ASSUME NEW S, NEW q \in Seq(S), NEW r,
         \/ r = q
         \/ r = <<>>
         \/ q # <<>> /\ r = Tail(q)
  PROVE  r \in Seq(S) /\ \A i \in 1..Len(r) : \E j \in 1..Len(q) : r[i] = q[j]
<1>1. CASE r = q
  BY <1>1
<1>2. CASE r = <<>>
  BY <1>2
<1>3. CASE q # <<>> /\ r = Tail(q)
  BY <1>3
<1> QED BY <1>1, <1>2, <1>3

LEMMA QueueAppended ==
  ASSUME NEW S, NEW q \in Seq(S), NEW e \in S, NEW r,
         \/ r = q
         \/ r = Append(q, e)
  PROVE  \A i \in 1..Len(r) : r[i] = e \/ \E j \in 1..Len(q) : r[i] = q[j]
<1>1. CASE r = q
  BY <1>1
<1>2. CASE r = Append(q, e)
  <2>1. /\ Len(r) = Len(q) + 1 /\ r[Len(q) + 1] = e
        /\ \A j \in 1..Len(q) : r[j] = q[j]
    BY <1>2, AppendProperties
  <2>2. Len(q) \in Nat
    BY LenProperties
  <2> QED BY <2>1, <2>2
<1> QED BY <1>1, <1>2

\* What a step leaves alone that neither lets the server act on a call nor says of one what it
\* did: it may end the wait of a call, take from the stream and begin or end a request.
OcServerQuiet ==
  \A s \in OcIds : /\ ocServer'[s].calls = ocServer[s].calls /\ ocServer'[s].ended = ocServer[s].ended
                   /\ ocServer'[s].told = ocServer[s].told
                   /\ ocServer'[s].waiting \subseteq ocServer[s].waiting
OcStreamQuiet ==
  \/ ocStream'.events = ocStream.events
  \/ ocStream'.events = <<>>
  \/ ocStream.events # <<>> /\ ocStream'.events = Tail(ocStream.events)
OcRequestQuiet ==
  \/ ocRequest' = ocRequest
  \/ ocRequest.op # "responded" /\ ocRequest'.op \notin {"respond", "responded"}
OcMapperQuiet ==
  /\ ocMapper.asked \subseteq ocMapper'.asked
  /\ \A t \in ocMapper'.asked \ ocMapper.asked : OcKnown(t)
  /\ \A t \in ocMapper'.completed \ ocMapper.completed :
       \E s \in OcIds : t \in ocServer[s].calls \cap ocServer[s].ended

LEMMA StreamShrinks ==
  ASSUME ocStream.events \in Seq(OcEvents), OcStreamQuiet
  PROVE  \A i \in 1..Len(ocStream'.events) :
           \E j \in 1..Len(ocStream.events) : ocStream'.events[i] = ocStream.events[j]
<1> DEFINE old == ocStream.events
           new == ocStream'.events
<1>1. \/ new = old
      \/ new = <<>>
      \/ old # <<>> /\ new = Tail(old)
  BY DEF OcStreamQuiet
<1>2. old \in Seq(OcEvents)
  OBVIOUS
<1> HIDE DEF old, new
<1>3. \A i \in 1..Len(new) : \E j \in 1..Len(old) : new[i] = old[j]
  BY <1>1, <1>2, QueueShrinks
<1> QED BY <1>3 DEF old, new

LEMMA OcQuiet ==
  ASSUME OcInv, OcTyped', OcRunFits', OcServerQuiet, OcStreamQuiet, OcRequestQuiet, ocSaid' = ocSaid,
         OcMapperQuiet, OcGone => OcGone'
  PROVE  OcInv'
<1>1. OcServerFits'
  BY DEF OcInv, OcServerFits, OcServerQuiet
<1>2. OcEventsFit'
  <2>1. ocStream.events \in Seq(OcEvents)
    BY DEF OcInv, OcTyped
  <2>2. \A i \in 1..Len(ocStream'.events) :
          \E j \in 1..Len(ocStream.events) : ocStream'.events[i] = ocStream.events[j]
    BY <2>1, StreamShrinks
  <2>3. \A j \in 1..Len(ocStream.events) :
          ocStream.events[j] \in OcEvents /\ OcEventFits(ocStream.events[j])
    BY <2>1, ElementOfSeq DEF OcInv, OcEventsFit
  <2>4. \A e \in OcEvents : OcEventFits(e) =>
          /\ e \in OcCallEvents => e.call \in ocServer'[e.session].calls
          /\ e.type = "tool.ended" => e.call \in ocServer'[e.session].ended
          /\ e.type = "permission.replied" => ocServer'[e.session].told[e.call] # "none"
    BY DEF OcEventFits, OcServerQuiet, OcEvents, OcCallEvents
  <2> QED BY <2>2, <2>3, <2>4 DEF OcEventsFit, OcEventFits
<1>3. OcMapperFits'
  <2>1. \A t \in ocMapper'.asked \cup ocMapper'.completed : OcKnown(t)
    BY DEF OcInv, OcMapperFits, OcKnown, OcMapperQuiet
  <2>2. \A r, s \in OcIds : r # s => ocServer[r].calls \cap ocServer[s].calls = {}
    BY DEF OcInv, OcServerFits
  <2>3. \A s \in OcIds : ocMapper'.completed \cap ocServer[s].calls \subseteq ocServer[s].ended
    BY <2>2 DEF OcInv, OcMapperFits, OcMapperQuiet
  <2> QED BY <2>1, <2>3 DEF OcInv, OcMapperFits, OcKnown, OcServerQuiet
<1>4. OcToldFits'
  BY DEF OcInv, OcToldFits, OcServerQuiet, OcRequestQuiet
<1>5. OcRequestFits'
  BY DEF OcInv, OcRequestFits, OcKnown, OcServerQuiet, OcRequestQuiet, OcMapperQuiet
<1> QED BY <1>1, <1>2, <1>3, <1>4, <1>5 DEF OcInv

LEMMA EventIsFit ==
  ASSUME OcInv, ocStream.events # <<>>
  PROVE  /\ Head(ocStream.events) \in OcEvents /\ OcEventFits(Head(ocStream.events))
         /\ Tail(ocStream.events) \in Seq(OcEvents)
<1>1. ocStream.events \in Seq(OcEvents)
  BY DEF OcInv, OcTyped
<1>2. 1 \in 1..Len(ocStream.events) /\ Head(ocStream.events) = ocStream.events[1]
  BY <1>1
<1>3. ocStream.events[1] \in OcEvents /\ OcEventFits(ocStream.events[1])
  BY <1>1, <1>2, ElementOfSeq DEF OcInv, OcEventsFit
<1> QED BY <1>1, <1>2, <1>3

LEMMA StreamEndsKeeps ==
  ASSUME OcInv, StreamEnds
  PROVE  OcInv'
<1>1. OcTyped' /\ ocStream'.events = ocStream.events
  BY DEF StreamEnds, OcInv, OcTyped
<1>2. OcRunFits'
  BY DEF StreamEnds, OcInv, OcRunFits
<1> QED BY <1>1, <1>2, OcQuiet DEF StreamEnds, OcServerQuiet, OcStreamQuiet,
         OcRequestQuiet, OcMapperQuiet, OcGone

\* The run fails, and its pump may be over with it.
LEMMA RunFails ==
  ASSUME OcInv, ocRun.pump = "on" \/ ocRequest.op # "none",
         ~ocMapper.terminal, ocMapper' = [ocMapper EXCEPT !.terminal = TRUE],
         \/ ocRun' = [ocRun EXCEPT !.state = "failed"]
         \/ ocRun' = [ocRun EXCEPT !.pump = "over", !.state = "failed"]
  PROVE  /\ ocRun' \in OcRuns /\ ocMapper' \in OcMappers
         /\ ocMapper'.asked = ocMapper.asked /\ ocMapper'.completed = ocMapper.completed
         /\ OcGone => OcGone'
         /\ ocRequest' \in {NoOcRequest, ocRequest} => OcRunFits'
<1>1. ocRun \in OcRuns /\ ocMapper \in OcMappers /\ OcRunFits
  BY DEF OcInv, OcTyped
<1>2. /\ ocRun' \in OcRuns /\ ocRun'.state = "failed" /\ ocRun'.session = ocRun.session
      /\ ocRun'.aborted = ocRun.aborted
  BY <1>1 DEF OcRuns, OcEnds
<1>3. /\ ocMapper' \in OcMappers /\ ocMapper'.terminal = TRUE /\ ocMapper'.session = ocMapper.session
      /\ ocMapper'.asked = ocMapper.asked /\ ocMapper'.completed = ocMapper.completed
  BY <1>1 DEF OcMappers
<1>4. NoOcRequest.op = "none"
  BY DEF NoOcRequest
<1>5. ocRun.session \in OcIds
  BY <1>1 DEF OcRunFits
<1>6. ASSUME ocRequest' \in {NoOcRequest, ocRequest}
      PROVE  OcRunFits'
  <2>1. ocRun.state = "none" => ocRequest.op = "none"
    BY <1>1 DEF OcRunFits
  <2> QED BY <1>1, <1>2, <1>3, <1>4, <1>5, <1>6, <2>1 DEF OcRunFits, OcEnds
<1> QED BY <1>2, <1>3, <1>6 DEF OcGone

LEMMA FailRunFits ==
  ASSUME OcInv, OcFailRun, ocRequest.op # "none"
  PROVE  /\ ocRun' \in OcRuns /\ ocMapper' \in OcMappers /\ ocSaid' = ocSaid
         /\ ocMapper'.asked = ocMapper.asked /\ ocMapper'.completed = ocMapper.completed
         /\ OcGone => OcGone'
         /\ ocRequest' = NoOcRequest => OcRunFits'
<1>1. ocRun \in OcRuns /\ ocMapper \in OcMappers /\ OcRunFits
  BY DEF OcInv, OcTyped
<1>2. CASE UNCHANGED <<ocRun, ocMapper, ocSaid>>
  BY <1>1, <1>2 DEF OcRunFits, OcGone, NoOcRequest
<1>3. CASE ~ocMapper.terminal /\ OcTerminal("failed")
  <2>1. ocRun' = [ocRun EXCEPT !.state = "failed"] /\ ocSaid' = ocSaid
        /\ ocMapper' = [ocMapper EXCEPT !.terminal = TRUE]
    BY <1>3 DEF OcTerminal
  <2> QED BY <1>1, <1>3, <2>1, RunFails
<1> QED BY <1>2, <1>3 DEF OcFailRun

LEMMA FailRunKeeps ==
  ASSUME OcInv, ocRequest.op \in {"start", "cancel"}, ocRequest' = NoOcRequest, OcFailRun,
         UNCHANGED <<ocServer, ocStream>>
  PROVE  OcInv'
<1>1. ocRequest' \in OcPlain /\ ocRequest'.op = "none"
  BY DEF OcPlain, NoOcRequest
<1>2. OcTyped'
  BY <1>1, FailRunFits DEF OcInv, OcTyped
<1> QED BY <1>1, <1>2, FailRunFits, OcQuiet DEF OcServerQuiet, OcStreamQuiet, OcRequestQuiet, OcMapperQuiet

LEMMA PumpStopsKeeps ==
  ASSUME OcInv, PumpStops
  PROVE  OcInv'
<1> DEFINE failed == ~ocRun.aborted /\ ~ocMapper.terminal /\ ~ocMapper.cancelling
<1>1. ocRun \in OcRuns /\ ocMapper \in OcMappers /\ OcRunFits
  BY DEF OcInv, OcTyped
<1>2. /\ ocRun.pump = "on"
      /\ ocRun' = [ocRun EXCEPT !.pump = "over", !.state = IF failed THEN "failed" ELSE @]
      /\ ocMapper' = [ocMapper EXCEPT !.terminal = @ \/ failed]
      /\ ocStream' = [open |-> FALSE, events |-> <<>>]
      /\ UNCHANGED <<ocRequest, ocServer, ocSaid>>
  BY DEF PumpStops
<1>3. CASE failed
  <2>1. ocRun' = [ocRun EXCEPT !.pump = "over", !.state = "failed"]
        /\ ocMapper' = [ocMapper EXCEPT !.terminal = TRUE]
    BY <1>1, <1>2, <1>3 DEF OcMappers
  <2>2. ocRun' \in OcRuns /\ ocMapper' \in OcMappers /\ OcRunFits' /\ (OcGone => OcGone')
        /\ ocMapper'.asked = ocMapper.asked /\ ocMapper'.completed = ocMapper.completed
    BY <1>2, <1>3, <2>1, RunFails
  <2>3. OcTyped'
    BY <1>2, <2>2 DEF OcInv, OcTyped
  <2> QED BY <1>2, <2>2, <2>3, OcQuiet DEF OcServerQuiet, OcStreamQuiet, OcRequestQuiet, OcMapperQuiet
<1>4. CASE ~failed
  <2>1. ocRun' = [ocRun EXCEPT !.pump = "over"] /\ ocMapper' = ocMapper
    BY <1>1, <1>2, <1>4 DEF OcMappers, OcRuns
  <2>2. ocRun' \in OcRuns /\ OcRunFits' /\ (OcGone => OcGone')
    BY <1>1, <1>2, <1>4, <2>1 DEF OcRuns, OcRunFits, OcEnds, OcGone
  <2>3. OcTyped'
    BY <1>2, <2>1, <2>2 DEF OcInv, OcTyped
  <2> QED BY <1>2, <2>1, <2>2, <2>3, OcQuiet DEF OcServerQuiet, OcStreamQuiet, OcRequestQuiet, OcMapperQuiet
<1> QED BY <1>3, <1>4

LEMMA PumpThrowsKeeps ==
  ASSUME OcInv, PumpThrows
  PROVE  OcInv'
<1>1. ocRun \in OcRuns /\ ocMapper \in OcMappers /\ OcRunFits
  BY DEF OcInv, OcTyped
<1>2. /\ ~ocMapper.terminal /\ ocRun.pump = "on"
      /\ ocRun' = [ocRun EXCEPT !.pump = "over", !.state = "failed"]
      /\ ocMapper' = [ocMapper EXCEPT !.terminal = TRUE]
      /\ ocStream' = [open |-> FALSE, events |-> <<>>]
      /\ UNCHANGED <<ocRequest, ocServer, ocSaid>>
  BY DEF PumpThrows, OcDropped
<1>3. ocRun' \in OcRuns /\ ocMapper' \in OcMappers /\ OcRunFits' /\ (OcGone => OcGone')
      /\ ocMapper'.asked = ocMapper.asked /\ ocMapper'.completed = ocMapper.completed
  BY <1>2, RunFails
<1>4. OcTyped'
  BY <1>2, <1>3 DEF OcInv, OcTyped
<1> QED BY <1>2, <1>3, <1>4, OcQuiet DEF OcServerQuiet, OcStreamQuiet, OcRequestQuiet, OcMapperQuiet

\* A step of the host's requests that says nothing of the calls.
LEMMA RequestStep ==
  ASSUME OcInv, ocRun' \in OcRuns, ocMapper' \in OcMappers, OcRunFits', ocSaid' = ocSaid,
         ocServer' \in [OcIds -> OcStates], OcServerQuiet,
         \/ ocStream' = ocStream
         \/ ocStream' \in {[open |-> TRUE, events |-> <<>>], [open |-> FALSE, events |-> <<>>]},
         \/ ocRequest' = ocRequest
         \/ ocRequest' \in OcPlain /\ ocRequest.op # "responded",
         ocMapper'.asked = ocMapper.asked, ocMapper'.completed = ocMapper.completed,
         OcGone => OcGone'
  PROVE  OcInv'
<1>1. OcTyped'
  <2>1. ocStream' \in [open : BOOLEAN, events : Seq(OcEvents)]
    <3>1. <<>> \in Seq(OcEvents)
      BY EmptySeq
    <3>2. ocStream \in [open : BOOLEAN, events : Seq(OcEvents)]
      BY DEF OcInv, OcTyped
    <3>3. \A open \in BOOLEAN : [open |-> open, events |-> <<>>] \in [open : BOOLEAN, events : Seq(OcEvents)]
      BY <3>1
    <3>4. CASE ocStream' = ocStream
      BY <3>2, <3>4
    <3>5. CASE ocStream' \in {[open |-> TRUE, events |-> <<>>], [open |-> FALSE, events |-> <<>>]}
      BY <3>3, <3>5
    <3> QED BY <3>4, <3>5
  <2>2. ocRequest' \in OcPlain \cup OcAnswers /\ ocSaid' \in [OcCalls -> Decisions]
    BY DEF OcInv, OcTyped
  <2> QED BY <2>1, <2>2 DEF OcTyped
<1>2. OcRequestQuiet
  BY DEF OcRequestQuiet, OcPlain
<1> QED BY <1>1, <1>2, OcQuiet DEF OcStreamQuiet, OcMapperQuiet

LEMMA OcKnownParts ==
  ASSUME OcInv
  PROVE  /\ ocRun \in OcRuns /\ ocMapper \in OcMappers /\ ocServer \in [OcIds -> OcStates]
         /\ OcRunFits /\ NoOcRequest \in OcPlain /\ NoOcRequest.op = "none"
         /\ \A s \in OcIds : ocServer[s] \in OcStates
  BY DEF OcInv, OcTyped, OcPlain, NoOcRequest

LEMMA AskedKeeps ==
  ASSUME OcInv, Ready, NEW op \in {"feedback", "resume", "successor"}, Asked(op)
  PROVE  OcInv'
<1>1. /\ ocRequest' \in OcPlain /\ ocRequest.op = "none" /\ ocRun.state # "none"
      /\ UNCHANGED <<ocRun, ocMapper, ocServer, ocStream, ocSaid>>
  BY DEF Asked, Ready, Running, Requesting, OcPlain
<1>2. OcRunFits'
  BY <1>1, OcKnownParts DEF OcRunFits
<1> QED BY <1>1, <1>2, OcKnownParts, RequestStep DEF OcServerQuiet, OcGone

LEMMA RejectedKeeps ==
  ASSUME OcInv, NEW op \in {"feedback", "resume", "successor", "respond"}, Rejected(op)
  PROVE  OcInv'
<1>1. /\ ocRequest' = NoOcRequest /\ ocRequest.op # "responded"
      /\ UNCHANGED <<ocRun, ocMapper, ocServer, ocStream, ocSaid>>
  BY DEF Rejected, Requesting, Done
<1>2. OcRunFits'
  BY <1>1, OcKnownParts DEF OcRunFits
<1> QED BY <1>1, <1>2, OcKnownParts, RequestStep DEF OcServerQuiet, OcGone

\* The sessions may be created or prompted.
LEMMA SessionChanges ==
  ASSUME OcInv, NEW s \in OcIds, ocServer' \in {OcCreated(s), Prompted(s)}
  PROVE  ocServer' \in [OcIds -> OcStates] /\ OcServerQuiet
<1>1. ocServer \in [OcIds -> OcStates]
  BY OcKnownParts
<1>2. CASE ocServer' = [ocServer EXCEPT ![s].exists = TRUE]
  <2> DEFINE old == ocServer[s]
             new == [old EXCEPT !.exists = TRUE]
  <2>1. /\ new \in OcStates /\ new.calls = old.calls /\ new.ended = old.ended
        /\ new.told = old.told /\ new.waiting = old.waiting
    BY <1>1 DEF OcStates
  <2>2. ocServer' = [ocServer EXCEPT ![s] = new]
    BY <1>1, <1>2
  <2> HIDE DEF new
  <2> QED BY <1>1, <2>1, <2>2 DEF OcServerQuiet
<1>3. CASE ocServer' = [ocServer EXCEPT ![s].busy = TRUE]
  <2> DEFINE old == ocServer[s]
             new == [old EXCEPT !.busy = TRUE]
  <2>1. /\ new \in OcStates /\ new.calls = old.calls /\ new.ended = old.ended
        /\ new.told = old.told /\ new.waiting = old.waiting
    BY <1>1 DEF OcStates
  <2>2. ocServer' = [ocServer EXCEPT ![s] = new]
    BY <1>1, <1>3
  <2> HIDE DEF new
  <2> QED BY <1>1, <2>1, <2>2 DEF OcServerQuiet
<1> QED BY <1>2, <1>3 DEF OcCreated, Prompted

LEMMA PromptKeeps ==
  ASSUME OcInv, ocRequest.op \in {"start", "feedback"}, Done, ocServer' = Prompted(ocRun.session),
         UNCHANGED <<ocRun, ocMapper, ocStream, ocSaid>>
  PROVE  OcInv'
<1>1. ocRun.session \in OcIds
  BY OcKnownParts DEF OcRunFits
<1>2. ocServer' \in [OcIds -> OcStates] /\ OcServerQuiet
  BY <1>1, SessionChanges
<1>3. OcRunFits'
  BY OcKnownParts DEF OcRunFits, Done
<1> QED BY <1>2, <1>3, OcKnownParts, RequestStep DEF OcGone, Done

LEMMA ResumedKeeps ==
  ASSUME OcInv, Resumed
  PROVE  OcInv'
<1> DEFINE state == IF ocMapper.terminal THEN ocRun.state ELSE "running"
           pump == IF ocRun.pump = "none" THEN "on" ELSE ocRun.pump
<1>1. /\ ocRun' = [ocRun EXCEPT !.state = state, !.pump = pump]
      /\ ocRequest.op = "resume" /\ ocRequest' = NoOcRequest
      /\ UNCHANGED <<ocMapper, ocServer, ocSaid>>
      /\ ocStream' = IF ocRun.pump = "none" THEN [open |-> TRUE, events |-> <<>>] ELSE ocStream
  <2>1. ocRun \in OcRuns
    BY OcKnownParts
  <2> QED BY <2>1 DEF Resumed, Requesting, Done, OcRuns
<1>2. state \in {"running", ocRun.state} /\ (ocMapper.terminal => state = ocRun.state)
      /\ (~ocMapper.terminal => state = "running") /\ pump \in {"on", "over"}
      /\ (pump = "over" => ocRun.pump = "over")
  BY OcKnownParts DEF OcRuns
<1> HIDE DEF state, pump
<1>3. ocRun' \in OcRuns /\ ocRun'.state = state /\ ocRun'.pump = pump
      /\ ocRun'.session = ocRun.session /\ ocRun'.aborted = ocRun.aborted
  BY <1>1, <1>2, OcKnownParts DEF OcRuns
<1>4. OcRunFits'
  BY <1>1, <1>2, <1>3, OcKnownParts DEF OcRunFits, OcEnds
<1>5. OcGone => OcGone'
  BY <1>2, <1>3, OcKnownParts DEF OcGone, OcRunFits, OcEnds
<1>6. \/ ocStream' = ocStream
      \/ ocStream' \in {[open |-> TRUE, events |-> <<>>], [open |-> FALSE, events |-> <<>>]}
  BY <1>1
<1>7. OcServerQuiet
  BY <1>1 DEF OcServerQuiet
<1> QED BY <1>1, <1>3, <1>4, <1>5, <1>6, <1>7, OcKnownParts, RequestStep

LEMMA OcStartTaskKeeps ==
  ASSUME OcInv, OcStartTask
  PROVE  OcInv'
<1>1. PICK s \in OcIds :
        /\ ocServer' = OcCreated(s)
        /\ ocRun' = [ocRun EXCEPT !.state = "running", !.session = s, !.pump = "on"]
        /\ ocMapper' = [ocMapper EXCEPT !.session = s]
  BY DEF OcStartTask
<1>2. /\ ocRequest.op = "none" /\ ocRun.state = "none" /\ ocRequest' = [op |-> "start"]
      /\ ocStream' = [open |-> TRUE, events |-> <<>>] /\ ocSaid' = ocSaid
  BY DEF OcStartTask, Requesting
<1>3. ocServer' \in [OcIds -> OcStates] /\ OcServerQuiet
  BY <1>1, SessionChanges
<1>4. ocRun' \in OcRuns /\ ocRun'.state = "running" /\ ocRun'.pump = "on"
      /\ ocRun'.session = s /\ ocRun'.aborted = ocRun.aborted
  BY <1>1, OcKnownParts DEF OcRuns
<1>5. ocMapper' \in OcMappers /\ ocMapper'.session = s /\ ocMapper'.terminal = ocMapper.terminal
      /\ ocMapper'.asked = ocMapper.asked /\ ocMapper'.completed = ocMapper.completed
      /\ ocMapper'.cancelling = ocMapper.cancelling
  BY <1>1, OcKnownParts DEF OcMappers
<1>6. OcRunFits'
  BY <1>2, <1>4, <1>5, OcKnownParts DEF OcRunFits, OcEnds
<1>7. ocStream' \in {[open |-> TRUE, events |-> <<>>], [open |-> FALSE, events |-> <<>>]}
  BY <1>2
<1>8. ocRequest' \in OcPlain /\ ~OcGone
  BY <1>2 DEF OcPlain, OcGone
<1> QED BY <1>2, <1>3, <1>4, <1>5, <1>6, <1>7, <1>8, RequestStep

LEMMA SuccessorCreatedKeeps ==
  ASSUME OcInv, SuccessorCreated
  PROVE  OcInv'
<1>1. PICK s \in OcIds :
        /\ ocServer' = OcCreated(s)
        /\ \/ /\ ocMapper' = [ocMapper EXCEPT !.session = s] /\ ocRun' = [ocRun EXCEPT !.session = s]
           \/ UNCHANGED <<ocMapper, ocRun>>
  BY DEF SuccessorCreated
<1>2. ocRequest.op = "successor" /\ ocRequest' = NoOcRequest /\ UNCHANGED <<ocStream, ocSaid>>
  BY DEF SuccessorCreated, Requesting, Done
<1>3. ocServer' \in [OcIds -> OcStates] /\ OcServerQuiet
  BY <1>1, SessionChanges
<1>4. ocRun' \in OcRuns /\ ocRun'.state = ocRun.state /\ ocRun'.pump = ocRun.pump
      /\ ocRun'.aborted = ocRun.aborted
      /\ ocMapper' \in OcMappers /\ ocMapper'.terminal = ocMapper.terminal
      /\ ocMapper'.asked = ocMapper.asked /\ ocMapper'.completed = ocMapper.completed
      /\ ocMapper'.cancelling = ocMapper.cancelling
      /\ ocMapper'.session = ocRun'.session /\ ocRun'.session \in {s, ocRun.session}
  BY <1>1, OcKnownParts DEF OcRuns, OcMappers, OcRunFits
<1>5. OcRunFits'
  BY <1>2, <1>4, OcKnownParts DEF OcRunFits
<1> QED BY <1>2, <1>3, <1>4, <1>5, OcKnownParts, RequestStep DEF OcGone

LEMMA OcCancelTaskKeeps ==
  ASSUME OcInv, OcCancelTask
  PROVE  OcInv'
<1>1. /\ ocRequest.op = "none" /\ Running /\ ocRequest' = [op |-> "cancel"]
      /\ ocMapper' = [ocMapper EXCEPT !.cancelling = TRUE]
      /\ ocRun' = [ocRun EXCEPT !.state = "cancelling"]
      /\ UNCHANGED <<ocServer, ocStream, ocSaid>>
  BY DEF OcCancelTask, Ready, Requesting
<1>2. /\ ocMapper' \in OcMappers /\ ocMapper'.session = ocMapper.session
      /\ ocMapper'.terminal = ocMapper.terminal /\ ocMapper'.cancelling = TRUE
      /\ ocMapper'.asked = ocMapper.asked /\ ocMapper'.completed = ocMapper.completed
  BY <1>1, OcKnownParts DEF OcMappers
<1>3. ocRun' \in OcRuns /\ ocRun'.state = "cancelling" /\ ocRun'.pump = ocRun.pump
      /\ ocRun'.session = ocRun.session /\ ocRun'.aborted = ocRun.aborted
  BY <1>1, OcKnownParts DEF OcRuns
<1>4. OcRunFits' /\ ~OcGone
  BY <1>1, <1>2, <1>3, OcKnownParts DEF OcRunFits, OcEnds, Running, OcGone
<1>5. ocRequest' \in OcPlain /\ OcServerQuiet
  BY <1>1 DEF OcPlain, OcServerQuiet
<1> QED BY <1>1, <1>2, <1>3, <1>4, <1>5, OcKnownParts, RequestStep

LEMMA AbortedKeeps ==
  ASSUME OcInv, Aborted
  PROVE  OcInv'
<1> DEFINE s == ocRun.session
           new == [ocServer[s] EXCEPT !.busy = FALSE, !.waiting = {}]
<1>1. /\ ocRequest.op = "cancel" /\ ocRequest' = NoOcRequest
      /\ ocServer' = [ocServer EXCEPT ![s].busy = FALSE, ![s].waiting = {}]
      /\ ocMapper' = [ocMapper EXCEPT !.terminal = TRUE]
      /\ ocRun' = [ocRun EXCEPT !.aborted = TRUE, !.state = "cancelled"]
      /\ UNCHANGED <<ocStream, ocSaid>>
  BY DEF Aborted, Requesting, Done
<1>2. s \in OcIds
  BY <1>1, OcKnownParts DEF OcRunFits
<1> HIDE DEF s
<1>3. ocServer' \in [OcIds -> OcStates] /\ OcServerQuiet
  BY <1>1, <1>2, OcKnownParts DEF OcStates, OcServerQuiet
<1>4. /\ ocMapper' \in OcMappers /\ ocMapper'.session = ocMapper.session /\ ocMapper'.terminal = TRUE
      /\ ocMapper'.asked = ocMapper.asked /\ ocMapper'.completed = ocMapper.completed
  BY <1>1, OcKnownParts DEF OcMappers
<1>5. ocRun' \in OcRuns /\ ocRun'.state = "cancelled" /\ ocRun'.session = ocRun.session
  BY <1>1, OcKnownParts DEF OcRuns, OcEnds
<1>6. OcRunFits'
  BY <1>1, <1>2, <1>4, <1>5, OcKnownParts DEF OcRunFits, OcEnds, s
<1> QED BY <1>1, <1>3, <1>4, <1>5, <1>6, OcKnownParts, RequestStep DEF OcGone

LEMMA RestoreRunKeeps ==
  ASSUME OcInv, RestoreRun
  PROVE  OcInv'
<1>1. /\ ocRun' = [ocRun EXCEPT !.pump = "none", !.restores = @ + 1] /\ Running
      /\ ocStream' = [open |-> FALSE, events |-> <<>>]
      /\ UNCHANGED <<ocRequest, ocMapper, ocServer, ocSaid>>
  BY DEF RestoreRun, Ready
<1>2. ocRun' \in OcRuns /\ ocRun'.state = ocRun.state /\ ocRun'.pump = "none"
      /\ ocRun'.session = ocRun.session /\ ocRun'.aborted = ocRun.aborted
  <2>1. ocRun \in OcRuns /\ ocRun.restores + 1 \in Nat
    BY OcKnownParts DEF OcRuns
  <2> DEFINE next == ocRun.restores + 1
  <2>2. ocRun' = [ocRun EXCEPT !.pump = "none", !.restores = next]
    BY <1>1
  <2>3. next \in Nat
    BY <2>1
  <2> HIDE DEF next
  <2> QED BY <2>1, <2>2, <2>3 DEF OcRuns
<1>3. OcRunFits' /\ OcServerQuiet
  BY <1>1, <1>2, OcKnownParts DEF OcRunFits, OcServerQuiet
<1> QED BY <1>1, <1>2, <1>3, OcKnownParts, RequestStep DEF OcGone

\* A step of the pump that leaves what was said of the decisions.
LEMMA PumpQuiet ==
  ASSUME OcInv, ocStream.events # <<>>, ocStream' = [ocStream EXCEPT !.events = Tail(@)],
         UNCHANGED <<ocRequest, ocServer, ocSaid>>, ocRun' \in OcRuns, ocMapper' \in OcMappers,
         OcRunFits', OcMapperQuiet, OcGone => OcGone'
  PROVE  OcInv'
<1>1. /\ ocStream'.events = Tail(ocStream.events)
      /\ ocStream' \in [open : BOOLEAN, events : Seq(OcEvents)]
  BY EventIsFit DEF OcInv, OcTyped
<1>2. OcTyped'
  BY <1>1 DEF OcInv, OcTyped
<1> QED BY <1>1, <1>2, OcQuiet DEF OcServerQuiet, OcStreamQuiet, OcRequestQuiet

LEMMA RunEndsFits ==
  ASSUME OcInv, ocRun.pump = "on", ~ocMapper.terminal, NEW result \in {"succeeded", "failed"},
         result = "succeeded" => ocMapper.asked = {},
         OcTerminal(result), ocRequest' = ocRequest
  PROVE  /\ ocRun' \in OcRuns /\ ocMapper' \in OcMappers /\ OcRunFits' /\ ~OcGone
         /\ ocMapper'.asked = ocMapper.asked /\ ocMapper'.completed = ocMapper.completed
<1>1. /\ ocMapper' = [ocMapper EXCEPT !.terminal = TRUE] /\ ocRun' = [ocRun EXCEPT !.state = result]
  BY DEF OcTerminal
<1>2. ocRun' \in OcRuns /\ ocRun'.state = result /\ ocRun'.session = ocRun.session
      /\ ocRun'.aborted = ocRun.aborted
  BY <1>1, OcKnownParts DEF OcRuns, OcEnds
<1>3. /\ ocMapper' \in OcMappers /\ ocMapper'.terminal = TRUE /\ ocMapper'.session = ocMapper.session
      /\ ocMapper'.asked = ocMapper.asked /\ ocMapper'.completed = ocMapper.completed
  BY <1>1, OcKnownParts DEF OcMappers
<1>4. OcRunFits' /\ ~OcGone
  BY <1>2, <1>3, OcKnownParts DEF OcRunFits, OcEnds, OcGone
<1> QED BY <1>2, <1>3, <1>4

LEMMA AnsweredFits ==
  ASSUME OcInv, NEW t \in OcCalls, NEW decision \in {"allow", "deny"}, ~ocMapper.terminal,
         ocRun.session \in OcIds, OcAnswered(t, decision), ocRequest' \in {ocRequest, NoOcRequest}
  PROVE  /\ ocRun' \in OcRuns /\ ocMapper' \in OcMappers /\ OcRunFits' /\ ~OcGone
         /\ ocMapper'.asked = ocMapper.asked \ {t} /\ ocMapper'.completed = ocMapper.completed
         /\ ocSaid' \in [OcCalls -> Decisions] /\ ocSaid'[t] = decision
         /\ \A u \in OcCalls \ {t} : ocSaid'[u] = ocSaid[u]
<1>1. /\ ocMapper' = [ocMapper EXCEPT !.asked = @ \ {t}, !.answered = @ \cup {t}]
      /\ ocSaid' = [ocSaid EXCEPT ![t] = decision]
      /\ ocRun' = [ocRun EXCEPT !.state = "running"]
  BY DEF OcAnswered
<1>2. ocRun' \in OcRuns /\ ocRun'.state = "running" /\ ocRun'.session = ocRun.session
      /\ ocRun'.aborted = ocRun.aborted /\ ocRun'.pump = ocRun.pump
  BY <1>1, OcKnownParts DEF OcRuns, OcEnds
<1>3. /\ ocMapper' \in OcMappers /\ ocMapper'.terminal = ocMapper.terminal
      /\ ocMapper'.session = ocMapper.session /\ ocMapper'.cancelling = ocMapper.cancelling
      /\ ocMapper'.asked = ocMapper.asked \ {t} /\ ocMapper'.completed = ocMapper.completed
  BY <1>1, OcKnownParts DEF OcMappers
<1>4. OcRunFits' /\ ~OcGone
  BY <1>2, <1>3, OcKnownParts DEF OcRunFits, OcEnds, OcGone
<1>5. /\ ocSaid' \in [OcCalls -> Decisions] /\ ocSaid'[t] = decision
      /\ \A u \in OcCalls \ {t} : ocSaid'[u] = ocSaid[u]
  BY <1>1 DEF OcInv, OcTyped, Decisions
<1> QED BY <1>2, <1>3, <1>4, <1>5

\* The events come to tell the decision the server acted on.
LEMMA DecisionSaid ==
  ASSUME OcInv, OcTyped', OcRunFits', ~OcGone, NEW t \in OcCalls, NEW r \in OcIds,
         t \in ocServer[r].calls, ocServer[r].told[t] # "none", ocSaid'[t] = ocServer[r].told[t],
         \A u \in OcCalls \ {t} : ocSaid'[u] = ocSaid[u],
         ocMapper'.asked = ocMapper.asked \ {t}, ocMapper'.completed = ocMapper.completed,
         ocServer' = ocServer, OcStreamQuiet,
         \/ ocRequest' = ocRequest
         \/ ocRequest.op = "responded" /\ ocRequest.call = t /\ ocRequest' = NoOcRequest
  PROVE  OcInv'
<1>1. \A s \in OcIds : t \in ocServer[s].calls => s = r
  BY DEF OcInv, OcServerFits
<1>2. OcServerFits'
  BY DEF OcInv, OcServerFits
<1>3. OcEventsFit'
  <2>1. ocStream.events \in Seq(OcEvents)
    BY DEF OcInv, OcTyped
  <2>2. \A i \in 1..Len(ocStream'.events) :
          \E j \in 1..Len(ocStream.events) : ocStream'.events[i] = ocStream.events[j]
    BY <2>1, StreamShrinks
  <2>3. \A j \in 1..Len(ocStream.events) : OcEventFits(ocStream.events[j])
    BY DEF OcInv, OcEventsFit
  <2>4. \A i \in 1..Len(ocStream'.events) : OcEventFits(ocStream'.events[i])
    BY <2>2, <2>3
  <2> QED BY <2>4 DEF OcEventsFit, OcEventFits
<1>4. OcMapperFits'
  BY DEF OcInv, OcMapperFits, OcKnown
<1>5. OcToldFits'
  <2>1. ASSUME NEW s \in OcIds, NEW u \in ocServer[s].calls
        PROVE  /\ ocSaid'[u] # "none" => ocServer[s].told[u] = ocSaid'[u]
               /\ ocServer[s].told[u] # "none" /\ ocSaid'[u] = "none" =>
                    ocRequest'.op = "responded" /\ ocRequest'.call = u
    <3>1. CASE u = t
      BY <1>1, <2>1, <3>1
    <3>2. CASE u # t
      <4>1. u \in OcCalls /\ ocSaid'[u] = ocSaid[u]
        BY <2>1, <3>2, OcKnownParts DEF OcStates
      <4>2. /\ ocSaid[u] # "none" => ocServer[s].told[u] = ocSaid[u]
            /\ ocServer[s].told[u] # "none" /\ ocSaid[u] = "none" =>
                 ocRequest.op = "responded" /\ ocRequest.call = u
        BY <2>1 DEF OcInv, OcToldFits
      <4> QED BY <3>2, <4>1, <4>2
    <3> QED BY <3>1, <3>2
  <2> QED BY <2>1 DEF OcToldFits
<1>6. OcRequestFits'
  <2>1. CASE ocRequest' = NoOcRequest
    BY <2>1, OcKnownParts DEF OcRequestFits
  <2>2. CASE ocRequest' = ocRequest
    <3>1. ASSUME ocRequest.op = "respond"
          PROVE  /\ OcKnown(ocRequest.call)
                 /\ \/ ocRequest.call \in ocMapper'.asked
                    \/ \A s \in OcIds : ocRequest.call \in ocServer[s].calls =>
                         ocServer[s].told[ocRequest.call] # "none"
      <4>1. /\ OcKnown(ocRequest.call)
            /\ \/ ocRequest.call \in ocMapper.asked
               \/ \A s \in OcIds : ocRequest.call \in ocServer[s].calls =>
                    ocServer[s].told[ocRequest.call] # "none"
        BY <3>1 DEF OcInv, OcRequestFits
      <4> QED BY <1>1, <4>1
    <3>2. ASSUME ocRequest.op = "responded"
          PROVE  /\ \E s \in OcIds : ocRequest.call \in ocServer[s].calls
                                     /\ ocServer[s].told[ocRequest.call] = ocRequest.decision
                 /\ ocRequest.call \in ocMapper'.asked \/ ocSaid'[ocRequest.call] = ocRequest.decision
      <4>1. PICK s \in OcIds : ocRequest.call \in ocServer[s].calls
                               /\ ocServer[s].told[ocRequest.call] = ocRequest.decision
        BY <3>2 DEF OcInv, OcRequestFits
      <4>2. ocRequest.call \in ocMapper.asked \/ ocSaid[ocRequest.call] = ocRequest.decision
        BY <3>2 DEF OcInv, OcRequestFits
      <4>3. ocRequest.call \in OcCalls
        BY <4>1, OcKnownParts DEF OcStates
      <4> QED BY <1>1, <4>1, <4>2, <4>3
    <3> QED BY <2>2, <3>1, <3>2 DEF OcRequestFits, OcKnown
  <2> QED BY <2>1, <2>2
<1> QED BY <1>2, <1>3, <1>4, <1>5, <1>6 DEF OcInv

LEMMA PumpTakesKeeps ==
  ASSUME OcInv, PumpTakes
  PROVE  OcInv'
<1> DEFINE e == Head(ocStream.events)
<1>1. /\ ocRun.pump = "on" /\ ocStream.events # <<>> /\ ocStream' = [ocStream EXCEPT !.events = Tail(@)]
      /\ UNCHANGED <<ocRequest, ocServer>>
      /\ \/ UNCHANGED <<ocRun, ocMapper, ocSaid>>
         \/ ~ocMapper.terminal /\ OcMapped(e)
  BY DEF PumpTakes, OcDropped
<1>2. e \in OcEvents /\ OcEventFits(e)
  BY <1>1, EventIsFit
<1> HIDE DEF e
<1>3. ocRun.session \in OcIds
  BY <1>1, OcKnownParts DEF OcRunFits
<1>4. CASE UNCHANGED <<ocRun, ocMapper, ocSaid>>
  <2>1. OcRunFits' /\ OcMapperQuiet
    BY <1>1, <1>4, OcKnownParts DEF OcRunFits, OcMapperQuiet
  <2> QED BY <1>1, <1>4, <2>1, OcKnownParts, PumpQuiet DEF OcGone
<1>5. CASE ~ocMapper.terminal /\ e.type \in {"tool", "tool.ended", "permission.requested"} /\ OcMapped(e)
  <2>1. e \in OcCallEvents /\ e.call \in OcCalls /\ e.session \in OcIds
    BY <1>2, <1>5 DEF OcEvents, OcCallEvents
  <2>2. e.call \in ocServer[e.session].calls
    BY <1>2, <2>1 DEF OcEventFits
  <2>3. CASE e.type = "tool"
    <3>1. /\ ocMapper' = [ocMapper EXCEPT !.open = @ \cup {e.call}] /\ UNCHANGED <<ocRun, ocSaid>>
      BY <1>5, <2>3 DEF OcMapped
    <3>2. /\ ocMapper' \in OcMappers /\ ocMapper'.session = ocMapper.session
          /\ ocMapper'.terminal = ocMapper.terminal /\ ocMapper'.cancelling = ocMapper.cancelling
          /\ ocMapper'.asked = ocMapper.asked /\ ocMapper'.completed = ocMapper.completed
      BY <2>1, <3>1, OcKnownParts DEF OcMappers
    <3>3. OcRunFits' /\ OcMapperQuiet
      BY <1>1, <3>1, <3>2, OcKnownParts DEF OcRunFits, OcMapperQuiet
    <3> QED BY <1>1, <3>1, <3>2, <3>3, OcKnownParts, PumpQuiet DEF OcGone
  <2>4. CASE e.type = "tool.ended"
    <3>1. /\ ocMapper' = [ocMapper EXCEPT !.open = @ \ {e.call}, !.completed = @ \cup {e.call}]
          /\ UNCHANGED <<ocRun, ocSaid>>
      BY <1>5, <2>4 DEF OcMapped
    <3>2. /\ ocMapper' \in OcMappers /\ ocMapper'.session = ocMapper.session
          /\ ocMapper'.terminal = ocMapper.terminal /\ ocMapper'.cancelling = ocMapper.cancelling
          /\ ocMapper'.asked = ocMapper.asked /\ ocMapper'.completed = ocMapper.completed \cup {e.call}
      BY <2>1, <3>1, OcKnownParts DEF OcMappers
    <3>3. e.call \in ocServer[e.session].ended
      BY <1>2, <2>4 DEF OcEventFits
    <3>4. OcRunFits' /\ OcMapperQuiet
      BY <1>1, <2>1, <2>2, <3>1, <3>2, <3>3, OcKnownParts DEF OcRunFits, OcMapperQuiet
    <3> QED BY <1>1, <3>1, <3>2, <3>4, OcKnownParts, PumpQuiet DEF OcGone
  <2>5. CASE e.type = "permission.requested"
    <3>1. /\ ocMapper' = [ocMapper EXCEPT !.asked = @ \cup {e.call}]
          /\ ocRun' = [ocRun EXCEPT !.state = "waiting_permission"] /\ ocSaid' = ocSaid
      BY <1>5, <2>5 DEF OcMapped
    <3>2. /\ ocMapper' \in OcMappers /\ ocMapper'.session = ocMapper.session
          /\ ocMapper'.terminal = ocMapper.terminal /\ ocMapper'.cancelling = ocMapper.cancelling
          /\ ocMapper'.asked = ocMapper.asked \cup {e.call} /\ ocMapper'.completed = ocMapper.completed
      BY <2>1, <3>1, OcKnownParts DEF OcMappers
    <3>3. ocRun' \in OcRuns /\ ocRun'.state = "waiting_permission" /\ ocRun'.session = ocRun.session
          /\ ocRun'.aborted = ocRun.aborted /\ ocRun'.pump = ocRun.pump
      BY <3>1, OcKnownParts DEF OcRuns
    <3>4. OcRunFits' /\ ~OcGone
      BY <1>1, <1>3, <1>5, <3>2, <3>3, OcKnownParts DEF OcRunFits, OcEnds, OcGone
    <3>5. OcMapperQuiet
      BY <2>1, <2>2, <3>2 DEF OcMapperQuiet, OcKnown
    <3> QED BY <1>1, <3>1, <3>2, <3>3, <3>4, <3>5, PumpQuiet
  <2> QED BY <1>5, <2>3, <2>4, <2>5
<1>6. CASE ~ocMapper.terminal /\ e.type = "permission.replied" /\ OcMapped(e)
  <2> DEFINE decision == ocServer[e.session].told[e.call]
  <2>1. e \in OcCallEvents /\ e.call \in OcCalls /\ e.session \in OcIds
    BY <1>2, <1>6 DEF OcEvents, OcCallEvents
  <2>2. e.call \in ocServer[e.session].calls /\ decision # "none"
    BY <1>2, <1>6, <2>1 DEF OcEventFits
  <2>3. decision \in {"allow", "deny"}
    BY <2>1, <2>2, OcKnownParts DEF OcStates, Decisions
  <2>4. OcAnswered(e.call, decision)
    BY <1>6 DEF OcMapped
  <2>5. /\ ocRun' \in OcRuns /\ ocMapper' \in OcMappers /\ OcRunFits' /\ ~OcGone
        /\ ocMapper'.asked = ocMapper.asked \ {e.call} /\ ocMapper'.completed = ocMapper.completed
        /\ ocSaid' \in [OcCalls -> Decisions] /\ ocSaid'[e.call] = decision
        /\ \A u \in OcCalls \ {e.call} : ocSaid'[u] = ocSaid[u]
    <3> HIDE DEF decision
    <3> QED BY <1>1, <1>3, <1>6, <2>1, <2>3, <2>4, AnsweredFits
  <2>6. /\ ocStream' \in [open : BOOLEAN, events : Seq(OcEvents)]
        /\ OcStreamQuiet
    BY <1>1, EventIsFit DEF OcInv, OcTyped, OcStreamQuiet
  <2>7. OcTyped'
    BY <1>1, <2>5, <2>6 DEF OcInv, OcTyped
  <2> QED BY <1>1, <2>1, <2>2, <2>5, <2>6, <2>7, DecisionSaid
<1>7. CASE /\ ~ocMapper.terminal /\ OcMapped(e)
           /\ e.type \in {"session.idle", "session.error"}
  <2>1. PICK result \in {"succeeded", "failed"} :
          OcTerminal(result) /\ (result = "succeeded" => ocMapper.asked = {})
    BY <1>7 DEF OcMapped
  <2>2. /\ ocRun' \in OcRuns /\ ocMapper' \in OcMappers /\ OcRunFits' /\ ~OcGone
        /\ ocMapper'.asked = ocMapper.asked /\ ocMapper'.completed = ocMapper.completed
        /\ ocSaid' = ocSaid
    BY <1>1, <1>7, <2>1, RunEndsFits DEF OcTerminal
  <2>3. OcMapperQuiet
    BY <2>2 DEF OcMapperQuiet
  <2> QED BY <1>1, <2>2, <2>3, PumpQuiet
<1> QED BY <1>1, <1>4, <1>5, <1>6, <1>7 DEF OcMapped

\* The server acts on a call of the session s, which may be new, and says so.
LEMMA ServerStep ==
  ASSUME OcInv, NEW s \in OcIds, NEW type, NEW t, NEW state \in OcStates,
         ServerSays(s, type, t, state), OcEvent(type, s, t) \in OcEvents, type # "permission.replied",
         OcEvent(type, s, t) \in OcCallEvents => t \in state.calls,
         type = "tool.ended" => t \in state.ended,
         ocServer[s].calls \subseteq state.calls, ocServer[s].ended \subseteq state.ended,
         state.told = ocServer[s].told, state.waiting \subseteq state.calls,
         \A u \in state.waiting : state.told[u] = "none",
         \A u \in state.calls \ ocServer[s].calls : ~OcKnown(u)
  PROVE  OcInv'
<1>1. /\ ocServer' = [ocServer EXCEPT ![s] = state]
      /\ ocStream' = IF ocStream.open THEN [ocStream EXCEPT !.events = Append(@, OcEvent(type, s, t))]
                     ELSE ocStream
      /\ UNCHANGED <<ocRun, ocRequest, ocMapper, ocSaid>>
  BY DEF ServerSays
<1>2. /\ ocServer' \in [OcIds -> OcStates] /\ ocServer'[s] = state
      /\ \A r \in OcIds \ {s} : ocServer'[r] = ocServer[r]
  BY <1>1, OcKnownParts
<1>3. /\ \A r \in OcIds : /\ ocServer[r].calls \subseteq ocServer'[r].calls
                          /\ ocServer[r].ended \subseteq ocServer'[r].ended
                          /\ ocServer'[r].told = ocServer[r].told
                          /\ \A u \in ocServer'[r].calls \ ocServer[r].calls : ~OcKnown(u)
  BY <1>2
<1> DEFINE e == OcEvent(type, s, t)
           old == ocStream.events
           new == ocStream'.events
<1>4. /\ old \in Seq(OcEvents)
      /\ ocStream' \in [open : BOOLEAN, events : Seq(OcEvents)]
      /\ new = old \/ new = Append(old, e)
  <2>1. ocStream \in [open : BOOLEAN, events : Seq(OcEvents)]
    BY DEF OcInv, OcTyped
  <2>2. Append(old, e) \in Seq(OcEvents)
    BY <2>1
  <2> HIDE DEF e
  <2> QED BY <1>1, <2>1, <2>2 DEF e
<1>5. OcTyped'
  BY <1>1, <1>2, <1>4 DEF OcInv, OcTyped
<1>6. OcRunFits'
  BY <1>1, OcKnownParts DEF OcRunFits
<1>7. OcServerFits'
  <2>1. \A r \in OcIds : /\ ocServer'[r].waiting \subseteq ocServer'[r].calls
                         /\ \A u \in ocServer'[r].waiting : ocServer'[r].told[u] = "none"
                         /\ \A u \in OcCalls \ ocServer'[r].calls : ocServer'[r].told[u] = "none"
    BY <1>2 DEF OcInv, OcServerFits
  <2>2. \A q, r \in OcIds : q # r => ocServer'[q].calls \cap ocServer'[r].calls = {}
    BY <1>2 DEF OcInv, OcServerFits, OcKnown
  <2> QED BY <2>1, <2>2 DEF OcServerFits
<1>8. OcEventsFit'
  <2>1. \A i \in 1..Len(new) : new[i] = e \/ \E j \in 1..Len(old) : new[i] = old[j]
    <3>1. e \in OcEvents
      OBVIOUS
    <3> HIDE DEF e, old, new
    <3> QED BY <1>4, <3>1, QueueAppended
  <2>2. \A j \in 1..Len(old) : old[j] \in OcEvents /\ OcEventFits(old[j])
    BY <1>4, ElementOfSeq DEF OcInv, OcEventsFit
  <2>3. \A f \in OcEvents : OcEventFits(f) =>
          /\ f \in OcCallEvents => f.call \in ocServer'[f.session].calls
          /\ f.type = "tool.ended" => f.call \in ocServer'[f.session].ended
          /\ f.type = "permission.replied" => ocServer'[f.session].told[f.call] # "none"
    BY <1>3 DEF OcEventFits, OcEvents, OcCallEvents
  <2>4. /\ e \in OcCallEvents => e.call \in ocServer'[e.session].calls
        /\ e.type = "tool.ended" => e.call \in ocServer'[e.session].ended
        /\ e.type # "permission.replied"
    BY <1>2 DEF OcEvent
  <2> HIDE DEF e, old, new
  <2>5. ASSUME NEW i \in 1..Len(new)
        PROVE  /\ new[i] \in OcCallEvents => new[i].call \in ocServer'[new[i].session].calls
               /\ new[i].type = "tool.ended" => new[i].call \in ocServer'[new[i].session].ended
               /\ new[i].type = "permission.replied" =>
                    ocServer'[new[i].session].told[new[i].call] # "none"
    BY <2>1, <2>2, <2>3, <2>4
  <2> QED BY <2>5 DEF OcEventsFit, OcEventFits, new
<1>9. OcMapperFits'
  <2>1. \A u \in OcCalls : OcKnown(u) => \E r \in OcIds : u \in ocServer'[r].calls
    BY <1>3 DEF OcKnown
  <2>2. /\ \A u \in ocMapper.asked \cup ocMapper.completed : OcKnown(u) /\ u \in OcCalls
        /\ \A u \in OcCalls : ocSaid[u] # "none" => OcKnown(u)
    BY OcKnownParts DEF OcInv, OcMapperFits, OcMappers
  <2>3. \A r \in OcIds : ocMapper.completed \cap ocServer'[r].calls \subseteq ocServer'[r].ended
    BY <1>3, <2>2 DEF OcInv, OcMapperFits
  <2> QED BY <1>1, <2>1, <2>2, <2>3 DEF OcMapperFits, OcKnown
<1>10. OcToldFits'
  <2>1. ASSUME NEW r \in OcIds, NEW u \in ocServer'[r].calls
        PROVE  /\ ocSaid[u] # "none" => ocServer[r].told[u] = ocSaid[u]
               /\ ocServer[r].told[u] # "none" /\ ocSaid[u] = "none" =>
                    OcGone \/ (ocRequest.op = "responded" /\ ocRequest.call = u)
    <3>1. CASE u \in ocServer[r].calls
      BY <3>1 DEF OcInv, OcToldFits
    <3>2. CASE u \notin ocServer[r].calls
      <4>1. u \in OcCalls /\ ~OcKnown(u)
        BY <1>2, <1>3, <2>1, <3>2 DEF OcStates
      <4>2. ocSaid[u] = "none" /\ ocServer[r].told[u] = "none"
        BY <3>2, <4>1 DEF OcInv, OcMapperFits, OcServerFits
      <4> QED BY <4>2
    <3> QED BY <3>1, <3>2
  <2> QED BY <1>1, <1>3, <2>1 DEF OcToldFits, OcGone
<1>11. OcRequestFits'
  <2>1. ASSUME ocRequest.op = "respond"
        PROVE  /\ \E r \in OcIds : ocRequest.call \in ocServer'[r].calls
               /\ \/ ocRequest.call \in ocMapper.asked
                  \/ \A r \in OcIds : ocRequest.call \in ocServer'[r].calls =>
                       ocServer'[r].told[ocRequest.call] # "none"
    BY <1>3, <2>1 DEF OcInv, OcRequestFits, OcKnown
  <2>2. ASSUME ocRequest.op = "responded"
        PROVE  /\ \E r \in OcIds : ocRequest.call \in ocServer'[r].calls
                                   /\ ocServer'[r].told[ocRequest.call] = ocRequest.decision
               /\ OcGone \/ ocRequest.call \in ocMapper.asked
                  \/ ocSaid[ocRequest.call] = ocRequest.decision
    BY <1>3, <2>2 DEF OcInv, OcRequestFits
  <2> QED BY <1>1, <2>1, <2>2 DEF OcRequestFits, OcKnown, OcGone
<1> QED BY <1>5, <1>6, <1>7, <1>8, <1>9, <1>10, <1>11 DEF OcInv

LEMMA ServerStepsKeep ==
  ASSUME OcInv, NEW s \in OcIds,
         \/ \E t \in OcCalls : ServerUsesTool(s, t) \/ ServerAsks(s, t) \/ ServerToolEnds(s, t)
         \/ ServerIdle(s) \/ ServerFails(s)
  PROVE  OcInv'
<1> DEFINE old == ocServer[s]
<1>1. /\ old \in OcStates /\ old.waiting \subseteq old.calls
      /\ \A u \in old.waiting : old.told[u] = "none"
  BY OcKnownParts DEF OcInv, OcServerFits
<1>2. ASSUME NEW t \in OcCalls, NEW type \in {"tool", "tool.ended", "permission.requested"}
      PROVE  OcEvent(type, s, t) \in OcEvents
  BY DEF OcEvent, OcEvents, OcCallEvents
<1>3. ASSUME NEW type \in {"session.idle", "session.error"}
      PROVE  OcEvent(type, s, NoOcCall) \in OcEvents /\ OcEvent(type, s, NoOcCall) \notin OcCallEvents
  BY DEF OcEvent, OcEvents, OcCallEvents
<1>4. ASSUME NEW t \in OcCalls, ServerUsesTool(s, t)
      PROVE  OcInv'
  <2> DEFINE new == [old EXCEPT !.calls = @ \cup {t}]
  <2>1. ServerSays(s, "tool", t, new) /\ ~OcKnown(t)
    BY <1>4 DEF ServerUsesTool, NewCall, OcKnown
  <2>2. /\ new \in OcStates /\ new.calls = old.calls \cup {t} /\ new.ended = old.ended
        /\ new.told = old.told /\ new.waiting = old.waiting
    BY <1>1 DEF OcStates
  <2> HIDE DEF new
  <2> QED BY <1>1, <1>2, <2>1, <2>2, ServerStep
<1>5. ASSUME NEW t \in OcCalls, ServerAsks(s, t)
      PROVE  OcInv'
  <2> DEFINE new == [old EXCEPT !.waiting = @ \cup {t}]
  <2>1. ServerSays(s, "permission.requested", t, new) /\ t \in old.calls /\ old.told[t] = "none"
    BY <1>5 DEF ServerAsks, Unfinished
  <2>2. /\ new \in OcStates /\ new.calls = old.calls /\ new.ended = old.ended
        /\ new.told = old.told /\ new.waiting = old.waiting \cup {t}
    BY <1>1 DEF OcStates
  <2> HIDE DEF new
  <2> QED BY <1>1, <1>2, <2>1, <2>2, ServerStep
<1>6. ASSUME NEW t \in OcCalls, ServerToolEnds(s, t)
      PROVE  OcInv'
  <2> DEFINE new == [old EXCEPT !.ended = @ \cup {t}]
  <2>1. ServerSays(s, "tool.ended", t, new) /\ t \in old.calls
    BY <1>6 DEF ServerToolEnds, Unfinished
  <2>2. /\ new \in OcStates /\ new.calls = old.calls /\ new.ended = old.ended \cup {t}
        /\ new.told = old.told /\ new.waiting = old.waiting
    BY <1>1 DEF OcStates
  <2> HIDE DEF new
  <2> QED BY <1>1, <1>2, <2>1, <2>2, ServerStep
<1>7. ASSUME ServerIdle(s)
      PROVE  OcInv'
  <2> DEFINE new == [old EXCEPT !.busy = FALSE]
  <2>1. ServerSays(s, "session.idle", NoOcCall, new)
    BY <1>7 DEF ServerIdle
  <2>2. /\ new \in OcStates /\ new.calls = old.calls /\ new.ended = old.ended
        /\ new.told = old.told /\ new.waiting = old.waiting
    BY <1>1 DEF OcStates
  <2> HIDE DEF new
  <2> QED BY <1>1, <1>3, <2>1, <2>2, ServerStep
<1>8. ASSUME ServerFails(s)
      PROVE  OcInv'
  <2> DEFINE new == [old EXCEPT !.busy = FALSE, !.waiting = {}]
  <2>1. ServerSays(s, "session.error", NoOcCall, new)
    BY <1>8 DEF ServerFails
  <2>2. /\ new \in OcStates /\ new.calls = old.calls /\ new.ended = old.ended
        /\ new.told = old.told /\ new.waiting = {}
    BY <1>1 DEF OcStates
  <2> HIDE DEF new
  <2> QED BY <1>1, <1>3, <2>1, <2>2, ServerStep
<1> QED BY <1>4, <1>5, <1>6, <1>7, <1>8

LEMMA OcRespondKeeps ==
  ASSUME OcInv, NEW t \in OcCalls, NEW decision \in {"allow", "deny"}, OcRespond(t, decision)
  PROVE  OcInv'
<1>1. /\ ocRequest.op = "none" /\ Running /\ t \in ocMapper.asked
      /\ ocRequest' = [op |-> "respond", call |-> t, decision |-> decision]
      /\ UNCHANGED <<ocRun, ocMapper, ocServer, ocStream, ocSaid>>
  BY DEF OcRespond, Ready, Requesting
<1>2. ocRequest' \in OcAnswers /\ ocRequest'.op = "respond" /\ ocRequest'.call = t
  BY <1>1 DEF OcAnswers
<1>3. OcKnown(t)
  BY <1>1 DEF OcInv, OcMapperFits
<1>4. OcTyped'
  BY <1>1, <1>2 DEF OcInv, OcTyped
<1>5. OcRunFits'
  BY <1>1, OcKnownParts DEF OcRunFits, Running
<1>6. OcServerFits'
  BY <1>1 DEF OcInv, OcServerFits
<1>7. OcEventsFit'
  BY <1>1 DEF OcInv, OcEventsFit, OcEventFits
<1>8. OcMapperFits'
  BY <1>1 DEF OcInv, OcMapperFits, OcKnown
<1>9. OcToldFits'
  BY <1>1 DEF OcInv, OcToldFits, OcGone
<1>10. OcRequestFits'
  BY <1>1, <1>2, <1>3 DEF OcRequestFits, OcKnown
<1> QED BY <1>4, <1>5, <1>6, <1>7, <1>8, <1>9, <1>10 DEF OcInv

LEMMA ServerToldKeeps ==
  ASSUME OcInv, ServerTold
  PROVE  OcInv'
<1> DEFINE s == ocRun.session
           t == ocRequest.call
           decision == ocRequest.decision
           e == OcEvent("permission.replied", s, t)
           old == ocStream.events
           new == ocStream'.events
<1>1. /\ ocRequest.op = "respond" /\ t \in ocServer[s].waiting
      /\ ocServer' = [ocServer EXCEPT ![s].waiting = @ \ {t}, ![s].told[t] = decision]
      /\ ocStream' = IF ocStream.open THEN [ocStream EXCEPT !.events = Append(@, e)] ELSE ocStream
      /\ ocRequest' = [ocRequest EXCEPT !.op = "responded"]
      /\ UNCHANGED <<ocRun, ocMapper, ocSaid>>
  BY DEF ServerTold, Requesting
<1>2. s \in OcIds
  BY <1>1, OcKnownParts DEF OcRunFits
<1>3. ocRequest \in OcAnswers /\ t \in OcCalls /\ decision \in {"allow", "deny"}
  BY <1>1 DEF OcInv, OcTyped, OcPlain, OcAnswers
<1>4. /\ ocRequest' \in OcAnswers /\ ocRequest'.op = "responded" /\ ocRequest'.call = t
      /\ ocRequest'.decision = decision
  BY <1>1, <1>3 DEF OcAnswers
<1>5. t \in ocServer[s].calls /\ ocServer[s].told[t] = "none"
  BY <1>1, <1>2 DEF OcInv, OcServerFits
<1>6. /\ ocServer' \in [OcIds -> OcStates]
      /\ \A r \in OcIds : /\ ocServer'[r].calls = ocServer[r].calls
                          /\ ocServer'[r].ended = ocServer[r].ended
                          /\ r # s => ocServer'[r].told = ocServer[r].told
                                      /\ ocServer'[r].waiting = ocServer[r].waiting
      /\ ocServer'[s].waiting = ocServer[s].waiting \ {t}
      /\ ocServer'[s].told[t] = decision
      /\ \A u \in OcCalls \ {t} : ocServer'[s].told[u] = ocServer[s].told[u]
  <2> DEFINE state == ocServer[s]
             told == [state.told EXCEPT ![t] = decision]
             next == [state EXCEPT !.waiting = @ \ {t}, !.told = told]
  <2>1. state \in OcStates /\ state.told \in [OcCalls -> Decisions]
    BY <1>2, OcKnownParts DEF OcStates
  <2>2. ocServer' = [ocServer EXCEPT ![s] = next]
    <3> HIDE DEF s, t, decision
    <3> QED BY <1>1, <1>2, <2>1, OcKnownParts DEF OcStates
  <2> HIDE DEF s, t, decision
  <2>3. told \in [OcCalls -> Decisions] /\ told[t] = decision
        /\ \A u \in OcCalls \ {t} : told[u] = state.told[u]
    BY <1>3, <2>1 DEF Decisions
  <2> HIDE DEF told
  <2>4. /\ next \in OcStates /\ next.calls = state.calls /\ next.ended = state.ended
        /\ next.told = told /\ next.waiting = state.waiting \ {t}
    BY <2>1, <2>3 DEF OcStates
  <2> HIDE DEF next
  <2> QED BY <1>2, <2>2, <2>3, <2>4, OcKnownParts
<1>7. \A r \in OcIds : t \in ocServer[r].calls => r = s
  BY <1>2, <1>5 DEF OcInv, OcServerFits
<1>8. t \in ocMapper.asked /\ ocSaid[t] = "none"
  BY <1>1, <1>2, <1>3, <1>5, <1>7 DEF OcInv, OcRequestFits, OcToldFits
<1> HIDE DEF decision
<1>9. /\ old \in Seq(OcEvents) /\ e \in OcEvents
      /\ ocStream' \in [open : BOOLEAN, events : Seq(OcEvents)]
      /\ new = old \/ new = Append(old, e)
  <2>1. ocStream \in [open : BOOLEAN, events : Seq(OcEvents)]
    BY DEF OcInv, OcTyped
  <2>2. e \in OcEvents
    <3> HIDE DEF s, t
    <3> QED BY <1>2, <1>3 DEF OcEvent, OcEvents, OcCallEvents
  <2> HIDE DEF e
  <2>3. Append(old, e) \in Seq(OcEvents)
    BY <2>1, <2>2
  <2> QED BY <1>1, <2>1, <2>2, <2>3
<1>10. OcTyped'
  BY <1>1, <1>4, <1>6, <1>9 DEF OcInv, OcTyped
<1>11. OcRunFits'
  BY <1>1, <1>4, OcKnownParts DEF OcRunFits
<1>12. OcServerFits'
  <2> HIDE DEF s, t
  <2>1. \A r \in OcIds : /\ ocServer'[r].waiting \subseteq ocServer'[r].calls
                         /\ \A u \in ocServer'[r].waiting : u \in OcCalls /\ ocServer'[r].told[u] = "none"
                         /\ \A u \in OcCalls \ ocServer'[r].calls : ocServer'[r].told[u] = "none"
    <3>1. ASSUME NEW r \in OcIds
          PROVE  /\ ocServer[r].waiting \subseteq ocServer[r].calls
                 /\ \A u \in ocServer[r].waiting : u \in OcCalls /\ ocServer[r].told[u] = "none"
                 /\ \A u \in OcCalls \ ocServer[r].calls : ocServer[r].told[u] = "none"
      BY OcKnownParts DEF OcInv, OcServerFits, OcStates
    <3> QED BY <1>5, <1>6, <3>1
  <2>2. \A q, r \in OcIds : q # r => ocServer'[q].calls \cap ocServer'[r].calls = {}
    BY <1>6 DEF OcInv, OcServerFits
  <2> QED BY <2>1, <2>2 DEF OcServerFits
<1>13. OcEventsFit'
  <2>1. \A i \in 1..Len(new) : new[i] = e \/ \E j \in 1..Len(old) : new[i] = old[j]
    <3> HIDE DEF e, old, new
    <3> QED BY <1>9, QueueAppended
  <2>2. \A j \in 1..Len(old) : old[j] \in OcEvents /\ OcEventFits(old[j])
    BY <1>9, ElementOfSeq DEF OcInv, OcEventsFit
  <2>3. \A f \in OcEvents : OcEventFits(f) =>
          /\ f \in OcCallEvents => f.call \in ocServer'[f.session].calls
          /\ f.type = "tool.ended" => f.call \in ocServer'[f.session].ended
          /\ f.type = "permission.replied" => ocServer'[f.session].told[f.call] # "none"
    <3>1. ASSUME NEW f \in OcEvents, OcEventFits(f), f.type = "permission.replied"
          PROVE  ocServer'[f.session].told[f.call] # "none"
      <4>1. f.session \in OcIds /\ f.call \in OcCalls /\ ocServer[f.session].told[f.call] # "none"
        BY <3>1 DEF OcEventFits, OcEvents, OcCallEvents
      <4> HIDE DEF s, t
      <4> QED BY <1>3, <1>6, <4>1 DEF decision
    <3> QED BY <1>6, <3>1 DEF OcEventFits, OcEvents, OcCallEvents
  <2>4. /\ e.call = t /\ e.session = s /\ e.type = "permission.replied"
    BY DEF OcEvent
  <2>5. /\ e.call \in ocServer'[e.session].calls /\ ocServer'[e.session].told[e.call] # "none"
    <3> HIDE DEF s, t, e
    <3> QED BY <1>2, <1>3, <1>5, <1>6, <2>4 DEF decision
  <2> HIDE DEF e, old
  <2> QED BY <2>1, <2>2, <2>3, <2>4, <2>5 DEF OcEventsFit, OcEventFits
<1>14. OcMapperFits'
  BY <1>1, <1>6 DEF OcInv, OcMapperFits, OcKnown
<1>15. OcToldFits'
  <2> HIDE DEF s, t
  <2>1. ASSUME NEW r \in OcIds, NEW u \in ocServer[r].calls
        PROVE  /\ ocSaid[u] # "none" => ocServer'[r].told[u] = ocSaid[u]
               /\ ocServer'[r].told[u] # "none" /\ ocSaid[u] = "none" => OcGone \/ u = t
    <3>1. /\ ocSaid[u] # "none" => ocServer[r].told[u] = ocSaid[u]
          /\ ocServer[r].told[u] # "none" /\ ocSaid[u] = "none" => OcGone
      BY <1>1 DEF OcInv, OcToldFits
    <3>2. u \in OcCalls
      BY OcKnownParts DEF OcStates
    <3> QED BY <1>6, <1>8, <3>1, <3>2
  <2> QED BY <1>1, <1>4, <1>6, <2>1 DEF OcToldFits, OcGone
<1>16. OcRequestFits'
  <2> HIDE DEF s, t
  <2> QED BY <1>1, <1>2, <1>4, <1>5, <1>6, <1>8 DEF OcRequestFits
<1> QED BY <1>10, <1>11, <1>12, <1>13, <1>14, <1>15, <1>16 DEF OcInv

LEMMA PermissionAnsweredKeeps ==
  ASSUME OcInv, PermissionAnswered
  PROVE  OcInv'
<1> DEFINE t == ocRequest.call
           decision == ocRequest.decision
<1>1. /\ ocRequest.op = "responded" /\ ocRequest' = NoOcRequest /\ UNCHANGED <<ocServer, ocStream>>
      /\ \/ t \notin ocMapper.asked /\ UNCHANGED <<ocRun, ocMapper, ocSaid>>
         \/ /\ t \in ocMapper.asked /\ ocMapper.terminal /\ UNCHANGED <<ocRun, ocSaid>>
            /\ ocMapper' = [ocMapper EXCEPT !.asked = @ \ {t}, !.answered = @ \cup {t}]
         \/ t \in ocMapper.asked /\ ~ocMapper.terminal /\ OcAnswered(t, decision)
  BY DEF PermissionAnswered, Requesting, Done
<1>2. t \in OcCalls /\ decision \in {"allow", "deny"}
  BY <1>1 DEF OcInv, OcTyped, OcPlain, OcAnswers
<1>3. PICK r \in OcIds : t \in ocServer[r].calls /\ ocServer[r].told[t] = decision
  BY <1>1 DEF OcInv, OcRequestFits
<1>4. ocRun.session \in OcIds
  BY <1>1, OcKnownParts DEF OcRunFits
<1> HIDE DEF decision
<1>5. CASE t \in ocMapper.asked /\ ~ocMapper.terminal /\ OcAnswered(t, decision)
  <2>1. /\ ocRun' \in OcRuns /\ ocMapper' \in OcMappers /\ OcRunFits' /\ ~OcGone
        /\ ocMapper'.asked = ocMapper.asked \ {t} /\ ocMapper'.completed = ocMapper.completed
        /\ ocSaid' \in [OcCalls -> Decisions] /\ ocSaid'[t] = decision
        /\ \A u \in OcCalls \ {t} : ocSaid'[u] = ocSaid[u]
    <3> HIDE DEF t
    <3> QED BY <1>1, <1>2, <1>4, <1>5, AnsweredFits
  <2>2. OcTyped' /\ OcStreamQuiet
    BY <1>1, <2>1, OcKnownParts DEF OcInv, OcTyped, OcStreamQuiet
  <2>3. decision # "none" /\ ocRequest.op = "responded" /\ ocRequest.call = t
    BY <1>1, <1>2
  <2> HIDE DEF t
  <2> QED BY <1>1, <1>2, <1>3, <2>1, <2>2, <2>3, DecisionSaid
<1>6. CASE \/ t \notin ocMapper.asked /\ UNCHANGED <<ocRun, ocMapper, ocSaid>>
           \/ /\ t \in ocMapper.asked /\ ocMapper.terminal /\ UNCHANGED <<ocRun, ocSaid>>
              /\ ocMapper' = [ocMapper EXCEPT !.asked = @ \ {t}, !.answered = @ \cup {t}]
  <2> HIDE DEF t
  <2>1. /\ ocMapper' \in OcMappers /\ ocMapper'.terminal = ocMapper.terminal
        /\ ocMapper'.session = ocMapper.session /\ ocMapper'.cancelling = ocMapper.cancelling
        /\ ocMapper'.asked \subseteq ocMapper.asked /\ ocMapper'.completed = ocMapper.completed
        /\ ocRun' = ocRun /\ ocSaid' = ocSaid
    <3>1. CASE UNCHANGED <<ocRun, ocMapper, ocSaid>>
      BY <3>1, OcKnownParts
    <3>2. CASE /\ UNCHANGED <<ocRun, ocSaid>>
               /\ ocMapper' = [ocMapper EXCEPT !.asked = @ \ {t}, !.answered = @ \cup {t}]
      BY <1>2, <3>2, OcKnownParts DEF OcMappers
    <3> QED BY <1>6, <3>1, <3>2
  <2>2. OcGone \/ ocSaid[t] # "none"
    <3>1. CASE t \in ocMapper.asked
      BY <1>6, <3>1, OcKnownParts DEF OcRunFits, OcGone, OcEnds
    <3>2. CASE t \notin ocMapper.asked
      BY <1>1, <1>2, <3>2 DEF OcInv, OcRequestFits, t, decision
    <3> QED BY <3>1, <3>2
  <2>3. OcTyped'
    BY <1>1, <2>1, OcKnownParts DEF OcInv, OcTyped
  <2>4. OcRunFits'
    BY <1>1, <2>1, OcKnownParts DEF OcRunFits
  <2>5. OcServerFits'
    BY <1>1 DEF OcInv, OcServerFits
  <2>6. OcEventsFit'
    BY <1>1 DEF OcInv, OcEventsFit, OcEventFits
  <2>7. OcMapperFits'
    BY <1>1, <2>1 DEF OcInv, OcMapperFits, OcKnown
  <2>8. OcToldFits'
    BY <1>1, <2>1, <2>2, OcKnownParts DEF OcInv, OcToldFits, OcGone, t
  <2>9. OcRequestFits'
    BY <1>1, OcKnownParts DEF OcRequestFits
  <2> QED BY <2>3, <2>4, <2>5, <2>6, <2>7, <2>8, <2>9 DEF OcInv
<1> QED BY <1>1, <1>5, <1>6

LEMMA OpenCodeStepKeeps == OcInv /\ [OpenCodeNext]_ocVars => OcInv'
<1> SUFFICES ASSUME OcInv, [OpenCodeNext]_ocVars PROVE OcInv'
  OBVIOUS
<1>1. CASE UNCHANGED ocVars
  <2>1. UNCHANGED <<ocRun, ocRequest, ocMapper, ocServer, ocStream, ocSaid>>
    BY <1>1 DEF ocVars
  <2>2. OcTyped' /\ OcRunFits' /\ OcServerFits'
    BY <2>1 DEF OcInv, OcTyped, OcRunFits, OcServerFits
  <2>3. OcEventsFit' /\ OcMapperFits'
    BY <2>1 DEF OcInv, OcEventsFit, OcEventFits, OcMapperFits, OcKnown
  <2>4. OcToldFits' /\ OcRequestFits'
    BY <2>1 DEF OcInv, OcToldFits, OcGone, OcRequestFits, OcKnown
  <2> QED BY <2>2, <2>3, <2>4 DEF OcInv
<1>2. ASSUME StreamEnds \/ PumpTakes \/ PumpThrows \/ PumpStops
      PROVE  OcInv'
  BY <1>2, StreamEndsKeeps, PumpTakesKeeps, PumpThrowsKeeps, PumpStopsKeeps
<1>3. ASSUME OcStartTask \/ FirstPrompt \/ PromptRejected
      PROVE  OcInv'
  BY <1>3, OcStartTaskKeeps, PromptKeeps, FailRunKeeps
     DEF FirstPrompt, PromptRejected, Requesting, Done
<1>4. ASSUME OcSendFeedback \/ FeedbackSent \/ OcResumeTask \/ Resumed
      PROVE  OcInv'
  BY <1>4, AskedKeeps, PromptKeeps, ResumedKeeps
     DEF OcSendFeedback, FeedbackSent, OcResumeTask, Requesting
<1>5. ASSUME OcCreateSuccessorSession \/ SuccessorCreated
      PROVE  OcInv'
  BY <1>5, AskedKeeps, SuccessorCreatedKeeps DEF OcCreateSuccessorSession
<1>6. ASSUME ServerTold \/ PermissionAnswered
      PROVE  OcInv'
  BY <1>6, ServerToldKeeps, PermissionAnsweredKeeps
<1>7. ASSUME OcCancelTask \/ Aborted \/ AbortRejected \/ RestoreRun
      PROVE  OcInv'
  BY <1>7, OcCancelTaskKeeps, AbortedKeeps, FailRunKeeps, RestoreRunKeeps
     DEF AbortRejected, Requesting, Done
<1>8. CASE OpenCodeNext
  BY <1>2, <1>3, <1>4, <1>5, <1>6, <1>7, <1>8, ServerStepsKeep, RejectedKeeps, OcRespondKeeps
     DEF OpenCodeNext
<1> QED BY <1>1, <1>8

\* What the events of an OpenCode run say is what happened in its sessions, for any number of
\* tool calls, sessions and restarts (driver.ts, event-mapper.ts).
THEOREM OpenCodeRunsTellWhatHappened == OpenCodeSpec => []RunTellsWhatHappened
<1>1. OcInv => RunTellsWhatHappened
  <2> SUFFICES ASSUME OcInv PROVE RunTellsWhatHappened
    OBVIOUS
  <2>1. /\ Running /\ Requesting("none") /\ ~ocMapper.cancelling => ocRun.pump # "over"
        /\ ocMapper.session = ocRun.session
        /\ ocMapper.terminal <=> ocRun.state \in {"succeeded", "failed", "cancelled"}
    BY DEF OcInv, OcRunFits, OcEnds, Running
  <2>2. \A s \in OcIds : \A t \in ocServer[s].calls :
          \/ ocServer[s].told[t] = ocSaid[t]
          \/ ocSaid[t] = "none" /\ (Requesting("responded")
                                    \/ ocRun.state \in {"cancelling", "failed", "cancelled"})
    BY DEF OcInv, OcToldFits, OcGone, Requesting
  <2>3. \A s \in OcIds : ocMapper.completed \cap ocServer[s].calls \subseteq ocServer[s].ended
    BY DEF OcInv, OcMapperFits
  <2> QED BY <2>1, <2>2, <2>3 DEF RunTellsWhatHappened
<1> QED BY OcInitFits, OpenCodeStepKeeps, <1>1, PTL DEF OpenCodeSpec
=============================================================================
