---------------------------- MODULE StdioTransport ----------------------------
(***************************************************************************)
(* The transport between a driver client in the Bridge and the host of the *)
(* driver in its own process: requests one way, responses and the events   *)
(* of one subscription the other way, over the pipes of the process.       *)
(*                                                                         *)
(* The host serves one request at a time.  The client gives up on a        *)
(* request after a while; an answer that comes later, and any message of   *)
(* a subscription the client has left, closes the transport.               *)
(*                                                                         *)
(* Time is left out: a request may time out whenever it is pending, and    *)
(* the process whenever it runs.  Lines always parse, and writes never     *)
(* wait for the pipe to drain.                                             *)
(***************************************************************************)
EXTENDS Naturals, Sequences

CONSTANTS Uses,        \* what is asked of the driver; "work" stands for all but cancelTask
          MaxCalls,    \* bound: requests
          MaxEmitted   \* bound: events of the driver

ASSUME TransportAssumption == /\ Uses \subseteq {"work", "cancelTask"}
                              /\ MaxCalls \in Nat /\ MaxEmitted \in Nat

VARIABLES
  calls,    \* requests sent, in order: [method, state]
  client,   \* isClosed, the reader, closeTask, the supervised process
  inbox,    \* the one subscription at the client and its consumer
  host,     \* the host's loop, the driver's event stream
  pipes      \* [stdin, stdout]

transportVars == <<calls, client, inbox, host, pipes>>

Ids == DOMAIN calls
Pending(i) == calls[i].state = "pending"

TransportInit ==
  /\ calls = <<>>
  /\ client = [ready |-> FALSE, closed |-> FALSE, closing |-> "no", doomed |-> FALSE]
  /\ inbox = [queue |-> "none", values |-> 0, ended |-> "no", consumer |-> "none", got |-> 0]
  /\ host = [pc |-> "off", at |-> 0, stream |-> "none", emitted |-> 0]
  /\ pipes = [stdin |-> <<>>, stdout |-> <<>>]

Response(i, ok) == [kind |-> "response", of |-> i, ok |-> ok]
Event == [kind |-> "event", of |-> 0, ok |-> TRUE]
StreamClosed == [kind |-> "stream_closed", of |-> 0, ok |-> TRUE]
ReadyLine == [kind |-> "ready", of |-> 0, ok |-> TRUE]

Writes(lines) == pipes' = [pipes EXCEPT !.stdout = @ \o lines]
ChildUp == host.pc \notin {"off", "exited"}

(***************************************************************************)
(* The client.                                                             *)
(***************************************************************************)
\* request, with what its caller changes beside it in q.
Request(method) ==
  /\ ~client.closed
  /\ Len(calls) < MaxCalls
  /\ calls' = Append(calls, [method |-> method, state |-> "pending"])
  /\ pipes' = [pipes EXCEPT !.stdin = Append(@, Len(calls) + 1)]

Initialized == Ids # {} /\ calls[1].state = "answered"

\* start: the process, and the first request once its host said it is ready.
StartProcess == /\ host.pc = "off"
                /\ host' = [host EXCEPT !.pc = "starting"]
                /\ UNCHANGED <<calls, client, inbox, pipes>>

Initialize == /\ client.ready /\ calls = <<>>
              /\ Request("initialize")
              /\ UNCHANGED <<client, inbox, host>>

Use(method) == /\ Initialized
               /\ Request(method)
               /\ UNCHANGED <<client, inbox, host>>

\* streamEvents, and the consumer's for-await loop over it.
StreamEvents == /\ Initialized
                /\ inbox.queue = "none"
                /\ Request("subscribeEvents")
                /\ inbox' = [inbox EXCEPT !.queue = "open", !.consumer = "waiting"]
                /\ UNCHANGED <<client, host>>

\* Mutant: the end of the queue is seen before the events that are still in it.
NextEventOrEnd == /\ inbox.consumer = "waiting"
                  /\ IF inbox.ended # "no"
                     THEN inbox' = [inbox EXCEPT !.consumer = inbox.ended]
                     ELSE /\ inbox.values > 0
                          /\ inbox' = [inbox EXCEPT !.values = @ - 1, !.got = @ + 1,
                                                    !.consumer = "listening"]
                  /\ UNCHANGED <<calls, client, host, pipes>>

NextEvent == /\ inbox.consumer = "waiting"
             /\ IF inbox.values > 0
                THEN inbox' = [inbox EXCEPT !.values = @ - 1, !.got = @ + 1, !.consumer = "listening"]
                ELSE /\ inbox.ended # "no"
                     /\ inbox' = [inbox EXCEPT !.consumer = inbox.ended]
             /\ UNCHANGED <<calls, client, host, pipes>>

ListenerReturns == /\ inbox.consumer = "listening"
                   /\ inbox' = [inbox EXCEPT !.consumer = "waiting"]
                   /\ UNCHANGED <<calls, client, host, pipes>>

\* The listener throws: return, which leaves the subscription and says so to the host.
ListenerThrows ==
  /\ inbox.consumer = "listening"
  /\ inbox' = [inbox EXCEPT !.consumer = "returned", !.ended = "done", !.queue = "left"]
  /\ \/ Request("unsubscribeEvents")
     \/ client.closed /\ UNCHANGED <<calls, pipes>>
  /\ UNCHANGED <<client, host>>

\* closeOnce: a client that is closed already tells the process nothing and waits.
Close == /\ Initialized
         /\ client.closing = "no"
         /\ client' = [client EXCEPT !.closing = "waiting"]
         /\ \/ Request("shutdown")
            \/ client.closed /\ UNCHANGED <<calls, pipes>>
         /\ UNCHANGED <<inbox, host>>

CloseReturns == /\ client.closing = "waiting"
                /\ ~ChildUp
                /\ client.closed
                /\ client' = [client EXCEPT !.closing = "closed"]
                /\ UNCHANGED <<calls, inbox, host, pipes>>

\* initialize, cancelTask and shutdown cancel the process when they fail.
CancelsProcess == {"initialize", "cancelTask", "shutdown"}
Settle(i, state) ==
  /\ calls' = [calls EXCEPT ![i].state = state]
  /\ client' = [client EXCEPT
       !.doomed = @ \/ (state # "answered" /\ calls[i].method \in CancelsProcess)]
\* A subscription that could not be made fails its queue.
SettleQueue(i, state) ==
  inbox' = IF state # "answered" /\ calls[i].method = "subscribeEvents"
           THEN [inbox EXCEPT !.queue = "left", !.ended = "failed"] ELSE inbox

RequestTimesOut == \E i \in Ids : /\ Pending(i)
                                  /\ Settle(i, "timed_out")
                                  /\ SettleQueue(i, "timed_out")
                                  /\ UNCHANGED <<host, pipes>>

\* Mutant: the consumer of the events is not told.
TransportClosedQuietly ==
  /\ calls' = [i \in Ids |-> IF Pending(i) THEN [calls[i] EXCEPT !.state = "failed"] ELSE calls[i]]
  /\ client' = [client EXCEPT !.closed = TRUE,
                  !.doomed = @ \/ \E i \in Ids : Pending(i) /\ calls[i].method \in CancelsProcess]
  /\ UNCHANGED inbox

\* handleTransportClosed
TransportClosed ==
  /\ calls' = [i \in Ids |-> IF Pending(i) THEN [calls[i] EXCEPT !.state = "failed"] ELSE calls[i]]
  /\ client' = [client EXCEPT !.closed = TRUE,
                  !.doomed = @ \/ \E i \in Ids : Pending(i) /\ calls[i].method \in CancelsProcess]
  /\ inbox' = IF inbox.queue = "open" THEN [inbox EXCEPT !.queue = "left", !.ended = "failed"]
              ELSE inbox

\* acceptMessage
ReadLine ==
  /\ ~client.closed
  /\ pipes.stdout # <<>>
  /\ LET m == Head(pipes.stdout)
         welcome == CASE m.kind = "response" -> Pending(m.of)
                      [] m.kind = "ready"    -> TRUE
                      [] OTHER               -> inbox.queue = "open"
     IN \/ /\ m.kind = "response" /\ welcome
           /\ Settle(m.of, IF m.ok THEN "answered" ELSE "failed")
           /\ SettleQueue(m.of, IF m.ok THEN "answered" ELSE "failed")
        \/ /\ m.kind = "ready"
           /\ client' = [client EXCEPT !.ready = TRUE]
           /\ UNCHANGED <<calls, inbox>>
        \/ /\ m.kind = "event" /\ welcome
           /\ inbox' = [inbox EXCEPT !.values = @ + 1]
           /\ UNCHANGED <<calls, client>>
        \/ /\ m.kind = "stream_closed" /\ welcome
           /\ inbox' = [inbox EXCEPT !.queue = "left", !.ended = "done"]
           /\ UNCHANGED <<calls, client>>
        \/ /\ ~welcome
           /\ TransportClosed
  /\ pipes' = [pipes EXCEPT !.stdout = Tail(@)]
  /\ UNCHANGED host

\* The process is over and its output has been read.
ProcessClosed == /\ host.pc = "exited"
                 /\ ~client.closed
                 /\ pipes.stdout = <<>>
                 /\ TransportClosed
                 /\ UNCHANGED <<host, pipes>>

(***************************************************************************)
(* The process: it may die, is killed when cancelled, and times out.       *)
(***************************************************************************)
Exits == host' = [host EXCEPT !.pc = "exited"]
ProcessDies == /\ ChildUp /\ Exits /\ UNCHANGED <<calls, client, inbox, pipes>>
ProcessKilled == /\ ChildUp /\ client.doomed /\ Exits /\ UNCHANGED <<calls, client, inbox, pipes>>
ProcessTimesOut == ProcessDies

HostStarts == /\ host.pc = "starting"
              /\ host' = [host EXCEPT !.pc = "reading"]
              /\ Writes(<<ReadyLine>>)
              /\ UNCHANGED <<calls, client, inbox>>

HostReads == /\ host.pc = "reading"
             /\ pipes.stdin # <<>>
             /\ host' = [host EXCEPT !.pc = "serving", !.at = Head(pipes.stdin)]
             /\ pipes' = [pipes EXCEPT !.stdin = Tail(@)]
             /\ UNCHANGED <<calls, client, inbox>>

\* dispatch, except of an unsubscription that has to wait for the stream.  A driver may
\* take any time for its part, and may fail.
Streaming == host.stream = "pending"
HostAnswers(ok) ==
  LET method == calls[host.at].method
      ends == method = "shutdown" /\ ok /\ Streaming
  IN /\ host.pc = "serving"
     /\ method = "unsubscribeEvents" => ~Streaming
     /\ host' = [host EXCEPT
          !.pc = IF method = "shutdown" /\ ok THEN "stopping" ELSE "reading",
          !.at = 0,
          !.stream = IF method = "subscribeEvents" /\ ok THEN "pending"
                     ELSE IF ends THEN "over" ELSE @]
     /\ Writes((IF ends THEN <<StreamClosed>> ELSE <<>>) \o <<Response(host.at, ok)>>)
     /\ UNCHANGED <<calls, client, inbox>>

HostStops == /\ host.pc = "stopping" /\ Exits /\ UNCHANGED <<calls, client, inbox, pipes>>

\* pumpEvents.  An iterator asked to return while its next is awaited returns after that.
Returning == host.pc = "serving" /\ calls[host.at].method = "unsubscribeEvents"
Pumps(lines) ==
  LET over == Returning \/ lines = <<>>
      last == IF over THEN <<StreamClosed>> ELSE <<>>
  IN /\ Streaming /\ ChildUp
     /\ host' = [host EXCEPT !.emitted = @ + Len(lines),
                             !.stream = IF over THEN "over" ELSE @,
                             !.pc = IF Returning THEN "reading" ELSE @,
                             !.at = IF Returning THEN 0 ELSE @]
     /\ IF Returning THEN \/ Writes(lines \o <<Response(host.at, TRUE)>> \o last)
                          \/ Writes(lines \o last \o <<Response(host.at, TRUE)>>)
        ELSE Writes(lines \o last)
     /\ UNCHANGED <<calls, client, inbox>>

DriverEmits == host.emitted < MaxEmitted /\ Pumps(<<Event>>)
DriverStreamEnds == Pumps(<<>>)

-----------------------------------------------------------------------------
Timers == RequestTimesOut \/ ProcessTimesOut
TransportStep ==
  \/ Initialize \/ NextEvent \/ ListenerReturns \/ ListenerThrows \/ CloseReturns
  \/ ReadLine \/ ProcessClosed \/ ProcessKilled \/ HostStarts \/ HostReads \/ HostStops

TransportNext ==
  \/ StartProcess
  \/ TransportStep \/ Timers
  \/ \E m \in Uses : Use(m)
  \/ StreamEvents \/ Close
  \/ \E ok \in BOOLEAN : HostAnswers(ok)
  \/ DriverEmits \/ DriverStreamEnds

\* Nothing is assumed of the driver: only that pipes are read, that listeners end, and
\* that the timers of requests and of the process fire.
TransportFairness == /\ WF_transportVars(TransportStep)
                     /\ WF_transportVars(RequestTimesOut)
                     /\ WF_transportVars(ProcessTimesOut)

TransportSpec == TransportInit /\ [][TransportNext]_transportVars

-----------------------------------------------------------------------------
TransportTypeOK ==
  /\ \A i \in Ids : calls[i].state \in {"pending", "answered", "failed", "timed_out"}
  /\ client.closing \in {"no", "waiting", "closed"}
  /\ inbox.queue \in {"none", "open", "left"} /\ inbox.ended \in {"no", "done", "failed"}
  /\ inbox.consumer \in {"none", "waiting", "listening", "done", "failed", "returned"}
  /\ host.pc \in {"off", "starting", "reading", "serving", "stopping", "exited"}
  /\ host.at \in Ids \cup {0}
  /\ host.stream \in {"none", "pending", "over"}

\* A consumer that is told the stream is over has had every event of the driver, and
\* one whose transport broke is told so, after the events that did arrive
\* (stdio-driver-client.ts EventQueue, handleTransportClosed).
DoneMeansAll ==
  /\ inbox.consumer = "done" => host.stream = "over" /\ inbox.got = host.emitted
  /\ inbox.got + inbox.values <= host.emitted
  /\ client.closed => ~\E i \in Ids : Pending(i)

\* Nobody waits for ever on a driver that is silent, dead or off the protocol: every
\* request settles, the consumer of a broken transport is told, and close returns.
EveryoneIsAnswered ==
  /\ \A i \in 1..MaxCalls : []<>(i \in Ids => ~Pending(i))
  /\ []<>(client.closed => inbox.consumer \notin {"waiting", "listening"})
  /\ []<>(client.closing # "waiting")
=============================================================================
