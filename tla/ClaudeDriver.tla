----------------------------- MODULE ClaudeDriver -----------------------------
(***************************************************************************)
(* A run of the Claude driver: SDK queries, one after the other, each with *)
(* a queue of runtime events; the pump of the current query, which maps    *)
(* them to the events of the run; and the requests of the host, one at a   *)
(* time.  The SDK (external) asks for permissions in the middle of a query *)
(* and waits for the answers.                                              *)
(*                                                                         *)
(* A permission has the name of the tool call it is for.  The SDK ends a   *)
(* successful query only when its tool calls have ended, and a closed      *)
(* query always ends.                                                      *)
(***************************************************************************)
EXTENDS Naturals, Sequences

CONSTANTS ToolCalls, MaxQueries

ASSUME ClaudeAssumption == MaxQueries \in Nat \ {0}

VARIABLES
  record,   \* RunRecord and the host's request under way
  mapper,   \* ClaudeEventMapper
  checked,  \* AgentEventSequenceValidator
  query,    \* query -> the SDK's query and its RuntimeEventQueue
  said      \* tool call -> the decision in the run's events

claudeVars == <<record, mapper, checked, query, said>>

Queries == 1..MaxQueries
NoQuery == [sdk |-> "none", queue |-> <<>>, pump |-> "none", aborted |-> FALSE,
            calls |-> {}, waiting |-> {}, ended |-> {}, told |-> [t \in ToolCalls |-> "none"]]

ClaudeInit ==
  /\ record = [result |-> "none", query |-> 0, request |-> "none", with |-> 0, idle |-> "no run"]
  /\ mapper = [open |-> {}, asked |-> {}, answered |-> {}, completed |-> {},
               cancelling |-> FALSE, terminal |-> FALSE]
  /\ checked = [open |-> {}, pending |-> {}, cancellation |-> FALSE]
  /\ query = [q \in Queries |-> NoQuery]
  /\ said = [t \in ToolCalls |-> "none"]

RuntimeEvent(type, t) == [type |-> type, call |-> t]
Pushed(q, events) == [query[q] EXCEPT !.queue = @ \o events]
NoCall == "no call"
Fresh(t) == \A q \in Queries : t \notin query[q].calls

(***************************************************************************)
(* The SDK, canUseTool and pumpSdkMessages.                                *)
(***************************************************************************)
Live(q) == query[q].sdk = "live" /\ ~query[q].aborted
Sdk(q, state) == query' = [query EXCEPT ![q] = state] /\ UNCHANGED <<record, mapper, checked, said>>

SdkUsesTool(q, t) ==
  /\ Live(q) /\ Fresh(t)
  /\ Sdk(q, [Pushed(q, <<RuntimeEvent("tool.started", t)>>) EXCEPT !.calls = @ \cup {t}])

\* The assistant message with the tool call may come before the question or not.
SdkAsks(q, t) ==
  /\ Live(q)
  /\ Fresh(t) \/ (t \in query[q].calls \ query[q].ended /\ query[q].told[t] = "none"
                   /\ t \notin query[q].waiting)
  /\ Sdk(q, [Pushed(q, <<RuntimeEvent("tool.started", t), RuntimeEvent("permission.requested", t)>>)
               EXCEPT !.calls = @ \cup {t}, !.waiting = @ \cup {t}])

\* abort: the SDK gives the question up, which denies the call.
SdkAbandons(q, t) ==
  /\ Live(q) /\ t \in query[q].waiting
  /\ Sdk(q, [query[q] EXCEPT !.waiting = @ \ {t}, !.told[t] = "deny"])

SdkToolEnds(q, t) ==
  /\ Live(q) /\ t \in query[q].calls \ (query[q].ended \cup query[q].waiting)
  /\ Sdk(q, [Pushed(q, <<RuntimeEvent("tool.completed", t)>>) EXCEPT !.ended = @ \cup {t}])

DenyWaiting(q) == [t \in ToolCalls |-> IF t \in query[q].waiting THEN "deny" ELSE query[q].told[t]]
QueryOver(q, events) ==
  Sdk(q, [Pushed(q, events) EXCEPT !.sdk = "over", !.waiting = {}, !.told = DenyWaiting(q)])

SdkSucceeds(q) == /\ Live(q) /\ query[q].calls = query[q].ended
                  /\ QueryOver(q, <<RuntimeEvent("result", NoCall)>>)
SdkFails(q) == /\ Live(q)
               /\ \/ QueryOver(q, <<RuntimeEvent("runtime.error", NoCall)>>)
                  \/ QueryOver(q, <<>>)
SdkStops(q) == /\ query[q].sdk = "live" /\ query[q].aborted
               /\ QueryOver(q, <<>>)

(***************************************************************************)
(* The events of the run: emit and append, with the validator between.     *)
(***************************************************************************)
Terminal(result) == /\ mapper' = [mapper EXCEPT !.terminal = TRUE]
                    /\ record' = [record EXCEPT !.result = result]
                    /\ UNCHANGED <<checked, said>>

\* failRun, unless the run has ended.
FailRun == IF mapper.terminal THEN UNCHANGED <<record, mapper, checked, said>> ELSE Terminal("failed")

Mapped(e) ==
  LET t == e.call
  IN \/ /\ e.type = "tool.started" /\ t \notin mapper.open \cup mapper.completed
        /\ mapper' = [mapper EXCEPT !.open = @ \cup {t}]
        /\ checked' = [checked EXCEPT !.open = @ \cup {t}]
        /\ UNCHANGED <<record, said>>
     \/ /\ e.type = "permission.requested" /\ t \in mapper.open \ (mapper.asked \cup mapper.answered)
        /\ mapper' = [mapper EXCEPT !.asked = @ \cup {t}]
        /\ checked' = [checked EXCEPT !.pending = @ \cup {t}]
        /\ UNCHANGED <<record, said>>
     \/ /\ e.type = "tool.completed" /\ t \in mapper.open
        /\ mapper' = [mapper EXCEPT !.open = @ \ {t}, !.completed = @ \cup {t}]
        /\ checked' = [checked EXCEPT !.open = @ \ {t}]
        /\ UNCHANGED <<record, said>>
     \/ /\ e.type = "result" /\ checked.open \cup checked.pending = {}
        /\ Terminal("succeeded")
     \/ /\ e.type = "runtime.error"
        /\ Terminal("failed")

\* Events that say what is known already.
Repeats(e) == \/ e.type = "tool.started" /\ e.call \in mapper.open
              \/ e.type = "permission.requested" /\ e.call \in mapper.asked
              \/ e.type = "tool.completed" /\ e.call \in mapper.completed

\* The mapper or the validator throws.
Refused(e) ==
  LET t == e.call
  IN \/ e.type = "tool.started" /\ t \in mapper.completed
     \/ e.type = "permission.requested" /\ (t \in mapper.answered
                                             \/ t \notin mapper.asked \cup mapper.open)
     \/ e.type = "tool.completed" /\ t \notin mapper.completed \cup mapper.open
     \/ e.type = "result" /\ checked.open \cup checked.pending # {}

\* pumpEvents
Current(q) == q = record.query /\ ~mapper.terminal
PumpEvent(q) ==
  LET e == Head(query[q].queue)
      taken == [query EXCEPT ![q].queue = Tail(@)]
  IN /\ query[q].pump = "on" /\ query[q].queue # <<>>
     /\ \/ /\ ~Current(q) \/ Repeats(e)
           /\ query' = taken /\ UNCHANGED <<record, mapper, checked, said>>
        \/ /\ Current(q) /\ Mapped(e)
           /\ query' = taken
        \/ /\ Current(q) /\ Refused(e)
           /\ FailRun
           /\ query' = [taken EXCEPT ![q].pump = "over"]

\* Mutant: a query that ends without a result leaves the run as it is.
PumpEndsQuietly(q) ==
  /\ query[q].pump = "on" /\ query[q].queue = <<>> /\ query[q].sdk = "over"
  /\ query' = [query EXCEPT ![q].pump = "over"]
  /\ UNCHANGED <<record, mapper, checked, said>>

PumpEnds(q) ==
  /\ query[q].pump = "on" /\ query[q].queue = <<>> /\ query[q].sdk = "over"
  /\ query' = [query EXCEPT ![q].pump = "over"]
  /\ IF Current(q) THEN FailRun ELSE UNCHANGED <<record, mapper, checked, said>>

(***************************************************************************)
(* The requests of the host.                                               *)
(***************************************************************************)
Idle == record.request = "none"
NextQuery(q) == query[q].sdk = "none" /\ \A p \in 1..(q - 1) : query[p].sdk # "none"
QueriesLeft == \E q \in Queries : query[q].sdk = "none"
SafeBoundary == /\ ~mapper.terminal /\ ~mapper.cancelling
                /\ mapper.open = {} /\ mapper.asked = {}

\* stopActiveQuery up to its await.
Aborts(q) == IF q = 0 THEN query ELSE [query EXCEPT ![q].aborted = TRUE]
Stopping(request) == /\ record' = [record EXCEPT !.request = request, !.query = 0, !.with = record.query]
                     /\ query' = Aborts(record.query)
PumpOver == \A q \in Queries : q = record.with => query[q].pump = "over"

StartTask == /\ Idle /\ record.idle = "no run"
             /\ record' = [record EXCEPT !.request = "start"]
             /\ UNCHANGED <<mapper, checked, query, said>>

\* The requests that continue the run in a query of their own.
Continues(request) == /\ Idle /\ record.idle # "no run"
                      /\ record.result = "none" /\ SafeBoundary
                      /\ QueriesLeft
                      /\ Stopping(request)
                      /\ UNCHANGED <<mapper, checked, said>>
ResumeTask == Continues("resume")
SendFeedback == Continues("feedback")
CreateSuccessorSession == Continues("successor")

\* The query has begun: its session is the one asked for (a new one, for a successor), or
\* it is closed again.
QueryStarts ==
  /\ record.request \in {"start", "resume", "feedback", "successor"} /\ PumpOver
  /\ \E q \in Queries :
       /\ NextQuery(q)
       /\ \/ /\ query' = [query EXCEPT ![q].sdk = "live", ![q].pump = "on"]
             /\ record' = [record EXCEPT !.request = "none", !.query = q, !.idle = "no"]
          \/ /\ query' = [query EXCEPT ![q].sdk = "over", ![q].aborted = TRUE]
             /\ record' = [record EXCEPT !.request = "none",
                             !.idle = IF record.request = "start" THEN "no run" ELSE "not continued"]
  /\ UNCHANGED <<mapper, checked, said>>

RespondToPermission(t, decision) ==
  /\ Idle /\ record.result = "none" /\ t \in mapper.asked /\ record.query # 0
  /\ said' = [said EXCEPT ![t] = decision]
  /\ checked' = [checked EXCEPT !.pending = @ \ {t}]
  /\ LET m == [mapper EXCEPT !.asked = @ \ {t}, !.answered = @ \cup {t}]
         q == record.query
     IN IF t \in query[q].waiting
        THEN /\ query' = [query EXCEPT ![q].waiting = @ \ {t}, ![q].told[t] = decision]
             /\ mapper' = m
             /\ UNCHANGED record
        ELSE /\ mapper' = [m EXCEPT !.terminal = TRUE]
             /\ record' = [record EXCEPT !.result = "failed"]
             /\ UNCHANGED query

CancelTask == /\ Idle /\ record.idle # "no run" /\ record.result = "none"
              /\ Stopping("cancel")
              /\ mapper' = [mapper EXCEPT !.cancelling = TRUE]
              /\ checked' = [checked EXCEPT !.cancellation = TRUE]
              /\ UNCHANGED said
Cancelled == /\ record.request = "cancel" /\ PumpOver
             /\ mapper' = [mapper EXCEPT !.terminal = TRUE]
             /\ record' = [record EXCEPT !.result = "cancelled", !.request = "none"]
             /\ UNCHANGED <<checked, query, said>>

\* exportRecoveryState, then restoreRun in the driver of a new process.
Restore == /\ Idle /\ record.idle # "no run" /\ record.result = "none" /\ SafeBoundary
           /\ record' = [record EXCEPT !.query = 0, !.idle = "restored"]
           /\ query' = [q \in Queries |-> IF query[q].sdk = "none" THEN query[q]
                                          ELSE [query[q] EXCEPT !.sdk = "over", !.pump = "over",
                                                                !.queue = <<>>]]
           /\ UNCHANGED <<mapper, checked, said>>

ClaudeNext ==
  \/ \E q \in Queries :
       \/ \E t \in ToolCalls : SdkUsesTool(q, t) \/ SdkAsks(q, t) \/ SdkAbandons(q, t) \/ SdkToolEnds(q, t)
       \/ SdkSucceeds(q) \/ SdkFails(q) \/ SdkStops(q) \/ PumpEvent(q) \/ PumpEnds(q)
  \/ StartTask \/ ResumeTask \/ SendFeedback \/ CreateSuccessorSession \/ QueryStarts \/ CancelTask \/ Cancelled \/ Restore
  \/ \E t \in ToolCalls, d \in {"allow", "deny"} : RespondToPermission(t, d)

ClaudeSpec == ClaudeInit /\ [][ClaudeNext]_claudeVars
-----------------------------------------------------------------------------
ClaudeTypeOK ==
  /\ record.result \in {"none", "succeeded", "failed", "cancelled"}
  /\ record.query \in Queries \cup {0} /\ record.with \in Queries \cup {0}
  /\ record.request \in {"none", "start", "resume", "feedback", "successor", "cancel"}
  /\ mapper.open \cup mapper.asked \cup mapper.answered \cup mapper.completed \subseteq ToolCalls
  /\ \A q \in Queries : /\ query[q].sdk \in {"none", "live", "over"}
                        /\ query[q].waiting \subseteq query[q].calls

\* The run always has somebody who will end its event stream: a query whose pump is
\* still to read its end, or a request under way; except when a continuation could not
\* be started, or the run was restored and waits for one.  And the SDK runs a tool it
\* asked about only on an "allow" the run's events tell, whatever was abandoned,
\* cancelled or answered meanwhile (driver.ts pumpEvents, respondToPermission,
\* cancelTask; runtime.ts canUseTool).
RunIsCarried ==
  /\ record.result = "none" /\ Idle /\ record.idle = "no" =>
       record.query # 0 /\ query[record.query].pump = "on"
  /\ record.result # "none" <=> mapper.terminal
  /\ mapper.open = checked.open /\ mapper.asked = checked.pending
  /\ \A q \in Queries, t \in ToolCalls :
       /\ query[q].told[t] = "allow" => said[t] = "allow"
       /\ said[t] # "none" /\ t \in query[q].calls /\ query[q].told[t] # said[t] => record.result = "failed"
  /\ record.result = "cancelled" => \A q \in Queries : query[q].sdk # "live"
=============================================================================
