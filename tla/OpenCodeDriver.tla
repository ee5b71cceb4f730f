---------------------------- MODULE OpenCodeDriver ----------------------------
(***************************************************************************)
(* A run of the OpenCode driver: the OpenCode server (external) with the    *)
(* sessions of the run and one stream of their events; the pump, which      *)
(* maps the events of the active session to the events of the run; and the  *)
(* requests of the host, one at a time, each of which waits for the server  *)
(* while the pump goes on.                                                  *)
(*                                                                         *)
(* A permission has the name of the tool call it is for.                    *)
(***************************************************************************)
EXTENDS Naturals, Sequences

CONSTANTS OcCalls,     \* tool calls
          OcSessions,  \* how many sessions the run may have
          OcStream,    \* how many events may wait in the stream
          OcRestarts   \* how often the driver may be restored

ASSUME OpenCodeAssumption == {OcSessions, OcStream, OcRestarts} \subseteq Nat

VARIABLES
  ocRun,      \* RunRecord: session, pump, result; restores
  ocRequest,  \* the host's request under way
  ocMapper,   \* OpenCodeEventMapper with its validator
  ocServer,   \* session -> what the server does in it
  ocStream,   \* the subscription
  ocSaid      \* tool call -> the decision in the events of the run

ocVars == <<ocRun, ocRequest, ocMapper, ocServer, ocStream, ocSaid>>

OcIds == 1..OcSessions
NoOcRequest == [op |-> "none"]
Undecided == [t \in OcCalls |-> "none"]

OpenCodeInit ==
  /\ ocRun = [state |-> "none", session |-> 0, pump |-> "none", aborted |-> FALSE, restores |-> 0]
  /\ ocRequest = NoOcRequest
  /\ ocMapper = [session |-> 0, open |-> {}, asked |-> {}, answered |-> {}, completed |-> {},
                 cancelling |-> FALSE, terminal |-> FALSE]
  /\ ocServer = [s \in OcIds |-> [exists |-> FALSE, busy |-> FALSE, calls |-> {}, ended |-> {},
                                  waiting |-> {}, told |-> Undecided]]
  /\ ocStream = [open |-> FALSE, events |-> <<>>]
  /\ ocSaid = Undecided

Running == ocRun.state \in {"running", "waiting_permission", "cancelling"}
Requesting(op) == ocRequest.op = op

(***************************************************************************)
(* The server.                                                             *)
(***************************************************************************)
OcEvent(type, s, t) == [type |-> type, session |-> s, call |-> t]
NoOcCall == "no call"

\* The server acts and says so on the subscription, if there is one.
ServerSays(s, type, t, state) ==
  /\ Len(ocStream.events) < OcStream
  /\ ocServer' = [ocServer EXCEPT ![s] = state]
  /\ ocStream' = IF ocStream.open THEN [ocStream EXCEPT !.events = Append(@, OcEvent(type, s, t))]
                 ELSE ocStream
  /\ UNCHANGED <<ocRun, ocRequest, ocMapper, ocSaid>>

NewCall(t) == \A s \in OcIds : t \notin ocServer[s].calls
ServerUsesTool(s, t) == /\ ocServer[s].busy /\ NewCall(t)
                        /\ ServerSays(s, "tool", t, [ocServer[s] EXCEPT !.calls = @ \cup {t}])
Unfinished(s) == ocServer[s].calls \ ocServer[s].ended
ServerAsks(s, t) == /\ ocServer[s].busy /\ t \in Unfinished(s) \ ocServer[s].waiting
                    /\ ocServer[s].told[t] = "none"
                    /\ ServerSays(s, "permission.requested", t, [ocServer[s] EXCEPT !.waiting = @ \cup {t}])
ServerToolEnds(s, t) == /\ ocServer[s].busy /\ t \in Unfinished(s) \ ocServer[s].waiting
                        /\ ServerSays(s, "tool.ended", t, [ocServer[s] EXCEPT !.ended = @ \cup {t}])
ServerIdle(s) == /\ ocServer[s].busy /\ Unfinished(s) = {}
                 /\ ServerSays(s, "session.idle", NoOcCall, [ocServer[s] EXCEPT !.busy = FALSE])
ServerFails(s) == /\ ocServer[s].busy
                  /\ ServerSays(s, "session.error", NoOcCall,
                                [ocServer[s] EXCEPT !.busy = FALSE, !.waiting = {}])
StreamEnds == /\ ocStream.open
              /\ ocStream' = [ocStream EXCEPT !.open = FALSE]
              /\ UNCHANGED <<ocRun, ocRequest, ocMapper, ocServer, ocSaid>>

(***************************************************************************)
(* The events of the run.                                                  *)
(***************************************************************************)
\* append of a terminal event
OcTerminal(result) == /\ ocMapper' = [ocMapper EXCEPT !.terminal = TRUE]
                      /\ ocRun' = [ocRun EXCEPT !.state = result]
                      /\ UNCHANGED ocSaid

\* failRun: map drops the error of a run that is being cancelled.
OcFailRun == IF ocMapper.terminal \/ ocMapper.cancelling
             THEN UNCHANGED <<ocRun, ocMapper, ocSaid>> ELSE OcTerminal("failed")

OcAnswered(t, decision) ==
  /\ ocMapper' = [ocMapper EXCEPT !.asked = @ \ {t}, !.answered = @ \cup {t}]
  /\ ocSaid' = [ocSaid EXCEPT ![t] = decision]
  /\ ocRun' = [ocRun EXCEPT !.state = "running"]

OcDropped(e) == \/ ocMapper.terminal \/ ocMapper.cancelling
                \/ e.session # ocMapper.session
                \/ e.type \in {"tool", "tool.ended"} /\ e.call \in ocMapper.completed
                \/ e.type = "tool" /\ e.call \in ocMapper.open
                \/ e.type = "permission.requested" /\ e.call \in ocMapper.asked
                \/ e.type = "permission.replied" /\ e.call \in ocMapper.answered

OcMapped(e) ==
  LET t == e.call
  IN \/ /\ e.type = "tool"
        /\ ocMapper' = [ocMapper EXCEPT !.open = @ \cup {t}]
        /\ UNCHANGED <<ocRun, ocSaid>>
     \/ /\ e.type = "tool.ended"
        /\ ocMapper' = [ocMapper EXCEPT !.open = @ \ {t}, !.completed = @ \cup {t}]
        /\ UNCHANGED <<ocRun, ocSaid>>
     \/ /\ e.type = "permission.requested"
        /\ ocMapper' = [ocMapper EXCEPT !.asked = @ \cup {t}]
        /\ ocRun' = [ocRun EXCEPT !.state = "waiting_permission"]
        /\ UNCHANGED ocSaid
     \/ /\ e.type = "permission.replied" /\ t \in ocMapper.asked
        /\ OcAnswered(t, ocServer[e.session].told[t])
     \/ /\ e.type = "session.idle" /\ ocMapper.open \cup ocMapper.asked = {}
        /\ OcTerminal("succeeded")
     \/ /\ e.type = "session.error"
        /\ OcTerminal("failed")

\* The mapper or the validator throws, which ends the pump.
OcThrows(e) == \/ e.type = "permission.replied" /\ e.call \notin ocMapper.asked
               \/ e.type = "session.idle" /\ ocMapper.open \cup ocMapper.asked # {}

PumpTakes ==
  LET e == Head(ocStream.events)
  IN /\ ocRun.pump = "on" /\ ~ocRun.aborted /\ ocStream.events # <<>>
     /\ ocStream' = [ocStream EXCEPT !.events = Tail(@)]
     /\ \/ OcDropped(e) /\ UNCHANGED <<ocRun, ocMapper, ocSaid>>
        \/ ~OcDropped(e) /\ OcMapped(e)
     /\ UNCHANGED <<ocRequest, ocServer>>

PumpThrows ==
  LET e == Head(ocStream.events)
  IN /\ ocRun.pump = "on" /\ ~ocRun.aborted /\ ocStream.events # <<>>
     /\ ~OcDropped(e) /\ OcThrows(e)
     /\ ocMapper' = [ocMapper EXCEPT !.terminal = TRUE]
     /\ ocRun' = [ocRun EXCEPT !.pump = "over", !.state = "failed"]
     /\ ocStream' = [open |-> FALSE, events |-> <<>>]
     /\ UNCHANGED <<ocRequest, ocServer, ocSaid>>

\* Mutant: a subscription that ends leaves the run as it is.
PumpStopsQuietly ==
  /\ ocRun.pump = "on"
  /\ ocRun.aborted \/ (~ocStream.open /\ ocStream.events = <<>>)
  /\ ocRun' = [ocRun EXCEPT !.pump = "over"]
  /\ ocStream' = [open |-> FALSE, events |-> <<>>]
  /\ UNCHANGED <<ocRequest, ocMapper, ocServer, ocSaid>>

PumpStops ==
  /\ ocRun.pump = "on"
  /\ ocRun.aborted \/ (~ocStream.open /\ ocStream.events = <<>>)
  /\ LET failed == ~ocRun.aborted /\ ~ocMapper.terminal /\ ~ocMapper.cancelling
     IN /\ ocRun' = [ocRun EXCEPT !.pump = "over", !.state = IF failed THEN "failed" ELSE @]
        /\ ocMapper' = [ocMapper EXCEPT !.terminal = @ \/ failed]
  /\ ocStream' = [open |-> FALSE, events |-> <<>>]
  /\ UNCHANGED <<ocRequest, ocServer, ocSaid>>

(***************************************************************************)
(* The requests of the host.                                               *)
(***************************************************************************)
NextSession(s) == ~ocServer[s].exists /\ \A r \in 1..(s - 1) : ocServer[r].exists
SessionsLeft == \E s \in OcIds : ~ocServer[s].exists
OcCreated(s) == [ocServer EXCEPT ![s].exists = TRUE]
Prompted(s) == [ocServer EXCEPT ![s].busy = TRUE]
Boundary == /\ ~ocMapper.terminal /\ ~ocMapper.cancelling
            /\ ocMapper.open = {} /\ ocMapper.asked = {}
Ready == Requesting("none") /\ Running
Asked(op) == /\ ocRequest' = [op |-> op]
             /\ UNCHANGED <<ocRun, ocMapper, ocServer, ocStream, ocSaid>>
Done == ocRequest' = NoOcRequest
\* The server refuses, or the event the request ends with is not possible any more.
Rejected(op) == /\ Requesting(op) /\ Done
                /\ UNCHANGED <<ocRun, ocMapper, ocServer, ocStream, ocSaid>>

\* createSession, run.started and subscribe
OcStartTask ==
  /\ Requesting("none") /\ ocRun.state = "none"
  /\ \E s \in OcIds :
       /\ NextSession(s)
       /\ ocServer' = OcCreated(s)
       /\ ocRun' = [ocRun EXCEPT !.state = "running", !.session = s, !.pump = "on"]
       /\ ocMapper' = [ocMapper EXCEPT !.session = s]
  /\ ocStream' = [open |-> TRUE, events |-> <<>>]
  /\ ocRequest' = [op |-> "start"]
  /\ UNCHANGED ocSaid
\* prompt
FirstPrompt == /\ Requesting("start") /\ Done
               /\ ocServer' = Prompted(ocRun.session)
               /\ UNCHANGED <<ocRun, ocMapper, ocStream, ocSaid>>
PromptRejected == /\ Requesting("start") /\ Done
                  /\ OcFailRun
                  /\ UNCHANGED <<ocServer, ocStream>>

OcSendFeedback == Ready /\ Asked("feedback")
FeedbackSent == /\ Requesting("feedback") /\ Done
                /\ ocServer' = Prompted(ocRun.session)
                /\ UNCHANGED <<ocRun, ocMapper, ocStream, ocSaid>>

OcResumeTask == Ready /\ Asked("resume")
Resumed == /\ Requesting("resume") /\ Done
           /\ ocRun' = [ocRun EXCEPT !.state = IF ocMapper.terminal THEN @ ELSE "running",
                                     !.pump = IF @ = "none" THEN "on" ELSE @]
           /\ ocStream' = IF ocRun.pump = "none" THEN [open |-> TRUE, events |-> <<>>] ELSE ocStream
           /\ UNCHANGED <<ocMapper, ocServer, ocSaid>>

OcCreateSuccessorSession == Ready /\ Boundary /\ SessionsLeft /\ Asked("successor")
SuccessorCreated ==
  /\ Requesting("successor") /\ Done
  /\ \E s \in OcIds :
       /\ NextSession(s)
       /\ ocServer' = OcCreated(s)
       /\ IF Boundary THEN /\ ocMapper' = [ocMapper EXCEPT !.session = s]
                           /\ ocRun' = [ocRun EXCEPT !.session = s]
          ELSE UNCHANGED <<ocMapper, ocRun>>
  /\ UNCHANGED <<ocStream, ocSaid>>

OcRespond(t, decision) ==
  /\ Ready /\ t \in ocMapper.asked
  /\ ocRequest' = [op |-> "respond", call |-> t, decision |-> decision]
  /\ UNCHANGED <<ocRun, ocMapper, ocServer, ocStream, ocSaid>>
\* The server takes the answer, and the answer of the server comes after.
ServerTold ==
  /\ Requesting("respond") /\ Len(ocStream.events) < OcStream
  /\ LET s == ocRun.session
         t == ocRequest.call
     IN /\ t \in ocServer[s].waiting
        /\ ocServer' = [ocServer EXCEPT ![s].waiting = @ \ {t}, ![s].told[t] = ocRequest.decision]
        /\ ocStream' = IF ocStream.open
                       THEN [ocStream EXCEPT !.events = Append(@, OcEvent("permission.replied", s, t))]
                       ELSE ocStream
        /\ ocRequest' = [ocRequest EXCEPT !.op = "responded"]
  /\ UNCHANGED <<ocRun, ocMapper, ocSaid>>
PermissionAnswered ==
  /\ Requesting("responded") /\ Done
  /\ IF ocRequest.call \notin ocMapper.asked THEN UNCHANGED <<ocRun, ocMapper, ocSaid>>
     ELSE IF ocMapper.terminal
     THEN /\ ocMapper' = [ocMapper EXCEPT !.asked = @ \ {ocRequest.call},
                                          !.answered = @ \cup {ocRequest.call}]
          /\ UNCHANGED <<ocRun, ocSaid>>
     ELSE OcAnswered(ocRequest.call, ocRequest.decision)
  /\ UNCHANGED <<ocServer, ocStream>>

OcCancelTask == /\ Ready /\ ~ocMapper.cancelling
                /\ ocRequest' = [op |-> "cancel"]
                /\ ocMapper' = [ocMapper EXCEPT !.cancelling = TRUE]
                /\ ocRun' = [ocRun EXCEPT !.state = "cancelling"]
                /\ UNCHANGED <<ocServer, ocStream, ocSaid>>
Aborted == /\ Requesting("cancel") /\ Done
           /\ ocServer' = [ocServer EXCEPT ![ocRun.session].busy = FALSE, ![ocRun.session].waiting = {}]
           /\ ocMapper' = [ocMapper EXCEPT !.terminal = TRUE]
           /\ ocRun' = [ocRun EXCEPT !.aborted = TRUE, !.state = "cancelled"]
           /\ UNCHANGED <<ocStream, ocSaid>>
\* failRun is of no use here: the mapper is cancelling.
AbortRejected == /\ Requesting("cancel") /\ Done
                 /\ OcFailRun
                 /\ UNCHANGED <<ocServer, ocStream>>

\* exportRecoveryState, and restoreRun in the driver of a new process
RestoreRun == /\ Ready /\ Boundary /\ ocRun.restores < OcRestarts
              /\ ocRun' = [ocRun EXCEPT !.pump = "none", !.restores = @ + 1]
              /\ ocStream' = [open |-> FALSE, events |-> <<>>]
              /\ UNCHANGED <<ocRequest, ocMapper, ocServer, ocSaid>>

OpenCodeNext ==
  \/ \E s \in OcIds :
       \/ \E t \in OcCalls : ServerUsesTool(s, t) \/ ServerAsks(s, t) \/ ServerToolEnds(s, t)
       \/ ServerIdle(s) \/ ServerFails(s)
  \/ StreamEnds \/ PumpTakes \/ PumpThrows \/ PumpStops
  \/ OcStartTask \/ FirstPrompt \/ PromptRejected
  \/ OcSendFeedback \/ FeedbackSent \/ OcResumeTask \/ Resumed
  \/ OcCreateSuccessorSession \/ SuccessorCreated
  \/ \E op \in {"feedback", "resume", "successor", "respond"} : Rejected(op)
  \/ \E t \in OcCalls, d \in {"allow", "deny"} : OcRespond(t, d)
  \/ ServerTold \/ PermissionAnswered
  \/ OcCancelTask \/ Aborted \/ AbortRejected \/ RestoreRun

OpenCodeSpec == OpenCodeInit /\ [][OpenCodeNext]_ocVars
-----------------------------------------------------------------------------
OpenCodeTypeOK ==
  /\ ocRun.state \in {"none", "running", "waiting_permission", "cancelling",
                      "succeeded", "failed", "cancelled"}
  /\ ocRun.session \in OcIds \cup {0} /\ ocRun.pump \in {"none", "on", "over"}
  /\ ocMapper.open \cup ocMapper.asked \cup ocMapper.answered \subseteq OcCalls
  /\ Len(ocStream.events) <= OcStream

\* What the events of a run say is what happened in its sessions.  A run without an end
\* has a pump that will see it, unless it was restored and nobody resumed it, or its
\* cancellation was refused; the record and the mapper name the same session; a decision
\* in the events is the one the server acted on; and a decision the server acted on is
\* in the events, unless the run failed or is cancelled, whatever the pump mapped while
\* a request waited for the server (driver.ts pumpEvents, createSuccessorSession,
\* respondToPermission, cancelTask; event-mapper.ts map).
RunTellsWhatHappened ==
  /\ Running /\ Requesting("none") /\ ~ocMapper.cancelling => ocRun.pump # "over"
  /\ ocMapper.session = ocRun.session
  /\ ocMapper.terminal <=> ocRun.state \in {"succeeded", "failed", "cancelled"}
  /\ \A s \in OcIds : \A t \in ocServer[s].calls :
       \/ ocServer[s].told[t] = ocSaid[t]
       \/ ocSaid[t] = "none" /\ (Requesting("responded")
                                 \/ ocRun.state \in {"cancelling", "failed", "cancelled"})
  /\ ocRun.state = "succeeded" =>
       \A s \in OcIds : ocMapper.completed \cap ocServer[s].calls \subseteq ocServer[s].ended
=============================================================================
