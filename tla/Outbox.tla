------------------------------- MODULE Outbox -------------------------------
(***************************************************************************)
(* The transactional outbox: every committed event has a row, written in   *)
(* the same transaction; the dispatcher claims the first row that is not   *)
(* published, hands the event to its publisher and completes or fails the  *)
(* claim.  The pump of each Bridge process drains it one row at a time,    *)
(* at start-up and then after every poll interval.                         *)
(*                                                                         *)
(* A process may die at any point and its rows stay; claims of dead        *)
(* processes expire.  The instance lock keeps the processes of a project   *)
(* to one, except while a stale lock is being replaced (InstanceLock), so  *)
(* the claims have to be safe for two: Bridges is a set of processes.      *)
(* Claims expire and retries fall due by the clock, which may advance past *)
(* any such time between any two steps.                                    *)
(***************************************************************************)
EXTENDS Naturals, FiniteSets

CONSTANTS Bridges,        \* process lifetimes, a restart is another one
          MaxRows,        \* bound: events committed
          MaxAttempts,    \* bound: claims per row
          Corrupt         \* rows whose event cannot be read back

ASSUME OutboxAssumption == /\ MaxRows \in Nat
                           /\ MaxAttempts \in Nat
                           /\ Corrupt \subseteq 1..MaxRows

Nobody == [bridge |-> "nobody", attempt |-> 0]

VARIABLES
  row,      \* event sequence -> its row, for the events committed so far
  due,      \* rows whose lease has expired or whose available_at has come
  pump,     \* process -> state of its pump
  heard     \* history: rows the publisher has been called for

outboxVars == <<row, due, pump, heard>>

Committed == DOMAIN row
Off == [pc |-> "off", boot |-> FALSE, n |-> 0, attempt |-> 0]
Open == {n \in Committed : row[n].status # "published"}

OutboxInit == /\ row = [n \in {} |-> Nobody]
              /\ due = {}
              /\ pump = [b \in Bridges |-> Off]
              /\ heard = {}

\* insertEventRows: the event and its row, available at once.
CommitRow ==
  LET n == Cardinality(Committed) + 1
  IN /\ n <= MaxRows
     /\ row' = [m \in 1..n |-> IF m = n
                               THEN [status |-> "pending", attempt |-> 0, owner |-> Nobody]
                               ELSE row[m]]
     /\ due' = due \cup {n}
     /\ UNCHANGED <<pump, heard>>

Elapse(n) == /\ n \in Open \ due
             /\ due' = due \cup {n}
             /\ UNCHANGED <<row, pump, heard>>

(***************************************************************************)
(* bootstrap drains before it starts the timer, and fails when that drain  *)
(* does; from then on the timer is set again after every drain.            *)
(***************************************************************************)
Dead == [Off EXCEPT !.pc = "dead"]
Goes(b, pc) == pump' = [pump EXCEPT ![b].pc = pc]
EndsDrain(b) == pump' = [pump EXCEPT ![b] = [Off EXCEPT !.pc = "sleeping"]]

Boot(b) == /\ pump[b].pc = "off"
           /\ pump' = [pump EXCEPT ![b] = [Off EXCEPT !.pc = "draining", !.boot = TRUE]]
           /\ UNCHANGED <<row, due, heard>>

TimerFires(b) == /\ pump[b].pc = "sleeping"
                 /\ Goes(b, "draining")
                 /\ UNCHANGED <<row, due, heard>>

\* Mutant: a claim that has expired is not taken over.
ClaimableOnce == {n \in Open \cap due : row[n].status = "pending" /\ \A m \in Open : n <= m}

\* The first row that is not published decides: else EMPTY, LEASED or WAITING_RETRY.
Claimable == {n \in Open \cap due : \A m \in Open : n <= m}

ClaimsNothing(b) ==
  /\ pump[b].pc = "draining"
  /\ Claimable = {}
  /\ EndsDrain(b)
  /\ UNCHANGED <<row, due, heard>>

Claim(b) ==
  /\ pump[b].pc = "draining"
  /\ \E n \in Claimable :
       LET attempt == row[n].attempt + 1
       IN /\ attempt <= MaxAttempts
          /\ row' = [row EXCEPT ![n] = [status |-> "delivering", attempt |-> attempt,
                                       owner |-> [bridge |-> b, attempt |-> attempt]]]
          /\ due' = due \ {n}
          /\ pump' = [pump EXCEPT ![b] = [@ EXCEPT !.pc = "publishing", !.n = n, !.attempt = attempt]]
  /\ UNCHANGED heard

HoldsClaim(b) == row[pump[b].n].owner = [bridge |-> b, attempt |-> pump[b].attempt]

\* The publisher's promise has settled: it polls the fan-out and never rejects.
Publish(b) ==
  /\ pump[b].pc = "publishing"
  /\ pump[b].n \notin Corrupt
  /\ heard' = heard \cup {pump[b].n}
  /\ Goes(b, "completing")
  /\ UNCHANGED <<row, due>>

Released(n, status) == row' = [row EXCEPT ![n] = [@ EXCEPT !.status = status, !.owner = Nobody]]

\* completeClaim: the drain goes on with the next row.
Complete(b) ==
  /\ pump[b].pc = "completing"
  /\ HoldsClaim(b)
  /\ Released(pump[b].n, "published")
  /\ Goes(b, "draining")
  /\ UNCHANGED <<due, heard>>

\* failClaim after EVENT_CORRUPT: the row waits for its retry and the drain is over.
FailClaim(b) ==
  /\ pump[b].pc = "publishing"
  /\ pump[b].n \in Corrupt
  /\ HoldsClaim(b)
  /\ Released(pump[b].n, "pending")
  /\ due' = due \ {pump[b].n}
  /\ EndsDrain(b)
  /\ UNCHANGED heard

\* OUTBOX_LEASE_CONFLICT: another process has claimed the row since.
LeaseConflict(b) ==
  /\ pump[b].pc = IF pump[b].n \in Corrupt THEN "publishing" ELSE "completing"
  /\ ~HoldsClaim(b)
  /\ IF pump[b].boot THEN pump' = [pump EXCEPT ![b] = Dead] ELSE EndsDrain(b)
  /\ UNCHANGED <<row, due, heard>>

\* SIGKILL, or close: stop waits for the drain, which ends before its next claim.
Die(b) == /\ pump[b].pc \notin {"off", "dead"}
          /\ pump' = [pump EXCEPT ![b] = Dead]
          /\ UNCHANGED <<row, due, heard>>

PumpStep(b) == \/ TimerFires(b) \/ ClaimsNothing(b) \/ Claim(b)
               \/ Publish(b) \/ Complete(b) \/ FailClaim(b) \/ LeaseConflict(b)

OutboxNext == \/ CommitRow
              \/ \E n \in 1..MaxRows : Elapse(n)
              \/ \E b \in Bridges : Boot(b) \/ PumpStep(b) \/ Die(b)

\* Timers fire, leases run out, SQLite and the publisher answer.
OutboxFairness == /\ \A b \in Bridges : WF_outboxVars(PumpStep(b))
                  /\ \A n \in 1..MaxRows : WF_outboxVars(Elapse(n))

-----------------------------------------------------------------------------
OutboxTypeOK ==
  /\ Committed = 1..Cardinality(Committed) /\ Cardinality(Committed) <= MaxRows
  /\ \A n \in Committed : /\ row[n].status \in {"pending", "delivering", "published"}
                          /\ row[n].attempt \in 0..MaxAttempts
                          /\ row[n].owner \in [bridge : Bridges \cup {"nobody"}, attempt : Nat]
  /\ due \subseteq Committed
  /\ heard \subseteq Committed
  /\ \A b \in Bridges :
       /\ pump[b].pc \in {"off", "draining", "publishing", "completing", "sleeping", "dead"}
       /\ pump[b].n \in Committed \cup {0}

\* At least once and in order: an event is published only after the publisher had it, and
\* the publisher has it only when all events before it are published.
PublishedInOrder ==
  \A n \in Committed : /\ row[n].status = "published" => n \in heard
                       /\ n \in heard => \A m \in 1..(n - 1) : row[m].status = "published"

\* Whichever process dies or loses its lease, the events are published in their order, and
\* every one in the end: no crash between claim and completion and no lost lease leaves a
\* row behind, unless it is behind one that cannot be read (outbox.ts claimNext,
\* completeClaim; outbox-pump.ts).
EventsArePublished ==
  /\ []PublishedInOrder
  /\ \A n \in 1..MaxRows :
       []<>(n \in Open =>
              \/ \A b \in Bridges : pump[b].pc \in {"off", "dead"}
              \/ \E m \in 1..n : m \in Corrupt \/ row[m].attempt = MaxAttempts)
=============================================================================
