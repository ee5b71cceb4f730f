----------------------------- MODULE DomainMemory -----------------------------
(***************************************************************************)
(* What the domain repository promises, as the repository in memory does    *)
(* it: a request takes effect at once and whole, once for its key, or not   *)
(* at all; a reader follows the events of the tasks, page after page.  A    *)
(* writer's answer may be lost with its process, which the memory of this   *)
(* module survives.                                                        *)
(***************************************************************************)
EXTENDS DomainRequest

CONSTANTS MemoryWriters, MemoryLimit

VARIABLES
  memory,    \* [records, events, receipts]
  clients,   \* writer -> [at, request, outcome]
  follower   \* the reader: [cursor, seen, listed]

memoryVars == <<memory, clients, follower>>

MemoryInit ==
  /\ memory = [records |-> [r \in RecordIds |->
                  IF r \in Written(First) THEN [revision |-> 1, value |-> First.writes[r]]
                  ELSE NoRecord],
               events |-> First.events, receipts |-> WithReceipt(<<>>, First)]
  /\ clients = [w \in MemoryWriters |-> [at |-> "idle", request |-> <<>>, outcome |-> "none"]]
  /\ follower = [cursor |-> 0, seen |-> <<>>, listed |-> {}]

Receipts == DOMAIN memory.receipts
Revisions == [r \in RecordIds |-> memory.records[r].revision]

\* A caller composes a request from what it reads.
Ask(w) ==
  /\ clients[w].at = "idle"
  /\ \E scope \in StoreScopes, b \in Bodies :
       clients' = [clients EXCEPT ![w] =
                     [at |-> "asked", outcome |-> "none",
                      request |-> RequestFrom(scope, b, Revisions, Len(memory.events))]]
  /\ UNCHANGED <<memory, follower>>
AskAgain(w) ==
  /\ clients[w].at = "answered" /\ clients[w].outcome \in {"failed", "lost"}
  /\ clients' = [clients EXCEPT ![w].at = "asked", ![w].outcome = "none"]
  /\ UNCHANGED <<memory, follower>>
AnswerIs(w, outcome) == clients' = [clients EXCEPT ![w].at = "answered", ![w].outcome = outcome]

(***************************************************************************)
(* commit                                                                  *)
(***************************************************************************)
Stored(r) == memory.records[r].revision > 0
Prospective(request) ==
  [s \in {s \in Bindings : Stored(s) \/ s \in Written(request)} |->
     IF s \in Written(request) THEN request.writes[s] ELSE memory.records[s].value]
HasEvent(e) == \E i \in DOMAIN memory.events : /\ memory.events[i].change = e.change
                                               /\ memory.events[i].record = e.record
Possible(request) ==
  /\ WellFormed(request)
  /\ request.cursor \in {NoCursor, Len(memory.events)}
  /\ \A r \in Written(request) : /\ memory.records[r].revision = request.expected[r]
                                 /\ r \in Immutable => ~Stored(r)
  /\ ValidBindings(Prospective(request))
  /\ \A i \in DOMAIN request.events :
       LET e == request.events[i]
       IN /\ ~HasEvent(e)
          /\ e.record \notin Written(request) =>
               Stored(e.record) /\ memory.records[e.record].revision = e.revision

Apply(w) ==
  LET request == clients[w].request
  IN /\ clients[w].at = "asked" /\ request.key \notin Receipts /\ Possible(request)
     /\ memory' = [records |-> [r \in RecordIds |->
                     IF r \in Written(request)
                     THEN [revision |-> request.expected[r] + 1, value |-> request.writes[r]]
                     ELSE memory.records[r]],
                   events |-> memory.events \o request.events,
                   receipts |-> WithReceipt(memory.receipts, request)]
     /\ AnswerIs(w, "applied") \/ AnswerIs(w, "lost")
     /\ UNCHANGED follower
Replay(w) ==
  /\ clients[w].at = "asked" /\ clients[w].request.key \in Receipts
  /\ AnswerIs(w, IF memory.receipts[clients[w].request.key] = clients[w].request
                 THEN "replayed" ELSE "key conflict")
  /\ UNCHANGED <<memory, follower>>
Refuse(w) ==
  /\ clients[w].at = "asked" /\ clients[w].request.key \notin Receipts
  /\ ~Possible(clients[w].request)
  /\ AnswerIs(w, "conflict")
  /\ UNCHANGED <<memory, follower>>
\* The request has no effect.
Fail(w) ==
  /\ clients[w].at = "asked"
  /\ AnswerIs(w, "failed")
  /\ UNCHANGED <<memory, follower>>
\* The process of the callers dies.
Die ==
  /\ clients' = [w \in MemoryWriters |->
                   IF clients[w].at = "asked" THEN [clients[w] EXCEPT !.at = "answered", !.outcome = "lost"]
                   ELSE clients[w]]
  /\ UNCHANGED <<memory, follower>>

(***************************************************************************)
(* listDomainEvents of one task, and listTasks and listAgentSessionBindings *)
(* by status.                                                              *)
(***************************************************************************)
OfTask(e) == e.record \in {"task", "version"}
\* The loop over the events from the cursor: what it has selected once it is at index i.
Scan ==
  LET scan[i \in follower.cursor..Len(memory.events)] ==
        IF i = follower.cursor THEN [selected |-> <<>>, index |-> i]
        ELSE LET before == scan[i - 1]
             IN IF Len(before.selected) = MemoryLimit THEN before
                ELSE [selected |-> IF OfTask(memory.events[i])
                                   THEN Append(before.selected, memory.events[i])
                                   ELSE before.selected,
                      index |-> i]
  IN scan[Len(memory.events)]
ReadPage ==
  /\ follower' = [follower EXCEPT !.seen = @ \o Scan.selected, !.cursor = Scan.index]
  /\ UNCHANGED <<memory, clients>>
List(status) ==
  /\ follower' = [follower EXCEPT !.listed =
                    {r \in RecordIds : Stored(r) /\ memory.records[r].value.status = status}]
  /\ UNCHANGED <<memory, clients>>

MemoryNext ==
  \/ \E w \in MemoryWriters : Ask(w) \/ AskAgain(w) \/ Apply(w) \/ Replay(w) \/ Refuse(w) \/ Fail(w)
  \/ Die \/ ReadPage \/ \E status \in {"done", "ACTIVE"} : List(status)

MemorySpec == MemoryInit /\ [][MemoryNext]_memoryVars
=============================================================================
