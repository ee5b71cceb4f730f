---------------------------- MODULE DomainRequest ----------------------------
(***************************************************************************)
(* The write requests of the domain repository: a request writes records,   *)
(* each at the revision its writer read, and appends events, at least one   *)
(* for every record; it names an idempotency key and a change, and it may   *)
(* state the event cursor its writer saw.  An event has the name of its     *)
(* change and its record.                                                  *)
(***************************************************************************)
EXTENDS Integers, Sequences, FiniteSets

CONSTANTS FirstScope,    \* <<idempotency key, change id>> of the request already done
          StoreScopes    \* those of the requests to come

RecordIds == {"task", "version", "s1", "s2"}
Bindings == {"s1", "s2"}
Immutable == {"version"}

NoCursor == -1
Value(status, predecessor) == [status |-> status, predecessor |-> predecessor]
NoRecord == [revision |-> 0, value |-> Value("none", "none")]

\* What the writers write, which events they add and whether they state the cursor: the
\* end of the task with a version of it; the successor of the session, with and without
\* the end of the session; an event alone.
Body(writes, about, cursor) == [writes |-> writes, about |-> about, cursor |-> cursor]
Bodies ==
  {Body([task |-> Value("done", "none"), version |-> Value("fixed", "none")],
        <<"task", "version">>, TRUE),
   Body([s1 |-> Value("SUPERSEDED", "none"), s2 |-> Value("ACTIVE", "s1")],
        <<"s1", "s2">>, FALSE),
   Body([s2 |-> Value("ACTIVE", "s1")], <<"s2">>, FALSE),
   Body(<<>>, <<"task">>, TRUE)}

Written(request) == DOMAIN request.writes

\* The request of a writer who read these revisions and this cursor.
RequestFrom(scope, body, revisions, cursor) ==
  [key |-> scope[1], change |-> scope[2], writes |-> body.writes,
   expected |-> [r \in DOMAIN body.writes |-> revisions[r]],
   events |-> [i \in DOMAIN body.about |->
                 [change |-> scope[2], record |-> body.about[i],
                  revision |-> revisions[body.about[i]]
                               + (IF body.about[i] \in DOMAIN body.writes THEN 1 ELSE 0)]],
   cursor |-> IF body.cursor THEN cursor ELSE NoCursor]

\* What made the task and its session.
First == RequestFrom(FirstScope,
                     Body([task |-> Value("open", "none"), s1 |-> Value("ACTIVE", "none")],
                          <<"task", "s1">>, FALSE),
                     [r \in RecordIds |-> 0], 0)

\* readDomainWriteRequest
WellFormed(request) ==
  /\ request.events # <<>>
  /\ \A i, j \in DOMAIN request.events : i # j => request.events[i] # request.events[j]
  /\ \A r \in Written(request) : \E i \in DOMAIN request.events :
       /\ request.events[i].record = r
       /\ request.events[i].revision = request.expected[r] + 1

\* readAgentSessionBindingSet and the predecessors, over all the bindings there would be.
ValidBindings(values) ==
  /\ Cardinality({s \in DOMAIN values : values[s].status = "ACTIVE"}) <= 1
  /\ \A s \in DOMAIN values : values[s].predecessor \in DOMAIN values \cup {"none"}

\* The receipts with that of a request done.
WithReceipt(receipts, request) ==
  [key \in DOMAIN receipts \cup {request.key} |->
     IF key = request.key THEN request ELSE receipts[key]]

Outcomes == {"applied", "replayed", "conflict", "key conflict", "failed", "lost"}
=============================================================================
