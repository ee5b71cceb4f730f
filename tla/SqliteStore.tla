----------------------------- MODULE SqliteStore -----------------------------
(***************************************************************************)
(* The domain repository in SQLite: a commit is a transaction that looks    *)
(* for the receipt of its key, checks the request, writes the rows with     *)
(* their query columns one by one, appends the events and puts the receipt. *)
(* Nothing of the process runs between its statements, but any of them may  *)
(* fail, and the process may die: what is not committed is gone.            *)
(***************************************************************************)
EXTENDS DomainRequest

CONSTANTS StoreWriters, PageLimit

ASSUME StoreAssumption == PageLimit \in Nat \ {0}

VARIABLES
  database,   \* [rows, events, receipts]: what is committed
  tx,         \* the open transaction, with its view of the rows and events
  writers,    \* writer -> [at, request, outcome]
  reader      \* [cursor, seen, listed]

storeVars == <<database, tx, writers, reader>>

NoTx == [writer |-> "none"]
RowOf(revision, value, column) == [revision |-> revision, value |-> value, status |-> column]

StoreInit ==
  /\ database = [rows |-> [r \in RecordIds |->
                    IF r \in Written(First) THEN RowOf(1, First.writes[r], First.writes[r].status)
                    ELSE RowOf(0, NoRecord.value, "none")],
                  events |-> First.events, receipts |-> WithReceipt(<<>>, First)]
  /\ tx = NoTx
  /\ writers = [w \in StoreWriters |-> [at |-> "idle", request |-> <<>>, outcome |-> "none"]]
  /\ reader = [cursor |-> 0, seen |-> <<>>, listed |-> {}]

Exists(r) == database.rows[r].revision > 0
Compose(w) ==
  /\ writers[w].at = "idle" /\ tx = NoTx
  /\ \E scope \in StoreScopes, b \in Bodies :
       writers' = [writers EXCEPT ![w] =
                     [at |-> "asked", outcome |-> "none",
                      request |-> RequestFrom(scope, b, [r \in RecordIds |-> database.rows[r].revision],
                                              Len(database.events))]]
  /\ UNCHANGED <<database, tx, reader>>
Repeat(w) ==
  /\ writers[w].at = "answered" /\ writers[w].outcome \in {"failed", "lost"}
  /\ writers' = [writers EXCEPT ![w].at = "asked", ![w].outcome = "none"]
  /\ UNCHANGED <<database, tx, reader>>
AnswerTo(w, outcome) == writers' = [writers EXCEPT ![w].at = "answered", ![w].outcome = outcome]

(***************************************************************************)
(* The transaction.                                                        *)
(***************************************************************************)
InTx(phase) == tx # NoTx /\ tx.at = phase
Request == writers[tx.writer].request

\* BEGIN IMMEDIATE
Begin(w) ==
  /\ writers[w].at = "asked" /\ tx = NoTx
  /\ tx' = [writer |-> w, at |-> "checking", rows |-> database.rows, events |-> database.events,
            unwritten |-> DOMAIN writers[w].request.writes]
  /\ UNCHANGED <<database, writers, reader>>

\* readIdempotentReplay
ReadReplay ==
  /\ InTx("checking") /\ Request.key \in DOMAIN database.receipts
  /\ AnswerTo(tx.writer, IF database.receipts[Request.key] = Request THEN "replayed" ELSE "key conflict")
  /\ tx' = NoTx
  /\ UNCHANGED <<database, reader>>

CursorHolds == Request.cursor \in {NoCursor, Len(tx.events)}
\* prepareRecords
RecordsPrepared ==
  \A r \in Written(Request) :
    /\ tx.rows[r].revision = Request.expected[r]
    /\ ~(tx.rows[r].revision > 0 /\ r \in Immutable)
\* validateProspectiveSessionBindings
BindingsValidated ==
  LET pending == Written(Request) \cap Bindings
      existing == {s \in Bindings \ pending : tx.rows[s].revision > 0}
  IN pending = {} \/ ValidBindings([s \in pending \cup existing |->
                        IF s \in pending THEN Request.writes[s] ELSE tx.rows[s].value])
\* validateEvents
EventsValidated ==
  \A i \in DOMAIN Request.events :
    LET e == Request.events[i]
    IN /\ \A j \in DOMAIN tx.events : <<tx.events[j].change, tx.events[j].record>> # <<e.change, e.record>>
       /\ IF e.record \in Written(Request) THEN Request.expected[e.record] + 1 = e.revision
          ELSE tx.rows[e.record].revision > 0 /\ tx.rows[e.record].revision = e.revision
Valid == /\ WellFormed(Request) /\ CursorHolds /\ RecordsPrepared
         /\ BindingsValidated /\ EventsValidated

Rejects == /\ InTx("checking") /\ Request.key \notin DOMAIN database.receipts /\ ~Valid
           /\ AnswerTo(tx.writer, "conflict")
           /\ tx' = NoTx
           /\ UNCHANGED <<database, reader>>
Accepts == /\ InTx("checking") /\ Request.key \notin DOMAIN database.receipts /\ Valid
           /\ tx' = [tx EXCEPT !.at = "writing"]
           /\ UNCHANGED <<database, writers, reader>>

\* projectRecord
ProjectRecord(r, value) == IF r \in Immutable THEN "none" ELSE value.status
WriteRecord(r) ==
  /\ InTx("writing") /\ r \in tx.unwritten
  /\ tx' = [tx EXCEPT !.unwritten = @ \ {r},
              !.rows[r] = RowOf(Request.expected[r] + 1, Request.writes[r],
                                ProjectRecord(r, Request.writes[r]))]
  /\ UNCHANGED <<database, writers, reader>>
Appended == Len(tx.events) - Len(database.events)
AppendEventAndOutbox ==
  /\ InTx("writing") /\ tx.unwritten = {} /\ Appended < Len(Request.events)
  /\ tx' = [tx EXCEPT !.events = Append(@, Request.events[Appended + 1])]
  /\ UNCHANGED <<database, writers, reader>>

\* The receipt, COMMIT, and the answer, which may be lost with the process.
CommitTransaction ==
  /\ InTx("writing") /\ tx.unwritten = {} /\ Appended = Len(Request.events)
  /\ database' = [rows |-> tx.rows, events |-> tx.events,
                  receipts |-> WithReceipt(database.receipts, Request)]
  /\ AnswerTo(tx.writer, "applied") \/ AnswerTo(tx.writer, "lost")
  /\ tx' = NoTx
  /\ UNCHANGED reader
\* A statement fails: ROLLBACK.
RollBack == /\ tx # NoTx
            /\ AnswerTo(tx.writer, "failed")
            /\ tx' = NoTx
            /\ UNCHANGED <<database, reader>>
Crash ==
  /\ writers' = [w \in StoreWriters |->
                   IF writers[w].at = "asked" THEN [writers[w] EXCEPT !.at = "answered", !.outcome = "lost"]
                   ELSE writers[w]]
  /\ tx' = NoTx
  /\ UNCHANGED <<database, reader>>

(***************************************************************************)
(* Reads.                                                                  *)
(***************************************************************************)
AboutTask(i) == database.events[i].record \in {"task", "version"}
\* SELECT ... WHERE sequence > ? AND task_id = ? ORDER BY sequence LIMIT ?
Selected ==
  LET rows == {i \in DOMAIN database.events : i > reader.cursor /\ AboutTask(i)}
  IN {i \in rows : Cardinality({j \in rows : j <= i}) <= PageLimit}
InSequence(rows) == [n \in 1..Cardinality(rows) |->
                       CHOOSE i \in rows : Cardinality({j \in rows : j <= i}) = n]
\* Mutant: the cursor of a full page is the last sequence, not that of its last event.
ListAndSkip ==
  /\ tx = NoTx
  /\ LET sequences == InSequence(Selected)
     IN reader' = [reader EXCEPT
          !.seen = @ \o [i \in 1..Len(sequences) |-> database.events[sequences[i]]],
          !.cursor = Len(database.events)]
  /\ UNCHANGED <<database, tx, writers>>

ListDomainEvents ==
  /\ tx = NoTx
  /\ LET sequences == InSequence(Selected)
         n == Len(sequences)
     IN reader' = [reader EXCEPT
          !.seen = @ \o [i \in 1..n |-> database.events[sequences[i]]],
          !.cursor = IF n = PageLimit THEN sequences[n] ELSE Len(database.events)]
  /\ UNCHANGED <<database, tx, writers>>
\* Tasks and sessions by the column of their status.
ListByStatus(status) ==
  /\ tx = NoTx
  /\ reader' = [reader EXCEPT !.listed = {r \in RecordIds : database.rows[r].status = status}]
  /\ UNCHANGED <<database, tx, writers>>

StoreNext ==
  \/ \E w \in StoreWriters : Compose(w) \/ Repeat(w) \/ Begin(w)
  \/ ReadReplay \/ Rejects \/ Accepts
  \/ \E r \in RecordIds : WriteRecord(r)
  \/ AppendEventAndOutbox \/ CommitTransaction \/ RollBack \/ Crash
  \/ ListDomainEvents \/ \E status \in {"done", "ACTIVE"} : ListByStatus(status)

StoreSpec == StoreInit /\ [][StoreNext]_storeVars

-----------------------------------------------------------------------------
StoreTypeOK ==
  /\ \A r \in RecordIds : Exists(r) => database.rows[r].revision \in 1..Len(database.events)
  /\ tx # NoTx => tx.writer \in StoreWriters /\ tx.at \in {"checking", "writing"}
  /\ \A w \in StoreWriters : writers[w].outcome \in Outcomes \cup {"none"}
  /\ reader.cursor \in 0..Len(database.events)

\* The database does what the repository in memory does: a request takes effect at once
\* and whole, once for its key whatever was lost, and it is refused when its revisions,
\* its cursor, its sessions or its events do not fit any more; pages by sequence and
\* lists by column are those of the scan over the events and the values
\* (sqlite-domain-repository.ts commit, listDomainEvents; in-memory-repository.ts).
InMemory == INSTANCE DomainMemory
  WITH MemoryWriters <- StoreWriters, MemoryLimit <- PageLimit,
       memory <- [records |-> [r \in RecordIds |-> [revision |-> database.rows[r].revision,
                                                    value |-> database.rows[r].value]],
                  events |-> database.events, receipts |-> database.receipts],
       clients <- writers, follower <- reader
SqliteImplementsMemory ==   \* InMemory!MemorySpec; TLC is spared the mapping where nothing changes
  InMemory!MemoryInit /\ [][UNCHANGED storeVars \/ InMemory!MemoryNext]_(InMemory!memoryVars)
=============================================================================
