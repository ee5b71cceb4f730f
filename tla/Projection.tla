----------------------------- MODULE Projection -----------------------------
(***************************************************************************)
(* The read side of the management API.  A projection is computed from     *)
(* several queries, each awaited, while others commit; it counts only if   *)
(* the event cursor did not move meanwhile (withConsistentSnapshot).  The  *)
(* facts of a task are the parts of its records the projections look at.   *)
(***************************************************************************)
EXTENDS Integers, Sequences, FiniteSets, FiniteSetsExt

CONSTANTS MaxTasks,          \* bound: tasks 1..MaxTasks, in the order of their ids
          ReadLimit,         \* REPOSITORY_READ_LIMIT
          SnapshotAttempts,
          MaxChanges         \* bound: commits

ASSUME ProjectionAssumption == /\ MaxTasks \in Nat \ {0}
                               /\ ReadLimit \in Nat \ {0}
                               /\ SnapshotAttempts \in Nat \ {0}
                               /\ MaxChanges \in Nat

VARIABLES
  facts,   \* task -> its facts
  cursor,  \* event cursor
  past,    \* history: cursor -> facts
  reading  \* one projection under way

projectionVars == <<facts, cursor, past, reading>>

BoardTasks == 1..MaxTasks

\* bucket is that of the elapsed time, 0 where the times contradict each other; usage
\* the units reported in the range, -1 where no result reports any; recent says that an
\* event of the task is in the range.
FirstFacts ==
  LET f(status, run, usage, recent, bucket) ==
        [status |-> status, run |-> run, pending |-> status = "WAITING_APPROVAL",
         usage |-> usage, recent |-> recent, bucket |-> bucket]
  IN {f("QUEUED", "none", -1, FALSE, 0), f("RUNNING", "running", -1, TRUE, 1),
      f("WAITING_APPROVAL", "waiting_permission", -1, TRUE, 2),
      f("SUBMITTED", "succeeded", 1, TRUE, 3)}
       \cup {f("COMPLETED", "succeeded", 2, r, 4) : r \in BOOLEAN}

Nothing == [pc |-> "idle", attempt |-> 0, before |-> 0, tasks |-> <<>>, view |-> <<>>]

ProjectionInit == /\ facts \in [BoardTasks -> FirstFacts]
                  /\ cursor = 0
                  /\ past = <<>>
                  /\ reading = Nothing

(***************************************************************************)
(* Commits move facts and cursor together.                                 *)
(***************************************************************************)
Changed(t, f) == /\ cursor < MaxChanges
                 /\ facts' = [facts EXCEPT ![t] = [f EXCEPT !.recent = TRUE]]
                 /\ past' = Append(past, facts)
                 /\ cursor' = cursor + 1
                 /\ UNCHANGED reading

BoardStarts(t) == /\ facts[t].status = "QUEUED"
                  /\ Changed(t, [facts[t] EXCEPT !.status = "RUNNING", !.run = "running"])
BoardAsks(t) == /\ facts[t].status = "RUNNING"
                /\ Changed(t, [facts[t] EXCEPT !.status = "WAITING_APPROVAL", !.pending = TRUE,
                                               !.run = "waiting_permission"])
BoardDecides(t) == /\ facts[t].pending
                   /\ \/ Changed(t, [facts[t] EXCEPT !.status = "RUNNING", !.pending = FALSE,
                                                     !.run = "running"])
                      \/ Changed(t, [facts[t] EXCEPT !.status = "INTERRUPTED", !.pending = FALSE,
                                                     !.run = "interrupted"])
BoardSubmits(t) == /\ facts[t].status = "RUNNING"
                   /\ Changed(t, [facts[t] EXCEPT !.status = "SUBMITTED", !.run = "succeeded",
                                                  !.usage = 1])
BoardCompletes(t) == /\ facts[t].status = "SUBMITTED"
                     /\ Changed(t, [facts[t] EXCEPT !.status = "COMPLETED"])

(***************************************************************************)
(* What is shown                                                           *)
(***************************************************************************)
RunningStatuses  == {"RUNNING", "SUBMITTED", "VERIFYING"}
AbnormalStatuses == {"INTERRUPTED", "FAILED", "CHANGES_REQUESTED"}
EndedStatuses    == {"COMPLETED", "FAILED", "CANCELLED"}

DisplayStage(f) ==
  CASE f.status = "WAITING_APPROVAL" \/ f.pending                            -> "waiting_approval"
    [] f.status \in {"DRAFT", "VALIDATED", "QUEUED"} /\ ~f.pending           -> "preparing_context"
    [] f.status \in {"SUBMITTED", "VERIFYING"} /\ ~f.pending                 -> "verifying"
    [] f.status = "FAILED" /\ f.run = "succeeded" /\ ~f.pending              -> "verifying"
    [] f.status \in {"REVIEW_REQUIRED", "CHANGES_REQUESTED", "READY_FOR_MERGE"} /\ ~f.pending
                                                                             -> "review"
    [] f.status = "COMPLETED" /\ ~f.pending                                  -> "completed"
    [] OTHER                                                                 -> "executing"

BelongsToRange(f) == f.recent \/ f.status \notin EndedStatuses

\* largestRemainderShares: the first `remaining` places of the order get one more.
SharePoints == 10000
SumOf(buckets) == buckets[1] + buckets[2] + buckets[3] + buckets[4]

Shares(counts) ==
  LET total == SumOf(counts)
      floors == [i \in DOMAIN counts |-> (counts[i] * SharePoints) \div total]
      rest(i) == (counts[i] * SharePoints) % total
      before(i) == {j \in DOMAIN counts : rest(j) > rest(i) \/ (rest(j) = rest(i) /\ j < i)}
      remaining == SharePoints - SumOf(floors)
  IN IF total = 0 THEN counts
     ELSE [i \in DOMAIN counts |->
             floors[i] + IF Cardinality(before(i)) < remaining THEN 1 ELSE 0]

Dashboard(view) ==
  LET T == {t \in DOMAIN view : BelongsToRange(view[t])}
      Of(S) == {t \in T : view[t].status \in S}
      counts == [b \in 1..4 |-> Cardinality({t \in T : view[t].bucket = b})]
      reported == {t \in T : view[t].usage >= 0}
  IN [total |-> Cardinality(T),
      running |-> Of(RunningStatuses),
      approval |-> Of({"WAITING_APPROVAL"}),
      abnormal |-> Of(AbnormalStatuses),
      completed |-> Of({"COMPLETED"}),
      counts |-> counts,
      shares |-> Shares(counts),
      unreported |-> Cardinality({t \in T : view[t].bucket = 0}),
      usage |-> IF reported = {} THEN -1 ELSE MapThenSumSet(LAMBDA t : view[t].usage, reported)]

\* taskDetailFromFacts
AvailableActions(f) == (IF f.pending THEN {"approve", "reject"} ELSE {})
                         \cup IF f.run \in {"created", "running", "waiting_permission", "cancelling"} THEN {"cancel"} ELSE {}

(***************************************************************************)
(* withConsistentSnapshot around readAllTasks, then the rest of the facts. *)
(***************************************************************************)
BeginSnapshot ==
  /\ reading.pc \in {"idle", "again"}
  /\ reading.attempt < SnapshotAttempts
  /\ reading' = [Nothing EXCEPT !.pc = "tasks", !.attempt = reading.attempt + 1, !.before = cursor]
  /\ UNCHANGED <<facts, cursor, past>>

ReadTaskPage ==
  LET n == Len(reading.tasks)
      page == [i \in 1..Min({ReadLimit, MaxTasks - n}) |-> facts[n + i].status]
  IN /\ reading.pc = "tasks"
     /\ reading' = [reading EXCEPT !.tasks = @ \o page,
                                   !.pc = IF Len(page) < ReadLimit THEN "facts" ELSE "tasks"]
     /\ UNCHANGED <<facts, cursor, past>>

ReadFacts ==
  /\ reading.pc = "facts"
  /\ reading' = [reading EXCEPT !.pc = "compare",
                   !.view = [t \in BoardTasks |-> [facts[t] EXCEPT !.status = reading.tasks[t]]]]
  /\ UNCHANGED <<facts, cursor, past>>

\* Mutant: the last attempt is answered whatever happened during it.
EndLastSnapshot ==
  /\ reading.pc = "compare"
  /\ reading' = [reading EXCEPT !.pc =
                   IF cursor = reading.before \/ reading.attempt = SnapshotAttempts
                   THEN "answered" ELSE "again"]
  /\ UNCHANGED <<facts, cursor, past>>

EndSnapshot ==
  /\ reading.pc = "compare"
  /\ reading' = [reading EXCEPT !.pc = CASE cursor = reading.before              -> "answered"
                                         [] cursor # reading.before
                                            /\ reading.attempt < SnapshotAttempts -> "again"
                                         [] OTHER                                -> "SNAPSHOT_BUSY"]
  /\ UNCHANGED <<facts, cursor, past>>

ProjectionNext ==
  \/ \E t \in BoardTasks : \/ BoardStarts(t) \/ BoardAsks(t) \/ BoardDecides(t)
                           \/ BoardSubmits(t) \/ BoardCompletes(t)
  \/ BeginSnapshot \/ ReadTaskPage \/ ReadFacts \/ EndSnapshot

ProjectionSpec == ProjectionInit /\ [][ProjectionNext]_projectionVars

-----------------------------------------------------------------------------
ProjectionTypeOK ==
  /\ cursor \in 0..MaxChanges /\ Len(past) = cursor
  /\ reading.pc \in {"idle", "tasks", "facts", "compare", "again", "answered", "SNAPSHOT_BUSY"}
  /\ reading.attempt \in 0..SnapshotAttempts
  /\ Len(reading.tasks) <= MaxTasks

SharesAddUp(d) ==
  LET total == SumOf(d.counts)
      off(b) == d.shares[b] * total - d.counts[b] * SharePoints
  IN /\ total + d.unreported = d.total
     /\ total > 0 => SumOf(d.shares) = SharePoints
     /\ total > 0 => \A b \in 1..4 : off(b) < total /\ off(b) > -total
     /\ \A b, c \in 1..4 : d.counts[b] > d.counts[c] => d.shares[b] >= d.shares[c]

FactsAt(c) == IF c = cursor THEN facts ELSE past[c + 1]

\* What is shown under a cursor is what the records were at that cursor, although the
\* statuses, the runs, approvals and results were read between commits: no task is
\* shown waiting without the approval that can be decided, or approvable when it is
\* not waiting, and lanes and counts are of one moment; the shares of the duration
\* buckets add up to the whole, none is off by a point or more, and a bucket with more
\* tasks never has the smaller share (management-projection.ts withConsistentSnapshot,
\* readAllTasks, largestRemainderShares).
ShownAsItWas ==
  reading.pc = "answered" =>
    /\ Dashboard(reading.view) = Dashboard(FactsAt(reading.before))
    /\ SharesAddUp(Dashboard(reading.view))
    /\ \A t \in BoardTasks :
         LET f == reading.view[t]
         IN /\ DisplayStage(f) = DisplayStage(FactsAt(reading.before)[t])
            /\ DisplayStage(f) = "waiting_approval" <=> "approve" \in AvailableActions(f)
=============================================================================
