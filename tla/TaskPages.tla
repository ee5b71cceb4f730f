------------------------------- MODULE TaskPages -------------------------------
(***************************************************************************)
(* The list of tasks, read page by page.  The server answers each page     *)
(* from a consistent snapshot and gives the id of its last task as the     *)
(* cursor of the next one; it keeps nothing between two pages, while the   *)
(* records change.  The console puts the pages together.                   *)
(***************************************************************************)
EXTENDS Naturals, Sequences, FiniteSets, SequencesExt

CONSTANTS PageTasks,      \* bound: task ids 1..PageTasks, in the order of compareText
          TasksPerPage,   \* limit
          MaxTaskCommits  \* bound: commits

ASSUME TaskPagesAssumption == /\ PageTasks \in Nat \ {0}
                              /\ TasksPerPage \in Nat \ {0}
                              /\ MaxTaskCommits \in Nat

VARIABLES
  listed,   \* event cursor -> status of each task there is, in the order of their ids
  asking,  \* the page the console asked for last: [at, statuses, cursor]
  listing   \* what it has put together: [items, head: event cursor or Unread]

pageVars == <<listed, asking, listing>>

Unread == 0
FirstPage == 0  \* no cursor
PageStatuses == {"QUEUED", "RUNNING"}
CardOf(id, status) == [id |-> id, status |-> status]

HeadCursor == Len(listed)
BoardNow == listed[HeadCursor]
IdsOn(board) == DOMAIN board

PagesInit ==
  /\ \E T \in SUBSET (1..PageTasks) : listed = <<[t \in T |-> "QUEUED"]>>
  /\ asking = [at |-> "idle", statuses |-> {}, cursor |-> FirstPage]
  /\ listing = [items |-> <<>>, head |-> Unread]

\* Every commit moves the event cursor.
BoardCommits(board) == /\ HeadCursor <= MaxTaskCommits
                  /\ listed' = Append(listed, board)
                  /\ UNCHANGED <<asking, listing>>
TaskIsCreated(t) == t \notin IdsOn(BoardNow) /\ BoardCommits([u \in IdsOn(BoardNow) \cup {t} |->
                                                   IF u = t THEN "QUEUED" ELSE BoardNow[u]])
TaskMoves(t) == t \in IdsOn(BoardNow) /\ \E s \in PageStatuses \ {BoardNow[t]} : BoardCommits([BoardNow EXCEPT ![t] = s])

(***************************************************************************)
(* listTasks                                                               *)
(***************************************************************************)
\* Sorted by id: the n-th task is the one with n ids up to its own.
FilteredTasks(board, statuses) ==
  LET T == {t \in IdsOn(board) : statuses = {} \/ board[t] \in statuses}
  IN [n \in 1..Cardinality(T) |-> CHOOSE t \in T : Cardinality({u \in T : u <= t}) = n]

PageAccepts(filtered, cursor) == cursor = FirstPage \/ cursor \in ToSet(filtered)
PageStart(filtered, cursor) ==
  IF cursor = FirstPage THEN 0 ELSE CHOOSE i \in DOMAIN filtered : filtered[i] = cursor

PageFrom(board, statuses, cursor) ==
  LET filtered == FilteredTasks(board, statuses)
      start == PageStart(filtered, cursor)
      selected == SubSeq(filtered, start + 1, Min({start + TasksPerPage, Len(filtered)}))
      more == start + Len(selected) < Len(filtered)
  IN [items |-> [i \in DOMAIN selected |-> CardOf(selected[i], board[selected[i]])],
      next  |-> IF more /\ selected # <<>> THEN Last(selected) ELSE FirstPage]

(***************************************************************************)
(* readAllTasks of the console; the API also serves tasks of some status.  *)
(***************************************************************************)
AskFirstPage(statuses) ==
  /\ asking.at = "idle"
  /\ asking' = [at |-> "asked", statuses |-> statuses, cursor |-> FirstPage]
  /\ listing' = [items |-> <<>>, head |-> Unread]
  /\ UNCHANGED listed

\* Mutant: pages of different snapshots are put together.
ReceiveAnyPage ==
  LET page == PageFrom(BoardNow, asking.statuses, asking.cursor)
  IN /\ asking.at = "asked"
     /\ PageAccepts(FilteredTasks(BoardNow, asking.statuses), asking.cursor)
     /\ listing' = [items |-> listing.items \o page.items, head |-> HeadCursor]
     /\ asking' = [asking EXCEPT !.cursor = page.next,
                                   !.at = IF page.next = FirstPage THEN "read" ELSE "asked"]
     /\ UNCHANGED listed

\* The envelope carries the event cursor of the snapshot; the console goes on only while
\* it is the same.
ReceivePage ==
  LET page == PageFrom(BoardNow, asking.statuses, asking.cursor)
  IN /\ asking.at = "asked"
     /\ PageAccepts(FilteredTasks(BoardNow, asking.statuses), asking.cursor)
     /\ IF listing.head \in {Unread, HeadCursor}
        THEN /\ listing' = [items |-> listing.items \o page.items, head |-> HeadCursor]
             /\ asking' = [asking EXCEPT !.cursor = page.next,
                                           !.at = IF page.next = FirstPage THEN "read" ELSE "asked"]
        ELSE /\ asking' = [asking EXCEPT !.at = "SNAPSHOT_BUSY"]
             /\ UNCHANGED listing
     /\ UNCHANGED listed

\* The task of the cursor left the statuses that are asked for.
CursorIsRefused ==
  /\ asking.at = "asked"
  /\ ~PageAccepts(FilteredTasks(BoardNow, asking.statuses), asking.cursor)
  /\ asking' = [asking EXCEPT !.at = "VALIDATION_ERROR"]
  /\ UNCHANGED <<listed, listing>>

PagesNext ==
  \/ \E t \in 1..PageTasks : TaskIsCreated(t) \/ TaskMoves(t)
  \/ \E statuses \in {{}, {"QUEUED"}} : AskFirstPage(statuses)
  \/ ReceivePage \/ CursorIsRefused

PagesSpec == PagesInit /\ [][PagesNext]_pageVars

-----------------------------------------------------------------------------
PagesTypeOK ==
  /\ HeadCursor \in 1..(MaxTaskCommits + 1)
  /\ asking.at \in {"idle", "asked", "read", "SNAPSHOT_BUSY", "VALIDATION_ERROR"}
  /\ asking.cursor \in 0..PageTasks
  /\ listing.head \in {Unread} \cup (1..HeadCursor)

\* The board put together from pages is the list of tasks of one moment: every task once,
\* in order, with the status it had then, although tasks were created and moved between
\* the pages; and a page is refused only to who asked for some statuses, or behind a
\* change the console gives up for (management-projection.ts listTasks, dashboard
\* readAllTasks).
BoardsAreComplete ==
  /\ asking.at = "read" =>
       LET board == listed[listing.head]
           ids == FilteredTasks(board, asking.statuses)
       IN listing.items = [i \in DOMAIN ids |-> CardOf(ids[i], board[ids[i]])]
  /\ asking.at = "VALIDATION_ERROR" => asking.statuses # {} /\ listing.head # HeadCursor
=============================================================================
