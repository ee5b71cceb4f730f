------------------------- MODULE ManagementRequests -------------------------
(***************************************************************************)
(* Preview, confirmation and repetition of the dangerous actions on one    *)
(* run.  A preview is remembered under a one-time token; a confirmation    *)
(* names its token, the cursor and the revision the operator saw and an    *)
(* idempotency key.  Tokens and the results of keys live in the memory of  *)
(* the process and expire; the commit and its receipt are durable.         *)
(*                                                                         *)
(* What a preview shows is the revision of the run and, for a clean-up,    *)
(* the resources found.  What the action does after its commit is in       *)
(* BridgeRun.                                                              *)
(***************************************************************************)
EXTENDS Naturals, FiniteSets

CONSTANTS Tokens, Keys, Requests, HttpSessions,
          Actions,       \* of "retry", "cancel" and "cleanup"
          MaxCommits     \* bound: commits of anybody

ASSUME RequestsAssumption == /\ MaxCommits \in Nat
                             /\ Actions \subseteq {"retry", "cancel", "cleanup"}

VARIABLES
  fact,      \* the durable cursor and revision of the run; the resources it left
  confirmation,  \* token -> ConfirmationRecord
  cache,     \* scope and key -> IdempotencyEntry
  receipts,  \* operations and keys the repository has committed
  request,   \* the confirmations under way
  done       \* history: what was executed

requestVars == <<fact, confirmation, cache, receipts, request, done>>

View(a) == [revision |-> fact.revision, left |-> IF a = "cleanup" THEN fact.left ELSE FALSE]

NoConfirmation == [state |-> "none"]
NoEntry == [state |-> "none", hash |-> <<>>]
NoRequest == [pc |-> "none"]
Scopes == HttpSessions \X Actions \X Keys

RequestsInit == /\ fact = [cursor |-> 0, revision |-> 0, left |-> TRUE]
                /\ confirmation = [t \in Tokens |-> NoConfirmation]
                /\ cache = [s \in Scopes |-> NoEntry]
                /\ receipts = {}
                /\ request = [r \in Requests |-> NoRequest]
                /\ done = {}

\* Anybody else commits, to this run or not; its resources are cleaned up otherwise.
SomebodyCommits ==
  /\ fact.cursor < MaxCommits
  /\ \E revision \in {fact.revision, fact.revision + 1} :
       fact' = [fact EXCEPT !.cursor = @ + 1, !.revision = revision]
  /\ UNCHANGED <<confirmation, cache, receipts, request, done>>

ResourcesGo ==
  /\ fact.left
  /\ fact' = [fact EXCEPT !.left = FALSE]
  /\ UNCHANGED <<confirmation, cache, receipts, request, done>>

\* previewRunAction
Preview(t, s, a) ==
  /\ confirmation[t].state = "none"
  /\ confirmation' = [confirmation EXCEPT ![t] =
       [state |-> "live", session |-> s, action |-> a, shown |-> View(a)]]
  /\ UNCHANGED <<fact, cache, receipts, request, done>>

ConfirmationExpires(t) ==
  /\ confirmation[t].state = "live"
  /\ confirmation' = [confirmation EXCEPT ![t].state = "gone"]
  /\ UNCHANGED <<fact, cache, receipts, request, done>>

EntryExpires(s) ==
  /\ cache[s].state # "none"
  /\ cache' = [cache EXCEPT ![s] = NoEntry]
  /\ UNCHANGED <<fact, confirmation, receipts, request, done>>

(***************************************************************************)
(* confirmRunAction and executeIdempotent.  The headers repeat what the    *)
(* page saw, in the preview or in a projection since; a repetition sends   *)
(* the same key, maybe with other headers.                                 *)
(***************************************************************************)
Scope(r) == <<request[r].session, request[r].action, request[r].key>>
Hash(q) == <<q.action, q.token, q.cursor, q.revision>>
\* The answer is its code; the page forgets it.
Replies(r, code) == request' = [request EXCEPT ![r] = NoRequest]

Confirm(r, t, k, cursor) ==
  LET c == confirmation[t]
      q == [pc |-> "cursor", session |-> c.session, action |-> c.action, token |-> t, key |-> k,
            cursor |-> cursor, revision |-> c.shown.revision]
      s == <<c.session, c.action, k>>
  IN /\ request[r] = NoRequest
     /\ c.state # "none"
     /\ \/ /\ cache[s].state = "none"
           /\ request' = [request EXCEPT ![r] = q]
           /\ cache' = [cache EXCEPT ![s] = [state |-> "held", hash |-> Hash(q)]]
        \/ /\ cache[s].state # "none" /\ cache[s].hash = Hash(q)
           /\ Replies(r, "the result of the first")
           /\ UNCHANGED cache
        \/ /\ cache[s].state # "none" /\ cache[s].hash # Hash(q)
           /\ Replies(r, "IDEMPOTENCY_KEY_REUSED")
           /\ UNCHANGED cache
     /\ UNCHANGED <<fact, confirmation, receipts, done>>

\* A rejected execution forgets the key, whoever holds it by then.
Fails(r, code) == /\ Replies(r, code)
                  /\ cache' = [cache EXCEPT ![Scope(r)] = NoEntry]

\* assertEventCursor answers, and consumeConfirmation runs in the same step.
Matches(r) == LET c == confirmation[request[r].token]
              IN /\ c.state = "live"
                 /\ c.session = request[r].session
                 /\ c.action = request[r].action
                 /\ c.shown.revision = request[r].revision

ConsumeToken(r) ==
  /\ request[r].pc = "cursor"
  /\ request[r].cursor = fact.cursor
  /\ confirmation' = [confirmation EXCEPT ![request[r].token].state = "gone"]
  /\ IF Matches(r)
     THEN /\ request' = [request EXCEPT ![r].pc = "rebuild"]
          /\ UNCHANGED cache
     ELSE Fails(r, "CONFIRMATION_EXPIRED")
  /\ UNCHANGED <<fact, receipts, done>>

StaleCursor(r) ==
  /\ request[r].pc = "cursor"
  /\ request[r].cursor # fact.cursor
  /\ Fails(r, "STALE_EVENT_CURSOR")
  /\ UNCHANGED <<fact, confirmation, receipts, done>>

\* The preview is built again and its hash compared.
Rebuild(r) ==
  /\ request[r].pc = "rebuild"
  /\ IF View(request[r].action) = confirmation[request[r].token].shown
     THEN /\ request' = [request EXCEPT ![r].pc = "commit"]
          /\ UNCHANGED cache
     ELSE Fails(r, "CONFIRMATION_EXPIRED")
  /\ UNCHANGED <<fact, confirmation, receipts, done>>

\* The commit states the cursor and the revision and has its receipt.
Receipt(r) == <<request[r].action, request[r].key>>

\* Mutant: the receipt of the key is not looked for.
AcceptedAgain(r) == /\ request[r].cursor = fact.cursor
                    /\ request[r].revision = fact.revision

Accepted(r) == /\ Receipt(r) \notin receipts
               /\ request[r].cursor = fact.cursor
               /\ request[r].revision = fact.revision

CommitAction(r) ==
  /\ request[r].pc = "commit"
  /\ Accepted(r)
  /\ fact.cursor < MaxCommits
  /\ fact' = [fact EXCEPT !.cursor = @ + 1, !.revision = @ + 1]
  /\ receipts' = receipts \cup {Receipt(r)}
  /\ done' = done \cup {[token |-> request[r].token, action |-> request[r].action,
                         key |-> request[r].key, revision |-> fact.revision]}
  /\ request' = [request EXCEPT ![r].pc = "driver"]
  /\ UNCHANGED <<confirmation, cache>>

CommitRefused(r) ==
  /\ request[r].pc = "commit"
  /\ ~Accepted(r) \/ fact.cursor = MaxCommits
  /\ Fails(r, "REFUSED")
  /\ UNCHANGED <<fact, confirmation, receipts, done>>

\* The driver and the clean-up answer, or throw after the commit.
Settles(r) ==
  /\ request[r].pc = "driver"
  /\ \/ Replies(r, "answered") /\ UNCHANGED cache
     \/ Fails(r, "INTERNAL_ERROR")
  /\ UNCHANGED <<fact, confirmation, receipts, done>>

\* The memory of the process is lost, its sessions with it.
RestartServer ==
  /\ confirmation' = [t \in Tokens |-> IF confirmation[t].state = "live"
                                        THEN [confirmation[t] EXCEPT !.state = "gone"]
                                        ELSE confirmation[t]]
  /\ cache' = [s \in Scopes |-> NoEntry]
  /\ request' = [r \in Requests |-> NoRequest]
  /\ UNCHANGED <<fact, receipts, done>>

RequestsNext ==
  \/ SomebodyCommits \/ ResourcesGo \/ RestartServer
  \/ \E t \in Tokens : \/ \E s \in HttpSessions, a \in Actions : Preview(t, s, a)
                       \/ ConfirmationExpires(t)
  \/ \E s \in Scopes : EntryExpires(s)
  \/ \E r \in Requests :
       \/ \E t \in Tokens, k \in Keys, cursor \in 0..fact.cursor : Confirm(r, t, k, cursor)
       \/ ConsumeToken(r) \/ StaleCursor(r) \/ Rebuild(r)
       \/ CommitAction(r) \/ CommitRefused(r) \/ Settles(r)

RequestsSpec == RequestsInit /\ [][RequestsNext]_requestVars

-----------------------------------------------------------------------------
RequestsTypeOK ==
  /\ fact \in [cursor : 0..MaxCommits, revision : 0..MaxCommits, left : BOOLEAN]
  /\ \A t \in Tokens : confirmation[t].state \in {"none", "live", "gone"}
  /\ receipts \subseteq Actions \X Keys
  /\ \A r \in Requests :
       request[r].pc \in {"none", "cursor", "rebuild", "commit", "driver"}

\* An action is executed once for its token and once for its key, on the run as it was
\* shown: whether the repetition joins the first request, comes after it failed behind
\* its commit, after the entry expired or after a restart (management-command-service.ts
\* consumeConfirmation, executeIdempotent, commitRecords).
ExecutedOnceAsShown ==
  \A d \in done :
    /\ d.revision = confirmation[d.token].shown.revision
    /\ \A e \in done : d.token = e.token \/ <<d.action, d.key>> = <<e.action, e.key>> => d = e
=============================================================================
