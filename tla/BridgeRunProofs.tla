-------------------------- MODULE BridgeRunProofs --------------------------
(***************************************************************************)
(* Proofs about BridgeRun, for any number of runs and requests, any        *)
(* operations and any faults: however its handlers interleave, the durable *)
(* records move only as RunLedger allows, so that what is proved of the    *)
(* ledger holds of the Bridge.                                             *)
(***************************************************************************)
EXTENDS BridgeRun, FiniteSetTheorems, SequenceTheorems, TLAPS

\* The ledger, with what RunLedgerProofs proves of it.
LP == INSTANCE RunLedgerProofs WITH ApprovalRun <- [a \in Approvals |-> a[1]],
                                    Fallbacks <- {Fallback(r) : r \in Runs}

\* What the ledger assumes of its constants.
LEMMA LedgerNames == /\ [a \in Approvals |-> a[1]] \in [Approvals -> Runs]
                     /\ {Fallback(r) : r \in Runs} \subseteq Approvals
<1>1. 0 \in 0..LastEvent
  BY BoundsAssumption DEF LastEvent
<1>2. \A r \in Runs : Fallback(r) \in Approvals
  BY <1>1 DEF Approvals, Fallback
<1>3. \A a \in Approvals : a[1] \in Runs
  BY DEF Approvals
<1> QED BY <1>2, <1>3

LEMMA LedgerMoves ==
  ASSUME NEW e, NEW to
  PROVE  /\ TaskGoes(e, to) <=> LP!TaskGoes(e, to)
         /\ \A r : RunGoes(r, e, to) <=> LP!RunGoes(r, e, to)
         /\ \A r : BindingEnds(r, to) <=> LP!BindingEnds(r, to)
         /\ \A r : Live(r) <=> LP!Live(r)
         /\ L!TerminalRunStatuses = LP!TerminalRunStatuses
  BY DEF TaskGoes, RunGoes, BindingEnds, Live, L!TaskGoes, L!RunGoes, L!BindingEnds, L!Live,
     L!TaskTransitions, L!RunTransitions, L!LiveRunStatuses, L!RunStatuses, L!TerminalRunStatuses,
     LP!TaskGoes, LP!RunGoes, LP!BindingEnds, LP!Live, LP!TaskTransitions, LP!RunTransitions,
     LP!LiveRunStatuses, LP!RunStatuses, LP!TerminalRunStatuses

LEMMA SameLedger == (L!Init <=> LP!Init) /\ ([L!Next]_(L!ledger) <=> [LP!Next]_(LP!ledger))
<1>1. L!Init <=> LP!Init
  BY DEF L!Init, LP!Init
<1>2. L!Next <=> LP!Next
  <2>1. L!TaskStep <=> LP!TaskStep
    BY DEF L!TaskStep, L!Enqueue, L!Retry, L!StartRun, L!FailStart, L!StartVerification,
       L!RequestReview, L!ApproveReview, L!Complete, L!TaskGoes, L!TaskTransitions, L!NoLiveRun, L!Live,
       L!LiveRunStatuses, L!RunStatuses, L!TerminalRunStatuses,
       LP!TaskStep, LP!Enqueue, LP!Retry, LP!StartRun, LP!FailStart, LP!StartVerification,
       LP!RequestReview, LP!ApproveReview, LP!Complete, LP!TaskGoes, LP!TaskTransitions, LP!NoLiveRun,
       LP!Live, LP!LiveRunStatuses, LP!RunStatuses, LP!TerminalRunStatuses
  <2>2. \A r \in Runs : L!RunStep(r) <=> LP!RunStep(r)
    BY DEF L!RunStep, L!CreateRun, L!RunStarted, L!RunStartFailed, L!RequestCancel, L!ConfirmCancel,
       L!DriverFailed, L!Interrupt, L!Submit, L!TaskGoes, L!RunGoes, L!BindingEnds, L!TaskInterrupted,
       L!TaskTransitions, L!RunTransitions, L!NoLiveRun, L!Live, L!LiveRunStatuses, L!RunStatuses,
       L!TerminalRunStatuses,
       LP!RunStep, LP!CreateRun, LP!RunStarted, LP!RunStartFailed, LP!RequestCancel, LP!ConfirmCancel,
       LP!DriverFailed, LP!Interrupt, LP!Submit, LP!TaskGoes, LP!RunGoes, LP!BindingEnds,
       LP!TaskInterrupted, LP!TaskTransitions, LP!RunTransitions, LP!NoLiveRun, LP!Live,
       LP!LiveRunStatuses, LP!RunStatuses, LP!TerminalRunStatuses
  <2>3. \A a \in Approvals : L!ApprovalStep(a) <=> LP!ApprovalStep(a)
    BY DEF L!ApprovalStep, L!RequestFallback, L!ApproveFallback, L!RejectFallback,
       L!RequestPermission, L!ApprovePermission, L!RejectPermission, L!TaskGoes, L!RunGoes,
       L!BindingEnds, L!TaskTransitions, L!RunTransitions, L!NoLiveRun, L!Live, L!LiveRunStatuses,
       L!RunStatuses, L!TerminalRunStatuses,
       LP!ApprovalStep, LP!RequestFallback, LP!ApproveFallback, LP!RejectFallback,
       LP!RequestPermission, LP!ApprovePermission, LP!RejectPermission, LP!TaskGoes, LP!RunGoes,
       LP!BindingEnds, LP!TaskTransitions, LP!RunTransitions, LP!NoLiveRun, LP!Live,
       LP!LiveRunStatuses, LP!RunStatuses, LP!TerminalRunStatuses
  <2> QED BY <2>1, <2>2, <2>3 DEF L!Next, LP!Next
<1> QED BY <1>1, <1>2 DEF L!ledger, LP!ledger

(***************************************************************************)
(* The inductive invariant.                                                *)
(*                                                                         *)
(* A commit is accepted if the records it states have not been written     *)
(* since they were read; what else its author read may have changed.  That *)
(* every accepted commit is one the ledger allows therefore rests on what  *)
(* holds between the commands: which of them may create a run, and what    *)
(* they have in common with the run that is live.                          *)
(***************************************************************************)

\* Where a command is on its way to a driver at work, where it is before it looks for
\* one, and where it holds one that the run does not have yet.
LaunchPcs == {"start", "launch", "cleaning", "ensure", "select", "askFallback", "create",
              "reconcile", "starting", "abort", "release", "failed", "failTask"}
EarlyPcs  == {"start", "launch", "cleaning", "ensure", "select", "release", "failed", "failTask"}
StartPcs  == {"starting", "abort"}

Pcs == LaunchPcs \cup
       {"idle", "enqueue", "context", "requeue", "decideFallback", "decide", "respond",
        "rejectCancel", "rejectClose", "rejectClosing", "rejectDraining", "rejectClosed",
        "deliver", "markDelivered", "cancel", "cancelRpc", "cancelled", "confirm", "cleanup",
        "approveReview", "complete", "tidying"}

\* Where the consumer of a run's events is.
EventPcs == {"none", "next", "export", "notify", "ask", "collect", "submit", "verify", "review",
             "fail", "threw", "interrupt"}

\* The requests a command serves, where they may await.
RequestRecords ==
  [op      : {"none", "start", "relaunch", "retry", "decide", "cancel", "cleanup", "complete"},
   pc      : Pcs,
   run     : Runs \cup {None},
   src     : Runs \cup {None},
   n       : 0..LastEvent,
   verdict : {"none", "approve", "reject", "undelivered"},
   proc    : BOOLEAN]

Requests ==
  {k \in RequestRecords :
     /\ k.pc \in LaunchPcs \cup {"enqueue", "context", "requeue"}
          => k.op \in {"start", "retry", "relaunch"}
     /\ k.op = "relaunch"
          => k.pc \notin {"enqueue", "start", "failTask", "context", "requeue"}
     /\ k.pc \notin {"idle", "approveReview", "complete", "tidying"} => k.run \in Runs
     /\ k.pc = "decide" => k.n # 0}

Typed == /\ cmd \in [Commands -> Requests]
         /\ DOMAIN snap = Threads
         /\ ev \in [Runs -> EventPcs]
         /\ toRecover \subseteq Runs
         /\ latest \in Runs \cup {None}

\* The recovery of a crash is over before a request is served.
RecoversFirst == toRecover # {} => \A c \in Commands : cmd[c] = Idle

(***************************************************************************)
(* Commands await where their operation can.                               *)
(***************************************************************************)

LEMMA IdleIsRequest == Idle \in Requests
  BY BoundsAssumption DEF Idle, Requests, RequestRecords, Pcs, LaunchPcs, LastEvent

LEMMA Served ==
  ASSUME Typed, NEW c \in Commands, NEW op, NEW k \in Requests, NEW recs, Serve(c, op, k, recs),
         UNCHANGED <<ev, toRecover, latest>>
  PROVE  Typed' /\ RecoversFirst'
  BY DEF Typed, Serve, Reads, RecoversFirst, Serving

LEMMA RequestsAreTyped ==
  ASSUME Typed, RecoversFirst, NEW c \in Commands, Request(c)
  PROVE  Typed' /\ RecoversFirst'
<1>0. 0 \in 0..LastEvent /\ LastEvent \in Nat
  BY BoundsAssumption DEF LastEvent
<1>1. CASE BeginComplete(c)
  <2> DEFINE k == [Idle EXCEPT !.op = "complete", !.run = latest,
                        !.pc = IF task = "REVIEW_REQUIRED" THEN "approveReview" ELSE "complete"]
  <2>1. k \in Requests
    BY <1>0 DEF Typed, Requests, RequestRecords, Idle, Pcs, LaunchPcs
  <2>2. Serve(c, "complete", k, {Task}) /\ UNCHANGED <<ev, toRecover, latest>>
    BY <1>1 DEF BeginComplete, process, notes
  <2> HIDE DEF k
  <2> QED BY <2>1, <2>2, Served
<1>2. ASSUME NEW r \in Runs, BeginStart(c, r) PROVE Typed' /\ RecoversFirst'
  <2> DEFINE k == [Idle EXCEPT !.op = "start", !.pc = "enqueue", !.run = r]
  <2>1. k \in Requests
    BY <1>0 DEF Requests, RequestRecords, Idle, Pcs, LaunchPcs
  <2>2. Serve(c, "start", k, {Task}) /\ UNCHANGED <<ev, toRecover, latest>>
    BY <1>2 DEF BeginStart, process
  <2> HIDE DEF k
  <2> QED BY <2>1, <2>2, Served
<1>3. ASSUME NEW r \in Runs, BeginRelaunch(c, r) PROVE Typed' /\ RecoversFirst'
  <2> DEFINE k == [Idle EXCEPT !.op = "relaunch", !.pc = "launch", !.run = r]
  <2>1. k \in Requests
    BY <1>0 DEF Requests, RequestRecords, Idle, Pcs, LaunchPcs
  <2>2. Serve(c, "relaunch", k, {Task}) /\ UNCHANGED <<ev, toRecover, latest>>
    BY <1>3 DEF BeginRelaunch, process, notes
  <2> HIDE DEF k
  <2> QED BY <2>1, <2>2, Served
<1>4. ASSUME NEW r \in Runs, BeginCancel(c, r) PROVE Typed' /\ RecoversFirst'
  <2> DEFINE k == [Idle EXCEPT !.op = "cancel", !.pc = "cancel", !.run = r]
  <2>1. k \in Requests
    BY <1>0 DEF Requests, RequestRecords, Idle, Pcs, LaunchPcs
  <2>2. Serve(c, "cancel", k, {Task, Run(r), Cursor}) /\ UNCHANGED <<ev, toRecover, latest>>
    BY <1>4 DEF BeginCancel, process, notes
  <2> HIDE DEF k
  <2> QED BY <2>1, <2>2, Served
<1>5. ASSUME NEW r \in Runs, BeginRetry(c, r) PROVE Typed' /\ RecoversFirst'
  <2> DEFINE k == [Idle EXCEPT !.op = "retry", !.pc = "context", !.run = r, !.src = latest]
  <2>1. k \in Requests
    BY <1>0 DEF Typed, Requests, RequestRecords, Idle, Pcs, LaunchPcs
  <2>2. Serve(c, "retry", k, {Run(latest), Cursor}) /\ UNCHANGED <<ev, toRecover, latest>>
    BY <1>5 DEF BeginRetry, process, notes
  <2> HIDE DEF k
  <2> QED BY <2>1, <2>2, Served
<1>6. ASSUME NEW r \in Runs, BeginCleanup(c, r) PROVE Typed' /\ RecoversFirst'
  <2> DEFINE k == [Idle EXCEPT !.op = "cleanup", !.pc = "cleanup", !.run = r]
  <2>1. k \in Requests
    BY <1>0 DEF Requests, RequestRecords, Idle, Pcs, LaunchPcs
  <2>2. Serve(c, "cleanup", k, {Run(r), Cursor}) /\ UNCHANGED <<ev, toRecover, latest>>
    BY <1>6 DEF BeginCleanup, process, notes
  <2> HIDE DEF k
  <2> QED BY <2>1, <2>2, Served
<1>7. ASSUME NEW a \in Approvals, NEW v \in {"approve", "reject"}, BeginDecide(c, a, v)
      PROVE  Typed' /\ RecoversFirst'
  <2> DEFINE r == a[1]
             f == [Idle EXCEPT !.op = "decide", !.pc = "decideFallback", !.run = r, !.verdict = v]
             k == [Idle EXCEPT !.op = "decide", !.pc = "decide", !.run = r, !.n = a[2],
                               !.verdict = v]
  <2>1. r \in Runs /\ a[2] \in 0..LastEvent /\ a = <<r, a[2]>>
    BY DEF Approvals
  <2>2. UNCHANGED <<ev, toRecover, latest>>
    BY <1>7 DEF BeginDecide, process, notes
  <2>3. CASE a = Fallback(r)
    <3>1. f \in Requests
      BY <1>0, <2>1 DEF Requests, RequestRecords, Idle, Pcs, LaunchPcs
    <3>2. \E recs : Serve(c, "decide", f, recs)
      BY <1>7, <2>3 DEF BeginDecide
    <3> HIDE DEF f
    <3> QED BY <2>2, <3>1, <3>2, Served
  <2>4. CASE a # Fallback(r)
    <3>1. k \in Requests
      BY <1>0, <2>1, <2>4 DEF Requests, RequestRecords, Idle, Pcs, LaunchPcs, Fallback
    <3>2. \E recs : Serve(c, "decide", k, recs)
      BY <1>7, <2>4 DEF BeginDecide
    <3> HIDE DEF k
    <3> QED BY <2>2, <3>1, <3>2, Served
  <2> QED BY <2>3, <2>4
<1> QED BY <1>1, <1>2, <1>3, <1>4, <1>5, <1>6, <1>7 DEF Request

\* Reading and committing concern threads.
LEMMA SnapshotsStay ==
  ASSUME Typed,
         \/ \E t, recs : Reads(t, recs)
         \/ \E t, recs, next : Commits(t, recs, next)
         \/ UNCHANGED snap
  PROVE  DOMAIN snap' = Threads
  BY DEF Typed, Reads, Commits

\* What a step of command c keeps of the types.
LEMMA CommandGoes ==
  ASSUME Typed, RecoversFirst, NEW c \in Commands, cmd[c].pc # "idle",
         NEW k \in Requests, cmd' = [cmd EXCEPT ![c] = k],
         DOMAIN snap' = Threads, ev' \in [Runs -> EventPcs],
         UNCHANGED toRecover, latest' \in Runs \cup {None}
  PROVE  Typed' /\ RecoversFirst'
<1>1. cmd[c] # Idle
  BY DEF Idle
<1> QED BY <1>1 DEF Typed, RecoversFirst

\* The clean-up of r moves the commands that wait for it.
LEMMA CleanupGoes ==
  ASSUME Typed, RecoversFirst, NEW r \in Runs, NEW pc \in {"ensure", "failed"}, CleanupEnds(r, pc)
  PROVE  /\ cmd' \in [Commands -> Requests]
         /\ RecoversFirst' \/ toRecover' # toRecover
<1>1. ASSUME NEW d \in Commands, At(d, "cleaning")
      PROVE  [cmd[d] EXCEPT !.pc = pc] \in Requests
  BY <1>1 DEF Typed, Requests, RequestRecords, Pcs, LaunchPcs, At
<1>2. \A d \in Commands : cmd'[d] = CASE At(d, "cleaning") /\ cmd[d].src = r -> [cmd[d] EXCEPT !.pc = pc]
                                      [] At(d, "tidying") /\ cmd[d].run = r  -> Idle
                                      [] OTHER                               -> cmd[d]
  BY DEF CleanupEnds
<1>3. cmd' = [d \in Commands |-> cmd'[d]]
  BY DEF CleanupEnds
<1>4. ASSUME NEW d \in Commands PROVE cmd'[d] \in Requests /\ (cmd[d] = Idle => cmd'[d] = Idle)
  <2>1. cmd[d] \in Requests /\ (cmd[d] = Idle => ~At(d, "cleaning") /\ ~At(d, "tidying"))
    BY DEF Typed, At, Idle
  <2> QED BY <1>1, <1>2, <2>1, IdleIsRequest
<1> QED BY <1>3, <1>4 DEF RecoversFirst

LEMMA CommandsAreTyped ==
  ASSUME Typed, RecoversFirst, NEW c \in Commands, CommandStep(c)
  PROVE  Typed' /\ RecoversFirst'
<1> DEFINE k == cmd[c]
           May(q) == /\ q \in Pcs
                     /\ q \in LaunchPcs \cup {"enqueue", "context", "requeue"}
                          => k.op \in {"start", "retry", "relaunch"}
                     /\ k.op = "relaunch" => q \notin {"enqueue", "start", "failTask", "context",
                                                       "requeue"}
                     /\ q \notin {"idle", "approveReview", "complete", "tidying"} => k.run \in Runs
                     /\ q = "decide" => k.n # 0
           Goes == \E m \in Requests : cmd' = [cmd EXCEPT ![c] = m]
<1>0. k \in Requests /\ k.pc \in Pcs
  BY DEF Typed, Requests, RequestRecords
<1>1. \A q : May(q) /\ Await(c, q) => Goes
  <2> SUFFICES ASSUME NEW q, May(q), Await(c, q) PROVE Goes
    OBVIOUS
  <2>1. [k EXCEPT !.pc = q] \in Requests
    <3> DEFINE m == [k EXCEPT !.pc = q]
    <3>1. k \in RequestRecords /\ q \in Pcs
      BY <1>0 DEF Requests
    <3>2. m \in RequestRecords
      BY <3>1 DEF RequestRecords
    <3>3. /\ m.pc = q /\ m.op = k.op /\ m.run = k.run /\ m.n = k.n
      BY <3>1 DEF RequestRecords
    <3> HIDE DEF m
    <3>4. m \in Requests
      BY <1>0, <3>1, <3>2, <3>3 DEF Requests
    <3> QED BY <3>4 DEF m
  <2>2. cmd' = [cmd EXCEPT ![c] = [k EXCEPT !.pc = q]]
    BY DEF Await
  <2> QED BY <2>1, <2>2
<1>2. Return(c) => Goes
  BY IdleIsRequest DEF Return
<1>3. \A q, b : May(q) /\ b \in BOOLEAN /\ cmd' = [cmd EXCEPT ![c].pc = q, ![c].proc = b] => Goes
  <2> SUFFICES ASSUME NEW q, NEW b \in BOOLEAN, May(q), cmd' = [cmd EXCEPT ![c].pc = q, ![c].proc = b]
               PROVE  Goes
    OBVIOUS
  <2>1. [k EXCEPT !.pc = q, !.proc = b] \in Requests
    <3> DEFINE m == [k EXCEPT !.pc = q, !.proc = b]
    <3>1. k \in RequestRecords /\ q \in Pcs
      BY <1>0 DEF Requests
    <3>2. m \in RequestRecords
      BY <3>1 DEF RequestRecords
    <3>3. /\ m.pc = q /\ m.op = k.op /\ m.run = k.run /\ m.n = k.n
      BY <3>1 DEF RequestRecords
    <3> HIDE DEF m
    <3>4. m \in Requests
      BY <1>0, <3>1, <3>2, <3>3 DEF Requests
    <3> QED BY <3>4 DEF m
  <2>2. cmd' = [cmd EXCEPT ![c] = [k EXCEPT !.pc = q, !.proc = b]]
    OBVIOUS
  <2> QED BY <2>1, <2>2
<1>4. \A q : May(q) /\ cmd' = [cmd EXCEPT ![c].pc = q, ![c].verdict = "undelivered"] => Goes
  <2> SUFFICES ASSUME NEW q, May(q), cmd' = [cmd EXCEPT ![c].pc = q, ![c].verdict = "undelivered"]
               PROVE  Goes
    OBVIOUS
  <2>1. [k EXCEPT !.pc = q, !.verdict = "undelivered"] \in Requests
    <3> DEFINE m == [k EXCEPT !.pc = q, !.verdict = "undelivered"]
    <3>1. k \in RequestRecords /\ q \in Pcs
      BY <1>0 DEF Requests
    <3>2. m \in RequestRecords
      BY <3>1 DEF RequestRecords
    <3>3. /\ m.pc = q /\ m.op = k.op /\ m.run = k.run /\ m.n = k.n
      BY <3>1 DEF RequestRecords
    <3> HIDE DEF m
    <3>4. m \in Requests
      BY <1>0, <3>1, <3>2, <3>3 DEF Requests
    <3> QED BY <3>4 DEF m
  <2>2. cmd' = [cmd EXCEPT ![c] = [k EXCEPT !.pc = q, !.verdict = "undelivered"]]
    BY DEF Typed
  <2> QED BY <2>1, <2>2
<1>5. k.pc \in {"select", "abort", "release", "respond", "rejectCancel"} => k.run \in Runs
  BY <1>0 DEF Requests, RequestRecords
<1> DEFINE Rest == /\ DOMAIN snap' = Threads
                   /\ ev' \in [Runs -> EventPcs]
                   /\ UNCHANGED toRecover
                   /\ latest' \in Runs \cup {None}
<1>6. \A t, recs, next : \/ Reads(t, recs) \/ Commits(t, recs, next) \/ UNCHANGED snap
                         => DOMAIN snap' = Threads
  BY SnapshotsStay
<1>7. UNCHANGED ev => ev' \in [Runs -> EventPcs]
  BY DEF Typed
<1>8. UNCHANGED latest => latest' \in Runs \cup {None}
  BY DEF Typed
<1> HIDE DEF Goes
<1>10. Enqueue(c) => Goes /\ Rest
  BY <1>0, <1>1, <1>2, <1>3, <1>4, <1>5, <1>6, <1>7, <1>8
     DEF Enqueue, Conflict, AwaitCleanup, At, LaunchPcs, Pcs, Requests, RequestRecords, notes, process, drivers, registry
<1>11. StartRun(c) => Goes /\ Rest
  BY <1>0, <1>1, <1>2, <1>3, <1>4, <1>5, <1>6, <1>7, <1>8
     DEF StartRun, Conflict, AwaitCleanup, At, LaunchPcs, Pcs, Requests, RequestRecords, notes, process, drivers, registry
<1>12. Launch(c) => Goes /\ Rest
  BY <1>0, <1>1, <1>2, <1>3, <1>4, <1>5, <1>6, <1>7, <1>8
     DEF Launch, Conflict, AwaitCleanup, At, LaunchPcs, Pcs, Requests, RequestRecords, notes, process, drivers, registry
<1>13. Ensure(c) => Goes /\ Rest
  BY <1>0, <1>1, <1>2, <1>3, <1>4, <1>5, <1>6, <1>7, <1>8
     DEF Ensure, Conflict, AwaitCleanup, At, LaunchPcs, Pcs, Requests, RequestRecords, notes, process, drivers, registry
<1>14. Select(c) => Goes /\ Rest
  <2> SUFFICES ASSUME Select(c) PROVE Goes /\ Rest
    OBVIOUS
  <2> DEFINE q == OrchestratorPc(cmd[c].run)
  <2>1. k.pc = "select" /\ q \in {"create", "reconcile", "release"}
    BY DEF Select, At, OrchestratorPc
  <2>2. May(q) /\ May("release") /\ May("askFallback")
    BY <1>0, <2>1 DEF Pcs, LaunchPcs, Requests, RequestRecords
  <2>3. \/ cmd' = [cmd EXCEPT ![c].pc = q, ![c].proc = TRUE]
        \/ Await(c, "askFallback")
        \/ Await(c, "release")
    BY DEF Select
  <2>4. Goes
    BY <1>1, <1>3, <2>2, <2>3
  <2>5. Rest
    BY <1>6, <1>7, <1>8 DEF Select, notes, process
  <2> QED BY <2>4, <2>5
<1>15. AskFallback(c) => Goes /\ Rest
  BY <1>0, <1>1, <1>2, <1>3, <1>4, <1>5, <1>6, <1>7, <1>8
     DEF AskFallback, Conflict, AwaitCleanup, At, LaunchPcs, Pcs, Requests, RequestRecords, notes, process, drivers, registry
<1>16. CreateRun(c) => Goes /\ Rest
  BY <1>0, <1>1, <1>2, <1>3, <1>4, <1>5, <1>6, <1>7, <1>8
     DEF CreateRun, Conflict, AwaitCleanup, At, LaunchPcs, Pcs, Requests, RequestRecords, notes, process, drivers, registry
<1>17. DriverStarted(c) => Goes /\ Rest
  <2> SUFFICES ASSUME DriverStarted(c) PROVE Goes /\ Rest
    OBVIOUS
  <2>1. k.pc = "starting" /\ k.run \in Runs
    BY <1>0 DEF DriverStarted, At, Requests, RequestRecords
  <2>2. May("abort")
    BY <1>0, <2>1 DEF Pcs, LaunchPcs, Requests, RequestRecords
  <2>3. Goes
    BY <1>1, <1>2, <2>2 DEF DriverStarted
  <2>4. Rest
    BY <1>6, <1>7, <1>8, <2>1 DEF DriverStarted, notes, process, Typed, EventPcs
  <2> QED BY <2>3, <2>4
<1>18. Abort(c) => Goes /\ Rest
  <2> SUFFICES ASSUME Abort(c) PROVE Goes /\ Rest
    OBVIOUS
  <2>1. At(c, "abort") /\ cmd' = [cmd EXCEPT ![c].pc = "release", ![c].proc = FALSE]
    BY DEF Abort
  <2>2. May("release")
    BY <1>0, <2>1 DEF At, Pcs, LaunchPcs, Requests, RequestRecords
  <2>3. Goes
    BY <1>3, <2>1, <2>2
  <2>4. Rest
    BY <1>6, <1>7, <1>8 DEF Abort, notes, process
  <2> QED BY <2>3, <2>4
<1>19. Reconcile(c) => Goes /\ Rest
  BY <1>0, <1>1, <1>2, <1>3, <1>4, <1>5, <1>6, <1>7, <1>8
     DEF Reconcile, Conflict, AwaitCleanup, At, LaunchPcs, Pcs, Requests, RequestRecords, notes, process, drivers, registry
<1>20. Release(c) => Goes /\ Rest
  <2> SUFFICES ASSUME Release(c) PROVE Goes /\ Rest
    OBVIOUS
  <2>1. At(c, "release") /\ cmd' = [cmd EXCEPT ![c].pc = "failed", ![c].proc = FALSE]
    BY DEF Release
  <2>2. May("failed")
    BY <1>0, <2>1 DEF At, Pcs, LaunchPcs, Requests, RequestRecords
  <2>3. Goes
    BY <1>3, <2>1, <2>2
  <2>4. Rest
    BY <1>6, <1>7, <1>8 DEF Release, notes, process
  <2> QED BY <2>3, <2>4
<1>21. LaunchFailed(c) => Goes /\ Rest
  BY <1>0, <1>1, <1>2, <1>3, <1>4, <1>5, <1>6, <1>7, <1>8
     DEF LaunchFailed, Conflict, AwaitCleanup, At, LaunchPcs, Pcs, Requests, RequestRecords, notes, process, drivers, registry
<1>22. FailTask(c) => Goes /\ Rest
  BY <1>0, <1>1, <1>2, <1>3, <1>4, <1>5, <1>6, <1>7, <1>8
     DEF FailTask, Conflict, AwaitCleanup, At, LaunchPcs, Pcs, Requests, RequestRecords, notes, process, drivers, registry
<1>23. DecideFallback(c) => Goes /\ Rest
  BY <1>0, <1>1, <1>2, <1>3, <1>4, <1>5, <1>6, <1>7, <1>8
     DEF DecideFallback, Conflict, AwaitCleanup, At, LaunchPcs, Pcs, Requests, RequestRecords, notes, process, drivers, registry
<1>24. Decide(c) => Goes /\ Rest
  BY <1>0, <1>1, <1>2, <1>3, <1>4, <1>5, <1>6, <1>7, <1>8
     DEF Decide, Conflict, AwaitCleanup, At, LaunchPcs, Pcs, Requests, RequestRecords, notes, process, drivers, registry
<1>25. Respond(c) => Goes /\ Rest
  BY <1>0, <1>1, <1>2, <1>3, <1>4, <1>5, <1>6, <1>7, <1>8
     DEF Respond, Conflict, AwaitCleanup, At, LaunchPcs, Pcs, Requests, RequestRecords, notes, process, drivers, registry
<1>26. RejectCancel(c) => Goes /\ Rest
  BY <1>0, <1>1, <1>2, <1>3, <1>4, <1>5, <1>6, <1>7, <1>8
     DEF RejectCancel, Conflict, AwaitCleanup, At, LaunchPcs, Pcs, Requests, RequestRecords, notes, process, drivers, registry
<1>27. RejectClose(c) => Goes /\ Rest
  BY <1>0, <1>1, <1>2, <1>3, <1>4, <1>5, <1>6, <1>7, <1>8
     DEF RejectClose, Conflict, AwaitCleanup, At, LaunchPcs, Pcs, Requests, RequestRecords, notes, process, drivers, registry
<1>28. RejectClosing(c) => Goes /\ Rest
  BY <1>0, <1>1, <1>2, <1>3, <1>4, <1>5, <1>6, <1>7, <1>8
     DEF RejectClosing, Conflict, AwaitCleanup, At, LaunchPcs, Pcs, Requests, RequestRecords, notes, process, drivers, registry
<1>29. RejectClosed(c) => Goes /\ Rest
  BY <1>0, <1>1, <1>2, <1>3, <1>4, <1>5, <1>6, <1>7, <1>8
     DEF RejectClosed, Conflict, AwaitCleanup, At, LaunchPcs, Pcs, Requests, RequestRecords, notes, process, drivers, registry
<1>30. Deliver(c) => Goes /\ Rest
  BY <1>0, <1>1, <1>2, <1>3, <1>4, <1>5, <1>6, <1>7, <1>8
     DEF Deliver, Conflict, AwaitCleanup, At, LaunchPcs, Pcs, Requests, RequestRecords, notes, process, drivers, registry
<1>31. MarkDelivered(c) => Goes /\ Rest
  BY <1>0, <1>1, <1>2, <1>3, <1>4, <1>5, <1>6, <1>7, <1>8
     DEF MarkDelivered, Conflict, AwaitCleanup, At, LaunchPcs, Pcs, Requests, RequestRecords, notes, process, drivers, registry
<1>32. RequestCancel(c) => Goes /\ Rest
  BY <1>0, <1>1, <1>2, <1>3, <1>4, <1>5, <1>6, <1>7, <1>8
     DEF RequestCancel, Conflict, AwaitCleanup, At, LaunchPcs, Pcs, Requests, RequestRecords, notes, process, drivers, registry
<1>33. CancelRpc(c) => Goes /\ Rest
  BY <1>0, <1>1, <1>2, <1>3, <1>4, <1>5, <1>6, <1>7, <1>8
     DEF CancelRpc, Conflict, AwaitCleanup, At, LaunchPcs, Pcs, Requests, RequestRecords, notes, process, drivers, registry
<1>34. CheckCancelled(c) => Goes /\ Rest
  BY <1>0, <1>1, <1>2, <1>3, <1>4, <1>5, <1>6, <1>7, <1>8
     DEF CheckCancelled, Conflict, AwaitCleanup, At, LaunchPcs, Pcs, Requests, RequestRecords, notes, process, drivers, registry
<1>35. ConfirmCancel(c) => Goes /\ Rest
  BY <1>0, <1>1, <1>2, <1>3, <1>4, <1>5, <1>6, <1>7, <1>8
     DEF ConfirmCancel, Conflict, AwaitCleanup, At, LaunchPcs, Pcs, Requests, RequestRecords, notes, process, drivers, registry
<1>36. PrepareRetryContext(c) => Goes /\ Rest
  BY <1>0, <1>1, <1>2, <1>3, <1>4, <1>5, <1>6, <1>7, <1>8
     DEF PrepareRetryContext, Conflict, AwaitCleanup, At, LaunchPcs, Pcs, Requests, RequestRecords, notes, process, drivers, registry
<1>37. Requeue(c) => Goes /\ Rest
  BY <1>0, <1>1, <1>2, <1>3, <1>4, <1>5, <1>6, <1>7, <1>8
     DEF Requeue, Conflict, AwaitCleanup, At, LaunchPcs, Pcs, Requests, RequestRecords, notes, process, drivers, registry
<1>38. ConfirmCleanup(c) => Goes /\ Rest
  BY <1>0, <1>1, <1>2, <1>3, <1>4, <1>5, <1>6, <1>7, <1>8
     DEF ConfirmCleanup, Conflict, AwaitCleanup, At, LaunchPcs, Pcs, Requests, RequestRecords, notes, process, drivers, registry
<1>39. ApproveReview(c) => Goes /\ Rest
  BY <1>0, <1>1, <1>2, <1>3, <1>4, <1>5, <1>6, <1>7, <1>8
     DEF ApproveReview, Conflict, AwaitCleanup, At, LaunchPcs, Pcs, Requests, RequestRecords, notes, process, drivers, registry
<1>40. Complete(c) => Goes /\ Rest
  BY <1>0, <1>1, <1>2, <1>3, <1>4, <1>5, <1>6, <1>7, <1>8
     DEF Complete, Conflict, AwaitCleanup, At, LaunchPcs, Pcs, Requests, RequestRecords, notes, process, drivers, registry
<1>41. Goes /\ Rest /\ k.pc # "idle"
  <2>1. Goes /\ Rest
    BY <1>10, <1>11, <1>12, <1>13, <1>14, <1>15, <1>16, <1>17, <1>18, <1>19, <1>20, <1>21, <1>22,
       <1>23, <1>24, <1>25, <1>26, <1>27, <1>28, <1>29, <1>30, <1>31, <1>32, <1>33, <1>34, <1>35,
       <1>36, <1>37, <1>38, <1>39, <1>40
       DEF CommandStep, LaunchStep, DecideStep
  <2>2. k.pc # "idle"
    BY DEF CommandStep, LaunchStep, DecideStep, At, Enqueue, StartRun, Launch, Ensure, Select,
       AskFallback, CreateRun, DriverStarted, Abort, Reconcile, Release, LaunchFailed, FailTask,
       DecideFallback, Decide, Respond, RejectCancel, RejectClose, RejectClosing, RejectClosed,
       Deliver, MarkDelivered, RequestCancel, CancelRpc, CheckCancelled, ConfirmCancel,
       PrepareRetryContext, Requeue, ConfirmCleanup, ApproveReview, Complete
  <2> QED BY <2>1, <2>2
<1>42. PICK m \in Requests : cmd' = [cmd EXCEPT ![c] = m]
  BY <1>41 DEF Goes
<1> QED BY <1>41, <1>42, CommandGoes

LEMMA EventsAreTyped ==
  ASSUME Typed, RecoversFirst, NEW r \in Runs, EventStep(r)
  PROVE  Typed' /\ RecoversFirst'
<1>1. DOMAIN snap' = Threads
  BY SnapshotsStay
     DEF EventStep, StreamEnds, Checkpoint, SaveCheckpoint, Notify, RequestPermission, RunCompleted,
     CollectOutcome, Submit, RecordVerification, RequestReview, DriverEnded, RecordFailure,
     InterruptAfterError, RecordInterruption
<1>2. \A pc \in EventPcs : Consume(r, pc) => ev' \in [Runs -> EventPcs]
  BY DEF Consume, Typed
<1>3. ev' \in [Runs -> EventPcs]
  BY <1>2
     DEF EventStep, StreamEnds, Checkpoint, SaveCheckpoint, Notify, RequestPermission, RunCompleted,
     CollectOutcome, Submit, RecordVerification, RequestReview, DriverEnded, RecordFailure,
     InterruptAfterError, RecordInterruption, Throws, Consumed, TerminalConsumed, StopConsuming,
     EventPcs
<1>4. UNCHANGED <<cmd, toRecover, latest>>
  BY DEF EventStep, StreamEnds, Checkpoint, SaveCheckpoint, Notify, RequestPermission, RunCompleted,
     CollectOutcome, Submit, RecordVerification, RequestReview, DriverEnded, RecordFailure,
     InterruptAfterError, RecordInterruption, process, notes
<1> QED BY <1>1, <1>3, <1>4 DEF Typed, RecoversFirst

LEMMA CleanupsAreTyped ==
  ASSUME Typed, RecoversFirst, NEW r \in Runs, CleanupStep(r)
  PROVE  Typed' /\ RecoversFirst'
<1>1. DOMAIN snap' = Threads
  BY SnapshotsStay DEF CleanupStep, InspectTargets, CleanupClosesDriver, EventsDrained, ReleaseLease,
     Audit
<1>2. UNCHANGED <<ev, toRecover, latest>>
  BY DEF CleanupStep, InspectTargets, CleanupClosesDriver, EventsDrained, ReleaseLease, Audit,
     process, notes
<1>3. UNCHANGED cmd \/ CleanupEnds(r, "ensure") \/ CleanupEnds(r, "failed")
  BY DEF CleanupStep, InspectTargets, CleanupClosesDriver, EventsDrained, ReleaseLease, Audit
<1> QED BY <1>1, <1>2, <1>3, CleanupGoes DEF Typed, RecoversFirst

LEMMA OthersAreTyped ==
  ASSUME Typed, RecoversFirst,
         \/ \E r \in Runs : DriverStep(r) \/ RecoveryStep(r)
         \/ RepeatComplete \/ OtherTaskCommits \/ LeaseExpires \/ CrashAndRestart
         \/ UNCHANGED vars
  PROVE  Typed' /\ RecoversFirst'
<1>1. ASSUME NEW r \in Runs, DriverStep(r) PROVE Typed' /\ RecoversFirst'
  BY <1>1 DEF DriverStep, DriverProgresses, DriverAsks, DriverCompletes, DriverFails, DriverExits,
     Outside, process, notes, Typed, RecoversFirst
<1>2. ASSUME NEW r \in Runs, RecoveryStep(r) PROVE Typed' /\ RecoversFirst'
  <2>1. DOMAIN snap' = Threads
    BY <1>2, SnapshotsStay DEF RecoveryStep, Resume, InterruptRecovery
  <2>2. toRecover' \subseteq toRecover /\ UNCHANGED <<cmd, latest>> /\ toRecover # {}
    BY <1>2 DEF RecoveryStep, Resume, InterruptRecovery, notes
  <2>3. ev' \in [Runs -> EventPcs]
    BY <1>2 DEF RecoveryStep, Resume, InterruptRecovery, Consume, Typed, EventPcs
  <2> QED BY <2>1, <2>2, <2>3 DEF Typed, RecoversFirst
<1>3. CASE RepeatComplete \/ LeaseExpires \/ UNCHANGED vars
  BY <1>3 DEF RepeatComplete, LeaseExpires, Outside, vars, process, notes, Typed, RecoversFirst
<1>4. CASE OtherTaskCommits
  BY <1>4 DEF OtherTaskCommits, process, notes, Typed, RecoversFirst
<1>5. CASE CrashAndRestart
  BY <1>5, IdleIsRequest DEF CrashAndRestart, notes, Typed, RecoversFirst, EventPcs
<1> QED BY <1>1, <1>2, <1>3, <1>4, <1>5

LEMMA TypedStep ==
  ASSUME Typed, RecoversFirst, [Next]_vars
  PROVE  Typed' /\ RecoversFirst'
  BY RequestsAreTyped, CommandsAreTyped, EventsAreTyped, CleanupsAreTyped, OthersAreTyped DEF Next

(***************************************************************************)
(* What drivers send.                                                      *)
(***************************************************************************)
Kinds  == {"progress", "permission"}
Sendable == [type : Kinds \cup {"completed", "failed", "cancelled"}, n : Nat]

Places(h, type) == {i \in DOMAIN h : h[i] = type}
SentIn(h, type) == Cardinality(Places(h, type))

\* A history with room for more progress events, of which there are few.
Bounded(h, more) == /\ SentIn(h, "progress") + more <= MaxProgress + crashes
                    /\ SentIn(h, "permission") <= MaxPermissions

StreamsTyped == /\ history \in [Runs -> Seq(Kinds)]
                /\ queue \in [Runs -> Seq(Sendable)]
                /\ asks \in [Runs -> SUBSET Nat]
                /\ checkpoint \in [Runs -> [history : Seq(Kinds), saved : SUBSET Nat]]
                /\ driver \in [Runs -> {"none", "working", "finished", "failed", "cancelled",
                                        "exited"}]
                /\ crashes \in 0..MaxCrashes

\* Events are numbered by the history of their driver, which goes on from the
\* checkpoint; the consumer works on the one at the head of the queue.
StreamHolds(r) ==
  /\ Bounded(history[r], 0)
  /\ Bounded(checkpoint[r].history, IF r \in toRecover THEN 1 ELSE 0)
  /\ checkpoint[r].saved \subseteq DOMAIN checkpoint[r].history
  /\ asks[r] \subseteq DOMAIN history[r]
  /\ \A i \in DOMAIN queue[r] :
       queue[r][i].type \in Kinds => queue[r][i].n \in DOMAIN history[r]
  /\ ev[r] \notin {"none", "next", "threw", "interrupt"} => queue[r] # <<>>
  /\ ev[r] \in {"export", "notify", "ask"} => Event(r).type \in Kinds
  /\ ev[r] = "ask" => Event(r).type = "permission"
  /\ ev[r] = "none" => queue[r] = <<>>
  /\ ev[r] # "none" => Len(checkpoint[r].history) <= Len(history[r])
  /\ run[r] \in {"absent", "created"} => ev[r] = "none" /\ checkpoint[r].history = <<>>
  /\ r \in toRecover => ev[r] = "none" /\ asks[r] = {} /\ driver[r] = "none"

StreamsHold == StreamsTyped /\ \A r \in Runs : StreamHolds(r)

\* How often each kind occurs in a history.
LEMMA KindsAreFinite ==
  ASSUME NEW h \in Seq(Kinds), NEW type
  PROVE  /\ IsFiniteSet(Places(h, type))
         /\ SentIn(h, type) \in Nat
<1>1. DOMAIN h = 1..Len(h) /\ Len(h) \in Int /\ Places(h, type) \in SUBSET (DOMAIN h)
  BY DEF Places
<1>2. IsFiniteSet(DOMAIN h)
  BY <1>1, FS_Interval
<1> QED BY <1>1, <1>2, FS_Subset, FS_CardinalityType DEF SentIn

\* A history is as long as its kinds are many.
LEMMA KindsAddUp ==
  ASSUME NEW h \in Seq(Kinds)
  PROVE  Len(h) = SentIn(h, "progress") + SentIn(h, "permission")
<1> DEFINE P == Places(h, "progress")
           Q == Places(h, "permission")
<1>1. P \cup Q = 1..Len(h) /\ P \cap Q = {} /\ Len(h) \in Nat
  BY DEF Kinds, Places
<1>2. IsFiniteSet(P) /\ IsFiniteSet(Q) /\ Cardinality(P) \in Nat /\ Cardinality(Q) \in Nat
  BY KindsAreFinite DEF SentIn
<1>3. Cardinality(1..Len(h)) = Len(h)
  <2>1. \A n \in Nat : Cardinality(1..n) = IF 1 > n THEN 0 ELSE n - 1 + 1
    BY FS_Interval
  <2>2. \A n \in Nat : Cardinality(1..n) = n
    BY <2>1
  <2> QED BY <1>1, <2>2
<1>4. Cardinality(P \cup Q) = Cardinality(P) + Cardinality(Q) - Cardinality(P \cap Q)
  BY <1>2, FS_Union
<1>5. Len(h) = Cardinality(P) + Cardinality(Q)
  <2> HIDE DEF P, Q
  <2>1. Cardinality(P \cup Q) = Len(h) /\ Cardinality(P \cap Q) = 0
    BY <1>1, <1>3, FS_EmptySet
  <2>2. \A a, b \in Nat : a + b - 0 = a + b
    OBVIOUS
  <2> QED BY <1>2, <1>4, <2>1, <2>2
<1> QED BY <1>5 DEF SentIn

LEMMA OneMoreKind ==
  ASSUME NEW h \in Seq(Kinds), NEW type \in Kinds, NEW other \in Kinds
  PROVE  /\ Append(h, type) \in Seq(Kinds)
         /\ SentIn(Append(h, type), other) = IF other = type THEN SentIn(h, other) + 1
                                                             ELSE SentIn(h, other)
<1> DEFINE g == Append(h, type)
           P == Places(h, other)
           Q == Places(g, other)
           last == Len(h) + 1
<1>1. /\ g \in Seq(Kinds) /\ Len(h) \in Nat /\ DOMAIN h = 1..Len(h) /\ DOMAIN g = 1..last
      /\ \A i \in DOMAIN h : g[i] = h[i]
      /\ g[last] = type
  OBVIOUS
<1>2. IsFiniteSet(P) /\ Cardinality(P) \in Nat
  BY KindsAreFinite DEF SentIn
<1>5. last \notin P
  BY <1>1 DEF Places
<1>3. CASE other = type
  <2>1. Q = P \cup {last}
    BY <1>1, <1>3 DEF Places
  <2> QED BY <1>1, <1>2, <1>3, <1>5, <2>1, FS_AddElement DEF SentIn
<1>4. CASE other # type
  <2>1. Q = P
    BY <1>1, <1>4 DEF Places
  <2> QED BY <1>1, <1>4, <2>1 DEF SentIn
<1> QED BY <1>3, <1>4

\* So the numbers of the events stay within the bound.
LEMMA HistoriesAreShort ==
  ASSUME StreamsHold, NEW r \in Runs
  PROVE  DOMAIN history[r] \subseteq 1..LastEvent
<1>1. history[r] \in Seq(Kinds) /\ Bounded(history[r], 0) /\ crashes \in 0..MaxCrashes
  BY DEF StreamsHold, StreamsTyped, StreamHolds
<1>2. Len(history[r]) = SentIn(history[r], "progress") + SentIn(history[r], "permission")
  BY <1>1, KindsAddUp
<1>3. SentIn(history[r], "progress") \in Nat /\ SentIn(history[r], "permission") \in Nat
  BY <1>1, KindsAreFinite
<1>4. Len(history[r]) <= LastEvent
  <2> DEFINE p == SentIn(history[r], "progress")
             q == SentIn(history[r], "permission")
  <2>1. p + 0 <= MaxProgress + crashes /\ q <= MaxPermissions
    BY <1>1 DEF Bounded
  <2> HIDE DEF p, q
  <2> QED BY <1>1, <1>2, <1>3, <2>1, BoundsAssumption DEF LastEvent, p, q
<1> QED BY <1>1, <1>4, BoundsAssumption DEF LastEvent

LEMMA ApprovalWritesAreCounted == ASSUME NEW r \in Runs PROVE ApprovalWrites(r) \in Nat
<1> DEFINE P == {n \in 1..LastEvent : approval[<<r, n>>] # "absent"}
           Q == {n \in 1..LastEvent : approval[<<r, n>>] = "approved"}
<1>1. IsFiniteSet(1..LastEvent)
  BY BoundsAssumption, FS_Interval DEF LastEvent
<1>2. IsFiniteSet(P) /\ IsFiniteSet(Q)
  BY <1>1, FS_Subset
<1> QED BY <1>2, FS_CardinalityType DEF ApprovalWrites

\* No record of a run is removed, and none is created but for an absent one.
RunsStay == \A r \in Runs : run'[r] \in {"absent", "created"} => run[r] \in {"absent", "created"}

\* The streams of run s, if nothing is sent or consumed there but a report of its end.
LEMMA StreamStays ==
  ASSUME StreamsHold, RunsStay, NEW s \in Runs,
         history'[s] = history[s], checkpoint'[s] = checkpoint[s], ev'[s] = ev[s],
         asks'[s] \subseteq asks[s], UNCHANGED crashes,
         s \in toRecover' => s \in toRecover /\ driver'[s] \in {"none", driver[s]},
         \/ queue'[s] = queue[s]
         \/ /\ ev[s] # "none"
            /\ \E e \in Sendable : e.type \notin Kinds /\ queue'[s] = Append(queue[s], e)
  PROVE  StreamHolds(s)'
<1> DEFINE h == checkpoint[s].history
<1>1. StreamHolds(s) /\ queue[s] \in Seq(Sendable) /\ h \in Seq(Kinds)
  BY DEF StreamsHold, StreamsTyped
<1>2. SentIn(h, "progress") \in Nat
  BY <1>1, KindsAreFinite
<1>3. Bounded(history[s], 0)' /\ Bounded(h, IF s \in toRecover THEN 1 ELSE 0)
  BY <1>1 DEF StreamHolds, Bounded
<1>4. Bounded(checkpoint[s].history, IF s \in toRecover THEN 1 ELSE 0)'
  <2> DEFINE p == SentIn(h, "progress")
             b == MaxProgress + crashes
  <2>1. b \in Int
    BY BoundsAssumption DEF StreamsHold, StreamsTyped, b
  <2>2. p + (IF s \in toRecover THEN 1 ELSE 0) <= b
    BY <1>3 DEF Bounded
  <2>3. p \in Nat
    BY <1>2
  <2>4. p + (IF s \in toRecover' THEN 1 ELSE 0) <= b
    <3> HIDE DEF p, b
    <3> QED BY <2>1, <2>2, <2>3
  <2> QED BY <1>3, <2>4 DEF Bounded
<1> DEFINE Queued ==
             /\ \A i \in DOMAIN queue'[s] :
                  queue'[s][i].type \in Kinds => queue'[s][i].n \in DOMAIN history[s]
             /\ ev[s] = "none" => queue'[s] = <<>>
             /\ queue[s] # <<>> => queue'[s] # <<>> /\ Head(queue'[s]) = Head(queue[s])
<1>5. Queued
  <2>1. CASE queue'[s] = queue[s]
    BY <1>1, <2>1 DEF StreamHolds
  <2>2. ASSUME NEW e \in Sendable, ev[s] # "none", e.type \notin Kinds,
               queue'[s] = Append(queue[s], e)
        PROVE  Queued
    <3>1. /\ DOMAIN queue[s] = 1..Len(queue[s]) /\ DOMAIN queue'[s] = 1..(Len(queue[s]) + 1)
          /\ \A i \in DOMAIN queue[s] : queue'[s][i] = queue[s][i]
          /\ queue'[s][Len(queue[s]) + 1] = e
          /\ Len(queue[s]) \in Nat
      BY <1>1, <2>2
    <3>2. queue[s] # <<>> => queue'[s] # <<>> /\ Head(queue'[s]) = Head(queue[s])
      BY <1>1, <2>2, AppendProperties, HeadTailAppend
    <3>3. \A i \in DOMAIN queue'[s] : i \in DOMAIN queue[s] \/ i = Len(queue[s]) + 1
      BY <3>1
    <3> QED BY <1>1, <2>2, <3>1, <3>2, <3>3 DEF StreamHolds
  <2> QED BY <2>1, <2>2
<1> QED BY <1>1, <1>3, <1>4, <1>5 DEF StreamHolds, RunsStay, Event

\* Nothing is sent but reports of ends, and questions are only withdrawn or answered.
OnlyEnds == /\ UNCHANGED <<history, checkpoint, crashes>>
            /\ StreamsTyped'
            /\ \A s \in Runs :
                 /\ asks'[s] \subseteq asks[s]
                 /\ \/ queue'[s] = queue[s]
                    \/ /\ ev[s] # "none"
                       /\ \E e \in Sendable : e.type \notin Kinds /\ queue'[s] = Append(queue[s], e)

LEMMA EndsAreSent ==
  ASSUME StreamsTyped, NEW r \in Runs, NEW n \in Nat, NEW type \in {"completed", "failed", "cancelled"},
         Sends(r, type, n)
  PROVE  /\ queue' \in [Runs -> Seq(Sendable)]
         /\ \A s \in Runs :
              \/ queue'[s] = queue[s]
              \/ /\ ev[s] # "none"
                 /\ \E e \in Sendable : e.type \notin Kinds /\ queue'[s] = Append(queue[s], e)
<1> DEFINE e == [type |-> type, n |-> n]
<1>1. e \in Sendable /\ e.type \notin Kinds
  BY DEF Sendable, Kinds
<1>2. queue' = [queue EXCEPT ![r] = IF ev[r] = "none" THEN queue[r] ELSE Append(queue[r], e)]
  BY DEF Sends
<1> HIDE DEF e
<1>3. \A s \in Runs : queue[s] \in Seq(Sendable)
  BY DEF StreamsTyped
<1>4. Append(queue[r], e) \in Seq(Sendable)
  BY <1>1, <1>3
<1> QED BY <1>1, <1>2, <1>3, <1>4 DEF StreamsTyped

\* Answering, cancelling and closing a driver.
LEMMA DriversAreStopped ==
  ASSUME StreamsTyped, NEW r \in Runs, UNCHANGED <<history, checkpoint, crashes>>,
         \/ DriverCancels(r) \/ DriverCancelFails(r)
         \/ CloseDriver(r) /\ UNCHANGED queue
         \/ UNCHANGED <<driver, queue>> /\ \E n \in Nat : asks' = [asks EXCEPT ![r] = @ \ {n}]
  PROVE  OnlyEnds
<1>1. ApprovalWrites(r) \in Nat
  BY ApprovalWritesAreCounted
<1>2. ASSUME NEW type \in {"completed", "failed", "cancelled"}, SendsEnd(r, type)
      PROVE  /\ queue' \in [Runs -> Seq(Sendable)]
             /\ \A s \in Runs :
                  \/ queue'[s] = queue[s]
                  \/ /\ ev[s] # "none"
                     /\ \E e \in Sendable : e.type \notin Kinds /\ queue'[s] = Append(queue[s], e)
  BY <1>1, <1>2, EndsAreSent DEF SendsEnd
<1>3. /\ asks' \in [Runs -> SUBSET Nat] /\ \A s \in Runs : asks'[s] \subseteq asks[s]
      /\ driver' \in [Runs -> {"none", "working", "finished", "failed", "cancelled", "exited"}]
  BY DEF StreamsTyped, DriverCancels, DriverCancelFails, CloseDriver
<1>4. UNCHANGED queue \/ SendsEnd(r, "cancelled") \/ SendsEnd(r, "failed")
  BY DEF DriverCancels, DriverCancelFails
<1> QED BY <1>2, <1>3, <1>4 DEF OnlyEnds, StreamsTyped

LEMMA OnlyEndsIsHarmless ==
  ASSUME StreamsHold, RunsStay, OnlyEnds, UNCHANGED ev,
         toRecover' \subseteq toRecover,
         \A s \in toRecover' : driver'[s] \in {"none", driver[s]}
  PROVE  StreamsHold'
<1>1. \A s \in Runs : StreamHolds(s)'
  BY StreamStays DEF OnlyEnds
<1> QED BY <1>1 DEF StreamsHold, OnlyEnds

LEMMA CommandsKeepStreams ==
  ASSUME StreamsHold, Typed, RecoversFirst, RunsStay, DOMAIN run = Runs, NEW c \in Commands,
         CommandStep(c)
  PROVE  StreamsHold'
<1>0. StreamsTyped
  BY DEF StreamsHold
<1>1. cmd[c] \in Requests
  BY DEF Typed
<1>2. CASE UNCHANGED <<checkpoint, drivers, crashes, ev, toRecover>>
  <2>1. OnlyEnds
    BY <1>0, <1>2 DEF OnlyEnds, drivers, StreamsTyped
  <2> QED BY <1>2, <2>1, OnlyEndsIsHarmless DEF drivers
<1>3. ASSUME NEW r \in Runs, UNCHANGED <<history, checkpoint, crashes, ev, toRecover>>, toRecover = {},
             \/ DriverCancels(r) \/ DriverCancelFails(r)
             \/ CloseDriver(r) /\ UNCHANGED queue
             \/ UNCHANGED <<driver, queue>> /\ \E n \in Nat : asks' = [asks EXCEPT ![r] = @ \ {n}]
      PROVE  StreamsHold'
  <2>1. OnlyEnds
    BY <1>0, <1>3, DriversAreStopped
  <2> QED BY <1>3, <2>1, OnlyEndsIsHarmless
<1>4. cmd[c].pc # "idle" => toRecover = {}
  BY DEF RecoversFirst, Idle
<1>5. CASE Respond(c)
  <2>1. cmd[c].run \in Runs /\ cmd[c].n \in Nat /\ toRecover = {}
    BY <1>1, <1>4, <1>5, BoundsAssumption DEF Respond, At, Requests, RequestRecords, LastEvent
  <2>2. /\ UNCHANGED <<history, checkpoint, crashes, ev, toRecover, driver, queue>>
        /\ UNCHANGED asks \/ asks' = [asks EXCEPT ![cmd[c].run] = @ \ {cmd[c].n}]
    BY <1>5 DEF Respond, notes, process
  <2>3. CASE UNCHANGED asks
    BY <1>2, <2>2, <2>3 DEF drivers
  <2>4. CASE asks' = [asks EXCEPT ![cmd[c].run] = @ \ {cmd[c].n}]
    BY <1>3, <2>1, <2>2, <2>4
  <2> QED BY <2>2, <2>3, <2>4
<1>6. CASE RejectCancel(c)
  <2>1. cmd[c].run \in Runs /\ toRecover = {}
    BY <1>1, <1>4, <1>6 DEF RejectCancel, At, Requests, RequestRecords
  <2>2. /\ UNCHANGED <<history, checkpoint, crashes, ev, toRecover>>
        /\ DriverCancels(cmd[c].run) \/ DriverCancelFails(cmd[c].run)
    BY <1>6 DEF RejectCancel, notes, process
  <2> QED BY <1>3, <2>1, <2>2
<1>7. CASE CancelRpc(c)
  <2>1. cmd[c].run \in Runs /\ toRecover = {}
    BY <1>1, <1>4, <1>7 DEF CancelRpc, At, Requests, RequestRecords
  <2>2. /\ UNCHANGED <<history, checkpoint, crashes, ev, toRecover>>
        /\ DriverCancels(cmd[c].run) \/ DriverCancelFails(cmd[c].run)
    BY <1>7 DEF CancelRpc, notes, process
  <2> QED BY <1>3, <2>1, <2>2
<1>8. CASE RejectClosing(c)
  <2>1. cmd[c].run \in Runs /\ toRecover = {}
    BY <1>1, <1>4, <1>8 DEF RejectClosing, At, Requests, RequestRecords
  <2>2. /\ UNCHANGED <<history, checkpoint, crashes, ev, toRecover, queue>>
        /\ CloseDriver(cmd[c].run)
    BY <1>8 DEF RejectClosing, notes, process
  <2> QED BY <1>3, <2>1, <2>2
<1>9. CASE DriverStarted(c) /\ ~UNCHANGED <<ev, driver>>
  <2>0. PICK r \in Runs : r = cmd[c].run
    BY <1>1, <1>9 DEF DriverStarted, At, Requests, RequestRecords
  <2>1. /\ toRecover = {} /\ run[r] = "created" /\ run'[r] = "running"
        /\ ev' = [ev EXCEPT ![r] = "next"] /\ driver' = [driver EXCEPT ![r] = "working"]
        /\ UNCHANGED <<asks, queue, history, checkpoint, crashes, toRecover>>
    BY <1>4, <1>9, <2>0 DEF DriverStarted, At, notes, process, RunGoes, L!RunGoes
  <2>2. \A s \in Runs \ {r} : ev'[s] = ev[s]
    BY <2>1 DEF Typed
  <2>3. \A s \in Runs \ {r} : StreamHolds(s)'
    BY <2>1, <2>2, StreamStays
  <2>4. StreamHolds(r) /\ checkpoint[r].history = <<>> /\ ev'[r] = "next"
    BY <2>1 DEF StreamsHold, StreamHolds, Typed
  <2>5. Len(checkpoint[r].history) <= Len(history[r])
    BY <1>0, <2>1, <2>4 DEF StreamsTyped
  <2>6. Bounded(history[r], 0)' /\ Bounded(checkpoint[r].history, IF r \in toRecover THEN 1 ELSE 0)'
    BY <2>1, <2>4 DEF StreamHolds, Bounded
  <2>7. StreamHolds(r)'
    BY <2>1, <2>4, <2>5, <2>6 DEF StreamHolds, RunsStay
  <2>8. StreamsTyped'
    BY <1>0, <2>1 DEF StreamsTyped
  <2> QED BY <2>3, <2>7, <2>8 DEF StreamsHold
<1>10. CASE DriverStarted(c) /\ UNCHANGED <<ev, driver>>
  BY <1>2, <1>10 DEF DriverStarted, notes, process, drivers
<1>11. CASE \/ Enqueue(c) \/ StartRun(c) \/ Launch(c) \/ Ensure(c) \/ Select(c) \/ AskFallback(c)
            \/ CreateRun(c) \/ Abort(c) \/ Reconcile(c) \/ Release(c) \/ LaunchFailed(c)
            \/ FailTask(c)
  <2>1. UNCHANGED <<checkpoint, drivers, crashes, ev, toRecover>>
    BY <1>11 DEF Enqueue, StartRun, Launch, Ensure, Select, AskFallback, CreateRun, Abort, Reconcile,
       Release, LaunchFailed, FailTask, Conflict, notes, process
  <2> QED BY <1>2, <2>1
<1>12. CASE \/ DecideFallback(c) \/ Decide(c) \/ RejectClose(c) \/ RejectClosed(c) \/ Deliver(c)
            \/ MarkDelivered(c) \/ RequestCancel(c) \/ CheckCancelled(c) \/ ConfirmCancel(c)
            \/ PrepareRetryContext(c) \/ Requeue(c) \/ ConfirmCleanup(c) \/ ApproveReview(c)
            \/ Complete(c)
  <2>1. UNCHANGED <<checkpoint, drivers, crashes, ev, toRecover>>
    BY <1>12 DEF DecideFallback, Decide, RejectClose, RejectClosed, Deliver, MarkDelivered,
       RequestCancel, CheckCancelled, ConfirmCancel, PrepareRetryContext, Requeue, ConfirmCleanup,
       ApproveReview, Complete, Conflict, notes, process
  <2> QED BY <1>2, <2>1
<1> QED
  BY <1>5, <1>6, <1>7, <1>8, <1>9, <1>10, <1>11, <1>12 DEF CommandStep, LaunchStep, DecideStep

\* The consumer of r goes on at pc, with the same event, the next or no other.
LEMMA ConsumerGoes ==
  ASSUME StreamsHold, Typed, RunsStay, NEW r \in Runs, NEW pc \in EventPcs, Consume(r, pc),
         UNCHANGED <<history, asks, driver, crashes, checkpoint, toRecover>>, ev[r] # "none",
         \/ /\ UNCHANGED queue
            /\ pc \notin {"next", "threw", "interrupt"} => queue[r] # <<>>
            /\ pc # "none"
            /\ pc \in {"export", "notify", "ask"} => Event(r).type \in Kinds
            /\ pc = "ask" => Event(r).type = "permission"
         \/ /\ queue[r] # <<>> /\ pc = "next"
            /\ queue' = [queue EXCEPT ![r] = Tail(@)]
         \/ /\ pc = "none"
            /\ queue' = [queue EXCEPT ![r] = <<>>]
  PROVE  StreamsHold'
<1>0. StreamsTyped /\ StreamHolds(r) /\ queue[r] \in Seq(Sendable)
  BY DEF StreamsHold, StreamsTyped
<1>1. ev'[r] = pc /\ \A s \in Runs \ {r} : ev'[s] = ev[s]
  BY DEF Consume, Typed
<1>2. \A s \in Runs \ {r} : queue'[s] = queue[s]
  BY <1>0 DEF StreamsTyped
<1>3. \A s \in Runs \ {r} : StreamHolds(s)'
  BY <1>1, <1>2, StreamStays
<1>4. /\ Bounded(history[r], 0)'
      /\ Bounded(checkpoint[r].history, IF r \in toRecover THEN 1 ELSE 0)'
  BY <1>0 DEF StreamHolds, Bounded
<1> DEFINE Rest == /\ queue'[r] \in Seq(Sendable)
                   /\ \A i \in DOMAIN queue'[r] :
                        queue'[r][i].type \in Kinds => queue'[r][i].n \in DOMAIN history[r]
                   /\ pc \notin {"none", "next", "threw", "interrupt"} => queue'[r] # <<>>
                   /\ pc \in {"export", "notify", "ask"} => Head(queue'[r]).type \in Kinds
                   /\ pc = "ask" => Head(queue'[r]).type = "permission"
                   /\ pc = "none" => queue'[r] = <<>>
<1>5. Rest
  <2>1. CASE UNCHANGED queue /\ pc # "none"
    BY <1>0, <2>1 DEF StreamHolds, Event
  <2>2. CASE queue[r] # <<>> /\ pc = "next" /\ queue' = [queue EXCEPT ![r] = Tail(@)]
    <3>0. \A q \in Seq(Sendable) :
            q # <<>> => /\ Tail(q) \in Seq(Sendable) /\ Len(Tail(q)) = Len(q) - 1
                        /\ \A i \in 1..Len(Tail(q)) : Tail(q)[i] = q[i + 1]
      BY HeadTailProperties
    <3>1. queue'[r] = Tail(queue[r])
      BY <1>0, <2>2 DEF StreamsTyped
    <3>2. /\ queue'[r] \in Seq(Sendable)
          /\ Len(queue'[r]) = Len(queue[r]) - 1
          /\ \A i \in 1..Len(queue'[r]) : queue'[r][i] = queue[r][i + 1]
      BY <1>0, <2>2, <3>0, <3>1
    <3>3. DOMAIN queue'[r] = 1..Len(queue'[r]) /\ DOMAIN queue[r] = 1..Len(queue[r])
          /\ Len(queue[r]) \in Nat
      BY <1>0, <3>2
    <3>4. \A i \in DOMAIN queue'[r] : i + 1 \in DOMAIN queue[r] /\ queue'[r][i] = queue[r][i + 1]
      BY <3>2, <3>3
    <3> QED BY <1>0, <2>2, <3>2, <3>4 DEF StreamHolds
  <2>3. CASE pc = "none" /\ queue' = [queue EXCEPT ![r] = <<>>]
    <3>1. queue'[r] = <<>> /\ <<>> \in Seq(Sendable) /\ DOMAIN <<>> = {}
      BY <1>0, <2>3 DEF StreamsTyped
    <3> QED BY <2>3, <3>1
  <2> QED BY <2>1, <2>2, <2>3
<1>6. StreamHolds(r)'
  BY <1>0, <1>1, <1>4, <1>5 DEF StreamHolds, RunsStay, Event
<1>7. queue' \in [Runs -> Seq(Sendable)]
  <2>1. DOMAIN queue' = Runs /\ \A s \in Runs : queue'[s] \in Seq(Sendable)
    BY <1>0, <1>2, <1>5 DEF StreamsTyped
  <2>2. UNCHANGED queue \/ queue' = [queue EXCEPT ![r] = Tail(@)] \/ queue' = [queue EXCEPT ![r] = <<>>]
    OBVIOUS
  <2> QED BY <1>0, <2>1, <2>2 DEF StreamsTyped
<1> QED BY <1>0, <1>3, <1>6, <1>7 DEF StreamsHold, StreamsTyped

LEMMA SavedKeepsStreams ==
  ASSUME StreamsHold, Typed, RunsStay, NEW r \in Runs, SaveCheckpoint(r)
  PROVE  StreamsHold'
<1>0. /\ StreamsTyped /\ StreamHolds(r) /\ ev[r] = "export"
      /\ UNCHANGED <<history, asks, driver, crashes, toRecover>>
  BY DEF StreamsHold, SaveCheckpoint, process
<1>1. CASE UNCHANGED checkpoint
  <2>1. UNCHANGED queue /\ (Consume(r, "notify") \/ Consume(r, "threw"))
    BY <1>0, <1>1 DEF SaveCheckpoint, Throws
  <2>2. queue[r] # <<>> /\ Event(r).type \in Kinds
    BY <1>0 DEF StreamHolds
  <2> QED BY <1>0, <1>1, <2>1, <2>2, ConsumerGoes DEF EventPcs
<1>2. ASSUME driver[r] = "working", ev' = [ev EXCEPT ![r] = "notify"], UNCHANGED queue,
             checkpoint' = [checkpoint EXCEPT ![r] = [history |-> history[r],
                                                      saved   |-> @.saved \cup {Event(r).n}]]
      PROVE  StreamsHold'
  <2>1. ev'[r] = "notify" /\ \A s \in Runs \ {r} : ev'[s] = ev[s]
    BY <1>2 DEF Typed
  <2>2. checkpoint'[r].history = history[r] /\ checkpoint'[r].saved = checkpoint[r].saved \cup {Event(r).n}
    BY <1>0, <1>2 DEF StreamsTyped
  <2>3. \A s \in Runs \ {r} : checkpoint'[s] = checkpoint[s]
    BY <1>0, <1>2 DEF StreamsTyped
  <2>4. \A s \in Runs \ {r} : StreamHolds(s)'
    BY <1>0, <1>2, <2>1, <2>3, StreamStays
  <2>5. r \notin toRecover
    BY <1>0 DEF StreamHolds
  <2>6. queue[r] \in Seq(Sendable) /\ queue[r] # <<>> /\ Event(r).type \in Kinds
    BY <1>0 DEF StreamHolds, StreamsTyped
  <2>7. Event(r).n \in DOMAIN history[r]
    <3>1. 1 \in DOMAIN queue[r] /\ Event(r) = queue[r][1]
      BY <2>6 DEF Event
    <3> QED BY <1>0, <2>6, <3>1 DEF StreamHolds
  <2>8. history[r] \in Seq(Kinds) /\ DOMAIN history[r] = 1..Len(history[r]) /\ Len(history[r]) \in Nat
    BY <1>0 DEF StreamsTyped
  <2>9. DOMAIN checkpoint[r].history \subseteq DOMAIN history[r]
    <3>1. checkpoint[r].history \in Seq(Kinds) /\ Len(checkpoint[r].history) <= Len(history[r])
      BY <1>0 DEF StreamsTyped, StreamHolds
    <3> QED BY <2>8, <3>1
  <2>10. StreamsTyped'
    <3> DEFINE cp == [history |-> history[r], saved |-> checkpoint[r].saved \cup {Event(r).n}]
    <3>1. cp \in [history : Seq(Kinds), saved : SUBSET Nat]
      BY <1>0, <2>7, <2>8 DEF StreamsTyped
    <3>2. checkpoint' = [checkpoint EXCEPT ![r] = cp]
      BY <1>0, <1>2 DEF StreamsTyped
    <3> HIDE DEF cp
    <3> QED BY <1>0, <1>2, <3>1, <3>2 DEF StreamsTyped
  <2>11. /\ Bounded(history[r], 0)'
         /\ Bounded(checkpoint[r].history, IF r \in toRecover THEN 1 ELSE 0)'
    BY <1>0, <2>2, <2>5 DEF StreamHolds, Bounded
  <2>12. ~(run'[r] \in {"absent", "created"})
    BY <1>0 DEF StreamHolds, RunsStay
  <2>13. StreamHolds(r)'
    BY <1>0, <1>2, <2>1, <2>2, <2>5, <2>6, <2>7, <2>8, <2>9, <2>11, <2>12 DEF StreamHolds, Event
  <2> QED BY <2>4, <2>10, <2>13 DEF StreamsHold
<1> QED BY <1>0, <1>1, <1>2 DEF SaveCheckpoint, Consume

LEMMA EventsKeepStreams ==
  ASSUME StreamsHold, Typed, RunsStay, NEW r \in Runs, EventStep(r)
  PROVE  StreamsHold'
<1>0. /\ StreamHolds(r)
      /\ ev[r] \notin {"none", "next", "threw", "interrupt"} => queue[r] # <<>>
      /\ ev[r] \in {"export", "notify", "ask"} => Event(r).type \in Kinds
  BY DEF StreamsHold, StreamHolds
<1> DEFINE Frame == UNCHANGED <<history, asks, driver, crashes, checkpoint, toRecover>> /\ ev[r] # "none"
<1>1. \A pc \in EventPcs \ {"none", "ask"} :
        /\ Frame /\ Consume(r, pc) /\ UNCHANGED queue
        /\ pc \notin {"next", "threw", "interrupt"} => queue[r] # <<>>
        /\ pc \in {"export", "notify"} => Event(r).type \in Kinds
        => StreamsHold'
  BY ConsumerGoes
<1>2. Frame /\ Consumed(r) /\ queue[r] # <<>> => StreamsHold'
  BY ConsumerGoes DEF Consumed, EventPcs
<1>3. Frame /\ StopConsuming(r) => StreamsHold'
  BY ConsumerGoes DEF StopConsuming, EventPcs
<1>4. Frame /\ Throws(r) => StreamsHold'
  BY <1>1 DEF Throws, EventPcs
<1>5. CASE StreamEnds(r)
  <2>1. Frame /\ Consume(r, "none") /\ UNCHANGED queue /\ queue[r] = <<>>
    BY <1>5 DEF StreamEnds, notes, drivers, process
  <2>2. queue' = [queue EXCEPT ![r] = <<>>]
    BY <2>1 DEF StreamsHold, StreamsTyped
  <2> QED BY <1>3, <2>1, <2>2 DEF StopConsuming
<1>6. CASE Checkpoint(r)
  <2>1. /\ Frame /\ UNCHANGED queue /\ queue[r] # <<>> /\ Event(r).type \in Kinds
        /\ Consume(r, "export") \/ Consume(r, "notify")
    BY <1>6 DEF Checkpoint, EventIs, Kinds, notes, drivers, process
  <2> QED BY <1>1, <2>1 DEF EventPcs
<1>7. CASE Notify(r)
  <2>1. Frame /\ queue[r] # <<>> /\ Event(r).type \in Kinds
    BY <1>0, <1>7 DEF Notify, notes, process
  <2>2. \/ Consume(r, "ask") /\ UNCHANGED queue /\ Event(r).type = "permission"
        \/ Consumed(r)
    BY <1>7 DEF Notify
  <2>3. CASE Consume(r, "ask") /\ UNCHANGED queue /\ Event(r).type = "permission"
    BY <2>1, <2>3, ConsumerGoes DEF EventPcs
  <2> QED BY <1>2, <2>1, <2>2, <2>3
<1>8. CASE RequestPermission(r)
  <2>1. Frame /\ queue[r] # <<>> /\ (Consumed(r) \/ Throws(r))
    BY <1>0, <1>8 DEF RequestPermission, notes, process
  <2> QED BY <1>2, <1>4, <2>1
<1>9. CASE RunCompleted(r)
  <2>1. Frame /\ queue[r] # <<>> /\ (Consumed(r) \/ (Consume(r, "collect") /\ UNCHANGED queue))
    BY <1>9 DEF RunCompleted, EventIs, TerminalConsumed, notes, process
  <2> QED BY <1>1, <1>2, <2>1 DEF EventPcs
<1>10. CASE CollectOutcome(r)
  <2>1. Frame /\ queue[r] # <<>> /\ (Throws(r) \/ (Consume(r, "submit") /\ UNCHANGED queue))
    BY <1>0, <1>10 DEF CollectOutcome, notes, process
  <2> QED BY <1>1, <1>4, <2>1 DEF EventPcs
<1>11. CASE Submit(r)
  <2>1. Frame /\ queue[r] # <<>> /\ (Throws(r) \/ (Consume(r, "verify") /\ UNCHANGED queue))
    BY <1>0, <1>11 DEF Submit, notes, process
  <2> QED BY <1>1, <1>4, <2>1 DEF EventPcs
<1>12. CASE RecordVerification(r)
  <2>1. Frame /\ queue[r] # <<>> /\ (Throws(r) \/ (Consume(r, "review") /\ UNCHANGED queue))
    BY <1>0, <1>12 DEF RecordVerification, notes, process
  <2> QED BY <1>1, <1>4, <2>1 DEF EventPcs
<1>13. CASE RequestReview(r)
  <2>1. Frame /\ queue[r] # <<>> /\ (Throws(r) \/ Consumed(r))
    BY <1>0, <1>13 DEF RequestReview, TerminalConsumed, notes, process
  <2> QED BY <1>2, <1>4, <2>1
<1>14. CASE DriverEnded(r)
  <2>1. Frame /\ queue[r] # <<>> /\ (Consumed(r) \/ (Consume(r, "fail") /\ UNCHANGED queue))
    BY <1>14 DEF DriverEnded, EventIs, TerminalConsumed, notes, process
  <2> QED BY <1>1, <1>2, <2>1 DEF EventPcs
<1>15. CASE RecordFailure(r)
  <2>1. Frame /\ queue[r] # <<>> /\ (Throws(r) \/ Consumed(r))
    BY <1>0, <1>15 DEF RecordFailure, TerminalConsumed, notes, process
  <2> QED BY <1>2, <1>4, <2>1
<1>16. CASE InterruptAfterError(r)
  <2>1. Frame /\ (StopConsuming(r) \/ (Consume(r, "interrupt") /\ UNCHANGED queue))
    BY <1>16 DEF InterruptAfterError, notes, process
  <2> QED BY <1>1, <1>3, <2>1 DEF EventPcs
<1>17. CASE RecordInterruption(r)
  <2>1. Frame /\ StopConsuming(r)
    BY <1>17 DEF RecordInterruption, notes, process
  <2> QED BY <1>3, <2>1
<1>18. CASE SaveCheckpoint(r)
  BY <1>18, SavedKeepsStreams
<1> QED
  BY <1>5, <1>6, <1>7, <1>8, <1>9, <1>10, <1>11, <1>12, <1>13, <1>14, <1>15, <1>16, <1>17, <1>18
     DEF EventStep

LEMMA CleanupsKeepStreams ==
  ASSUME StreamsHold, RunsStay, NEW r \in Runs, CleanupStep(r)
  PROVE  StreamsHold'
<1>1. CASE CleanupClosesDriver(r)
  <2>1. UNCHANGED <<history, checkpoint, crashes, queue, ev, toRecover>> /\ CloseDriver(r)
    BY <1>1 DEF CleanupClosesDriver, notes, process
  <2>2. OnlyEnds
    BY <2>1, DriversAreStopped DEF StreamsHold
  <2>3. \A s \in toRecover : driver'[s] \in {"none", driver[s]}
    BY <2>1 DEF CloseDriver
  <2> QED BY <2>1, <2>2, <2>3, OnlyEndsIsHarmless
<1>2. CASE InspectTargets(r) \/ EventsDrained(r) \/ ReleaseLease(r) \/ Audit(r)
  <2>1. UNCHANGED <<drivers, checkpoint, crashes, ev, toRecover>>
    BY <1>2 DEF InspectTargets, EventsDrained, ReleaseLease, Audit, notes, process
  <2>2. OnlyEnds
    BY <2>1 DEF OnlyEnds, drivers, StreamsHold, StreamsTyped
  <2> QED BY <2>1, <2>2, OnlyEndsIsHarmless DEF drivers
<1> QED BY <1>1, <1>2 DEF CleanupStep

\* A working driver sends one more event of its history.
LEMMA DriverSends ==
  ASSUME StreamsHold, RunsStay, NEW r \in Runs, NEW type \in Kinds, SendsNext(r, type),
         driver[r] = "working", SentIn(history[r], type) < IF type = "progress" THEN MaxProgress
                                                                             ELSE MaxPermissions,
         \/ UNCHANGED asks
         \/ asks' = [asks EXCEPT ![r] = @ \cup {Len(history[r]) + 1}],
         UNCHANGED <<checkpoint, driver, crashes, ev, toRecover>>
  PROVE  StreamsHold'
<1> DEFINE h == history[r]
           g == Append(history[r], type)
           e == [type |-> type, n |-> Len(history[r]) + 1]
<1>0. /\ StreamsTyped /\ StreamHolds(r) /\ h \in Seq(Kinds) /\ queue[r] \in Seq(Sendable)
      /\ Len(h) \in Nat /\ DOMAIN h = 1..Len(h) /\ r \notin toRecover
  BY DEF StreamsHold, StreamsTyped, StreamHolds
<1>1. /\ g \in Seq(Kinds) /\ DOMAIN g = 1..(Len(h) + 1) /\ Len(g) = Len(h) + 1
      /\ e \in Sendable
  BY <1>0 DEF Sendable
<1>2. /\ history' = [history EXCEPT ![r] = g]
      /\ queue' = [queue EXCEPT ![r] = IF ev[r] = "none" THEN queue[r] ELSE Append(queue[r], e)]
  BY DEF SendsNext, Sends
<1> HIDE DEF e
<1>3. /\ history' \in [Runs -> Seq(Kinds)] /\ history'[r] = g
      /\ \A s \in Runs \ {r} : history'[s] = history[s]
  BY <1>0, <1>1, <1>2 DEF StreamsTyped
<1>4. /\ queue' \in [Runs -> Seq(Sendable)]
      /\ queue'[r] = IF ev[r] = "none" THEN queue[r] ELSE Append(queue[r], e)
      /\ \A s \in Runs \ {r} : queue'[s] = queue[s]
  <2>1. Append(queue[r], e) \in Seq(Sendable)
    BY <1>0, <1>1
  <2> QED BY <1>0, <1>2, <2>1 DEF StreamsTyped
<1>5. /\ asks' \in [Runs -> SUBSET Nat]
      /\ asks'[r] \subseteq asks[r] \cup {Len(h) + 1}
      /\ \A s \in Runs \ {r} : asks'[s] = asks[s]
  <2>1. PICK n \in Nat : n = Len(h) + 1
    BY <1>0
  <2>2. UNCHANGED asks \/ asks' = [asks EXCEPT ![r] = asks[r] \cup {n}]
    BY <2>1
  <2>3. asks \in [Runs -> SUBSET Nat]
    BY <1>0 DEF StreamsTyped
  <2> HIDE DEF h
  <2> QED BY <2>1, <2>2, <2>3
<1>6. \A s \in Runs \ {r} : StreamHolds(s)'
  BY <1>3, <1>4, <1>5, StreamStays
<1>7. Bounded(g, 0)
  <2>1. Bounded(h, 0) /\ crashes \in Nat
    BY <1>0 DEF StreamHolds, StreamsTyped
  <2>2. /\ SentIn(g, "progress") = IF type = "progress" THEN SentIn(h, "progress") + 1
                                                        ELSE SentIn(h, "progress")
        /\ SentIn(g, "permission") = IF type = "permission" THEN SentIn(h, "permission") + 1
                                                            ELSE SentIn(h, "permission")
    BY <1>0, OneMoreKind DEF Kinds
  <2>3. SentIn(h, "progress") \in Nat /\ SentIn(h, "permission") \in Nat
    BY <1>0, KindsAreFinite
  <2> HIDE DEF h, g
  <2>4. CASE type = "progress"
    <3>1. SentIn(h, "progress") < MaxProgress
      BY <2>4 DEF h
    <3>2. SentIn(g, "progress") + 0 <= MaxProgress + crashes
      BY <2>1, <2>2, <2>3, <2>4, <3>1, BoundsAssumption
    <3> QED BY <2>1, <2>2, <2>4, <3>2 DEF Bounded
  <2>5. CASE type = "permission"
    <3>1. SentIn(h, "permission") < MaxPermissions
      BY <2>5 DEF h
    <3>2. SentIn(g, "permission") <= MaxPermissions
      BY <2>2, <2>3, <2>5, <3>1, BoundsAssumption
    <3> QED BY <2>1, <2>2, <2>5, <3>2 DEF Bounded
  <2> QED BY <2>4, <2>5 DEF Kinds
<1>8. Bounded(history[r], 0)' /\ Bounded(checkpoint[r].history, IF r \in toRecover THEN 1 ELSE 0)'
  BY <1>0, <1>3, <1>7 DEF StreamHolds, Bounded
<1>9. DOMAIN h \subseteq DOMAIN g /\ Len(h) + 1 \in DOMAIN g /\ Len(h) <= Len(g)
  BY <1>0, <1>1
<1>10. /\ \A i \in DOMAIN queue'[r] :
            queue'[r][i].type \in Kinds => queue'[r][i].n \in DOMAIN g
       /\ ev[r] = "none" => queue'[r] = <<>>
       /\ queue[r] # <<>> => queue'[r] # <<>> /\ Head(queue'[r]) = Head(queue[r])
  <2>1. CASE ev[r] = "none"
    BY <1>0, <1>4, <2>1 DEF StreamHolds
  <2>2. CASE ev[r] # "none"
    <3>1. /\ DOMAIN queue[r] = 1..Len(queue[r]) /\ DOMAIN queue'[r] = 1..(Len(queue[r]) + 1)
          /\ \A i \in DOMAIN queue[r] : queue'[r][i] = queue[r][i]
          /\ queue'[r][Len(queue[r]) + 1] = e
          /\ Len(queue[r]) \in Nat
      BY <1>0, <1>1, <1>4, <2>2
    <3>5. queue'[r] = Append(queue[r], e) /\ queue[r] \in Seq(Sendable) /\ e \in Sendable
      BY <1>0, <1>1, <1>4, <2>2
    <3>2. queue[r] # <<>> => queue'[r] # <<>> /\ Head(queue'[r]) = Head(queue[r])
      BY <3>5, AppendProperties, HeadTailAppend
    <3>3. \A i \in DOMAIN queue'[r] : i \in DOMAIN queue[r] \/ i = Len(queue[r]) + 1
      BY <3>1
    <3>4. e.n = Len(h) + 1
      BY DEF e
    <3> QED BY <1>0, <1>9, <2>2, <3>1, <3>2, <3>3, <3>4 DEF StreamHolds
  <2> QED BY <2>1, <2>2
<1>11. ev[r] # "none" => Len(checkpoint[r].history) <= Len(g)
  <2>1. Len(checkpoint[r].history) \in Nat
    BY <1>0 DEF StreamsTyped
  <2> QED BY <1>0, <1>1, <2>1 DEF StreamHolds
<1>12. StreamHolds(r)'
  BY <1>0, <1>3, <1>5, <1>8, <1>9, <1>10, <1>11 DEF StreamHolds, Event, RunsStay
<1> QED BY <1>0, <1>3, <1>4, <1>5, <1>6, <1>12 DEF StreamsHold, StreamsTyped

LEMMA DriversKeepStreams ==
  ASSUME StreamsHold, RunsStay, NEW r \in Runs, DriverStep(r)
  PROVE  StreamsHold'
<1>0. UNCHANGED <<checkpoint, crashes, ev, toRecover>> /\ StreamsTyped
  BY DEF DriverStep, DriverProgresses, DriverAsks, DriverCompletes, DriverFails, DriverExits, Outside,
     notes, process, StreamsHold
<1>1. CASE DriverProgresses(r)
  <2>1. "progress" \in Kinds /\ Sent(r, "progress") = SentIn(history[r], "progress")
    BY DEF Kinds, Sent, SentIn, Places
  <2> QED BY <1>0, <1>1, <2>1, DriverSends DEF DriverProgresses
<1>2. CASE DriverAsks(r)
  <2>1. "permission" \in Kinds /\ Sent(r, "permission") = SentIn(history[r], "permission")
    BY DEF Kinds, Sent, SentIn, Places
  <2> QED BY <1>0, <1>2, <2>1, DriverSends DEF DriverAsks
<1>3. CASE DriverCompletes(r) \/ DriverFails(r) \/ DriverExits(r)
  <2>1. ApprovalWrites(r) \in Nat
    BY ApprovalWritesAreCounted
  <2>2. /\ UNCHANGED history
        /\ UNCHANGED queue \/ Sends(r, "completed", 0) \/ Sends(r, "failed", ApprovalWrites(r))
    BY <1>3 DEF DriverCompletes, DriverFails, DriverExits, SendsEnd
  <2>3. /\ asks' \in [Runs -> SUBSET Nat] /\ \A s \in Runs : asks'[s] \subseteq asks[s]
        /\ driver' \in [Runs -> {"none", "working", "finished", "failed", "cancelled", "exited"}]
        /\ driver[r] # "none" /\ \A s \in Runs : s # r => driver'[s] = driver[s]
    BY <1>0, <1>3 DEF DriverCompletes, DriverFails, DriverExits, StreamsTyped
  <2>4. /\ queue' \in [Runs -> Seq(Sendable)]
        /\ \A s \in Runs :
             \/ queue'[s] = queue[s]
             \/ /\ ev[s] # "none"
                /\ \E e \in Sendable : e.type \notin Kinds /\ queue'[s] = Append(queue[s], e)
    <3>1. CASE UNCHANGED queue
      BY <1>0, <3>1 DEF StreamsTyped
    <3>2. CASE Sends(r, "completed", 0)
      BY <1>0, <3>2, EndsAreSent
    <3>3. CASE Sends(r, "failed", ApprovalWrites(r))
      BY <1>0, <2>1, <3>3, EndsAreSent
    <3> QED BY <2>2, <3>1, <3>2, <3>3
  <2>5. OnlyEnds
    BY <1>0, <2>2, <2>3, <2>4 DEF OnlyEnds, StreamsTyped
  <2>6. r \notin toRecover
    BY <2>3 DEF StreamsHold, StreamHolds
  <2>7. \A s \in Runs : StreamHolds(s)'
    BY <1>0, <2>3, <2>5, <2>6, StreamStays DEF OnlyEnds
  <2> QED BY <2>5, <2>7 DEF OnlyEnds, StreamsHold
<1> QED BY <1>1, <1>2, <1>3 DEF DriverStep

\* A resumed driver goes on from its checkpoint, and reports all of it again.
LEMMA ResumeKeepsStreams ==
  ASSUME StreamsHold, Typed, RunsStay, NEW r \in Runs, Resume(r)
  PROVE  StreamsHold'
<1> DEFINE h == checkpoint[r].history
           g == Append(checkpoint[r].history, "progress")
           q == [i \in DOMAIN g |-> [type |-> g[i], n |-> i]]
<1>0. /\ StreamsTyped /\ StreamHolds(r) /\ h \in Seq(Kinds) /\ r \in toRecover /\ run[r] = "running"
      /\ UNCHANGED <<run, checkpoint, asks, crashes>>
      /\ toRecover' = toRecover \ {r}
      /\ driver' = [driver EXCEPT ![r] = "working"]
      /\ ev' = [ev EXCEPT ![r] = "next"]
      /\ history' = [history EXCEPT ![r] = g]
      /\ asks[r] = {}
  BY DEF StreamsHold, StreamsTyped, StreamHolds, Resume, Resumable, Resumed, Consume, records, notes
<1>1. /\ g \in Seq(Kinds) /\ DOMAIN g = 1..(Len(h) + 1) /\ Len(g) = Len(h) + 1 /\ Len(h) \in Nat
      /\ SentIn(g, "progress") = SentIn(h, "progress") + 1
      /\ SentIn(g, "permission") = SentIn(h, "permission")
      /\ SentIn(h, "progress") \in Nat
  BY <1>0, OneMoreKind, KindsAreFinite DEF Kinds
<1>2. history'[r] = g /\ history' \in [Runs -> Seq(Kinds)]
  BY <1>0, <1>1 DEF StreamsTyped
<1>3. queue' = [queue EXCEPT ![r] = q]
  BY <1>2 DEF Resume
<1>4. q \in Seq(Sendable) /\ DOMAIN q = DOMAIN g /\ \A i \in DOMAIN g : q[i].n = i
  <2>1. \A i \in 1..Len(g) : g[i] \in Kinds /\ i \in Nat
    BY <1>1
  <2>2. \A i \in 1..Len(g) : [type |-> g[i], n |-> i] \in Sendable
    BY <2>1 DEF Sendable
  <2>3. q = [i \in 1..Len(g) |-> [type |-> g[i], n |-> i]] /\ Len(g) \in Nat
    BY <1>1
  <2>4. q \in [1..Len(g) -> Sendable]
    BY <2>2, <2>3
  <2> HIDE DEF g
  <2> QED BY <1>1, <2>3, <2>4
<1> HIDE DEF q
<1>5. queue' \in [Runs -> Seq(Sendable)] /\ queue'[r] = q /\ ev'[r] = "next" /\ driver'[r] = "working"
  BY <1>0, <1>3, <1>4 DEF StreamsTyped, Typed
<1>6. \A s \in Runs \ {r} : /\ history'[s] = history[s] /\ queue'[s] = queue[s] /\ ev'[s] = ev[s]
                            /\ driver'[s] = driver[s]
  BY <1>0, <1>3 DEF StreamsTyped, Typed
<1>7. \A s \in Runs \ {r} : StreamHolds(s)'
  BY <1>0, <1>6, StreamStays
<1>8. Bounded(g, 0) /\ Bounded(h, 0)
  <2> DEFINE p == SentIn(h, "progress")
             b == MaxProgress + crashes
  <2>1. p + 1 <= b /\ SentIn(h, "permission") <= MaxPermissions
    BY <1>0 DEF StreamHolds, Bounded
  <2>2. b \in Int /\ p \in Nat
    BY <1>0, <1>1, BoundsAssumption DEF StreamsTyped
  <2>3. p + 0 <= b /\ (p + 1) + 0 <= b
    <3> HIDE DEF p, b
    <3> QED BY <2>1, <2>2
  <2> QED BY <1>1, <2>1, <2>3 DEF Bounded
<1>9. Bounded(history[r], 0)' /\ Bounded(checkpoint[r].history, IF r \in toRecover THEN 1 ELSE 0)'
  BY <1>0, <1>2, <1>8 DEF Bounded
<1>10. Len(h) <= Len(g)
  BY <1>1
<1>11. StreamHolds(r)'
  BY <1>0, <1>2, <1>4, <1>5, <1>9, <1>10 DEF StreamHolds
<1> QED BY <1>0, <1>2, <1>5, <1>7, <1>11 DEF StreamsHold, StreamsTyped

LEMMA CrashKeepsStreams ==
  ASSUME StreamsHold, CrashAndRestart
  PROVE  StreamsHold'
<1>0. /\ StreamsTyped /\ crashes' = crashes + 1 /\ crashes < MaxCrashes /\ UNCHANGED <<run, checkpoint>>
      /\ driver' = [r \in Runs |-> "none"] /\ asks' = [r \in Runs |-> {}]
      /\ queue' = [r \in Runs |-> <<>>] /\ history' = [r \in Runs |-> <<>>]
      /\ ev' = [r \in Runs |-> "none"]
  BY DEF StreamsHold, CrashAndRestart, notes, records
<1>1. <<>> \in Seq(Kinds) /\ <<>> \in Seq(Sendable) /\ crashes \in Nat /\ crashes + 1 \in 0..MaxCrashes
  BY <1>0, BoundsAssumption DEF StreamsTyped
<1>2. StreamsTyped'
  BY <1>0, <1>1 DEF StreamsTyped
<1>3. \A type : SentIn(<<>>, type) = 0
  <2>1. \A type : Places(<<>>, type) = {}
    BY DEF Places
  <2> QED BY <2>1, FS_EmptySet DEF SentIn
<1>4. ASSUME NEW r \in Runs PROVE StreamHolds(r)'
  <2> DEFINE h == checkpoint[r].history
             p == SentIn(h, "progress")
             b == MaxProgress + crashes
  <2>1. StreamHolds(r) /\ h \in Seq(Kinds)
    BY <1>0 DEF StreamsHold, StreamsTyped
  <2>2. p \in Nat /\ b \in Nat /\ crashes + 1 \in Nat /\ MaxProgress + (crashes + 1) = b + 1
    BY <1>1, <2>1, KindsAreFinite, BoundsAssumption
  <2>3. \/ p + 1 <= b \/ p + 0 <= b
    BY <2>1 DEF StreamHolds, Bounded
  <2>4. p + (IF r \in toRecover' THEN 1 ELSE 0) <= b + 1
    <3> HIDE DEF p, b
    <3> QED BY <2>2, <2>3
  <2>5. Bounded(checkpoint[r].history, IF r \in toRecover THEN 1 ELSE 0)'
    BY <1>0, <2>1, <2>2, <2>4 DEF StreamHolds, Bounded
  <2>6. Bounded(history[r], 0)'
    <3>1. 0 + 0 <= b + 1 /\ 0 <= MaxPermissions
      BY <2>2, BoundsAssumption
    <3> QED BY <1>0, <1>3, <2>2, <3>1 DEF Bounded
  <2> QED BY <1>0, <2>1, <2>5, <2>6 DEF StreamHolds
<1> QED BY <1>2, <1>4 DEF StreamsHold

LEMMA StreamsStep ==
  ASSUME StreamsHold, Typed, RecoversFirst, RunsStay, DOMAIN run = Runs, [Next]_vars
  PROVE  StreamsHold'
<1>1. ASSUME UNCHANGED <<checkpoint, drivers, crashes, ev>>, toRecover' \subseteq toRecover
      PROVE  StreamsHold'
  <2>1. OnlyEnds
    BY <1>1 DEF OnlyEnds, drivers, StreamsHold, StreamsTyped
  <2> QED BY <1>1, <2>1, OnlyEndsIsHarmless DEF drivers
<1>2. ASSUME NEW c \in Commands, Request(c) PROVE StreamsHold'
  BY <1>1, <1>2 DEF Request, BeginComplete, BeginStart, BeginRelaunch, BeginCancel, BeginRetry,
     BeginCleanup, BeginDecide, notes, process
<1>3. ASSUME NEW r \in Runs, RecoveryStep(r) PROVE StreamsHold'
  BY <1>1, <1>3, ResumeKeepsStreams DEF RecoveryStep, InterruptRecovery, notes
<1>4. CASE RepeatComplete \/ OtherTaskCommits \/ LeaseExpires \/ UNCHANGED vars
  BY <1>1, <1>4 DEF RepeatComplete, OtherTaskCommits, LeaseExpires, Outside, notes, process, vars
<1> QED
  BY <1>2, <1>3, <1>4, CommandsKeepStreams, EventsKeepStreams, CleanupsKeepStreams, DriversKeepStreams,
     CrashKeepsStreams DEF Next

(***************************************************************************)
(* What holds between the commands and the records.                        *)
(***************************************************************************)
NoLiveRun == \A r \in Runs : ~Live(r)

\* Commands on their way to the first run of a start or a retry.
Launching(d) == cmd[d].op \in {"start", "retry"} /\ cmd[d].pc \in LaunchPcs

\* The run a relaunch may create, since its fallback was approved.
Promised(r) == approval[Fallback(r)] = "approved" /\ run[r] = "absent"

\* The run created last is the one that may be live.
LatestLive == \A r \in Runs : Live(r) => r = latest

\* One command at most is launching; until it created its run none is live.
LaunchHolds(d) ==
  Launching(d) =>
    /\ task = IF At(d, "start") THEN "QUEUED" ELSE "RUNNING"
    /\ \A s \in Runs :
         Live(s) => cmd[d].pc \in StartPcs /\ s = cmd[d].run /\ run[s] = "created"
    /\ \A r \in Runs : ~Promised(r)
    /\ \A e \in Commands : Launching(e) => e = d

\* One run at most is promised, and nothing else is under way.
PromiseHolds ==
  \A r \in Runs : Promised(r) => /\ task = "RUNNING" /\ NoLiveRun
                                 /\ \A s \in Runs : Promised(s) => s = r

RelaunchHolds(d) ==
  cmd[d].op = "relaunch" => /\ cmd[d].run \in Runs /\ approval[Fallback(cmd[d].run)] = "approved"
                            /\ ~At(d, "askFallback")

\* Two commands never start a driver for the same run.
StartingHolds(d) ==
  cmd[d].pc \in StartPcs =>
    /\ run[cmd[d].run] # "absent"
    /\ \A e \in Commands : cmd[e].pc \in StartPcs /\ cmd[e].run = cmd[d].run => e = d

\* A retry that has committed its context finds no run live, though others may be
\* launching one.
RequeueHolds(d) ==
  At(d, "requeue") =>
    /\ NoLiveRun /\ task # "WAITING_APPROVAL"
    /\ \A r \in Runs : ~Promised(r)
    /\ \A e \in Commands : Launching(e) => cmd[e].pc \in EarlyPcs

CommandHolds(d) == LaunchHolds(d) /\ RelaunchHolds(d) /\ StartingHolds(d) /\ RequeueHolds(d)

Coordinated == LatestLive /\ PromiseHolds /\ \A d \in Commands : CommandHolds(d)

\* What a command knows of records nobody has written since.
SnapHolds(d) ==
  LET k == cmd[d] IN
  Fresh(d) =>
    /\ k.pc = "create" => Run(k.run) \in snap[d] /\ run[k.run] = "absent"
    /\ k.pc = "reconcile" => Run(k.run) \in snap[d] /\ run[k.run] = "created"
    /\ k.pc = "context" => Cursor \in snap[d] /\ NoLiveRun /\ Retryable(task)
    /\ k.pc = "enqueue" /\ k.op = "retry" => Cursor \in snap[d] /\ NoLiveRun
    /\ k.pc = "decideFallback" => Cursor \in snap[d] /\ approval[Fallback(k.run)] = "pending"
    /\ k.pc = "decide" => /\ {Cursor, Run(k.run)} \subseteq snap[d]
                          /\ approval[<<k.run, k.n>>] = "pending"
                          /\ run[k.run] = "waiting_permission"
    /\ k.pc \in {"cancel", "confirm"} => Run(k.run) \in snap[d]

\* What the consumer of the events of r knows likewise.
EventHolds(r) ==
  Fresh(Events(r)) =>
    /\ ev[r] \in {"fail", "interrupt"} =>
         /\ Run(r) \in snap[Events(r)]
         /\ Task \notin snap[Events(r)] => run[r] = "cancelling"
    /\ ev[r] = "ask" => Run(r) \in snap[Events(r)]

Informed == /\ \A d \in Commands : SnapHolds(d)
            /\ \A r \in Runs : EventHolds(r)

IInv == LP!IInv /\ Typed /\ RecoversFirst /\ StreamsHold /\ Coordinated /\ Informed

\* What a step owes the ledger and the invariant.
Lawful == [L!Next]_(L!ledger) /\ Coordinated' /\ Informed'

(***************************************************************************)
(* The ledger's facts, as they are needed here.                            *)
(***************************************************************************)
LEMMA LiveIs ==
  /\ \A r : Live(r) <=> run[r] \in {"created", "running", "waiting_permission", "cancelling"}
  /\ \A r : Live(r)' <=> run'[r] \in {"created", "running", "waiting_permission", "cancelling"}
  BY DEF Live, L!Live, L!LiveRunStatuses, L!RunStatuses, L!TerminalRunStatuses

LEMMA LedgerSays ==
  ASSUME LP!IInv
  PROVE  /\ DOMAIN run = Runs /\ DOMAIN approval = Approvals
         /\ \A r, s \in Runs : Live(r) /\ Live(s) => r = s
         /\ \A r \in Runs : /\ run[r] \in {"created", "running"} => task = "RUNNING"
                            /\ run[r] = "waiting_permission" => task = "WAITING_APPROVAL"
                            /\ run[r] = "cancelling" => task = "CANCELLED"
         /\ \A r \in Runs :
              approval[Fallback(r)] = "pending" => task = "WAITING_APPROVAL" /\ NoLiveRun
         /\ \A r, s \in Runs :
              approval[Fallback(r)] = "pending" /\ approval[Fallback(s)] = "pending" => r = s
<1>1. \A r : Live(r) <=> LP!Live(r)
  BY LedgerMoves
<1>2. DOMAIN run = Runs /\ DOMAIN approval = Approvals
  BY DEF LP!IInv, LP!TypeOK
<1>3. \A r, s \in Runs : Live(r) /\ Live(s) => r = s
  BY <1>1 DEF LP!IInv, LP!OneLiveRun
<1>4. \A r \in Runs : /\ run[r] \in {"created", "running"} => task = "RUNNING"
                      /\ run[r] = "waiting_permission" => task = "WAITING_APPROVAL"
                      /\ run[r] = "cancelling" => task = "CANCELLED"
  BY <1>1, LiveIs DEF LP!IInv, LP!RunTaskAgreement, LP!TaskStatusOf
<1>5. \A r \in Runs : Fallback(r) \in {Fallback(s) : s \in Runs}
  OBVIOUS
<1>6. \A r, s \in Runs : Fallback(r) = Fallback(s) => r = s
  BY DEF Fallback
<1> QED
  BY <1>1, <1>2, <1>3, <1>4, <1>5, <1>6
     DEF LP!IInv, LP!PendingRequests, LP!PendingFallback, LP!NoLiveRun, NoLiveRun

\* What each event of the two lifecycles leads from and to.
LEMMA TaskEvents ==
  ASSUME NEW to
  PROVE  /\ TaskGoes("ENQUEUE", to) => task = "VALIDATED"
         /\ TaskGoes("RETRY", to) => Retryable(task)
         /\ TaskGoes("START_RUN", to) => task = "QUEUED"
         /\ TaskGoes("REQUEST_APPROVAL", to) => task = "RUNNING"
         /\ TaskGoes("APPROVE_ACTION", to) => task = "WAITING_APPROVAL"
         /\ TaskGoes("SUBMIT", to) => task = "RUNNING"
         /\ TaskGoes("INTERRUPT", to) => task \in {"RUNNING", "WAITING_APPROVAL"}
         /\ TaskGoes("CANCEL", to) => task \in {"RUNNING", "WAITING_APPROVAL"}
         /\ TaskGoes("START_VERIFICATION", to) => task = "SUBMITTED"
         /\ TaskGoes("REQUEST_REVIEW", to) => task = "VERIFYING"
         /\ TaskGoes("APPROVE_REVIEW", to) => task = "REVIEW_REQUIRED"
         /\ TaskGoes("COMPLETE", to) => task = "READY_FOR_MERGE"
  BY DEF TaskGoes, L!TaskGoes, L!TaskTransitions, Retryable

LEMMA RunEvents ==
  ASSUME DOMAIN run = Runs, NEW r \in Runs, NEW event, NEW to, RunGoes(r, event, to)
  PROVE  /\ run' = [run EXCEPT ![r] = to] /\ run'[r] = to
         /\ \A s \in Runs : s # r => run'[s] = run[s]
         /\ Live(r) /\ to \notin {"absent", "created"}
         /\ event = "START" => run[r] = "created"
         /\ event \notin {"START", "FAIL"} => run[r] # "created"
         /\ event = "CONFIRM_CANCELLED" => run[r] = "cancelling"
         /\ event = "WAIT_FOR_PERMISSION" => run[r] = "running"
         /\ event = "RESUME" => run[r] = "waiting_permission"
         /\ event = "SUCCEED" => run[r] = "running"
  BY LiveIs DEF RunGoes, L!RunGoes, L!RunTransitions

(***************************************************************************)
(* What is known of a record lasts until somebody writes it.               *)
(***************************************************************************)
LEMMA Names ==
  /\ None \notin Threads
  /\ \A c \in Commands : c \in Threads
  /\ \A r \in Runs : /\ Events(r) \in Threads /\ Cleanup(r) \in Threads
                     /\ Events(r) \notin Commands /\ Cleanup(r) \notin Commands
                     /\ \A s \in Runs : /\ Events(r) # Cleanup(s)
                                        /\ Events(r) = Events(s) => r = s
                                        /\ Run(r) = Run(s) => r = s
                     /\ Run(r) # Task /\ Run(r) # Cursor
  BY NamesAssumption DEF Threads, Events, Cleanup, Run, Task, Cursor

\* What thread u has read and may still commit, the step left as it was; if it read
\* the event cursor, nothing was written at all.
Kept(u) ==
  snap'[u] # Stale => /\ snap'[u] = snap[u]
                      /\ Cursor \in snap[u] => UNCHANGED <<task, run, approval>>
                      /\ \A r \in Runs : Run(r) \in snap[u] => run'[r] = run[r]

\* A commit makes what others read stale if it writes it.
LEMMA CommitsKeep ==
  ASSUME NEW t, NEW recs, NEW next, Commits(t, recs, next),
         \A r \in Runs : run'[r] # run[r] => Run(r) \in recs
  PROVE  \A u \in Threads \ {t} : Kept(u)
<1> SUFFICES ASSUME NEW u \in Threads \ {t}, snap'[u] # Stale
             PROVE  /\ snap'[u] = snap[u]
                    /\ Cursor \in snap[u] => UNCHANGED <<task, run, approval>>
                    /\ \A r \in Runs : Run(r) \in snap[u] => run'[r] = run[r]
  BY DEF Kept
<1>1. snap'[u] = IF snap[u] \cap (recs \cup {Cursor}) # {} THEN Stale ELSE snap[u]
  BY DEF Commits
<1>2. snap[u] \cap (recs \cup {Cursor}) = {} /\ snap'[u] = snap[u]
  BY <1>1
<1> QED BY <1>2

\* Reading makes nothing stale.
LEMMA ReadsKeep ==
  ASSUME Typed, UNCHANGED <<task, run, approval>>,
         NEW t, UNCHANGED snap \/ \E recs : Reads(t, recs)
  PROVE  \A u \in Threads \ {t} : Kept(u)
  BY DEF Typed, Reads, Kept

\* Where a command knows more than its snapshot.
KnowingPcs == {"create", "reconcile", "context", "enqueue", "decideFallback", "decide", "cancel",
               "confirm"}

LEMMA CommandStaysInformed ==
  ASSUME Typed, NEW d \in Commands, SnapHolds(d),
         cmd'[d].pc \notin KnowingPcs \/ (cmd'[d] = cmd[d] /\ Kept(d))
  PROVE  SnapHolds(d)'
<1>1. CASE cmd'[d].pc \notin KnowingPcs
  BY <1>1 DEF KnowingPcs, SnapHolds
<1>2. CASE cmd'[d].pc \in KnowingPcs /\ snap'[d] # Stale
  <2> DEFINE k == cmd[d]
  <2>1. /\ cmd'[d] = k /\ snap'[d] = snap[d] /\ Fresh(d) /\ k.pc \in KnowingPcs
        /\ Cursor \in snap[d] => UNCHANGED <<task, run, approval>>
        /\ \A r \in Runs : Run(r) \in snap[d] => run'[r] = run[r]
    BY <1>2 DEF Kept, Fresh
  <2>2. k.run \in Runs
    BY <2>1 DEF Typed, Requests, RequestRecords, KnowingPcs
  <2>3. Cursor \in snap[d] => (NoLiveRun' <=> NoLiveRun)
    BY <2>1 DEF NoLiveRun, Live, L!Live
  <2> QED BY <2>1, <2>2, <2>3 DEF SnapHolds, Fresh
<1>3. CASE snap'[d] = Stale
  BY <1>3 DEF SnapHolds, Fresh
<1> QED BY <1>1, <1>2, <1>3

LEMMA ConsumerStaysInformed ==
  ASSUME NEW r \in Runs, EventHolds(r),
         ev'[r] \notin {"fail", "interrupt", "ask"} \/ (ev'[r] = ev[r] /\ Kept(Events(r)))
  PROVE  EventHolds(r)'
  BY DEF EventHolds, Kept, Fresh

\* Only thread t has to show what it knows after its step.
LEMMA StaysInformed ==
  ASSUME Typed, Informed, NEW t, \A u \in Threads \ {t} : Kept(u),
         \A d \in Commands : \/ cmd'[d].pc \notin KnowingPcs
                             \/ cmd'[d] = cmd[d] /\ d # t
                             \/ SnapHolds(d)',
         \A r \in Runs : \/ ev'[r] \notin {"fail", "interrupt", "ask"}
                         \/ ev'[r] = ev[r] /\ Events(r) # t
                         \/ EventHolds(r)'
  PROVE  Informed'
<1>1. ASSUME NEW d \in Commands PROVE SnapHolds(d)'
  BY Names, CommandStaysInformed DEF Informed
<1>2. ASSUME NEW r \in Runs PROVE EventHolds(r)'
  BY Names, ConsumerStaysInformed DEF Informed
<1> QED BY <1>1, <1>2 DEF Informed

(***************************************************************************)
(* How steps keep the commands coordinated.                                *)
(***************************************************************************)

\* Command d goes on without starting to launch, or comes to an end.
Onward(d) ==
  /\ cmd'[d].op \in {"start", "retry"} /\ cmd'[d].pc \in LaunchPcs =>
       /\ Launching(d)
       /\ cmd'[d].run = cmd[d].run
       /\ cmd'[d].pc = "start" <=> cmd[d].pc = "start"
       /\ \/ cmd[d].pc \in StartPcs => cmd'[d].pc \in StartPcs
          \/ run'[cmd[d].run] \notin L!LiveRunStatuses
       /\ cmd[d].pc \in EarlyPcs => cmd'[d].pc \in EarlyPcs \/ Answers
  /\ cmd'[d].pc \in StartPcs => cmd[d].pc \in StartPcs /\ cmd'[d].run = cmd[d].run
  /\ cmd'[d].pc # "requeue"
  /\ cmd'[d].op = "relaunch" =>
       /\ cmd'[d].run \in Runs /\ approval[Fallback(cmd'[d].run)] = "approved"
       /\ cmd'[d].pc # "askFallback"

NoLaunchAfter == \A d \in Commands : ~(cmd'[d].op \in {"start", "retry"} /\ cmd'[d].pc \in LaunchPcs)

LEMMA StaysCoordinated ==
  ASSUME Typed, Coordinated, UNCHANGED latest,
         \A r \in Runs :
           approval'[Fallback(r)] = "approved" <=> approval[Fallback(r)] = "approved",
         \A r \in Runs : \/ run'[r] = run[r]
                         \/ /\ Live(r) /\ run'[r] \notin {"absent", "created"}
                            /\ run'[r] \in L!LiveRunStatuses => NoLaunchAfter,
         \/ task' = task
         \/ /\ NoLaunchAfter
            /\ \A r \in Runs : ~Promised(r)
            /\ task' = "WAITING_APPROVAL" => \A d \in Commands : cmd[d].pc # "requeue",
         \A d \in Commands : cmd'[d] = cmd[d] \/ Onward(d)
  PROVE  Coordinated'
<1>1. \A r \in Runs : /\ Live(r)' => Live(r)
                      /\ Promised(r)' => Promised(r)
  BY LiveIs DEF Promised, Live, L!Live
<1>2. NoLiveRun => NoLiveRun'
  BY <1>1 DEF NoLiveRun
<1>3. \A r \in Runs : Promised(r) => task' = task
  OBVIOUS
<1>4. LatestLive' /\ PromiseHolds'
  BY <1>1, <1>2, <1>3 DEF Coordinated, LatestLive, PromiseHolds
<1> DEFINE LaunchesNext(d) == cmd'[d].op \in {"start", "retry"} /\ cmd'[d].pc \in LaunchPcs
<1>5. \A d \in Commands : LaunchesNext(d) => Launching(d) /\ cmd'[d].run = cmd[d].run /\ task' = task
  BY DEF Onward, NoLaunchAfter, Launching
<1>6. ASSUME NEW d \in Commands PROVE LaunchHolds(d)'
  <2> SUFFICES ASSUME LaunchesNext(d) PROVE LaunchHolds(d)'
    BY DEF LaunchHolds, Launching
  <2>1. Launching(d) /\ cmd'[d].run = cmd[d].run /\ task' = task /\ LaunchHolds(d) /\ ~NoLaunchAfter
    BY <1>5 DEF Coordinated, CommandHolds, NoLaunchAfter
  <2>2. cmd'[d].pc = "start" <=> cmd[d].pc = "start"
    BY DEF Onward
  <2>3. ASSUME NEW s \in Runs, Live(s)'
        PROVE  cmd'[d].pc \in StartPcs /\ s = cmd'[d].run /\ run'[s] = "created"
    <3>1. run'[s] \in L!LiveRunStatuses /\ Live(s)
      BY <1>1, <2>3 DEF Live, L!Live
    <3>2. run'[s] = run[s] /\ cmd[d].pc \in StartPcs /\ s = cmd[d].run /\ run[s] = "created"
      BY <2>1, <3>1 DEF LaunchHolds
    <3> QED BY <2>1, <3>1, <3>2 DEF Onward
  <2>4. \A e \in Commands : LaunchesNext(e) => e = d
    BY <1>5, <2>1 DEF LaunchHolds
  <2> QED BY <1>1, <2>1, <2>2, <2>3, <2>4 DEF LaunchHolds, Launching, At
<1>7. ASSUME NEW d \in Commands PROVE RelaunchHolds(d)'
  <2> SUFFICES ASSUME cmd'[d].op = "relaunch"
               PROVE  /\ cmd'[d].run \in Runs /\ approval'[Fallback(cmd'[d].run)] = "approved"
                      /\ cmd'[d].pc # "askFallback"
    BY DEF RelaunchHolds, At
  <2>1. /\ cmd'[d].run \in Runs /\ approval[Fallback(cmd'[d].run)] = "approved"
        /\ cmd'[d].pc # "askFallback"
    BY DEF Onward, Coordinated, CommandHolds, RelaunchHolds, At
  <2> QED BY <2>1
<1>8. ASSUME NEW d \in Commands PROVE StartingHolds(d)'
  <2> SUFFICES ASSUME cmd'[d].pc \in StartPcs PROVE StartingHolds(d)'
    BY DEF StartingHolds
  <2>1. \A e \in Commands : cmd'[e].pc \in StartPcs => cmd[e].pc \in StartPcs /\ cmd'[e].run = cmd[e].run
    BY DEF Onward
  <2>2. cmd[d].run \in Runs
    BY <2>1 DEF Typed, Requests, RequestRecords, StartPcs
  <2>3. StartingHolds(d)
    BY DEF Coordinated, CommandHolds
  <2> QED BY <2>1, <2>2, <2>3 DEF StartingHolds
<1>9. ASSUME NEW d \in Commands PROVE RequeueHolds(d)'
  <2> SUFFICES ASSUME cmd'[d].pc = "requeue" PROVE RequeueHolds(d)'
    BY DEF RequeueHolds, At
  <2>1. At(d, "requeue") /\ RequeueHolds(d) /\ ~Answers
    BY DEF Onward, At, Coordinated, CommandHolds, Answers
  <2>2. \A e \in Commands : LaunchesNext(e) => cmd'[e].pc \in EarlyPcs
    BY <1>5, <2>1 DEF RequeueHolds, Onward
  <2>3. task' # "WAITING_APPROVAL"
    BY <2>1 DEF RequeueHolds, At
  <2> QED BY <1>1, <1>2, <2>1, <2>2, <2>3 DEF RequeueHolds, Launching
<1> QED BY <1>4, <1>6, <1>7, <1>8, <1>9 DEF Coordinated, CommandHolds

\* Command c goes on, or is served, with no record written.
LEMMA Quietly ==
  ASSUME Typed, Coordinated, Informed, NEW c \in Commands,
         UNCHANGED <<records, latest, ev>>, UNCHANGED snap \/ \E recs : Reads(c, recs),
         \A d \in Commands \ {c} : cmd'[d] = cmd[d], Onward(c),
         cmd'[c].pc \notin KnowingPcs \/ SnapHolds(c)'
  PROVE  Lawful
<1>1. UNCHANGED <<task, run, approval>> /\ UNCHANGED L!ledger
  BY DEF records, L!ledger
<1>2. \A u \in Threads \ {c} : Kept(u)
  BY <1>1, ReadsKeep
<1>3. Informed'
  BY <1>2, Names, StaysInformed
<1>4. Coordinated'
  BY <1>1, StaysCoordinated
<1> QED BY <1>1, <1>3, <1>4 DEF Lawful

(***************************************************************************)
(* Requests.                                                               *)
(***************************************************************************)
LEMMA ServedLawfully ==
  ASSUME Typed, Coordinated, Informed, NEW c \in Commands, NEW op, NEW k, NEW recs,
         Serve(c, op, k, recs), UNCHANGED <<records, latest, ev>>,
         k.pc \notin StartPcs \cup {"requeue"},
         k.op \in {"start", "retry"} => k.pc \notin LaunchPcs,
         k.op = "relaunch" => /\ k.run \in Runs /\ approval[Fallback(k.run)] = "approved"
                              /\ k.pc # "askFallback",
         k.pc \in {"create", "reconcile", "confirm"} => FALSE,
         k.pc = "context" => Cursor \in recs /\ NoLiveRun /\ Retryable(task),
         k.pc = "enqueue" => k.op # "retry",
         k.pc = "decideFallback" => Cursor \in recs /\ approval[Fallback(k.run)] = "pending",
         k.pc = "decide" => /\ {Cursor, Run(k.run)} \subseteq recs
                            /\ approval[<<k.run, k.n>>] = "pending"
                            /\ run[k.run] = "waiting_permission",
         k.pc = "cancel" => Run(k.run) \in recs
  PROVE  Lawful
<1>1. cmd'[c] = k /\ \A d \in Commands \ {c} : cmd'[d] = cmd[d]
  BY DEF Serve, Typed
<1>2. Reads(c, recs) /\ snap'[c] = recs
  BY Names DEF Serve, Reads, Typed
<1>3. Onward(c)
  BY <1>1 DEF Onward
<1>4. UNCHANGED <<task, run, approval>> /\ (NoLiveRun => NoLiveRun')
  BY DEF records, NoLiveRun, Live, L!Live
<1>5. SnapHolds(c)'
  BY <1>1, <1>2, <1>4 DEF SnapHolds
<1> QED BY <1>1, <1>2, <1>3, <1>5, Quietly

LEMMA RequestsAreLawful ==
  ASSUME IInv, NEW c \in Commands, Request(c)
  PROVE  Lawful
<1>0. Typed /\ Coordinated /\ Informed
  BY DEF IInv
<1>1. CASE BeginComplete(c)
  <2> DEFINE k == [Idle EXCEPT !.op = "complete", !.run = latest,
                        !.pc = IF task = "REVIEW_REQUIRED" THEN "approveReview" ELSE "complete"]
  <2>1. k.op = "complete" /\ k.pc \in {"approveReview", "complete"}
    BY DEF Idle
  <2>2. Serve(c, "complete", k, {Task}) /\ UNCHANGED <<records, latest, ev>>
    BY <1>1 DEF BeginComplete, notes
  <2> HIDE DEF k
  <2> QED BY <1>0, <2>1, <2>2, ServedLawfully DEF StartPcs
<1>2. ASSUME NEW r \in Runs, BeginStart(c, r) PROVE Lawful
  <2> DEFINE k == [Idle EXCEPT !.op = "start", !.pc = "enqueue", !.run = r]
  <2>1. k.op = "start" /\ k.pc = "enqueue"
    BY DEF Idle
  <2>2. Serve(c, "start", k, {Task}) /\ UNCHANGED <<records, latest, ev>>
    BY <1>2 DEF BeginStart
  <2> HIDE DEF k
  <2> QED BY <1>0, <2>1, <2>2, ServedLawfully DEF StartPcs, LaunchPcs
<1>3. ASSUME NEW r \in Runs, BeginRelaunch(c, r) PROVE Lawful
  <2> DEFINE k == [Idle EXCEPT !.op = "relaunch", !.pc = "launch", !.run = r]
  <2>1. k.op = "relaunch" /\ k.pc = "launch" /\ k.run = r
    BY DEF Idle
  <2>2. /\ Serve(c, "relaunch", k, {Task}) /\ UNCHANGED <<records, latest, ev>>
        /\ approval[Fallback(r)] = "approved"
    BY <1>3 DEF BeginRelaunch, notes
  <2> HIDE DEF k
  <2> QED BY <1>0, <2>1, <2>2, ServedLawfully DEF StartPcs
<1>4. ASSUME NEW r \in Runs, BeginCancel(c, r) PROVE Lawful
  <2> DEFINE k == [Idle EXCEPT !.op = "cancel", !.pc = "cancel", !.run = r]
             recs == {Task, Run(r), Cursor}
  <2>1. k.op = "cancel" /\ k.pc = "cancel" /\ Run(k.run) \in recs
    BY DEF Idle
  <2>2. Serve(c, "cancel", k, recs) /\ UNCHANGED <<records, latest, ev>>
    BY <1>4 DEF BeginCancel, notes
  <2> HIDE DEF k, recs
  <2> QED BY <1>0, <2>1, <2>2, ServedLawfully DEF StartPcs
<1>5. ASSUME NEW r \in Runs, BeginRetry(c, r) PROVE Lawful
  <2> DEFINE k == [Idle EXCEPT !.op = "retry", !.pc = "context", !.run = r, !.src = latest]
             recs == {Run(latest), Cursor}
  <2>1. k.op = "retry" /\ k.pc = "context" /\ Cursor \in recs
    BY DEF Idle
  <2>2. Serve(c, "retry", k, recs) /\ UNCHANGED <<records, latest, ev>> /\ Retryable(task)
    BY <1>5 DEF BeginRetry, notes
  <2>3. NoLiveRun
    BY <1>0, <1>5, LiveIs DEF BeginRetry, Coordinated, LatestLive, NoLiveRun
  <2> HIDE DEF k, recs
  <2> QED BY <1>0, <2>1, <2>2, <2>3, ServedLawfully DEF StartPcs, LaunchPcs
<1>6. ASSUME NEW r \in Runs, BeginCleanup(c, r) PROVE Lawful
  <2> DEFINE k == [Idle EXCEPT !.op = "cleanup", !.pc = "cleanup", !.run = r]
  <2>1. k.op = "cleanup" /\ k.pc = "cleanup"
    BY DEF Idle
  <2>2. Serve(c, "cleanup", k, {Run(r), Cursor}) /\ UNCHANGED <<records, latest, ev>>
    BY <1>6 DEF BeginCleanup, notes
  <2> HIDE DEF k
  <2> QED BY <1>0, <2>1, <2>2, ServedLawfully DEF StartPcs
<1>7. ASSUME NEW a \in Approvals, NEW v \in {"approve", "reject"}, BeginDecide(c, a, v)
      PROVE  Lawful
  <2> DEFINE r == a[1]
             f == [Idle EXCEPT !.op = "decide", !.pc = "decideFallback", !.run = r, !.verdict = v]
             k == [Idle EXCEPT !.op = "decide", !.pc = "decide", !.run = r, !.n = a[2],
                               !.verdict = v]
             all == {Approval(a), Task, Cursor}
             recs == {Approval(a), Task, Run(r), Cursor}
                       \cup (IF v = "reject" THEN {Binding(r)} ELSE {})
  <2>1. UNCHANGED <<records, latest, ev>> /\ a = <<r, a[2]>> /\ approval[a] = "pending"
    BY <1>7 DEF BeginDecide, notes, Approvals
  <2>2. CASE a = Fallback(r)
    <3>1. f.op = "decide" /\ f.pc = "decideFallback" /\ Fallback(f.run) = a /\ Cursor \in all
      BY <2>2 DEF Idle
    <3>2. Serve(c, "decide", f, all)
      BY <1>7, <2>2 DEF BeginDecide
    <3> HIDE DEF f, all
    <3> QED BY <1>0, <2>1, <3>1, <3>2, ServedLawfully DEF StartPcs
  <2>3. CASE a # Fallback(r)
    <3>1. k.op = "decide" /\ k.pc = "decide" /\ k.run = r /\ <<k.run, k.n>> = a
      BY <2>1 DEF Idle
    <3>2. Serve(c, "decide", k, recs) /\ run[r] = "waiting_permission"
      BY <1>7, <2>3 DEF BeginDecide
    <3>3. {Cursor, Run(r)} \subseteq recs
      OBVIOUS
    <3> HIDE DEF k, recs
    <3> QED BY <1>0, <2>1, <3>1, <3>2, <3>3, ServedLawfully DEF StartPcs
  <2> QED BY <2>2, <2>3
<1> QED BY <1>1, <1>2, <1>3, <1>4, <1>5, <1>6, <1>7 DEF Request

(***************************************************************************)
(* The steps of the commands.                                              *)
(***************************************************************************)
\* A command that goes on with or without a driver process, or without an answer of its
\* driver.
AwaitWith(c, q, b)   == cmd' = [cmd EXCEPT ![c].pc = q, ![c].proc = b]
AwaitUndelivered(c, q) == cmd' = [cmd EXCEPT ![c].pc = q, ![c].verdict = "undelivered"]

LEMMA Walked ==
  ASSUME Typed, NEW c \in Commands, NEW q \in Pcs,
         Await(c, q) \/ (\E b : AwaitWith(c, q, b)) \/ AwaitUndelivered(c, q)
  PROVE  /\ cmd'[c].pc = q /\ cmd'[c].op = cmd[c].op /\ cmd'[c].run = cmd[c].run
         /\ cmd'[c].n = cmd[c].n /\ cmd'[c].src = cmd[c].src
         /\ \A d \in Commands \ {c} : cmd'[d] = cmd[d]
  BY DEF Typed, Requests, RequestRecords, Await, AwaitWith, AwaitUndelivered

LEMMA Returned ==
  ASSUME Typed, NEW c \in Commands, Return(c)
  PROVE  /\ cmd'[c] = Idle /\ cmd'[c].pc = "idle" /\ Onward(c)
         /\ \A d \in Commands \ {c} : cmd'[d] = cmd[d]
  BY DEF Typed, Return, Idle, Onward, LaunchPcs, StartPcs

LEMMA WalksOnward ==
  ASSUME Coordinated, NEW c \in Commands,
         cmd'[c].op = cmd[c].op, cmd'[c].run = cmd[c].run,
         cmd'[c].pc \notin {"requeue", "start"},
         cmd'[c].pc \in StartPcs => cmd[c].pc \in StartPcs,
         cmd'[c].pc \in LaunchPcs =>
           /\ cmd[c].pc \in LaunchPcs \ {"start"}
           /\ cmd[c].pc \in StartPcs => cmd'[c].pc \in StartPcs
           /\ cmd[c].pc \in EarlyPcs => cmd'[c].pc \in EarlyPcs \/ Answers,
         cmd'[c].pc = "askFallback" => cmd[c].op # "relaunch"
  PROVE  Onward(c)
  BY DEF Onward, Launching, Coordinated, CommandHolds, RelaunchHolds

\* A refused commit leads to the error path of its command.
LEMMA ConflictIsLawful ==
  ASSUME IInv, NEW c \in Commands,
         \/ Conflict(c, "idle")
         \/ Conflict(c, "release") /\ cmd[c].pc \in {"create", "reconcile"}
  PROVE  Lawful
<1>1. Typed /\ Coordinated /\ Informed /\ UNCHANGED <<records, latest, ev>> /\ Reads(c, {})
  BY DEF IInv, Conflict, notes
<1>2. CASE Return(c)
  BY <1>1, <1>2, Returned, Quietly DEF KnowingPcs
<1>3. CASE Await(c, "release") /\ cmd[c].pc \in {"create", "reconcile"}
  <2>1. /\ cmd'[c].pc = "release" /\ cmd'[c].op = cmd[c].op /\ cmd'[c].run = cmd[c].run
        /\ \A d \in Commands \ {c} : cmd'[d] = cmd[d]
    BY <1>1, <1>3, Walked DEF Pcs, LaunchPcs
  <2>2. Onward(c)
    BY <1>1, <1>3, <2>1, WalksOnward DEF LaunchPcs, StartPcs, EarlyPcs
  <2> QED BY <1>1, <2>1, <2>2, Quietly DEF KnowingPcs
<1> QED BY <1>2, <1>3 DEF Conflict

\* The steps of a launch that write no record.
LEMMA LaunchReadsLawfully ==
  ASSUME IInv, NEW c \in Commands,
         Launch(c) \/ Ensure(c) \/ Select(c) \/ Release(c) \/ LaunchFailed(c)
  PROVE  Lawful
<1>0. Typed /\ Coordinated /\ Informed /\ cmd[c] \in Requests
  BY DEF IInv, Typed
<1>1. UNCHANGED <<records, latest, ev>> /\ (UNCHANGED snap \/ \E recs : Reads(c, recs))
  BY DEF Launch, Ensure, Select, Release, LaunchFailed, notes
<1>2. CASE Return(c)
  BY <1>0, <1>1, <1>2, Returned, Quietly DEF KnowingPcs
<1> DEFINE Goes(q) == /\ cmd'[c].pc = q /\ cmd'[c].op = cmd[c].op /\ cmd'[c].run = cmd[c].run
                      /\ \A d \in Commands \ {c} : cmd'[d] = cmd[d]
<1>3. ASSUME NEW q \in {"cleaning", "ensure", "select", "failed", "release", "failTask"}, Goes(q),
             cmd[c].pc \in {"launch", "ensure", "select", "release", "failed"}
      PROVE  Lawful
  <2>1. Onward(c)
    BY <1>0, <1>3, WalksOnward DEF LaunchPcs, StartPcs, EarlyPcs
  <2> QED BY <1>0, <1>1, <1>3, <2>1, Quietly DEF KnowingPcs
<1>4. CASE Launch(c)
  <2>1. Return(c) \/ Await(c, "cleaning") \/ Await(c, "ensure")
    BY <1>4 DEF Launch
  <2>2. Return(c) \/ Goes("cleaning") \/ Goes("ensure")
    BY <1>0, <2>1, Walked DEF Pcs, LaunchPcs
  <2> HIDE DEF Goes
  <2> QED BY <1>2, <1>3, <1>4, <2>2 DEF Launch, At
<1>5. CASE Ensure(c)
  <2>1. Await(c, "select") \/ Await(c, "failed")
    BY <1>5 DEF Ensure
  <2>2. Goes("select") \/ Goes("failed")
    BY <1>0, <2>1, Walked DEF Pcs, LaunchPcs
  <2> HIDE DEF Goes
  <2> QED BY <1>3, <1>5, <2>2 DEF Ensure, At
<1>6. CASE Release(c)
  <2>1. AwaitWith(c, "failed", FALSE)
    BY <1>6 DEF Release, AwaitWith
  <2>2. Goes("failed")
    BY <1>0, <2>1, Walked DEF Pcs, LaunchPcs
  <2> HIDE DEF Goes
  <2> QED BY <1>3, <1>6, <2>2 DEF Release, At
<1>7. CASE LaunchFailed(c)
  <2>1. Return(c) \/ Await(c, "failTask")
    BY <1>7 DEF LaunchFailed
  <2>2. Return(c) \/ Goes("failTask")
    BY <1>0, <2>1, Walked DEF Pcs, LaunchPcs
  <2> HIDE DEF Goes
  <2> QED BY <1>2, <1>3, <1>7, <2>2 DEF LaunchFailed, At
<1>8. CASE Select(c)
  <2>0. cmd[c].pc = "select" /\ cmd[c].run \in Runs
    BY <1>0, <1>8 DEF Select, At, Requests, RequestRecords
  <2> PICK r \in Runs : r = cmd[c].run
    BY <2>0
  <2>1. CASE Answers /\ Reads(c, {Run(r)}) /\ AwaitWith(c, OrchestratorPc(r), TRUE)
    <3> DEFINE q == OrchestratorPc(r)
    <3>1. /\ q \in {"create", "reconcile", "release"}
          /\ q = "create" => run[r] = "absent"
          /\ q = "reconcile" => run[r] = "created"
      BY DEF OrchestratorPc
    <3> HIDE DEF q
    <3>2. Goes(q)
      BY <1>0, <2>1, <3>1, Walked DEF Pcs, LaunchPcs, q
    <3>3. Onward(c)
      BY <1>0, <2>0, <2>1, <3>1, <3>2, WalksOnward DEF LaunchPcs, StartPcs, EarlyPcs
    <3>4. snap'[c] = {Run(r)} /\ run' = run
      BY <1>0, <1>1, <2>1, Names DEF Reads, Typed, records
    <3>5. SnapHolds(c)'
      BY <2>0, <3>1, <3>2, <3>4 DEF SnapHolds
    <3> QED BY <1>0, <1>1, <3>2, <3>3, <3>5, Quietly
  <2>2. CASE /\ Answers /\ approval[Fallback(r)] # "approved" /\ Await(c, "askFallback")
    <3>1. Goes("askFallback")
      BY <1>0, <2>2, Walked DEF Pcs, LaunchPcs
    <3>2. cmd[c].op # "relaunch"
      BY <1>0, <2>2 DEF Coordinated, CommandHolds, RelaunchHolds
    <3>3. Onward(c)
      BY <1>0, <2>0, <2>2, <3>1, <3>2, WalksOnward DEF LaunchPcs, StartPcs, EarlyPcs
    <3> QED BY <1>0, <1>1, <3>1, <3>3, Quietly DEF KnowingPcs
  <2>3. CASE Await(c, "release")
    <3>1. Goes("release")
      BY <1>0, <2>3, Walked DEF Pcs, LaunchPcs
    <3> QED BY <1>3, <2>0, <3>1
  <2> QED BY <1>8, <2>1, <2>2, <2>3 DEF Select, AwaitWith
<1> QED BY <1>4, <1>5, <1>6, <1>7, <1>8

\* What a commit of command c leaves the others.
LEMMA CommandCommits ==
  ASSUME Typed, Informed, NEW c \in Commands, NEW recs, NEW next, Commits(c, recs, next),
         \A r \in Runs : run'[r] # run[r] => Run(r) \in recs,
         \A d \in Commands \ {c} : cmd'[d] = cmd[d],
         \A r \in Runs : ev'[r] = ev[r] \/ ev'[r] = "next",
         cmd'[c].pc \notin KnowingPcs \/ SnapHolds(c)'
  PROVE  Informed'
<1>1. \A u \in Threads \ {c} : Kept(u)
  BY CommitsKeep
<1>2. \A r \in Runs : Events(r) # c
  BY Names
<1> QED BY <1>1, <1>2, StaysInformed

LEMMA EnqueueIsLawful ==
  ASSUME IInv, NEW c \in Commands, Enqueue(c)
  PROVE  Lawful
<1>0. Typed /\ Coordinated /\ Informed /\ cmd[c] \in Requests /\ cmd[c].pc = "enqueue"
  BY DEF IInv, Typed, Enqueue, At
<1>1. CASE Fresh(c)
  <2> SUFFICES ASSUME ~Conflict(c, "idle") PROVE Lawful
    BY ConflictIsLawful
  <2> DEFINE retry == cmd[c].op = "retry"
             next == {Task} \cup RetryCursor(c)
  <2>1. /\ TaskGoes(IF retry THEN "RETRY" ELSE "ENQUEUE", "QUEUED") /\ Await(c, "start")
        /\ Commits(c, {Task}, next) /\ UNCHANGED <<run, binding, approval, result, latest, ev>>
    BY DEF Enqueue, notes
  <2>2. /\ cmd'[c].pc = "start" /\ cmd'[c].op = cmd[c].op /\ cmd'[c].run = cmd[c].run
        /\ \A d \in Commands \ {c} : cmd'[d] = cmd[d]
    BY <1>0, <2>1, Walked DEF Pcs, LaunchPcs
  <2>3. cmd[c].op \in {"start", "retry"} /\ cmd[c].run \in Runs
    BY <1>0 DEF Requests, RequestRecords
  <2>4. task' = "QUEUED" /\ task \notin {"QUEUED", "RUNNING", "WAITING_APPROVAL"}
    BY <2>1, TaskEvents DEF TaskGoes, L!TaskGoes, Retryable
  <2>5. NoLiveRun
    <3>1. ASSUME retry PROVE NoLiveRun
      BY <1>0, <1>1, <3>1 DEF Informed, SnapHolds
    <3>2. ASSUME ~retry PROVE NoLiveRun
      <4>1. task = "VALIDATED"
        BY <2>1, <3>2, TaskEvents
      <4> QED BY <4>1, LedgerSays, LiveIs DEF IInv, NoLiveRun
    <3> QED BY <3>1, <3>2
  <2>6. [L!Next]_(L!ledger)
    <3>1. retry => L!Retry
      BY <2>1, <2>5 DEF L!Retry, TaskGoes, NoLiveRun, L!NoLiveRun, Live
    <3>2. ~retry => L!Enqueue
      BY <2>1 DEF L!Enqueue, TaskGoes
    <3> QED BY <3>1, <3>2 DEF L!Next, L!TaskStep
  <2>7. Informed'
    <3>1. cmd'[c].pc \notin KnowingPcs
      BY <2>2 DEF KnowingPcs
    <3> HIDE DEF next
    <3> QED BY <1>0, <2>1, <2>2, <3>1, CommandCommits
  <2>8. Coordinated'
    <3>1. \A d \in Commands : ~Launching(d)
      BY <1>0, <2>4 DEF Coordinated, CommandHolds, LaunchHolds
    <3>2. \A r \in Runs : ~Live(r)' /\ ~Promised(r) /\ ~Promised(r)'
      BY <1>0, <2>1, <2>4, <2>5 DEF Coordinated, PromiseHolds, Promised, NoLiveRun, Live, L!Live
    <3>3. \A d \in Commands :
            cmd'[d].op \in {"start", "retry"} /\ cmd'[d].pc \in LaunchPcs => d = c
      BY <2>2, <3>1 DEF Launching
    <3>4. LatestLive' /\ PromiseHolds' /\ NoLiveRun'
      BY <3>2 DEF LatestLive, PromiseHolds, NoLiveRun
    <3>5. ASSUME NEW d \in Commands PROVE LaunchHolds(d)'
      BY <2>2, <2>4, <3>2, <3>3 DEF LaunchHolds, Launching, At
    <3>6. ASSUME NEW d \in Commands PROVE RelaunchHolds(d)' /\ StartingHolds(d)'
      <4>1. /\ cmd'[d].op = cmd[d].op /\ cmd'[d].run = cmd[d].run
            /\ cmd'[d].pc = cmd[d].pc \/ cmd'[d].pc = "start"
        BY <2>2
      <4>2. \A e \in Commands : cmd'[e].pc \in StartPcs => cmd[e].pc \in StartPcs /\ cmd'[e] = cmd[e]
        BY <2>2 DEF StartPcs
      <4>3. RelaunchHolds(d) /\ StartingHolds(d)
        BY <1>0 DEF Coordinated, CommandHolds
      <4> QED BY <2>1, <4>1, <4>2, <4>3 DEF RelaunchHolds, StartingHolds, At
    <3>7. ASSUME NEW d \in Commands PROVE RequeueHolds(d)'
      <4>1. \A e \in Commands :
              cmd'[e].op \in {"start", "retry"} /\ cmd'[e].pc \in LaunchPcs => cmd'[e].pc \in EarlyPcs
        BY <2>2, <3>3 DEF EarlyPcs
      <4> QED BY <2>4, <3>2, <3>4, <4>1 DEF RequeueHolds, Launching
    <3> QED BY <3>4, <3>5, <3>6, <3>7 DEF Coordinated, CommandHolds
  <2> QED BY <2>6, <2>7, <2>8 DEF Lawful
<1>2. CASE ~Fresh(c)
  BY <1>2, ConflictIsLawful DEF Enqueue
<1> QED BY <1>1, <1>2

LEMMA StartRunIsLawful ==
  ASSUME IInv, NEW c \in Commands, StartRun(c)
  PROVE  Lawful
<1>0. Typed /\ Coordinated /\ Informed /\ cmd[c] \in Requests /\ cmd[c].pc = "start"
  BY DEF IInv, Typed, StartRun, At
<1>1. CASE ~Conflict(c, "idle")
  <2> DEFINE next == IF cmd[c].op = "retry" THEN {} ELSE {Task}
  <2>1. /\ TaskGoes("START_RUN", "RUNNING") /\ Await(c, "launch") /\ Commits(c, {Task}, next)
        /\ UNCHANGED <<run, binding, approval, result, latest, ev>>
    BY <1>1 DEF StartRun, notes
  <2>2. /\ cmd'[c].pc = "launch" /\ cmd'[c].op = cmd[c].op /\ cmd'[c].run = cmd[c].run
        /\ \A d \in Commands \ {c} : cmd'[d] = cmd[d]
    BY <1>0, <2>1, Walked DEF Pcs, LaunchPcs
  <2>3. task' = "RUNNING" /\ Launching(c)
    BY <1>0, <2>1 DEF TaskGoes, L!TaskGoes, Requests, RequestRecords, Launching, LaunchPcs
  <2>4. /\ NoLiveRun /\ \A r \in Runs : ~Promised(r)
        /\ \A d \in Commands : Launching(d) => d = c
    BY <1>0, <2>3 DEF Coordinated, CommandHolds, LaunchHolds, StartPcs, NoLiveRun
  <2>5. [L!Next]_(L!ledger)
    BY <2>1 DEF L!Next, L!TaskStep, L!StartRun, TaskGoes
  <2>6. Informed'
    <3>1. cmd'[c].pc \notin KnowingPcs
      BY <2>2 DEF KnowingPcs
    <3> HIDE DEF next
    <3> QED BY <1>0, <2>1, <2>2, <3>1, CommandCommits
  <2>7. Coordinated'
    <3>1. \A r \in Runs : ~Live(r)' /\ ~Promised(r)'
      BY <2>1, <2>4 DEF Promised, NoLiveRun, Live, L!Live
    <3>2. \A d \in Commands :
            cmd'[d].op \in {"start", "retry"} /\ cmd'[d].pc \in LaunchPcs => d = c
      BY <2>2, <2>4 DEF Launching
    <3>3. LatestLive' /\ PromiseHolds' /\ NoLiveRun'
      BY <3>1 DEF LatestLive, PromiseHolds, NoLiveRun
    <3>4. ASSUME NEW d \in Commands PROVE LaunchHolds(d)'
      BY <2>2, <2>3, <3>1, <3>2 DEF LaunchHolds, Launching, At
    <3>5. ASSUME NEW d \in Commands PROVE RelaunchHolds(d)' /\ StartingHolds(d)'
      <4>1. /\ cmd'[d].op = cmd[d].op /\ cmd'[d].run = cmd[d].run
            /\ cmd'[d].pc = cmd[d].pc \/ cmd'[d].pc = "launch"
        BY <2>2
      <4>2. \A e \in Commands : cmd'[e].pc \in StartPcs => cmd[e].pc \in StartPcs /\ cmd'[e] = cmd[e]
        BY <2>2 DEF StartPcs
      <4>3. RelaunchHolds(d) /\ StartingHolds(d)
        BY <1>0 DEF Coordinated, CommandHolds
      <4> QED BY <2>1, <4>1, <4>2, <4>3 DEF RelaunchHolds, StartingHolds, At
    <3>6. ASSUME NEW d \in Commands PROVE RequeueHolds(d)'
      <4>1. \A e \in Commands :
              cmd'[e].op \in {"start", "retry"} /\ cmd'[e].pc \in LaunchPcs => cmd'[e].pc \in EarlyPcs
        BY <2>2, <3>2 DEF EarlyPcs
      <4> QED BY <2>3, <3>1, <3>3, <4>1 DEF RequeueHolds, Launching
    <3> QED BY <3>3, <3>4, <3>5, <3>6 DEF Coordinated, CommandHolds
  <2> QED BY <2>5, <2>6, <2>7 DEF Lawful
<1> QED BY <1>1, ConflictIsLawful

LEMMA AskFallbackIsLawful ==
  ASSUME IInv, NEW c \in Commands, AskFallback(c)
  PROVE  Lawful
<1>0. /\ Typed /\ Coordinated /\ Informed /\ cmd[c] \in Requests /\ cmd[c].pc = "askFallback"
      /\ UNCHANGED <<run, binding, result, latest, ev>>
  BY DEF IInv, Typed, AskFallback, At, notes
<1>1. cmd[c].run \in Runs /\ Launching(c)
  <2>1. cmd[c].run \in Runs /\ cmd[c].op \in {"start", "retry", "relaunch"}
    BY <1>0 DEF Requests, RequestRecords, LaunchPcs
  <2> QED BY <1>0, <2>1 DEF Launching, LaunchPcs, Coordinated, CommandHolds, RelaunchHolds, At
<1> PICK r \in Runs : r = cmd[c].run
  BY <1>1
<1> DEFINE a == Fallback(r)
<1>2. /\ NoLiveRun /\ \A s \in Runs : ~Promised(s)
      /\ \A d \in Commands : Launching(d) => d = c
  BY <1>0, <1>1 DEF Coordinated, CommandHolds, LaunchHolds, StartPcs, NoLiveRun
<1>3. \A d \in Commands : cmd[d].pc # "requeue"
  BY <1>0, <1>1 DEF Coordinated, CommandHolds, RequeueHolds, EarlyPcs, At
<1>4. CASE /\ TaskGoes("REQUEST_APPROVAL", "WAITING_APPROVAL") /\ approval[a] = "absent"
           /\ approval' = [approval EXCEPT ![a] = "pending"]
           /\ Commits(c, {Task, Approval(a)}, {}) /\ Return(c)
  <2>1. /\ cmd'[c] = Idle /\ cmd'[c].pc = "idle" /\ Onward(c)
        /\ \A d \in Commands \ {c} : cmd'[d] = cmd[d]
    BY <1>0, <1>4, Returned
  <2>2. a \in Approvals /\ DOMAIN approval = Approvals
    BY LedgerNames, LedgerSays DEF IInv
  <2>3. [L!Next]_(L!ledger)
    <3>1. L!RequestFallback(a)
      BY <1>0, <1>2, <1>4 DEF L!RequestFallback, TaskGoes, NoLiveRun, L!NoLiveRun, Live
    <3> QED BY <2>2, <3>1 DEF L!Next, L!ApprovalStep
  <2>4. Informed'
    <3> DEFINE recs == {Task, Approval(a)}
    <3>1. Commits(c, recs, {}) /\ run' = run
      BY <1>0, <1>4
    <3> HIDE DEF recs
    <3> QED BY <1>0, <2>1, <3>1, CommandCommits DEF KnowingPcs
  <2>5. Coordinated'
    <3>1. NoLaunchAfter
      BY <1>2, <2>1 DEF NoLaunchAfter, Launching, Idle, LaunchPcs
    <3>2. \A s \in Runs : approval'[Fallback(s)] = "approved" <=> approval[Fallback(s)] = "approved"
      BY <1>4, <2>2, LedgerNames
    <3> QED BY <1>0, <1>2, <1>3, <2>1, <3>1, <3>2, StaysCoordinated
  <2> QED BY <2>3, <2>4, <2>5 DEF Lawful
<1>5. CASE Await(c, "failed") /\ Reads(c, {}) /\ UNCHANGED <<task, approval>>
  <2>1. /\ cmd'[c].pc = "failed" /\ cmd'[c].op = cmd[c].op /\ cmd'[c].run = cmd[c].run
        /\ \A d \in Commands \ {c} : cmd'[d] = cmd[d]
    BY <1>0, <1>5, Walked DEF Pcs, LaunchPcs
  <2>2. Onward(c)
    BY <1>0, <2>1, WalksOnward DEF LaunchPcs, StartPcs, EarlyPcs
  <2>3. UNCHANGED <<records, latest, ev>>
    BY <1>0, <1>5 DEF records
  <2> QED BY <1>0, <1>5, <2>1, <2>2, <2>3, Quietly DEF KnowingPcs
<1> QED BY <1>4, <1>5 DEF AskFallback

\* A run is created for a launching command, or for the fallback that was approved.
LEMMA CreateRunIsLawful ==
  ASSUME IInv, NEW c \in Commands, CreateRun(c)
  PROVE  Lawful
<1>0. Typed /\ Coordinated /\ Informed /\ cmd[c] \in Requests /\ cmd[c].pc = "create"
  BY DEF IInv, Typed, CreateRun, At
<1>1. cmd[c].run \in Runs /\ cmd[c].op \in {"start", "retry", "relaunch"}
  BY <1>0 DEF Requests, RequestRecords, LaunchPcs
<1> PICK r \in Runs : r = cmd[c].run
  BY <1>1
<1>2. CASE ~Conflict(c, "release")
  <2>1. /\ Fresh(c) /\ run' = [run EXCEPT ![r] = "created"] /\ latest' = r
        /\ Commits(c, {Run(r)}, {}) /\ Await(c, "starting")
        /\ UNCHANGED <<task, binding, approval, result, ev>>
    BY <1>2 DEF CreateRun
  <2>2. /\ cmd'[c].pc = "starting" /\ cmd'[c].op = cmd[c].op /\ cmd'[c].run = r
        /\ \A d \in Commands \ {c} : cmd'[d] = cmd[d]
    BY <1>0, <2>1, Walked DEF Pcs, LaunchPcs
  <2>3. run[r] = "absent" /\ DOMAIN run = Runs
    BY <1>0, <2>1, LedgerSays DEF IInv, Informed, SnapHolds
  <2>4. run'[r] = "created" /\ \A s \in Runs \ {r} : run'[s] = run[s]
    BY <2>1, <2>3
  <2>5. /\ task = "RUNNING" /\ NoLiveRun
        /\ \A s \in Runs : Promised(s) => s = r
        /\ \A d \in Commands : Launching(d) => d = c
        /\ \A d \in Commands : cmd[d].pc # "requeue"
    <3>1. CASE Launching(c)
      BY <1>0, <3>1 DEF Coordinated, CommandHolds, LaunchHolds, RequeueHolds, StartPcs, EarlyPcs,
         NoLiveRun, At
    <3>2. CASE ~Launching(c)
      <4>1. Promised(r)
        BY <1>0, <1>1, <2>3, <3>2
           DEF Launching, LaunchPcs, Coordinated, CommandHolds, RelaunchHolds, Promised
      <4> QED BY <1>0, <4>1 DEF Coordinated, CommandHolds, LaunchHolds, PromiseHolds, RequeueHolds, At
    <3> QED BY <3>1, <3>2
  <2>6. [L!Next]_(L!ledger)
    <3>1. L!CreateRun(r)
      BY <2>1, <2>3, <2>5 DEF L!CreateRun, NoLiveRun, L!NoLiveRun, Live
    <3> QED BY <3>1 DEF L!Next, L!RunStep
  <2>7. Informed'
    <3> DEFINE recs == {Run(r)}
    <3>1. Commits(c, recs, {}) /\ Run(r) \in recs /\ cmd'[c].pc \notin KnowingPcs
      BY <2>1, <2>2 DEF KnowingPcs
    <3> HIDE DEF recs
    <3> QED BY <1>0, <2>1, <2>2, <2>4, <3>1, CommandCommits
  <2>8. Coordinated'
    <3>1. \A s \in Runs : (Live(s)' <=> s = r) /\ ~Promised(s)'
      BY <2>1, <2>4, <2>5, LiveIs DEF Promised, NoLiveRun
    <3>2. LatestLive' /\ PromiseHolds'
      BY <2>1, <3>1 DEF LatestLive, PromiseHolds
    <3>3. \A d \in Commands :
            cmd'[d].op \in {"start", "retry"} /\ cmd'[d].pc \in LaunchPcs => d = c
      BY <2>2, <2>5 DEF Launching
    <3>4. ASSUME NEW d \in Commands PROVE LaunchHolds(d)'
      BY <2>1, <2>2, <2>4, <2>5, <3>1, <3>3 DEF LaunchHolds, Launching, StartPcs, At
    <3>5. ASSUME NEW d \in Commands PROVE RelaunchHolds(d)' /\ StartingHolds(d)'
      <4>1. /\ cmd'[d].op = cmd[d].op /\ cmd'[d].run = cmd[d].run
            /\ cmd'[d] = cmd[d] \/ cmd'[d].pc = "starting"
        BY <2>2
      <4>2. RelaunchHolds(d)'
        BY <1>0, <2>1, <4>1 DEF RelaunchHolds, At, Coordinated, CommandHolds
      <4>3. \A e \in Commands : cmd[e].pc \in StartPcs => cmd[e].run # r
        BY <1>0, <2>3 DEF Coordinated, CommandHolds, StartingHolds
      <4>4. cmd[d].pc \in StartPcs => cmd[d].run \in Runs
        BY <1>0 DEF Typed, Requests, RequestRecords, StartPcs
      <4>5. StartingHolds(d)
        BY <1>0 DEF Coordinated, CommandHolds
      <4>6. StartingHolds(d)'
        BY <2>2, <2>4, <4>3, <4>4, <4>5 DEF StartingHolds
      <4> QED BY <4>2, <4>6
    <3>6. ASSUME NEW d \in Commands PROVE RequeueHolds(d)'
      BY <2>2, <2>5 DEF RequeueHolds, At
    <3> QED BY <3>2, <3>4, <3>5, <3>6 DEF Coordinated, CommandHolds
  <2> QED BY <2>6, <2>7, <2>8 DEF Lawful
<1> QED BY <1>0, <1>2, ConflictIsLawful

\* The driver accepted the task: the run has one, and its command is answered.
LEMMA DriverStartedIsLawful ==
  ASSUME IInv, NEW c \in Commands, DriverStarted(c)
  PROVE  Lawful
<1>0. /\ Typed /\ Coordinated /\ Informed /\ cmd[c] \in Requests /\ cmd[c].pc = "starting"
      /\ UNCHANGED <<task, approval, result, latest>>
  BY DEF IInv, Typed, DriverStarted, At, notes
<1>1. cmd[c].run \in Runs
  BY <1>0 DEF Requests, RequestRecords
<1> PICK r \in Runs : r = cmd[c].run
  BY <1>1
<1>2. CASE /\ RunGoes(r, "START", "running") /\ binding' = [binding EXCEPT ![r] = "ACTIVE"]
           /\ ev' = [ev EXCEPT ![r] = "next"] /\ Commits(c, {Run(r), Binding(r)}, {}) /\ Return(c)
  <2>1. /\ cmd'[c] = Idle /\ cmd'[c].pc = "idle" /\ Onward(c)
        /\ \A d \in Commands \ {c} : cmd'[d] = cmd[d]
    BY <1>0, <1>2, Returned
  <2>2. /\ run'[r] = "running" /\ run[r] = "created" /\ Live(r)
        /\ \A s \in Runs : s # r => run'[s] = run[s]
    BY <1>2, RunEvents, LedgerSays DEF IInv
  <2>3. [L!Next]_(L!ledger)
    <3>1. L!RunStarted(r)
      BY <1>0, <1>2 DEF L!RunStarted, RunGoes
    <3> QED BY <3>1 DEF L!Next, L!RunStep
  <2>4. Informed'
    <3> DEFINE recs == {Run(r), Binding(r)}
    <3>1. /\ Commits(c, recs, {}) /\ Run(r) \in recs
          /\ \A s \in Runs : ev'[s] = ev[s] \/ ev'[s] = "next"
      BY <1>0, <1>2 DEF Typed
    <3> HIDE DEF recs
    <3> QED BY <1>0, <2>1, <2>2, <3>1, CommandCommits DEF KnowingPcs
  <2>5. Coordinated'
    <3>1. \A d \in Commands : Launching(d) => d = c
      BY <1>0, <2>2 DEF Coordinated, CommandHolds, LaunchHolds, StartingHolds, StartPcs
    <3>2. NoLaunchAfter
      BY <2>1, <3>1 DEF NoLaunchAfter, Launching, Idle, LaunchPcs
    <3> QED BY <1>0, <2>1, <2>2, <3>2, StaysCoordinated
  <2> QED BY <2>3, <2>4, <2>5 DEF Lawful
<1>3. CASE Await(c, "abort") /\ UNCHANGED <<run, binding, ev, snap>>
  <2>1. /\ cmd'[c].pc = "abort" /\ cmd'[c].op = cmd[c].op /\ cmd'[c].run = cmd[c].run
        /\ \A d \in Commands \ {c} : cmd'[d] = cmd[d]
    BY <1>0, <1>3, Walked DEF Pcs, LaunchPcs
  <2>2. Onward(c)
    BY <1>0, <2>1, WalksOnward DEF LaunchPcs, StartPcs, EarlyPcs
  <2>3. UNCHANGED <<records, latest, ev>>
    BY <1>0, <1>3 DEF records
  <2> QED BY <1>0, <1>3, <2>1, <2>2, <2>3, Quietly DEF KnowingPcs
<1> QED BY <1>2, <1>3 DEF DriverStarted

\* A start that failed, found out by its own command or by another.
LEMMA FailedStartIsLawful ==
  ASSUME IInv, NEW c \in Commands, NEW r \in Runs, r = cmd[c].run,
         cmd[c].pc \in {"abort", "reconcile"}, run[r] = "created", RunGoes(r, "FAIL", "failed"),
         Commits(c, {Run(r)}, {}), UNCHANGED <<task, binding, approval, result, latest, ev>>,
         cmd'[c].pc = "release", cmd'[c].op = cmd[c].op, cmd'[c].run = cmd[c].run,
         \A d \in Commands \ {c} : cmd'[d] = cmd[d]
  PROVE  Lawful
<1>0. Typed /\ Coordinated /\ Informed
  BY DEF IInv
<1>1. run'[r] = "failed" /\ Live(r) /\ \A s \in Runs : s # r => run'[s] = run[s]
  BY RunEvents, LedgerSays DEF IInv
<1>2. run'[r] \notin L!LiveRunStatuses
  BY <1>1 DEF L!LiveRunStatuses, L!RunStatuses, L!TerminalRunStatuses
<1>3. [L!Next]_(L!ledger)
  <2>1. L!RunStartFailed(r)
    BY DEF L!RunStartFailed, RunGoes
  <2> QED BY <2>1 DEF L!Next, L!RunStep
<1>4. Informed'
  <2> DEFINE recs == {Run(r)}
  <2>1. Commits(c, recs, {}) /\ Run(r) \in recs
    OBVIOUS
  <2> HIDE DEF recs
  <2> QED BY <1>0, <1>1, <2>1, CommandCommits DEF KnowingPcs
<1>5. Onward(c)
  BY <1>0, <1>2 DEF Onward, Launching, LaunchPcs, StartPcs, EarlyPcs, Coordinated, CommandHolds,
     RelaunchHolds
<1>6. Coordinated'
  BY <1>0, <1>1, <1>2, <1>5, StaysCoordinated
<1> QED BY <1>3, <1>4, <1>6 DEF Lawful

LEMMA AbortIsLawful ==
  ASSUME IInv, NEW c \in Commands, Abort(c) \/ Reconcile(c)
  PROVE  Lawful
<1>0. /\ Typed /\ Coordinated /\ Informed /\ cmd[c] \in Requests
      /\ cmd[c].pc \in {"abort", "reconcile"}
  BY DEF IInv, Typed, Abort, Reconcile, At
<1>1. cmd[c].run \in Runs
  BY <1>0 DEF Requests, RequestRecords
<1> PICK r \in Runs : r = cmd[c].run
  BY <1>1
<1> DEFINE Goes == /\ cmd'[c].pc = "release" /\ cmd'[c].op = cmd[c].op /\ cmd'[c].run = cmd[c].run
                   /\ \A d \in Commands \ {c} : cmd'[d] = cmd[d]
<1>2. CASE Abort(c)
  <2>1. AwaitWith(c, "release", FALSE) /\ cmd[c].pc = "abort"
        /\ UNCHANGED <<task, binding, approval, result, latest, ev>>
    BY <1>2 DEF Abort, AwaitWith, At, notes
  <2>2. Goes
    BY <1>0, <2>1, Walked DEF Pcs, LaunchPcs
  <2>3. CASE run[r] = "created"
    BY <1>2, <2>1, <2>2, <2>3, FailedStartIsLawful DEF Abort
  <2>4. CASE run[r] # "created"
    <3>1. UNCHANGED <<run, snap>>
      BY <1>2, <2>4 DEF Abort
    <3>2. UNCHANGED <<records, latest, ev>>
      BY <2>1, <3>1 DEF records
    <3>3. Onward(c)
      <4>1. run'[r] \notin L!LiveRunStatuses \/ ~Launching(c)
        BY <1>0, <2>1, <2>4, <3>1, LedgerSays, LiveIs
           DEF Coordinated, CommandHolds, LaunchHolds, Live, L!Live
      <4> QED BY <1>0, <2>1, <2>2, <4>1
              DEF Onward, Launching, LaunchPcs, StartPcs, EarlyPcs, Coordinated, CommandHolds,
                  RelaunchHolds
    <3> QED BY <1>0, <2>2, <3>1, <3>2, <3>3, Quietly DEF KnowingPcs
  <2> QED BY <2>3, <2>4
<1>3. CASE Reconcile(c) /\ ~Conflict(c, "release")
  <2>1. /\ Fresh(c) /\ RunGoes(r, "FAIL", "failed") /\ Commits(c, {Run(r)}, {})
        /\ Await(c, "release") /\ cmd[c].pc = "reconcile"
        /\ UNCHANGED <<task, binding, approval, result, latest, ev>>
    BY <1>3 DEF Reconcile, At, notes
  <2>2. Goes
    BY <1>0, <2>1, Walked DEF Pcs, LaunchPcs
  <2>3. run[r] = "created"
    BY <1>0, <2>1 DEF Informed, SnapHolds
  <2> QED BY <2>1, <2>2, <2>3, FailedStartIsLawful
<1>4. CASE Reconcile(c) /\ Conflict(c, "release")
  BY <1>4, ConflictIsLawful DEF Reconcile, At
<1> QED BY <1>2, <1>3, <1>4

LEMMA FailTaskIsLawful ==
  ASSUME IInv, NEW c \in Commands, FailTask(c)
  PROVE  Lawful
<1>0. Typed /\ Coordinated /\ Informed /\ cmd[c] \in Requests /\ cmd[c].pc = "failTask"
  BY DEF IInv, Typed, FailTask, At
<1>1. CASE ~Conflict(c, "idle")
  <2>1. /\ TaskGoes("FAIL", "FAILED") /\ Commits(c, {Task}, {}) /\ Return(c)
        /\ UNCHANGED <<run, binding, approval, result, latest, ev>>
    BY <1>1 DEF FailTask, notes
  <2>2. /\ cmd'[c] = Idle /\ cmd'[c].pc = "idle" /\ Onward(c)
        /\ \A d \in Commands \ {c} : cmd'[d] = cmd[d]
    BY <1>0, <2>1, Returned
  <2>3. Launching(c)
    BY <1>0 DEF Requests, RequestRecords, Launching, LaunchPcs
  <2>4. /\ NoLiveRun /\ task = "RUNNING" /\ \A r \in Runs : ~Promised(r)
        /\ \A d \in Commands : Launching(d) => d = c
    BY <1>0, <2>3 DEF Coordinated, CommandHolds, LaunchHolds, StartPcs, NoLiveRun, At
  <2>5. [L!Next]_(L!ledger)
    <3>1. L!FailStart
      BY <2>1, <2>4 DEF L!FailStart, TaskGoes, NoLiveRun, L!NoLiveRun, Live
    <3> QED BY <3>1 DEF L!Next, L!TaskStep
  <2>6. Informed'
    BY <1>0, <2>1, <2>2, CommandCommits DEF KnowingPcs
  <2>7. Coordinated'
    <3>1. NoLaunchAfter
      BY <2>2, <2>4 DEF NoLaunchAfter, Launching, Idle, LaunchPcs
    <3>2. task' # "WAITING_APPROVAL"
      BY <2>1 DEF TaskGoes, L!TaskGoes
    <3> QED BY <1>0, <2>1, <2>2, <2>4, <3>1, <3>2, StaysCoordinated
  <2> QED BY <2>5, <2>6, <2>7 DEF Lawful
<1> QED BY <1>1, ConflictIsLawful DEF FailTask

LEMMA LaunchStepIsLawful ==
  ASSUME IInv, NEW c \in Commands, LaunchStep(c)
  PROVE  Lawful
  BY LaunchReadsLawfully, AskFallbackIsLawful, CreateRunIsLawful, DriverStartedIsLawful, AbortIsLawful,
     FailTaskIsLawful DEF LaunchStep

\* Steps that write no record, off the way to a launch.
OtherPcs == Pcs \ (LaunchPcs \cup {"requeue"} \cup KnowingPcs)

LEMMA MovesAside ==
  ASSUME Typed, Coordinated, NEW c \in Commands,
         Return(c) \/ \E q \in OtherPcs : Await(c, q) \/ AwaitUndelivered(c, q)
  PROVE  /\ Onward(c) /\ cmd'[c].pc \notin KnowingPcs /\ cmd'[c].pc \notin LaunchPcs
         /\ \A d \in Commands \ {c} : cmd'[d] = cmd[d]
<1>1. CASE Return(c)
  BY <1>1, Returned DEF KnowingPcs, LaunchPcs
<1>2. ASSUME NEW q \in OtherPcs, Await(c, q) \/ AwaitUndelivered(c, q)
      PROVE  /\ Onward(c) /\ cmd'[c].pc \notin KnowingPcs /\ cmd'[c].pc \notin LaunchPcs
             /\ \A d \in Commands \ {c} : cmd'[d] = cmd[d]
  <2>1. q \in Pcs
    BY DEF OtherPcs
  <2>2. /\ cmd'[c].pc = q /\ cmd'[c].op = cmd[c].op /\ cmd'[c].run = cmd[c].run
        /\ \A d \in Commands \ {c} : cmd'[d] = cmd[d]
    BY <1>2, <2>1, Walked
  <2>3. q \notin LaunchPcs \cup {"requeue"} \cup KnowingPcs \cup StartPcs \cup {"start", "askFallback"}
    BY DEF OtherPcs, LaunchPcs, StartPcs
  <2>4. Onward(c)
    BY <2>2, <2>3, WalksOnward
  <2> QED BY <2>2, <2>3, <2>4
<1> QED BY <1>1, <1>2

LEMMA OtherPcsAre == \A q \in {"deliver", "rejectCancel", "rejectClose", "rejectClosing",
                              "rejectDraining", "rejectClosed", "cancelled", "tidying", "respond",
                              "markDelivered", "cancelRpc", "complete"} : q \in OtherPcs
  BY DEF OtherPcs, Pcs, LaunchPcs, KnowingPcs

LEMMA AsideIsLawful ==
  ASSUME IInv, NEW c \in Commands, UNCHANGED <<records, latest, ev>>,
         UNCHANGED snap \/ \E recs : Reads(c, recs),
         Return(c) \/ \E q \in OtherPcs : Await(c, q) \/ AwaitUndelivered(c, q)
  PROVE  Lawful
<1>1. Typed /\ Coordinated /\ Informed
  BY DEF IInv
<1> QED BY <1>1, MovesAside, Quietly

LEMMA DecideReadsLawfully ==
  ASSUME IInv, NEW c \in Commands,
         \/ Respond(c) \/ RejectCancel(c) \/ RejectClose(c) \/ RejectClosing(c) \/ RejectClosed(c)
         \/ Deliver(c) \/ CancelRpc(c)
  PROVE  Lawful
<1>1. UNCHANGED <<records, latest, ev>> /\ (UNCHANGED snap \/ \E recs : Reads(c, recs))
  BY DEF Respond, RejectCancel, RejectClose, RejectClosing, RejectClosed, Deliver, CancelRpc, notes
<1>2. Return(c) \/ \E q \in OtherPcs : Await(c, q) \/ AwaitUndelivered(c, q)
  <2>1. CASE Respond(c)
    <3>1. Return(c) \/ Await(c, "deliver") \/ Await(c, "rejectCancel")
             \/ AwaitUndelivered(c, "rejectClose")
      BY <2>1 DEF Respond, AwaitUndelivered
    <3> QED BY <3>1, OtherPcsAre
  <2>2. CASE RejectCancel(c)
    <3>1. Await(c, "rejectClose") \/ AwaitUndelivered(c, "rejectClose")
      BY <2>2 DEF RejectCancel, AwaitUndelivered
    <3> QED BY <3>1, OtherPcsAre
  <2>3. CASE RejectClose(c)
    <3>1. Await(c, "rejectClosing") \/ Await(c, "rejectClosed")
      BY <2>3 DEF RejectClose
    <3> QED BY <3>1, OtherPcsAre
  <2>4. CASE RejectClosing(c) \/ RejectClosed(c) \/ Deliver(c) \/ CancelRpc(c)
    <3>1. Return(c) \/ Await(c, "rejectDraining") \/ Await(c, "deliver") \/ Await(c, "markDelivered")
             \/ Await(c, "cancelled")
      BY <2>4 DEF RejectClosing, RejectClosed, Deliver, CancelRpc
    <3> QED BY <3>1, OtherPcsAre
  <2> QED BY <2>1, <2>2, <2>3, <2>4
<1> QED BY <1>1, <1>2, AsideIsLawful

LEMMA CheckCancelledIsLawful ==
  ASSUME IInv, NEW c \in Commands, CheckCancelled(c)
  PROVE  Lawful
<1>0. Typed /\ Coordinated /\ Informed /\ cmd[c] \in Requests /\ cmd[c].pc = "cancelled"
  BY DEF IInv, Typed, CheckCancelled, At
<1>1. cmd[c].run \in Runs
  BY <1>0 DEF Requests, RequestRecords
<1> PICK r \in Runs : r = cmd[c].run
  BY <1>1
<1>2. UNCHANGED <<records, latest, ev>>
  BY DEF CheckCancelled, notes
<1>3. CASE Await(c, "confirm") /\ Reads(c, BoundRecords(r) \cup {Cursor})
  <2>1. /\ cmd'[c].pc = "confirm" /\ cmd'[c].op = cmd[c].op /\ cmd'[c].run = r
        /\ \A d \in Commands \ {c} : cmd'[d] = cmd[d]
    BY <1>0, <1>3, Walked DEF Pcs, LaunchPcs
  <2>2. Onward(c)
    BY <1>0, <2>1, WalksOnward DEF LaunchPcs, StartPcs, EarlyPcs
  <2>3. Run(r) \in snap'[c]
    BY <1>0, <1>3, Names DEF Reads, Typed, BoundRecords
  <2>4. SnapHolds(c)'
    BY <2>1, <2>3 DEF SnapHolds
  <2> QED BY <1>0, <1>2, <1>3, <2>1, <2>2, <2>4, Quietly
<1>4. CASE (Return(c) \/ Await(c, "tidying")) /\ Reads(c, {})
  BY <1>2, <1>4, AsideIsLawful, OtherPcsAre
<1> QED BY <1>3, <1>4 DEF CheckCancelled, AwaitCleanup

\* The retry finds the source run as it was when its context was committed.
LEMMA RequeueIsLawful ==
  ASSUME IInv, NEW c \in Commands, Requeue(c)
  PROVE  Lawful
<1>0. Typed /\ Coordinated /\ Informed /\ cmd[c].pc = "requeue"
  BY DEF IInv, Requeue, At
<1>1. UNCHANGED <<records, latest, ev>>
  BY DEF Requeue, notes
<1>2. CASE Await(c, "enqueue") /\ Reads(c, {Task, Cursor})
  <2>1. /\ cmd'[c].pc = "enqueue" /\ cmd'[c].op = cmd[c].op /\ cmd'[c].run = cmd[c].run
        /\ \A d \in Commands \ {c} : cmd'[d] = cmd[d]
    BY <1>0, <1>2, Walked DEF Pcs, LaunchPcs
  <2>2. Onward(c)
    BY <1>0, <2>1, WalksOnward DEF LaunchPcs, StartPcs, EarlyPcs
  <2>3. Cursor \in snap'[c]
    BY <1>0, <1>2, Names DEF Reads, Typed
  <2>4. NoLiveRun'
    BY <1>0, <1>1 DEF Coordinated, CommandHolds, RequeueHolds, At, NoLiveRun, Live, L!Live, records
  <2>5. SnapHolds(c)'
    BY <2>1, <2>3, <2>4 DEF SnapHolds
  <2> QED BY <1>0, <1>1, <1>2, <2>1, <2>2, <2>5, Quietly
<1>3. CASE Return(c) /\ Reads(c, {})
  BY <1>1, <1>3, AsideIsLawful
<1> QED BY <1>2, <1>3 DEF Requeue

\* A commit that changes what is not in the ledger.
LEMMA NeutralCommit ==
  ASSUME IInv, NEW c \in Commands, NEW recs, NEW next, Commits(c, recs, next),
         UNCHANGED <<records, latest, ev>>, Return(c) \/ \E q \in OtherPcs : Await(c, q)
  PROVE  Lawful
<1>1. Typed /\ Coordinated /\ Informed /\ UNCHANGED <<task, run, approval>> /\ UNCHANGED L!ledger
  BY DEF IInv, records, L!ledger
<1>2. /\ Onward(c) /\ cmd'[c].pc \notin KnowingPcs
      /\ \A d \in Commands \ {c} : cmd'[d] = cmd[d]
  BY <1>1, MovesAside
<1>3. Informed'
  BY <1>1, <1>2, CommandCommits
<1>4. Coordinated'
  BY <1>1, <1>2, StaysCoordinated
<1> QED BY <1>1, <1>3, <1>4 DEF Lawful

\* While a run is at work, nothing is being launched, promised or taken up again.
LEMMA AtWork ==
  ASSUME Coordinated, NEW r \in Runs, Live(r), run[r] # "created"
  PROVE  /\ \A d \in Commands : ~Launching(d) /\ cmd[d].pc # "requeue"
         /\ \A s \in Runs : ~Promised(s)
  BY DEF Coordinated, CommandHolds, LaunchHolds, RequeueHolds, PromiseHolds, NoLiveRun, At

\* So its moves need not be coordinated.
LEMMA WorkMoves ==
  ASSUME Typed, Coordinated, UNCHANGED latest, NEW r \in Runs, Live(r), run[r] # "created",
         run'[r] \notin {"absent", "created"}, \A s \in Runs : s # r => run'[s] = run[s],
         \A s \in Runs : approval'[Fallback(s)] = approval[Fallback(s)],
         \A d \in Commands : cmd'[d] = cmd[d] \/ (Onward(d) /\ cmd'[d].pc \notin LaunchPcs)
  PROVE  Coordinated'
<1>1. /\ \A d \in Commands : ~Launching(d) /\ cmd[d].pc # "requeue"
      /\ \A s \in Runs : ~Promised(s)
  BY AtWork
<1>2. NoLaunchAfter
  BY <1>1 DEF NoLaunchAfter, Launching
<1> QED BY <1>1, <1>2, StaysCoordinated

LEMMA DecideFallbackIsLawful ==
  ASSUME IInv, NEW c \in Commands, DecideFallback(c)
  PROVE  Lawful
<1>0. /\ Typed /\ Coordinated /\ Informed /\ cmd[c] \in Requests /\ cmd[c].pc = "decideFallback"
      /\ DOMAIN approval = Approvals
  BY LedgerSays DEF IInv, Typed, DecideFallback, At
<1>1. cmd[c].run \in Runs
  BY <1>0 DEF Requests, RequestRecords
<1> PICK r \in Runs : r = cmd[c].run
  BY <1>1
<1> DEFINE a == Fallback(r)
<1>2. CASE ~Conflict(c, "idle")
  <2>1. /\ Fresh(c) /\ Commits(c, snap[c], {}) /\ Return(c)
        /\ UNCHANGED <<run, binding, result, latest, ev>>
        /\ \/ /\ TaskGoes("APPROVE_ACTION", "RUNNING")
              /\ approval' = [approval EXCEPT ![a] = "approved"]
           \/ /\ TaskGoes("FAIL", "FAILED")
              /\ approval' = [approval EXCEPT ![a] = "denied"]
    BY <1>2 DEF DecideFallback, notes
  <2>2. /\ cmd'[c] = Idle /\ cmd'[c].pc = "idle" /\ Onward(c)
        /\ \A d \in Commands \ {c} : cmd'[d] = cmd[d]
    BY <1>0, <2>1, Returned
  <2>3. approval[a] = "pending" /\ task = "WAITING_APPROVAL" /\ NoLiveRun /\ a \in Approvals
    <3>1. approval[a] = "pending"
      BY <1>0, <2>1 DEF Informed, SnapHolds
    <3>2. a \in Approvals
      BY LedgerNames
    <3> QED BY <3>1, <3>2, LedgerSays DEF IInv
  <2>4. /\ \A d \in Commands : ~Launching(d) /\ cmd[d].pc # "requeue"
        /\ \A s \in Runs : ~Promised(s)
    BY <1>0, <2>3 DEF Coordinated, CommandHolds, LaunchHolds, RequeueHolds, PromiseHolds, At
  <2>5. NoLaunchAfter
    BY <2>2, <2>4 DEF NoLaunchAfter, Launching, Idle, LaunchPcs
  <2>6. [L!Next]_(L!ledger)
    <3>1. CASE TaskGoes("APPROVE_ACTION", "RUNNING") /\ approval' = [approval EXCEPT ![a] = "approved"]
      <4>1. L!ApproveFallback(a)
        BY <2>1, <2>3, <3>1 DEF L!ApproveFallback, TaskGoes
      <4> QED BY <2>3, <4>1 DEF L!Next, L!ApprovalStep
    <3>2. CASE TaskGoes("FAIL", "FAILED") /\ approval' = [approval EXCEPT ![a] = "denied"]
      <4>1. <<task, "DENY_ACTION", "RUNNING">> \in L!TaskTransitions
        BY <2>3 DEF L!TaskTransitions
      <4>2. L!RejectFallback(a)
        BY <2>1, <2>3, <3>2, <4>1 DEF L!RejectFallback, TaskGoes
      <4> QED BY <2>3, <4>2 DEF L!Next, L!ApprovalStep
    <3> QED BY <2>1, <3>1, <3>2
  <2>7. Informed'
    BY <1>0, <2>1, <2>2, CommandCommits DEF KnowingPcs
  <2>8. \A s \in Runs : Fallback(s) \in Approvals /\ (Fallback(s) = a => s = r)
    BY LedgerNames DEF Fallback
  <2>9. CASE TaskGoes("APPROVE_ACTION", "RUNNING") /\ approval' = [approval EXCEPT ![a] = "approved"]
    <3>1. task' = "RUNNING" /\ NoLiveRun'
      BY <2>1, <2>3, <2>9 DEF TaskGoes, L!TaskGoes, NoLiveRun, Live, L!Live
    <3>2. \A s \in Runs : approval[Fallback(s)] = "approved" => approval'[Fallback(s)] = "approved"
      BY <1>0, <2>8, <2>9
    <3>3. \A s \in Runs : Promised(s)' => s = r
      BY <1>0, <2>1, <2>4, <2>8, <2>9 DEF Promised
    <3>4. LatestLive' /\ PromiseHolds'
      BY <3>1, <3>3 DEF LatestLive, PromiseHolds, NoLiveRun
    <3>5. ASSUME NEW d \in Commands PROVE LaunchHolds(d)' /\ RequeueHolds(d)'
      BY <2>2, <2>4, <2>5 DEF LaunchHolds, RequeueHolds, NoLaunchAfter, Launching, At
    <3>6. ASSUME NEW d \in Commands PROVE RelaunchHolds(d)' /\ StartingHolds(d)'
      <4>1. cmd'[d] = cmd[d] \/ cmd'[d] = Idle
        BY <2>2
      <4>2. RelaunchHolds(d) /\ StartingHolds(d)
        BY <1>0 DEF Coordinated, CommandHolds
      <4>3. \A e \in Commands : cmd'[e].pc \in StartPcs => cmd'[e] = cmd[e]
        BY <2>2 DEF Idle, StartPcs
      <4> QED BY <2>1, <3>2, <4>1, <4>2, <4>3 DEF RelaunchHolds, StartingHolds, Idle, At
    <3>7. Coordinated'
      BY <3>4, <3>5, <3>6 DEF Coordinated, CommandHolds
    <3> QED BY <2>6, <2>7, <3>7 DEF Lawful
  <2>10. CASE TaskGoes("FAIL", "FAILED") /\ approval' = [approval EXCEPT ![a] = "denied"]
    <3>1. \A s \in Runs : approval'[Fallback(s)] = "approved" <=> approval[Fallback(s)] = "approved"
      BY <1>0, <2>3, <2>8, <2>10
    <3>2. task' # "WAITING_APPROVAL"
      BY <2>10 DEF TaskGoes, L!TaskGoes
    <3>3. Coordinated'
      BY <1>0, <2>1, <2>2, <2>4, <2>5, <3>1, <3>2, StaysCoordinated
    <3> QED BY <2>6, <2>7, <3>3 DEF Lawful
  <2> QED BY <2>1, <2>9, <2>10
<1> QED BY <1>2, ConflictIsLawful

LEMMA DecideIsLawful ==
  ASSUME IInv, NEW c \in Commands, Decide(c)
  PROVE  Lawful
<1>0. /\ Typed /\ Coordinated /\ Informed /\ cmd[c] \in Requests /\ cmd[c].pc = "decide"
      /\ DOMAIN approval = Approvals
  BY LedgerSays DEF IInv, Typed, Decide, At
<1>1. cmd[c].run \in Runs /\ cmd[c].n \in 0..LastEvent /\ cmd[c].n # 0
  BY <1>0 DEF Requests, RequestRecords
<1> PICK r \in Runs : r = cmd[c].run
  BY <1>1
<1> PICK n \in 0..LastEvent : n = cmd[c].n
  BY <1>1
<1> DEFINE a == <<r, n>>
<1>2. CASE ~Conflict(c, "idle")
  <2>1. /\ Fresh(c) /\ Commits(c, snap[c], {}) /\ Await(c, "respond") /\ UNCHANGED <<result, latest, ev>>
        /\ \/ /\ TaskGoes("APPROVE_ACTION", "RUNNING") /\ RunGoes(r, "RESUME", "running")
              /\ approval' = [approval EXCEPT ![a] = "approved"] /\ UNCHANGED binding
           \/ /\ TaskGoes("INTERRUPT", "INTERRUPTED") /\ RunGoes(r, "INTERRUPT", "interrupted")
              /\ approval' = [approval EXCEPT ![a] = "denied"] /\ BindingEnds(r, "FAILED")
    BY <1>2 DEF Decide, notes
  <2>2. /\ Onward(c) /\ cmd'[c].pc \notin KnowingPcs /\ cmd'[c].pc \notin LaunchPcs
        /\ \A d \in Commands \ {c} : cmd'[d] = cmd[d]
    BY <1>0, <2>1, MovesAside, OtherPcsAre
  <2>3. Run(r) \in snap[c] /\ approval[a] = "pending" /\ run[r] = "waiting_permission"
    BY <1>0, <2>1 DEF Informed, SnapHolds
  <2>4. /\ a \in Approvals \ {Fallback(s) : s \in Runs} /\ [b \in Approvals |-> b[1]][a] = r
        /\ \A s \in Runs : Fallback(s) # a
    BY <1>1 DEF Approvals, Fallback
  <2>5. /\ run'[r] \notin {"absent", "created"} /\ Live(r)
        /\ \A s \in Runs : s # r => run'[s] = run[s]
    BY <2>1, RunEvents, LedgerSays DEF IInv
  <2>6. [L!Next]_(L!ledger)
    <3>1. L!ApprovePermission(a) \/ L!RejectPermission(a)
      BY <2>1, <2>3, <2>4 DEF L!ApprovePermission, L!RejectPermission, TaskGoes, RunGoes, BindingEnds
    <3> QED BY <2>4, <3>1 DEF L!Next, L!ApprovalStep
  <2>7. Informed'
    BY <1>0, <2>1, <2>2, <2>3, <2>5, CommandCommits
  <2>8. \A s \in Runs : approval'[Fallback(s)] = approval[Fallback(s)]
    BY <1>0, <2>1, <2>4, LedgerNames
  <2>9. Coordinated'
    BY <1>0, <2>1, <2>2, <2>3, <2>5, <2>8, WorkMoves
  <2> QED BY <2>6, <2>7, <2>9 DEF Lawful
<1> QED BY <1>2, ConflictIsLawful

LEMMA CancelIsLawful ==
  ASSUME IInv, NEW c \in Commands, RequestCancel(c) \/ ConfirmCancel(c)
  PROVE  Lawful
<1>0. Typed /\ Coordinated /\ Informed /\ cmd[c] \in Requests /\ cmd[c].pc \in {"cancel", "confirm"}
  BY DEF IInv, Typed, RequestCancel, ConfirmCancel, At
<1>1. cmd[c].run \in Runs
  BY <1>0 DEF Requests, RequestRecords
<1> PICK r \in Runs : r = cmd[c].run
  BY <1>1
<1>2. CASE ~Conflict(c, "idle")
  <2>1. /\ Fresh(c) /\ Commits(c, snap[c], {}) /\ UNCHANGED <<approval, result, latest, ev>>
        /\ Await(c, "cancelRpc") \/ Await(c, "tidying")
        /\ \/ /\ TaskGoes("CANCEL", "CANCELLED") /\ RunGoes(r, "REQUEST_CANCELLATION", "cancelling")
              /\ UNCHANGED binding
           \/ /\ RunGoes(r, "CONFIRM_CANCELLED", "cancelled") /\ BindingEnds(r, "CLOSED")
              /\ UNCHANGED task
    BY <1>2 DEF RequestCancel, ConfirmCancel, AwaitCleanup, notes
  <2>2. /\ Onward(c) /\ cmd'[c].pc \notin KnowingPcs /\ cmd'[c].pc \notin LaunchPcs
        /\ \A d \in Commands \ {c} : cmd'[d] = cmd[d]
    BY <1>0, <2>1, MovesAside, OtherPcsAre
  <2>3. Run(r) \in snap[c]
    BY <1>0, <2>1 DEF Informed, SnapHolds
  <2>4. /\ run'[r] \notin {"absent", "created"} /\ Live(r) /\ run[r] # "created"
        /\ \A s \in Runs : s # r => run'[s] = run[s]
    BY <2>1, RunEvents, LedgerSays DEF IInv
  <2>5. [L!Next]_(L!ledger)
    <3>1. L!RequestCancel(r) \/ L!ConfirmCancel(r)
      BY <2>1 DEF L!RequestCancel, L!ConfirmCancel, TaskGoes, RunGoes, BindingEnds
    <3> QED BY <3>1 DEF L!Next, L!RunStep
  <2>6. Informed'
    BY <1>0, <2>1, <2>2, <2>3, <2>4, CommandCommits
  <2>7. Coordinated'
    BY <1>0, <2>1, <2>2, <2>4, WorkMoves
  <2> QED BY <2>5, <2>6, <2>7 DEF Lawful
<1> QED BY <1>2, ConflictIsLawful DEF RequestCancel, ConfirmCancel

\* The event cursor has not moved since the retry looked for a run that is live.
LEMMA PrepareRetryContextIsLawful ==
  ASSUME IInv, NEW c \in Commands, PrepareRetryContext(c)
  PROVE  Lawful
<1>0. Typed /\ Coordinated /\ Informed /\ cmd[c] \in Requests /\ cmd[c].pc = "context"
  BY DEF IInv, Typed, PrepareRetryContext, At
<1>1. CASE ~Conflict(c, "idle")
  <2> DEFINE next == {Run(cmd[c].src)}
  <2>1. /\ Fresh(c) /\ Commits(c, {}, next) /\ Await(c, "requeue") /\ UNCHANGED <<records, latest, ev>>
    BY <1>1 DEF PrepareRetryContext
  <2>2. /\ cmd'[c].pc = "requeue" /\ cmd'[c].op = cmd[c].op /\ cmd'[c].run = cmd[c].run
        /\ \A d \in Commands \ {c} : cmd'[d] = cmd[d]
    BY <1>0, <2>1, Walked DEF Pcs
  <2>3. NoLiveRun /\ task \in {"FAILED", "CANCELLED", "INTERRUPTED"}
    BY <1>0, <2>1 DEF Informed, SnapHolds, Retryable
  <2>4. /\ \A d \in Commands : ~Launching(d)
        /\ \A s \in Runs : ~Promised(s)
    BY <1>0, <2>3 DEF Coordinated, CommandHolds, LaunchHolds, PromiseHolds
  <2>5. UNCHANGED <<task, run, approval>> /\ UNCHANGED L!ledger
    BY <2>1 DEF records, L!ledger
  <2>6. Informed'
    <3>1. cmd'[c].pc \notin KnowingPcs
      BY <2>2 DEF KnowingPcs
    <3> HIDE DEF next
    <3> QED BY <1>0, <2>1, <2>2, <2>5, <3>1, CommandCommits
  <2>7. \A d \in Commands : ~(cmd'[d].op \in {"start", "retry"} /\ cmd'[d].pc \in LaunchPcs)
    BY <2>2, <2>4 DEF Launching, LaunchPcs
  <2>8. /\ \A s \in Runs : ~Live(s)' /\ ~Promised(s)'
        /\ task' \in {"FAILED", "CANCELLED", "INTERRUPTED"}
    BY <2>3, <2>4, <2>5 DEF NoLiveRun, Live, L!Live, Promised
  <2>9. LatestLive' /\ PromiseHolds' /\ NoLiveRun'
    BY <2>8 DEF LatestLive, PromiseHolds, NoLiveRun
  <2>10. ASSUME NEW d \in Commands PROVE LaunchHolds(d)' /\ RequeueHolds(d)'
    BY <2>7, <2>8, <2>9 DEF LaunchHolds, RequeueHolds, Launching
  <2>11. ASSUME NEW d \in Commands PROVE RelaunchHolds(d)' /\ StartingHolds(d)'
    <3>1. /\ cmd'[d].op = cmd[d].op /\ cmd'[d].run = cmd[d].run
          /\ cmd'[d].pc = cmd[d].pc \/ cmd'[d].pc = "requeue"
      BY <2>2
    <3>2. \A e \in Commands : cmd'[e].pc \in StartPcs => cmd[e].pc \in StartPcs /\ cmd'[e] = cmd[e]
      BY <2>2 DEF StartPcs
    <3>3. RelaunchHolds(d) /\ StartingHolds(d)
      BY <1>0 DEF Coordinated, CommandHolds
    <3> QED BY <2>5, <3>1, <3>2, <3>3 DEF RelaunchHolds, StartingHolds, At
  <2>12. Coordinated'
    BY <2>9, <2>10, <2>11 DEF Coordinated, CommandHolds
  <2> QED BY <2>5, <2>6, <2>12 DEF Lawful
<1> QED BY <1>1, ConflictIsLawful DEF PrepareRetryContext

LEMMA ReviewedIsLawful ==
  ASSUME IInv, NEW c \in Commands, ApproveReview(c) \/ Complete(c)
  PROVE  Lawful
<1>0. Typed /\ Coordinated /\ Informed
  BY DEF IInv
<1>1. CASE ~Conflict(c, "idle")
  <2>1. /\ \E next : Commits(c, {Task}, next)
        /\ Await(c, "complete") \/ Await(c, "tidying")
        /\ UNCHANGED <<run, binding, approval, result, latest, ev>>
        /\ \/ TaskGoes("APPROVE_REVIEW", "READY_FOR_MERGE")
           \/ TaskGoes("COMPLETE", "COMPLETED")
    BY <1>1 DEF ApproveReview, Complete, AwaitCleanup, notes
  <2>2. /\ Onward(c) /\ cmd'[c].pc \notin KnowingPcs /\ cmd'[c].pc \notin LaunchPcs
        /\ \A d \in Commands \ {c} : cmd'[d] = cmd[d]
    BY <1>0, <2>1, MovesAside, OtherPcsAre
  <2>3. task \in {"REVIEW_REQUIRED", "READY_FOR_MERGE"} /\ task' # "WAITING_APPROVAL"
    BY <2>1, TaskEvents DEF TaskGoes, L!TaskGoes
  <2>4. /\ \A d \in Commands : ~Launching(d)
        /\ \A s \in Runs : ~Promised(s)
    BY <1>0, <2>3 DEF Coordinated, CommandHolds, LaunchHolds, PromiseHolds
  <2>5. NoLaunchAfter
    BY <2>2, <2>4 DEF NoLaunchAfter, Launching
  <2>6. [L!Next]_(L!ledger)
    BY <2>1 DEF L!Next, L!TaskStep, L!ApproveReview, L!Complete, TaskGoes
  <2>7. Informed'
    <3> DEFINE recs == {Task}
    <3>1. \E next : Commits(c, recs, next)
      BY <2>1
    <3> HIDE DEF recs
    <3> QED BY <1>0, <2>1, <2>2, <3>1, CommandCommits
  <2>8. Coordinated'
    BY <1>0, <2>1, <2>2, <2>3, <2>4, <2>5, StaysCoordinated
  <2> QED BY <2>6, <2>7, <2>8 DEF Lawful
<1> QED BY <1>1, ConflictIsLawful DEF ApproveReview, Complete

LEMMA CommandStepIsLawful ==
  ASSUME IInv, NEW c \in Commands, CommandStep(c)
  PROVE  Lawful
<1>1. CASE MarkDelivered(c) \/ ConfirmCleanup(c)
  <2>1. CASE ~Conflict(c, "idle")
    <3>1. /\ \E recs, next : Commits(c, recs, next)
          /\ Return(c) \/ Await(c, "tidying")
          /\ UNCHANGED <<records, latest, ev>>
      BY <1>1, <2>1 DEF MarkDelivered, ConfirmCleanup, AwaitCleanup, notes
    <3> QED BY <3>1, NeutralCommit, OtherPcsAre
  <2> QED BY <2>1, ConflictIsLawful
<1>2. CASE DecideStep(c)
  BY <1>1, <1>2, DecideFallbackIsLawful, DecideIsLawful, DecideReadsLawfully DEF DecideStep
<1> QED BY <1>1, <1>2, EnqueueIsLawful, StartRunIsLawful, LaunchStepIsLawful, CancelIsLawful,
           DecideReadsLawfully, CheckCancelledIsLawful, PrepareRetryContextIsLawful,
           RequeueIsLawful, ReviewedIsLawful DEF CommandStep

(***************************************************************************)
(* The consumers, the clean-ups and the drivers.                           *)
(***************************************************************************)
LEMMA Consumes ==
  ASSUME Typed, NEW r \in Runs, NEW pc, Consume(r, pc)
  PROVE  ev'[r] = pc /\ \A s \in Runs \ {r} : ev'[s] = ev[s]
  BY DEF Typed, Consume

LEMMA NothingToCoordinate ==
  ASSUME Typed, Coordinated, UNCHANGED <<task, run, approval, latest, cmd>>
  PROVE  Coordinated'
  BY StaysCoordinated

\* The consumer of r reads, or goes on.
LEMMA ConsumerReadsLawfully ==
  ASSUME IInv, NEW r \in Runs, UNCHANGED <<records, latest, cmd>>,
         UNCHANGED snap \/ \E recs : Reads(Events(r), recs),
         NEW pc, Consume(r, pc), pc \notin {"fail", "interrupt", "ask"} \/ EventHolds(r)'
  PROVE  Lawful
<1>0. Typed /\ Coordinated /\ Informed /\ UNCHANGED <<task, run, approval>> /\ UNCHANGED L!ledger
  BY DEF IInv, records, L!ledger
<1>1. ev'[r] = pc /\ \A s \in Runs \ {r} : ev'[s] = ev[s]
  BY <1>0, Consumes
<1>2. \A u \in Threads \ {Events(r)} : Kept(u)
  BY <1>0, ReadsKeep
<1>3. Informed'
  BY <1>0, <1>1, <1>2, Names, StaysInformed
<1>4. Coordinated'
  BY <1>0, NothingToCoordinate
<1> QED BY <1>0, <1>3, <1>4 DEF Lawful

\* It commits.
LEMMA ConsumerCommits ==
  ASSUME Typed, Informed, NEW r \in Runs, NEW recs, NEW next, Commits(Events(r), recs, next),
         \A s \in Runs : run'[s] # run[s] => Run(s) \in recs, UNCHANGED cmd,
         NEW pc, Consume(r, pc), pc \notin {"fail", "interrupt", "ask"}
  PROVE  Informed'
<1>1. ev'[r] = pc /\ \A s \in Runs \ {r} : ev'[s] = ev[s]
  BY Consumes
<1>2. \A u \in Threads \ {Events(r)} : Kept(u)
  BY CommitsKeep
<1> QED BY <1>1, <1>2, Names, StaysInformed

\* What the consumer does when it is done with an event, or gives up.
LEMMA GivesUp ==
  ASSUME NEW r
  PROVE  /\ Consumed(r) => Consume(r, "next")
         /\ TerminalConsumed(r) => Consume(r, "next")
         /\ Throws(r) => Consume(r, "threw")
         /\ StopConsuming(r) => Consume(r, "none")
  BY DEF Consumed, TerminalConsumed, Throws, StopConsuming

LEMMA ConsumerLooksLawfully ==
  ASSUME IInv, NEW r \in Runs,
         \/ StreamEnds(r) \/ Checkpoint(r) \/ Notify(r) \/ RunCompleted(r) \/ CollectOutcome(r)
         \/ DriverEnded(r) \/ InterruptAfterError(r)
  PROVE  Lawful
<1> DEFINE t == Events(r)
<1>1. UNCHANGED <<records, latest, cmd>> /\ (UNCHANGED snap \/ \E recs : Reads(t, recs))
  BY DEF StreamEnds, Checkpoint, Notify, RunCompleted, CollectOutcome, DriverEnded,
     InterruptAfterError, notes
<1>2. Typed /\ StreamHolds(r) /\ UNCHANGED <<run, task>> /\ t \in Threads
  BY <1>1, Names DEF IInv, StreamsHold, records
<1>3. ASSUME NEW pc \in {"next", "none", "threw", "export", "notify", "collect", "submit"}, Consume(r, pc)
      PROVE  Lawful
  BY <1>1, <1>3, ConsumerReadsLawfully
<1>4. ASSUME NEW pc \in {"fail", "interrupt", "ask"}, Consume(r, pc), NEW recs, Reads(t, recs),
             Run(r) \in recs, pc # "ask" /\ Task \notin recs => run[r] = "cancelling"
      PROVE  Lawful
  <2>1. ev'[r] = pc /\ snap'[t] = recs
    BY <1>2, <1>4, Consumes DEF Reads, Typed
  <2>2. EventHolds(r)'
    BY <1>2, <1>4, <2>1 DEF EventHolds
  <2> QED BY <1>1, <1>4, <2>2, ConsumerReadsLawfully
<1> DEFINE ends == EndingRecords(r)
<1>5. /\ Run(r) \in ends
      /\ Task \notin ends => task \notin {"RUNNING", "WAITING_APPROVAL"}
  BY DEF EndingRecords, BoundRecords
<1>6. /\ run[r] = "running" => task = "RUNNING"
      /\ run[r] = "waiting_permission" => task = "WAITING_APPROVAL"
  BY LedgerSays DEF IInv
<1>7. CASE StreamEnds(r) \/ Checkpoint(r) \/ CollectOutcome(r) \/ RunCompleted(r)
  <2>1. \E pc \in {"next", "none", "threw", "export", "notify", "collect", "submit"} : Consume(r, pc)
    BY <1>7, GivesUp DEF StreamEnds, Checkpoint, CollectOutcome, RunCompleted
  <2> QED BY <1>3, <2>1
<1>8. CASE Notify(r)
  <2> DEFINE recs == {Task, Run(r), Approval(<<r, Event(r).n>>)}
  <2>1. Run(r) \in recs
    OBVIOUS
  <2>2. Consumed(r) \/ (Consume(r, "ask") /\ Reads(t, recs))
    BY <1>8 DEF Notify
  <2> HIDE DEF recs
  <2> QED BY <1>3, <1>4, <2>1, <2>2, GivesUp
<1>9. CASE DriverEnded(r)
  <2>1. \/ TerminalConsumed(r)
        \/ /\ Consume(r, "fail") /\ Reads(t, ends)
           /\ run[r] \in {"running", "waiting_permission", "cancelling"}
    BY <1>9 DEF DriverEnded
  <2>2. ASSUME run[r] \in {"running", "waiting_permission", "cancelling"}, Task \notin ends
        PROVE  run[r] = "cancelling"
    BY <1>5, <1>6, <2>2
  <2> HIDE DEF ends
  <2> QED BY <1>3, <1>4, <1>5, <2>1, <2>2, GivesUp
<1>10. CASE InterruptAfterError(r)
  <2>1. \/ StopConsuming(r)
        \/ Consume(r, "interrupt") /\ Reads(t, ends) /\ ~Terminal(r)
    BY <1>10 DEF InterruptAfterError
  <2>2. run[r] \notin {"absent", "created"}
    BY <1>2, <1>10 DEF InterruptAfterError, StreamHolds
  <2>3. ASSUME ~Terminal(r), Task \notin ends PROVE run[r] = "cancelling"
    <3>1. run[r] \in L!RunStatuses \cup {"absent"}
      <4>1. run[r] \in LP!RunStatuses \cup {"absent"}
        BY DEF IInv, LP!IInv, LP!TypeOK
      <4> QED BY <4>1 DEF LP!RunStatuses, L!RunStatuses
    <3> QED BY <1>5, <1>6, <2>2, <2>3, <3>1 DEF Terminal, L!RunStatuses, L!TerminalRunStatuses
  <2> HIDE DEF ends
  <2> QED BY <1>3, <1>4, <1>5, <2>1, <2>3, GivesUp
<1> QED BY <1>7, <1>8, <1>9, <1>10

LEMMA TaskGoesOn ==
  ASSUME Typed, Coordinated, UNCHANGED <<run, approval, latest, cmd>>,
         task \notin {"QUEUED", "RUNNING"}, task' # "WAITING_APPROVAL"
  PROVE  Coordinated'
<1>1. /\ \A d \in Commands : ~Launching(d)
      /\ \A s \in Runs : ~Promised(s)
  BY DEF Coordinated, CommandHolds, LaunchHolds, PromiseHolds
<1>2. NoLaunchAfter
  BY <1>1 DEF NoLaunchAfter, Launching
<1> QED BY <1>1, <1>2, StaysCoordinated

\* A driver's question is put to the operator once.
LEMMA RequestPermissionIsLawful ==
  ASSUME IInv, NEW r \in Runs, RequestPermission(r)
  PROVE  Lawful
<1>0. /\ Typed /\ Coordinated /\ Informed /\ StreamsHold /\ StreamHolds(r) /\ ev[r] = "ask"
      /\ UNCHANGED <<binding, result, latest, cmd>>
      /\ DOMAIN run = Runs /\ DOMAIN approval = Approvals
  BY LedgerSays DEF IInv, StreamsHold, RequestPermission, notes
<1> DEFINE t == Events(r)
           n == Event(r).n
           a == <<r, n>>
<1>1. CASE Fresh(t) /\ approval[a] = "absent"
  <2>1. /\ TaskGoes("REQUEST_APPROVAL", "WAITING_APPROVAL")
        /\ RunGoes(r, "WAIT_FOR_PERMISSION", "waiting_permission")
        /\ approval' = [approval EXCEPT ![a] = "pending"]
        /\ Commits(t, snap[t], {}) /\ Consume(r, "next")
    BY <1>1, GivesUp DEF RequestPermission
  <2>2. n \in 1..LastEvent
    <3>1. queue[r] # <<>> /\ queue[r] \in Seq(Sendable) /\ Event(r).type \in Kinds
      BY <1>0 DEF StreamHolds, StreamsHold, StreamsTyped
    <3>2. 1 \in DOMAIN queue[r] /\ Event(r) = queue[r][1]
      BY <3>1 DEF Event
    <3>3. Event(r).n \in DOMAIN history[r]
      BY <1>0, <3>1, <3>2 DEF StreamHolds
    <3> QED BY <1>0, <3>3, HistoriesAreShort
  <2>3. /\ a \in Approvals \ {Fallback(s) : s \in Runs} /\ [b \in Approvals |-> b[1]][a] = r
        /\ \A s \in Runs : Fallback(s) # a
    <3> HIDE DEF n
    <3> QED BY <2>2, BoundsAssumption DEF Approvals, Fallback, LastEvent
  <2> HIDE DEF a, n
  <2>4. /\ run'[r] = "waiting_permission" /\ Live(r) /\ run[r] # "created"
        /\ \A s \in Runs : s # r => run'[s] = run[s]
    BY <1>0, <2>1, RunEvents
  <2>5. Run(r) \in snap[t]
    BY <1>0, <1>1 DEF Informed, EventHolds
  <2>6. [L!Next]_(L!ledger)
    <3>1. L!RequestPermission(a)
      BY <1>0, <1>1, <2>1, <2>3 DEF L!RequestPermission, TaskGoes, RunGoes, a
    <3> QED BY <2>3, <3>1 DEF L!Next, L!ApprovalStep
  <2>7. Informed'
    BY <1>0, <2>1, <2>4, <2>5, ConsumerCommits
  <2>8. \A s \in Runs : approval'[Fallback(s)] = approval[Fallback(s)]
    BY <1>0, <2>1, <2>3, LedgerNames
  <2>9. Coordinated'
    BY <1>0, <2>4, <2>8, WorkMoves
  <2> QED BY <2>6, <2>7, <2>9 DEF Lawful
<1>2. CASE ~(Fresh(t) /\ approval[a] = "absent")
  <2>1. Consume(r, "threw") /\ Reads(t, {}) /\ UNCHANGED <<records, latest, cmd>>
    BY <1>0, <1>2, GivesUp DEF RequestPermission, records
  <2> QED BY <2>1, ConsumerReadsLawfully
<1> QED BY <1>1, <1>2

\* A run that succeeded is recorded with its result and its task.
LEMMA SubmitIsLawful ==
  ASSUME IInv, NEW r \in Runs, Submit(r)
  PROVE  Lawful
<1>0. Typed /\ Coordinated /\ Informed /\ UNCHANGED <<latest, cmd>> /\ DOMAIN run = Runs
  BY LedgerSays DEF IInv, Submit, notes
<1> DEFINE t == Events(r)
<1>1. CASE {Task, Run(r)} \subseteq snap[t] /\ run[r] = "running"
  <2>1. /\ TaskGoes("SUBMIT", "SUBMITTED") /\ RunGoes(r, "SUCCEED", "succeeded")
        /\ BindingEnds(r, "CLOSED") /\ result' = result \cup {r} /\ UNCHANGED approval
        /\ Commits(t, snap[t], {Task}) /\ Consume(r, "verify")
    BY <1>1 DEF Submit
  <2>2. /\ run'[r] = "succeeded" /\ Live(r) /\ \A s \in Runs : s # r => run'[s] = run[s]
    BY <1>0, <2>1, RunEvents
  <2>3. [L!Next]_(L!ledger)
    <3>1. L!Submit(r)
      BY <2>1 DEF L!Submit, TaskGoes, RunGoes, BindingEnds
    <3> QED BY <3>1 DEF L!Next, L!RunStep
  <2>4. Informed'
    <3> DEFINE next == {Task}
    <3>1. Commits(t, snap[t], next) /\ Run(r) \in snap[t]
      BY <1>1, <2>1
    <3> HIDE DEF next
    <3> QED BY <1>0, <2>1, <2>2, <3>1, ConsumerCommits
  <2>5. Coordinated'
    BY <1>0, <1>1, <2>1, <2>2, WorkMoves
  <2> QED BY <2>3, <2>4, <2>5 DEF Lawful
<1>2. CASE ~({Task, Run(r)} \subseteq snap[t] /\ run[r] = "running")
  <2>1. Consume(r, "threw") /\ Reads(t, {}) /\ UNCHANGED <<records, latest, cmd>>
    BY <1>0, <1>2, GivesUp DEF Submit
  <2> QED BY <2>1, ConsumerReadsLawfully
<1> QED BY <1>1, <1>2

LEMMA VerificationIsLawful ==
  ASSUME IInv, NEW r \in Runs, RecordVerification(r) \/ RequestReview(r)
  PROVE  Lawful
<1>0. /\ Typed /\ Coordinated /\ Informed
      /\ UNCHANGED <<run, binding, approval, result, latest, cmd>>
  BY DEF IInv, RecordVerification, RequestReview, notes
<1> DEFINE t == Events(r)
           recs == {Task}
<1>1. CASE Fresh(t)
  <2>1. /\ \E next : Commits(t, recs, next)
        /\ Consume(r, "review") \/ Consume(r, "next")
        /\ \/ TaskGoes("START_VERIFICATION", "VERIFYING")
           \/ TaskGoes("REQUEST_REVIEW", "REVIEW_REQUIRED")
    BY <1>1, GivesUp DEF RecordVerification, RequestReview
  <2>2. task \in {"SUBMITTED", "VERIFYING"} /\ task' # "WAITING_APPROVAL"
    BY <2>1, TaskEvents DEF TaskGoes, L!TaskGoes
  <2>3. [L!Next]_(L!ledger)
    BY <1>0, <2>1 DEF L!Next, L!TaskStep, L!StartVerification, L!RequestReview, TaskGoes
  <2>4. Informed'
    <3> HIDE DEF recs
    <3> QED BY <1>0, <2>1, ConsumerCommits
  <2>5. Coordinated'
    BY <1>0, <2>2, TaskGoesOn
  <2> QED BY <2>3, <2>4, <2>5 DEF Lawful
<1>2. CASE ~Fresh(t)
  <2>1. Consume(r, "threw") /\ Reads(t, {}) /\ UNCHANGED <<records, latest, cmd>>
    BY <1>0, <1>2, GivesUp DEF RecordVerification, RequestReview, records
  <2> QED BY <2>1, ConsumerReadsLawfully
<1> QED BY <1>1, <1>2

\* The snapshot tells whether the task has to be interrupted with its run.
LEMMA TaskIsInterrupted ==
  ASSUME IInv, NEW r \in Runs, ev[r] \in {"fail", "interrupt"}, Fresh(Events(r)),
         TaskInterrupted(Events(r))
  PROVE  L!TaskInterrupted /\ (run[r] = "cancelling" => UNCHANGED task)
<1>1. run[r] = "cancelling" => task = "CANCELLED"
  BY LedgerSays DEF IInv
<1>2. Task \notin snap[Events(r)] => run[r] = "cancelling"
  BY DEF IInv, Informed, EventHolds
<1>3. Task \in snap[Events(r)] => task \in {"RUNNING", "WAITING_APPROVAL"}
  BY TaskEvents DEF TaskInterrupted
<1> QED BY <1>1, <1>2, <1>3 DEF TaskInterrupted, L!TaskInterrupted, TaskGoes

\* A run the driver ended, or that is interrupted after an error.
LEMMA EndedRunIsLawful ==
  ASSUME IInv, NEW r \in Runs, ev[r] \in {"fail", "interrupt"}, Fresh(Events(r)),
         TaskInterrupted(Events(r)), UNCHANGED <<approval, result, latest, cmd>>,
         Commits(Events(r), snap[Events(r)], {}), Consume(r, "next") \/ Consume(r, "none"),
         \/ /\ RunGoes(r, "CONFIRM_CANCELLED", "cancelled") /\ BindingEnds(r, "CLOSED")
         \/ /\ RunGoes(r, "FAIL", "failed") /\ \E s \in {"CLOSED", "FAILED"} : BindingEnds(r, s)
         \/ /\ RunGoes(r, "INTERRUPT", "interrupted") /\ BindingEnds(r, "FAILED")
  PROVE  Lawful
<1>0. Typed /\ Coordinated /\ Informed /\ StreamHolds(r) /\ DOMAIN run = Runs
  BY LedgerSays DEF IInv, StreamsHold
<1>1. /\ run'[r] \notin {"absent", "created"} /\ Live(r)
      /\ \A s \in Runs : s # r => run'[s] = run[s]
  BY <1>0, RunEvents
<1>2. Run(r) \in snap[Events(r)] /\ run[r] # "created"
  BY <1>0 DEF Informed, EventHolds, StreamHolds
<1>3. [L!Next]_(L!ledger)
  <2>1. L!TaskInterrupted /\ (run[r] = "cancelling" => UNCHANGED task)
    BY TaskIsInterrupted
  <2>2. CASE RunGoes(r, "CONFIRM_CANCELLED", "cancelled") /\ BindingEnds(r, "CLOSED")
    <3>1. run[r] = "cancelling"
      BY <1>0, <2>2, RunEvents
    <3>2. L!ConfirmCancel(r)
      BY <2>1, <2>2, <3>1 DEF L!ConfirmCancel, RunGoes, BindingEnds
    <3> QED BY <3>2 DEF L!Next, L!RunStep
  <2>3. CASE RunGoes(r, "FAIL", "failed") /\ \E s \in {"CLOSED", "FAILED"} : BindingEnds(r, s)
    <3>1. L!DriverFailed(r)
      BY <1>2, <2>1, <2>3 DEF L!DriverFailed, RunGoes, BindingEnds
    <3> QED BY <3>1 DEF L!Next, L!RunStep
  <2>4. CASE RunGoes(r, "INTERRUPT", "interrupted") /\ BindingEnds(r, "FAILED")
    <3>1. L!Interrupt(r)
      BY <2>1, <2>4 DEF L!Interrupt, RunGoes, BindingEnds
    <3> QED BY <3>1 DEF L!Next, L!RunStep
  <2> QED BY <2>2, <2>3, <2>4
<1>4. Informed'
  BY <1>0, <1>1, <1>2, ConsumerCommits
<1>5. Coordinated'
  BY <1>0, <1>1, <1>2, WorkMoves
<1> QED BY <1>3, <1>4, <1>5 DEF Lawful

LEMMA RecordFailureIsLawful ==
  ASSUME IInv, NEW r \in Runs, RecordFailure(r) \/ RecordInterruption(r)
  PROVE  Lawful
<1> DEFINE t == Events(r)
<1>0. UNCHANGED <<latest, cmd>> /\ ev[r] \in {"fail", "interrupt"}
  BY DEF RecordFailure, RecordInterruption, notes
<1>1. CASE Reads(t, {}) /\ UNCHANGED records /\ (Throws(r) \/ StopConsuming(r))
  <2>1. Consume(r, "threw") \/ Consume(r, "none")
    BY <1>1, GivesUp
  <2> QED BY <1>0, <1>1, <2>1, ConsumerReadsLawfully
<1>2. CASE RecordFailure(r) /\ ~(Reads(t, {}) /\ UNCHANGED records /\ Throws(r))
  <2>1. /\ Fresh(t) /\ TaskInterrupted(t) /\ Commits(t, snap[t], {})
        /\ UNCHANGED <<approval, result>> /\ Consume(r, "next")
        /\ \/ /\ RunGoes(r, "CONFIRM_CANCELLED", "cancelled") /\ BindingEnds(r, "CLOSED")
           \/ /\ RunGoes(r, "FAIL", "failed") /\ \E s \in {"CLOSED", "FAILED"} : BindingEnds(r, s)
    BY <1>2, GivesUp DEF RecordFailure
  <2> QED BY <1>0, <2>1, EndedRunIsLawful
<1>3. CASE RecordInterruption(r) /\ Fresh(t)
  <2>1. StreamHolds(r) /\ ev[r] = "interrupt"
    BY <1>3 DEF IInv, StreamsHold, RecordInterruption
  <2>2. run[r] # "created"
    BY <2>1 DEF StreamHolds
  <2>3. /\ TaskInterrupted(t) /\ Commits(t, snap[t], {}) /\ Consume(r, "none")
        /\ RunGoes(r, "INTERRUPT", "interrupted") /\ BindingEnds(r, "FAILED")
        /\ UNCHANGED <<approval, result>>
    BY <1>3, <2>2, GivesUp DEF RecordInterruption, InterruptRecords
  <2> QED BY <1>0, <1>3, <2>3, EndedRunIsLawful
<1>4. CASE RecordInterruption(r) /\ ~Fresh(t)
  BY <1>1, <1>4 DEF RecordInterruption
<1> QED BY <1>1, <1>2, <1>3, <1>4

LEMMA SaveCheckpointIsLawful ==
  ASSUME IInv, NEW r \in Runs, SaveCheckpoint(r)
  PROVE  Lawful
<1> DEFINE t == Events(r)
<1>0. /\ Typed /\ Coordinated /\ Informed /\ UNCHANGED <<records, latest, cmd>>
      /\ UNCHANGED <<task, run, approval>> /\ UNCHANGED L!ledger
  BY DEF IInv, SaveCheckpoint, records, L!ledger
<1>1. CASE Commits(t, {Run(r)}, {}) /\ Consume(r, "notify")
  <2> DEFINE recs == {Run(r)}
  <2>1. Commits(t, recs, {})
    BY <1>1
  <2> HIDE DEF recs
  <2>2. Informed'
    BY <1>0, <1>1, <2>1, ConsumerCommits
  <2>3. Coordinated'
    BY <1>0, NothingToCoordinate
  <2> QED BY <1>0, <2>2, <2>3 DEF Lawful
<1>2. CASE Reads(t, {}) /\ (Consume(r, "notify") \/ Throws(r))
  <2>1. Consume(r, "notify") \/ Consume(r, "threw")
    BY <1>2, GivesUp
  <2> QED BY <1>0, <1>2, <2>1, ConsumerReadsLawfully
<1> QED BY <1>1, <1>2 DEF SaveCheckpoint

LEMMA EventStepIsLawful ==
  ASSUME IInv, NEW r \in Runs, EventStep(r)
  PROVE  Lawful
  BY ConsumerLooksLawfully, SaveCheckpointIsLawful, RequestPermissionIsLawful, SubmitIsLawful,
     VerificationIsLawful, RecordFailureIsLawful DEF EventStep

LEMMA CleanupStepIsLawful ==
  ASSUME IInv, NEW r \in Runs, CleanupStep(r)
  PROVE  Lawful
<1> DEFINE t == Cleanup(r)
<1>0. /\ Typed /\ Coordinated /\ Informed /\ UNCHANGED <<records, latest, ev>>
      /\ UNCHANGED <<task, run, approval>> /\ UNCHANGED L!ledger
  BY DEF IInv, CleanupStep, InspectTargets, CleanupClosesDriver, EventsDrained, ReleaseLease, Audit,
     notes, records, L!ledger
<1>1. \/ UNCHANGED snap \/ (\E recs : Reads(t, recs)) \/ (\E recs, next : Commits(t, recs, next))
  BY DEF CleanupStep, InspectTargets, CleanupClosesDriver, EventsDrained, ReleaseLease, Audit
<1>2. UNCHANGED cmd \/ \E pc \in {"ensure", "failed"} : CleanupEnds(r, pc)
  BY DEF CleanupStep, InspectTargets, CleanupClosesDriver, EventsDrained, ReleaseLease, Audit
<1>3. ASSUME NEW d \in Commands
      PROVE  \/ cmd'[d] = cmd[d]
             \/ Onward(d) /\ cmd'[d].pc \notin KnowingPcs
  <2>1. CASE cmd'[d] = Idle
    BY <2>1 DEF Idle, Onward, LaunchPcs, StartPcs, KnowingPcs
  <2>2. CASE \E pc \in {"ensure", "failed"} :
               cmd'[d] = [cmd[d] EXCEPT !.pc = pc] /\ At(d, "cleaning")
    <3>1. cmd[d] \in Requests
      BY <1>0 DEF Typed
    <3>2. /\ cmd'[d].op = cmd[d].op /\ cmd'[d].run = cmd[d].run
          /\ cmd'[d].pc \in {"ensure", "failed"} /\ cmd[d].pc = "cleaning"
      BY <2>2, <3>1 DEF At, Requests, RequestRecords
    <3>3. Onward(d)
      BY <1>0, <3>2, WalksOnward DEF LaunchPcs, StartPcs, EarlyPcs
    <3> QED BY <3>2, <3>3 DEF KnowingPcs
  <2>3. \/ cmd'[d] = cmd[d] \/ cmd'[d] = Idle
        \/ \E pc \in {"ensure", "failed"} :
             cmd'[d] = [cmd[d] EXCEPT !.pc = pc] /\ At(d, "cleaning")
    BY <1>2 DEF CleanupEnds
  <2> QED BY <2>1, <2>2, <2>3
<1>4. \A u \in Threads \ {t} : Kept(u)
  BY <1>0, <1>1, ReadsKeep, CommitsKeep
<1>5. (\A d \in Commands : d # t) /\ \A s \in Runs : Events(s) # t
  BY Names
<1>6. Informed'
  <2> HIDE DEF t
  <2> QED BY <1>0, <1>3, <1>4, <1>5, StaysInformed
<1>7. Coordinated'
  BY <1>0, <1>3, StaysCoordinated
<1> QED BY <1>0, <1>6, <1>7 DEF Lawful

\* Nothing the commands or the consumers know of moves.
LEMMA ElsewhereIsLawful ==
  ASSUME IInv, UNCHANGED <<records, latest, cmd, ev>>, \A u \in Threads : Kept(u)
  PROVE  Lawful
<1>1. /\ Typed /\ Coordinated /\ Informed /\ UNCHANGED <<task, run, approval>> /\ UNCHANGED L!ledger
  BY DEF IInv, records, L!ledger
<1>2. (\A d \in Commands : d # None) /\ \A s \in Runs : Events(s) # None
  BY Names
<1>3. Informed'
  BY <1>1, <1>2, StaysInformed
<1>4. Coordinated'
  BY <1>1, NothingToCoordinate
<1> QED BY <1>1, <1>3, <1>4 DEF Lawful

\* A run that was under way at the crash goes on, or is interrupted.
LEMMA RecoveryStepIsLawful ==
  ASSUME IInv, NEW r \in Runs, RecoveryStep(r)
  PROVE  Lawful
<1>0. /\ Typed /\ Coordinated /\ Informed /\ UNCHANGED <<latest, cmd>> /\ DOMAIN run = Runs
      /\ r \in toRecover
  BY LedgerSays DEF IInv, RecoveryStep, Resume, InterruptRecovery, notes
<1>1. (\A d \in Commands : d # None) /\ (\A s \in Runs : Events(s) # None) /\ Threads \ {None} = Threads
  BY Names
<1>2. CASE Resume(r)
  <2> DEFINE recs == {Run(r)}
  <2>1. /\ UNCHANGED <<records, task, run, approval>> /\ UNCHANGED L!ledger
        /\ Commits(None, recs, {}) /\ Consume(r, "next")
    BY <1>2 DEF Resume, records, L!ledger
  <2> HIDE DEF recs
  <2>2. \A u \in Threads : Kept(u)
    BY <1>1, <2>1, CommitsKeep
  <2>3. ev'[r] = "next" /\ \A s \in Runs \ {r} : ev'[s] = ev[s]
    BY <1>0, <2>1, Consumes
  <2>4. Informed'
    BY <1>0, <1>1, <2>2, <2>3, StaysInformed
  <2>5. Coordinated'
    BY <1>0, <2>1, NothingToCoordinate
  <2> QED BY <2>1, <2>4, <2>5 DEF Lawful
<1>3. CASE InterruptRecovery(r)
  <2> DEFINE recs == EndingRecords(r)
  <2>1. /\ InterruptRecords(r) /\ L!TaskInterrupted /\ Commits(None, recs, {}) /\ UNCHANGED ev
    BY <1>3 DEF InterruptRecovery, L!TaskInterrupted, TaskGoes
  <2>2. /\ run'[r] \notin {"absent", "created"} /\ Live(r)
        /\ \A s \in Runs : s # r => run'[s] = run[s]
    BY <1>0, <2>1, RunEvents DEF InterruptRecords
  <2>3. Run(r) \in recs
    BY DEF EndingRecords, BoundRecords
  <2> HIDE DEF recs
  <2>4. [L!Next]_(L!ledger)
    <3>1. L!Interrupt(r)
      BY <2>1 DEF InterruptRecords, L!Interrupt, RunGoes, BindingEnds
    <3> QED BY <3>1 DEF L!Next, L!RunStep
  <2>5. \A u \in Threads : Kept(u)
    BY <1>1, <2>1, <2>2, <2>3, CommitsKeep
  <2>6. Informed'
    BY <1>0, <1>1, <2>1, <2>5, StaysInformed
  <2>7. \A d \in Commands : cmd[d] = Idle /\ cmd'[d] = Idle
    BY <1>0 DEF IInv, RecoversFirst
  <2>8. NoLaunchAfter /\ \A d \in Commands : cmd[d].pc # "requeue"
    BY <2>7 DEF NoLaunchAfter, Idle
  <2>9. \A s \in Runs : ~Promised(s)
    BY <1>0, <2>2 DEF Coordinated, PromiseHolds, NoLiveRun
  <2>10. UNCHANGED approval
    BY <2>1 DEF InterruptRecords
  <2>11. Coordinated'
    BY <1>0, <2>2, <2>8, <2>9, <2>10, StaysCoordinated
  <2> QED BY <2>4, <2>6, <2>11 DEF Lawful
<1> QED BY <1>2, <1>3 DEF RecoveryStep

LEMMA CrashIsLawful ==
  ASSUME IInv, CrashAndRestart
  PROVE  Lawful
<1>1. /\ Typed /\ Coordinated /\ UNCHANGED <<task, run, approval, latest>> /\ UNCHANGED L!ledger
      /\ \A d \in Commands : cmd'[d] = Idle
      /\ \A r \in Runs : ev'[r] = "none"
  BY DEF IInv, CrashAndRestart, records, notes, L!ledger
<1>2. \A d \in Commands : Onward(d)
  BY <1>1 DEF Onward, Idle, StartPcs
<1>3. Coordinated'
  BY <1>1, <1>2, StaysCoordinated
<1>4. \A d \in Commands : SnapHolds(d)'
  BY <1>1 DEF SnapHolds, Idle
<1>5. \A r \in Runs : EventHolds(r)'
  BY <1>1 DEF EventHolds
<1> QED BY <1>1, <1>3, <1>4, <1>5 DEF Lawful, Informed

LEMMA EveryStepIsLawful ==
  ASSUME IInv, [Next]_vars
  PROVE  Lawful
<1>1. ASSUME UNCHANGED <<records, latest, cmd, ev, snap>> PROVE Lawful
  <2>1. Typed /\ UNCHANGED <<task, run, approval>>
    BY <1>1 DEF IInv, records
  <2>2. \A u \in Threads : Kept(u)
    BY <1>1, <2>1 DEF Kept
  <2> QED BY <1>1, <2>2, ElsewhereIsLawful
<1>2. ASSUME NEW r \in Runs, DriverStep(r) PROVE Lawful
  BY <1>1, <1>2 DEF DriverStep, DriverProgresses, DriverAsks, DriverCompletes, DriverFails,
     DriverExits, Outside, notes
<1>3. CASE RepeatComplete \/ LeaseExpires \/ UNCHANGED vars
  BY <1>1, <1>3 DEF RepeatComplete, LeaseExpires, Outside, notes, vars
<1>4. CASE OtherTaskCommits
  <2>1. /\ UNCHANGED <<records, task, run, approval, latest, cmd, ev>>
        /\ \A u \in Threads : snap'[u] # Stale => snap'[u] = snap[u]
    BY <1>4 DEF OtherTaskCommits, records, notes
  <2>2. \A u \in Threads : Kept(u)
    BY <2>1 DEF Kept
  <2> QED BY <2>1, <2>2, ElsewhereIsLawful
<1> QED
  BY <1>2, <1>3, <1>4, RequestsAreLawful, CommandStepIsLawful, EventStepIsLawful,
     CleanupStepIsLawful, RecoveryStepIsLawful, CrashIsLawful DEF Next

(***************************************************************************)
(* The Bridge implements the ledger.                                       *)
(***************************************************************************)
LEMMA LedgerRunsStay ==
  ASSUME LP!IInv, [L!Next]_(L!ledger)
  PROVE  RunsStay
<1>1. DOMAIN run = Runs
  BY LedgerSays
<1>2. ASSUME NEW r \in Runs, NEW event, NEW to, RunGoes(r, event, to) PROVE RunsStay
  BY <1>1, <1>2, RunEvents DEF RunsStay
<1>3. ASSUME UNCHANGED run PROVE RunsStay
  BY <1>3 DEF RunsStay
<1>4. CASE L!TaskStep \/ UNCHANGED L!ledger
  BY <1>3, <1>4 DEF L!ledger, L!TaskStep, L!Enqueue, L!Retry, L!StartRun, L!FailStart,
     L!StartVerification, L!RequestReview, L!ApproveReview, L!Complete
<1>5. ASSUME NEW r \in Runs, L!RunStep(r) PROVE RunsStay
  <2>1. CASE L!CreateRun(r)
    BY <1>1, <2>1 DEF L!CreateRun, RunsStay
  <2>2. CASE ~L!CreateRun(r)
    <3>1. \E event, to : RunGoes(r, event, to)
      BY <1>5, <2>2 DEF L!RunStep, L!RunStarted, L!RunStartFailed, L!RequestCancel, L!ConfirmCancel,
         L!DriverFailed, L!Interrupt, L!Submit, RunGoes
    <3> QED BY <1>2, <3>1
  <2> QED BY <2>1, <2>2
<1>6. ASSUME NEW a \in Approvals, L!ApprovalStep(a) PROVE RunsStay
  <2>1. a[1] \in Runs
    BY DEF Approvals
  <2>2. UNCHANGED run \/ \E event, to : RunGoes(a[1], event, to)
    BY <1>6 DEF L!ApprovalStep, L!RequestFallback, L!ApproveFallback, L!RejectFallback,
       L!RequestPermission, L!ApprovePermission, L!RejectPermission, RunGoes
  <2> QED BY <1>2, <1>3, <2>1, <2>2
<1> QED BY <1>4, <1>5, <1>6 DEF L!Next

LEMMA InitIInv == Init => IInv
<1> SUFFICES ASSUME Init PROVE IInv
  OBVIOUS
<1>1. LP!IInv
  BY SameLedger, LedgerNames, LP!InitIInv DEF Init
<1>2. Typed /\ RecoversFirst
  BY IdleIsRequest DEF Init, Typed, RecoversFirst, EventPcs
<1>3. \A r \in Runs : ~Live(r) /\ run[r] = "absent" /\ approval[Fallback(r)] = "absent"
  BY LedgerNames, LiveIs DEF Init, L!Init
<1>4. Coordinated
  <2>1. LatestLive /\ PromiseHolds
    BY <1>3 DEF LatestLive, PromiseHolds, Promised
  <2>2. \A d \in Commands : CommandHolds(d)
    BY DEF Init, Idle, CommandHolds, LaunchHolds, Launching, RelaunchHolds, StartingHolds, RequeueHolds,
       StartPcs, At
  <2> QED BY <2>1, <2>2 DEF Coordinated
<1>5. Informed
  BY DEF Init, Idle, Informed, SnapHolds, EventHolds
<1>6. StreamsHold
  <2>1. <<>> \in Seq(Kinds) /\ <<>> \in Seq(Sendable) /\ 0 \in 0..MaxCrashes
    BY BoundsAssumption
  <2>2. StreamsTyped
    BY <2>1 DEF Init, StreamsTyped
  <2>3. \A type : SentIn(<<>>, type) = 0
    <3>1. \A type : Places(<<>>, type) = {}
      BY DEF Places
    <3> QED BY <3>1, FS_EmptySet DEF SentIn
  <2>4. Bounded(<<>>, 0)
    BY <2>1, <2>3, BoundsAssumption DEF Init, Bounded
  <2>5. ASSUME NEW r \in Runs PROVE StreamHolds(r)
    BY <2>4 DEF Init, StreamHolds
  <2> QED BY <2>2, <2>5 DEF StreamsHold
<1> QED BY <1>1, <1>2, <1>4, <1>5, <1>6 DEF IInv

LEMMA Induction ==
  ASSUME IInv, [Next]_vars
  PROVE  IInv' /\ [L!Next]_(L!ledger)
<1>1. [L!Next]_(L!ledger) /\ Coordinated' /\ Informed'
  BY EveryStepIsLawful DEF Lawful
<1>2. LP!IInv'
  BY <1>1, SameLedger, LedgerNames, LP!Induction DEF IInv
<1>3. Typed' /\ RecoversFirst'
  BY TypedStep DEF IInv
<1>4. StreamsHold'
  <2>1. RunsStay /\ DOMAIN run = Runs
    BY <1>1, LedgerRunsStay, LedgerSays DEF IInv
  <2> QED BY <2>1, StreamsStep DEF IInv
<1> QED BY <1>1, <1>2, <1>3, <1>4 DEF IInv

\* What is known of commands, snapshots and streams holds throughout.
THEOREM Invariance == Spec => []IInv
<1> QED
  BY InitIInv, Induction, PTL DEF Spec

\* However requests, event streams, clean-ups, crashes and faults interleave, the
\* records of the task move only as the ledger allows.
THEOREM BridgeImplementsLedger == Spec => Implements
<1>1. Init => L!Init
  BY DEF Init
<1> QED
  BY <1>1, InitIInv, Induction, PTL DEF Spec, Implements, L!Spec

\* What follows for the records from the ledger: with any interleaving, crash and
\* fault the task has one live run at most, its status says what that run does, and
\* a task that waits has a request that can be decided.
THEOREM RecordsAgree ==
  Spec => [](/\ LP!OneLiveRun /\ LP!RunTaskAgreement /\ LP!BoundWhileLive
             /\ LP!WaitingIsDecidable /\ LP!PendingRequests /\ LP!ResultIsOfTheSuccess)
<1>1. IInv => /\ LP!OneLiveRun /\ LP!RunTaskAgreement /\ LP!BoundWhileLive
              /\ LP!WaitingIsDecidable /\ LP!PendingRequests /\ LP!ResultIsOfTheSuccess
  BY DEF IInv, LP!IInv
<1> QED
  BY <1>1, Invariance, PTL

(***************************************************************************)
(* Types.  An idle thread holds no snapshot: none of its commits is        *)
(* pending.                                                                *)
(***************************************************************************)
RestPcs == {"idle", "respond", "rejectCancel", "rejectClose", "rejectClosing", "rejectDraining",
            "rejectClosed", "cancelRpc", "cancelled", "tidying"}

AtRest(c) == /\ cmd[c].pc = "idle" => cmd[c] = Idle
             /\ cmd[c].pc \in RestPcs => snap[c] = {}

CleanupPcs == {"none", "inspect", "closing", "draining", "releasing", "auditing"}

CleanupStates == [pc : CleanupPcs, child : BOOLEAN, lease : BOOLEAN]

CleanupsTyped == /\ cl \in [Runs -> CleanupStates]
                 /\ \A r \in Runs : cl[r].pc = "none" => cl[r] = NoCleanup

SetsTyped == /\ contexts \subseteq Runs /\ delivered \subseteq Approvals /\ audited \subseteq Runs
             /\ lease \in Runs \cup {None} /\ owner \in Runs \cup {None}
             /\ managed \subseteq Runs /\ active \subseteq Runs

Tidy == SetsTyped /\ CleanupsTyped /\ \A c \in Commands : AtRest(c)

LEMMA EmptyStays ==
  ASSUME Typed, NEW t \in Threads, snap[t] = {}, NEW u, u # t,
         \/ \E recs : Reads(u, recs)
         \/ \E recs, next : Commits(u, recs, next)
         \/ UNCHANGED snap
  PROVE  snap'[t] = {}
  BY DEF Typed, Reads, Commits

\* A command whose request and snapshot others leave alone stays at rest.
LEMMA RestStays ==
  ASSUME Typed, NEW d \in Commands, AtRest(d), cmd'[d] = cmd[d], NEW u, u # d,
         \/ \E recs : Reads(u, recs)
         \/ \E recs, next : Commits(u, recs, next)
         \/ UNCHANGED snap
  PROVE  AtRest(d)'
<1>1. d \in Threads
  BY DEF Threads
<1>2. snap[d] = {} => snap'[d] = {}
  BY <1>1, EmptyStays
<1> QED BY <1>2 DEF AtRest

\* Where no request begins.
OngoingPcs == RestPcs \cup {"deliver", "markDelivered"}

LEMMA RequestServes ==
  ASSUME NEW c \in Commands, Request(c)
  PROVE  /\ \E op, k, recs : Serve(c, op, k, recs) /\ k.pc \notin OngoingPcs
         /\ UNCHANGED <<delivered, audited, leases, registry, cl>>
         /\ contexts' = contexts \/ \E r \in Runs : contexts' = contexts \cup {r}
<1> DEFINE Serves == \E op, k, recs : Serve(c, op, k, recs) /\ k.pc \notin OngoingPcs
           Rest == /\ UNCHANGED <<delivered, audited, leases, registry, cl>>
                   /\ contexts' = contexts \/ \E r \in Runs : contexts' = contexts \cup {r}
<1>0. \A op, k, recs : Serve(c, op, k, recs) /\ k.pc \notin OngoingPcs => Serves
  OBVIOUS
<1> HIDE DEF Serves
<1>1. CASE BeginComplete(c)
  <2> DEFINE k == [Idle EXCEPT !.op = "complete", !.run = latest,
                        !.pc = IF task = "REVIEW_REQUIRED" THEN "approveReview" ELSE "complete"]
  <2>1. k.pc \notin OngoingPcs
    BY DEF Idle, OngoingPcs, RestPcs
  <2>2. Serve(c, "complete", k, {Task}) /\ Rest
    BY <1>1 DEF BeginComplete, notes
  <2> HIDE DEF k
  <2> QED BY <1>0, <2>1, <2>2
<1>2. ASSUME NEW r \in Runs, BeginStart(c, r) PROVE Serves /\ Rest
  <2> DEFINE k == [Idle EXCEPT !.op = "start", !.pc = "enqueue", !.run = r]
  <2>1. k.pc \notin OngoingPcs
    BY DEF Idle, OngoingPcs, RestPcs
  <2>2. Serve(c, "start", k, {Task}) /\ Rest
    BY <1>2 DEF BeginStart
  <2> HIDE DEF k
  <2> QED BY <1>0, <2>1, <2>2
<1>3. ASSUME NEW r \in Runs, BeginRelaunch(c, r) PROVE Serves /\ Rest
  <2> DEFINE k == [Idle EXCEPT !.op = "relaunch", !.pc = "launch", !.run = r]
  <2>1. k.pc \notin OngoingPcs
    BY DEF Idle, OngoingPcs, RestPcs
  <2>2. Serve(c, "relaunch", k, {Task}) /\ Rest
    BY <1>3 DEF BeginRelaunch, notes
  <2> HIDE DEF k
  <2> QED BY <1>0, <2>1, <2>2
<1>4. ASSUME NEW r \in Runs, BeginCancel(c, r) PROVE Serves /\ Rest
  <2> DEFINE k == [Idle EXCEPT !.op = "cancel", !.pc = "cancel", !.run = r]
  <2>1. k.pc \notin OngoingPcs
    BY DEF Idle, OngoingPcs, RestPcs
  <2>2. Serve(c, "cancel", k, {Task, Run(r), Cursor}) /\ Rest
    BY <1>4 DEF BeginCancel, notes
  <2> HIDE DEF k
  <2> QED BY <1>0, <2>1, <2>2
<1>5. ASSUME NEW r \in Runs, BeginRetry(c, r) PROVE Serves /\ Rest
  <2> DEFINE k == [Idle EXCEPT !.op = "retry", !.pc = "context", !.run = r, !.src = latest]
  <2>1. k.pc \notin OngoingPcs
    BY DEF Idle, OngoingPcs, RestPcs
  <2>2. Serve(c, "retry", k, {Run(latest), Cursor}) /\ Rest
    BY <1>5 DEF BeginRetry, notes
  <2> HIDE DEF k
  <2> QED BY <1>0, <2>1, <2>2
<1>6. ASSUME NEW r \in Runs, BeginCleanup(c, r) PROVE Serves /\ Rest
  <2> DEFINE k == [Idle EXCEPT !.op = "cleanup", !.pc = "cleanup", !.run = r]
  <2>1. k.pc \notin OngoingPcs
    BY DEF Idle, OngoingPcs, RestPcs
  <2>2. Serve(c, "cleanup", k, {Run(r), Cursor}) /\ Rest
    BY <1>6 DEF BeginCleanup, notes
  <2> HIDE DEF k
  <2> QED BY <1>0, <2>1, <2>2
<1>7. ASSUME NEW a \in Approvals, NEW v \in {"approve", "reject"}, BeginDecide(c, a, v)
      PROVE  Serves /\ Rest
  <2> DEFINE r == a[1]
             f == [Idle EXCEPT !.op = "decide", !.pc = "decideFallback", !.run = r, !.verdict = v]
             k == [Idle EXCEPT !.op = "decide", !.pc = "decide", !.run = r, !.n = a[2],
                               !.verdict = v]
  <2>1. f.pc \notin OngoingPcs /\ k.pc \notin OngoingPcs
    BY DEF Idle, OngoingPcs, RestPcs
  <2>2. Rest
    BY <1>7 DEF BeginDecide, notes
  <2>3. (\E recs : Serve(c, "decide", f, recs)) \/ \E recs : Serve(c, "decide", k, recs)
    BY <1>7 DEF BeginDecide
  <2> HIDE DEF f, k
  <2> QED BY <1>0, <2>1, <2>2, <2>3
<1> QED BY <1>1, <1>2, <1>3, <1>4, <1>5, <1>6, <1>7 DEF Request, Serves

LEMMA RequestRests ==
  ASSUME Typed, Tidy, NEW c \in Commands, Request(c)
  PROVE  Tidy'
<1>1. PICK op, k, recs : Serve(c, op, k, recs) /\ k.pc \notin OngoingPcs
  BY RequestServes
<1>2. \A d \in Commands \ {c} : cmd'[d] = cmd[d]
  BY <1>1 DEF Serve, Typed
<1>3. cmd'[c].pc \notin RestPcs
  BY <1>1 DEF Serve, Typed, OngoingPcs
<1>4. AtRest(c)'
  BY <1>3 DEF AtRest, RestPcs
<1>5. \A d \in Commands \ {c} : AtRest(d)'
  BY <1>1, <1>2, RestStays DEF Serve, Tidy
<1>6. CleanupsTyped' /\ SetsTyped'
  BY RequestServes DEF Tidy, CleanupsTyped, SetsTyped, leases, registry
<1> QED BY <1>4, <1>5, <1>6 DEF Tidy

LEMMA StartedCleanup ==
  ASSUME CleanupsTyped, NEW r, StartCleanup(r)
  PROVE  CleanupsTyped'
  BY DEF CleanupsTyped, StartCleanup, NoCleanup, CleanupStates, CleanupPcs

\* What a step of a request leaves behind for the request itself.
Rested(c) == /\ cmd'[c].pc = "idle" => cmd'[c] = Idle
             /\ cmd'[c].pc \in RestPcs => snap'[c] = {}

LEMMA CommandRests ==
  ASSUME Typed, Tidy, NEW c \in Commands, CommandStep(c)
  PROVE  \A d \in Commands : AtRest(d)'
<1>1. c \in Threads
  BY DEF Threads
<1>2. AtRest(c)
  BY DEF Tidy
<1>3. \A pc : Await(c, pc) => cmd'[c].pc = pc
  <2> SUFFICES ASSUME NEW pc, Await(c, pc) PROVE cmd'[c].pc = pc
    OBVIOUS
  <2>1. cmd[c] \in Requests
    BY DEF Typed
  <2> QED BY <2>1 DEF Await, Typed, Requests, RequestRecords
<1>4. Return(c) => cmd'[c] = Idle
  BY DEF Return, Typed
<1>5. \A recs : Reads(c, recs) => snap'[c] = recs
  BY <1>1 DEF Reads, Typed
<1>6. \A recs, next : Commits(c, recs, next) => snap'[c] = next
  BY <1>1 DEF Commits
<1>7. \A pc, b : cmd' = [cmd EXCEPT ![c].pc = pc, ![c].proc = b] => cmd'[c].pc = pc
  <2> SUFFICES ASSUME NEW pc, NEW b, cmd' = [cmd EXCEPT ![c].pc = pc, ![c].proc = b]
               PROVE  cmd'[c].pc = pc
    OBVIOUS
  <2>1. cmd[c] \in Requests
    BY DEF Typed
  <2> QED BY <2>1 DEF Typed, Requests, RequestRecords
<1>8. \A pc, v : cmd' = [cmd EXCEPT ![c].pc = pc, ![c].verdict = v] => cmd'[c].pc = pc
  <2> SUFFICES ASSUME NEW pc, NEW v, cmd' = [cmd EXCEPT ![c].pc = pc, ![c].verdict = v]
               PROVE  cmd'[c].pc = pc
    OBVIOUS
  <2>1. cmd[c] \in Requests
    BY DEF Typed
  <2> QED BY <2>1 DEF Typed, Requests, RequestRecords
<1>9. \A pc : Conflict(c, pc) /\ (pc = "idle" \/ pc \notin RestPcs) => Rested(c)
  BY <1>3, <1>4, <1>5 DEF Conflict, Rested, RestPcs
<1>10. ASSUME \/ Enqueue(c) \/ StartRun(c) \/ FailTask(c) \/ CreateRun(c) \/ Reconcile(c)
              \/ PrepareRetryContext(c) \/ ApproveReview(c) \/ DecideFallback(c)
       PROVE  Rested(c)
  BY <1>3, <1>4, <1>5, <1>6, <1>9, <1>10
     DEF Enqueue, StartRun, FailTask, CreateRun, Reconcile, PrepareRetryContext, ApproveReview,
         DecideFallback, Rested, RestPcs
<1>11. ASSUME \/ Decide(c) \/ RequestCancel(c) \/ ConfirmCancel(c) \/ ConfirmCleanup(c)
              \/ Complete(c) \/ MarkDelivered(c)
       PROVE  Rested(c)
  BY <1>3, <1>4, <1>5, <1>6, <1>9, <1>11
     DEF Decide, RequestCancel, ConfirmCancel, ConfirmCleanup, Complete, MarkDelivered, AwaitCleanup,
         Rested, RestPcs, Idle
<1>12. ASSUME \/ Launch(c) \/ Ensure(c) \/ Select(c) \/ AskFallback(c) \/ DriverStarted(c)
              \/ Abort(c) \/ Release(c) \/ LaunchFailed(c)
       PROVE  Rested(c)
  BY <1>3, <1>4, <1>5, <1>6, <1>7, <1>12
     DEF Launch, Ensure, Select, AskFallback, DriverStarted, Abort, Release, LaunchFailed,
         OrchestratorPc, Rested, RestPcs, Idle
<1>13. ASSUME \/ Respond(c) \/ RejectCancel(c) \/ RejectClose(c) \/ RejectClosing(c)
              \/ RejectClosed(c) \/ CancelRpc(c)
       PROVE  Rested(c)
  <2>1. cmd[c].pc \in RestPcs /\ UNCHANGED snap
    BY <1>13 DEF Respond, RejectCancel, RejectClose, RejectClosing, RejectClosed, CancelRpc, At,
       RestPcs
  <2>2. snap'[c] = {}
    BY <1>2, <2>1 DEF AtRest
  <2>3. cmd'[c].pc = "idle" => cmd'[c] = Idle
    BY <1>3, <1>4, <1>8, <1>13 DEF Respond, RejectCancel, RejectClose, RejectClosing, RejectClosed,
       CancelRpc
  <2> QED BY <2>2, <2>3 DEF Rested
<1>14. ASSUME Deliver(c) \/ CheckCancelled(c) \/ Requeue(c)
       PROVE  Rested(c)
  BY <1>3, <1>4, <1>5, <1>14 DEF Deliver, CheckCancelled, Requeue, AwaitCleanup, Rested, RestPcs,
     Idle
<1>15. Rested(c)
  BY <1>10, <1>11, <1>12, <1>13, <1>14 DEF CommandStep, LaunchStep, DecideStep
<1>16. \/ \E recs : Reads(c, recs)
       \/ \E recs, next : Commits(c, recs, next)
       \/ UNCHANGED snap
  BY DEF CommandStep, LaunchStep, DecideStep, Conflict, Enqueue, StartRun, Launch, Ensure, Select,
     AskFallback, CreateRun, DriverStarted, Abort, Reconcile, Release, LaunchFailed, FailTask,
     DecideFallback, Decide, Respond, RejectCancel, RejectClose, RejectClosing, RejectClosed,
     Deliver, MarkDelivered, RequestCancel, CancelRpc, CheckCancelled, ConfirmCancel,
     PrepareRetryContext, Requeue, ConfirmCleanup, ApproveReview, Complete
<1>17. \A d \in Commands \ {c} : cmd'[d] = cmd[d]
  BY DEF Await, Return, AwaitCleanup, CommandStep, LaunchStep, DecideStep, Conflict, Enqueue,
     StartRun, Launch, Ensure, Select,
     AskFallback, CreateRun, DriverStarted, Abort, Reconcile, Release, LaunchFailed, FailTask,
     DecideFallback, Decide, Respond, RejectCancel, RejectClose, RejectClosing, RejectClosed,
     Deliver, MarkDelivered, RequestCancel, CancelRpc, CheckCancelled, ConfirmCancel,
     PrepareRetryContext, Requeue, ConfirmCleanup, ApproveReview, Complete, Typed
<1>18. \A d \in Commands \ {c} : AtRest(d)'
  BY <1>16, <1>17, RestStays DEF Tidy
<1>19. AtRest(c)'
  BY <1>15 DEF Rested, AtRest
<1> QED BY <1>18, <1>19

LEMMA CommandTidies ==
  ASSUME Typed, Tidy, NEW c \in Commands, CommandStep(c)
  PROVE  Tidy'
<1>1. cmd[c] \in Requests
  BY DEF Typed
<1>2. cmd[c].pc \in {"context", "ensure", "release", "starting", "rejectClose", "markDelivered"}
        => cmd[c].run \in Runs /\ cmd[c].n \in 0..LastEvent
  BY <1>1 DEF Requests, RequestRecords
<1> DEFINE Unmoved == UNCHANGED <<contexts, delivered, audited, leases, registry>>
<1>3. ASSUME PrepareRetryContext(c) PROVE SetsTyped'
  BY <1>2, <1>3 DEF PrepareRetryContext, Conflict, At, Tidy, SetsTyped, notes, leases, registry
<1>4. ASSUME MarkDelivered(c) PROVE SetsTyped'
  <2>1. <<cmd[c].run, cmd[c].n>> \in Approvals
    BY <1>2, <1>4 DEF MarkDelivered, At, Approvals
  <2> QED BY <1>4, <2>1 DEF MarkDelivered, Conflict, Tidy, SetsTyped, notes, leases, registry
<1>5. ASSUME Ensure(c) PROVE SetsTyped'
  BY <1>2, <1>5 DEF Ensure, At, Tidy, SetsTyped, notes, leases
<1>6. ASSUME Release(c) PROVE SetsTyped'
  BY <1>2, <1>6 DEF Release, ReleaseWorktree, At, Tidy, SetsTyped, notes, leases
<1>7. ASSUME DriverStarted(c) PROVE SetsTyped'
  BY <1>2, <1>7 DEF DriverStarted, At, Tidy, SetsTyped, notes, leases
<1>8. ASSUME RejectClose(c) PROVE SetsTyped'
  BY <1>2, <1>8 DEF RejectClose, At, Tidy, SetsTyped, notes, leases
<1>9. ASSUME Unmoved PROVE SetsTyped'
  BY <1>9 DEF Tidy, SetsTyped, leases, registry
<1>10. \/ Enqueue(c) \/ StartRun(c) \/ Launch(c) \/ Select(c) \/ AskFallback(c) \/ CreateRun(c)
       \/ Abort(c) \/ Reconcile(c) \/ LaunchFailed(c) \/ FailTask(c)
       => Unmoved
  BY DEF Enqueue, StartRun, Launch, Select, AskFallback, CreateRun, Abort, Reconcile, LaunchFailed,
     FailTask, Conflict, notes
<1>11. \/ DecideFallback(c) \/ Decide(c) \/ Respond(c) \/ RejectCancel(c) \/ RejectClosing(c)
       \/ RejectClosed(c) \/ Deliver(c) \/ RequestCancel(c) \/ CancelRpc(c) \/ CheckCancelled(c)
       \/ ConfirmCancel(c) \/ Requeue(c) \/ ConfirmCleanup(c) \/ ApproveReview(c) \/ Complete(c)
       => Unmoved
  BY DEF DecideFallback, Decide, Respond, RejectCancel, RejectClosing, RejectClosed, Deliver,
     RequestCancel, CancelRpc, CheckCancelled, ConfirmCancel, Requeue, ConfirmCleanup, ApproveReview,
     Complete, Conflict, notes
<1>12. SetsTyped'
  BY <1>3, <1>4, <1>5, <1>6, <1>7, <1>8, <1>9, <1>10, <1>11
     DEF CommandStep, LaunchStep, DecideStep
<1>13. UNCHANGED cl \/ \E r : StartCleanup(r)
  BY DEF AwaitCleanup, CommandStep, LaunchStep, DecideStep, Conflict, Enqueue, StartRun, Launch,
     Ensure, Select, AskFallback, CreateRun, DriverStarted, Abort, Reconcile, Release, LaunchFailed,
     FailTask, DecideFallback, Decide, Respond, RejectCancel, RejectClose, RejectClosing,
     RejectClosed, Deliver, MarkDelivered, RequestCancel, CancelRpc, CheckCancelled, ConfirmCancel,
     PrepareRetryContext, Requeue, ConfirmCleanup, ApproveReview, Complete
<1>14. CleanupsTyped'
  <2>1. CleanupsTyped
    BY DEF Tidy
  <2>2. UNCHANGED cl => CleanupsTyped'
    BY <2>1 DEF CleanupsTyped
  <2> QED BY <1>13, <2>1, <2>2, StartedCleanup
<1> QED BY <1>12, <1>14, CommandRests DEF Tidy

LEMMA EventTidies ==
  ASSUME Typed, Tidy, NEW r \in Runs, EventStep(r)
  PROVE  Tidy'
<1>1. UNCHANGED <<contexts, delivered, audited, leases, registry, cmd>>
  BY DEF EventStep, StreamEnds, Checkpoint, SaveCheckpoint, Notify, RequestPermission, RunCompleted,
     CollectOutcome, Submit, RecordVerification, RequestReview, DriverEnded, RecordFailure,
     InterruptAfterError, RecordInterruption, notes
<1>2. UNCHANGED cl \/ StartCleanup(r)
  BY DEF EventStep, StreamEnds, Checkpoint, SaveCheckpoint, Notify, RequestPermission, RunCompleted,
     CollectOutcome, Submit, RecordVerification, RequestReview, DriverEnded, RecordFailure,
     InterruptAfterError, RecordInterruption, Throws, TerminalConsumed
<1>3. \/ \E recs : Reads(Events(r), recs)
      \/ \E recs, next : Commits(Events(r), recs, next)
      \/ UNCHANGED snap
  BY DEF EventStep, StreamEnds, Checkpoint, SaveCheckpoint, Notify, RequestPermission, RunCompleted,
     CollectOutcome, Submit, RecordVerification, RequestReview, DriverEnded, RecordFailure,
     InterruptAfterError, RecordInterruption
<1>4. Events(r) \notin Commands
  BY NamesAssumption
<1>5. \A d \in Commands : AtRest(d)'
  BY <1>1, <1>3, <1>4, RestStays DEF Tidy
<1>6. CleanupsTyped'
  <2>1. CleanupsTyped
    BY DEF Tidy
  <2>2. UNCHANGED cl => CleanupsTyped'
    BY <2>1 DEF CleanupsTyped
  <2> QED BY <1>2, <2>1, <2>2, StartedCleanup
<1>7. SetsTyped'
  BY <1>1 DEF Tidy, SetsTyped, leases, registry
<1> QED BY <1>5, <1>6, <1>7 DEF Tidy

LEMMA CleanupTidies ==
  ASSUME Typed, Tidy, NEW r \in Runs, CleanupStep(r)
  PROVE  Tidy'
<1>1. \/ \E recs : Reads(Cleanup(r), recs)
      \/ \E recs, next : Commits(Cleanup(r), recs, next)
      \/ UNCHANGED snap
  BY DEF CleanupStep, InspectTargets, CleanupClosesDriver, EventsDrained, ReleaseLease, Audit
<1>2. UNCHANGED cmd \/ CleanupEnds(r, "ensure") \/ CleanupEnds(r, "failed")
  BY DEF CleanupStep, InspectTargets, CleanupClosesDriver, EventsDrained, ReleaseLease, Audit
<1>3. ASSUME NEW d \in Commands PROVE AtRest(d)'
  <2>1. AtRest(d) /\ cmd[d] \in Requests /\ Cleanup(r) # d /\ d \in Threads
    BY NamesAssumption DEF Tidy, Typed, Threads
  <2>2. CASE cmd'[d] = cmd[d]
    BY <1>1, <2>1, <2>2, RestStays
  <2>3. ASSUME NEW pc \in {"ensure", "failed"}, CleanupEnds(r, pc), cmd'[d] # cmd[d]
        PROVE  AtRest(d)'
    <3>1. \/ cmd'[d] = [cmd[d] EXCEPT !.pc = pc]
          \/ At(d, "tidying") /\ cmd'[d] = Idle
      BY <2>3 DEF CleanupEnds
    <3>2. CASE cmd'[d] = [cmd[d] EXCEPT !.pc = pc]
      <4>1. cmd'[d].pc = pc
        BY <2>1, <3>2 DEF Requests, RequestRecords
      <4> QED BY <2>3, <4>1 DEF AtRest, RestPcs
    <3>3. CASE At(d, "tidying") /\ cmd'[d] = Idle
      <4>1. snap[d] = {}
        BY <2>1, <3>3 DEF AtRest, At, RestPcs
      <4>2. snap'[d] = {}
        BY <1>1, <2>1, <4>1, EmptyStays
      <4> QED BY <3>3, <4>2 DEF AtRest
    <3> QED BY <3>1, <3>2, <3>3
  <2> QED BY <1>2, <2>2, <2>3
<1>4. CleanupsTyped'
  <2>1. CleanupsTyped /\ cl[r] \in CleanupStates
    BY DEF Tidy, CleanupsTyped
  <2>2. UNCHANGED cl => CleanupsTyped'
    BY <2>1 DEF CleanupsTyped
  <2>3. \A k \in CleanupStates :
          cl' = [cl EXCEPT ![r] = k] /\ (k.pc = "none" => k = NoCleanup) => CleanupsTyped'
    BY <2>1 DEF CleanupsTyped
  <2>4. CASE InspectTargets(r)
    <3> DEFINE k == [pc    |-> IF r \in active THEN "closing" ELSE "releasing",
                     child |-> r \in active,
                     lease |-> lease = r]
    <3>1. k \in CleanupStates /\ k.pc # "none"
      BY DEF CleanupStates, CleanupPcs
    <3>2. cl' = [cl EXCEPT ![r] = k]
      BY <2>4 DEF InspectTargets
    <3> HIDE DEF k
    <3> QED BY <2>3, <3>1, <3>2
  <2>5. ASSUME NEW pc \in CleanupPcs \ {"none"}, CleanupAwaits(r, pc) PROVE CleanupsTyped'
    <3> DEFINE k == [cl[r] EXCEPT !.pc = pc]
    <3>1. k \in CleanupStates /\ k.pc # "none"
      BY <2>1 DEF CleanupStates
    <3>2. cl' = [cl EXCEPT ![r] = k]
      BY <2>5 DEF CleanupAwaits
    <3> HIDE DEF k
    <3> QED BY <2>3, <3>1, <3>2
  <2>6. ASSUME NEW pc, CleanupEnds(r, pc) PROVE CleanupsTyped'
    <3>1. NoCleanup \in CleanupStates
      BY DEF NoCleanup, CleanupStates, CleanupPcs
    <3> QED BY <2>3, <2>6, <3>1 DEF CleanupEnds
  <2> QED BY <2>2, <2>4, <2>5, <2>6
          DEF CleanupStep, CleanupClosesDriver, EventsDrained, ReleaseLease, Audit, CleanupPcs
<1>5. SetsTyped'
  <2>1. CASE InspectTargets(r)
    BY <2>1 DEF InspectTargets, Tidy, SetsTyped, notes, leases
  <2>2. CASE CleanupClosesDriver(r) \/ EventsDrained(r)
    BY <2>2 DEF CleanupClosesDriver, EventsDrained, Tidy, SetsTyped, notes, leases, registry
  <2>3. CASE ReleaseLease(r)
    BY <2>3 DEF ReleaseLease, ReleaseWorktree, Tidy, SetsTyped, notes, leases, registry
  <2>4. CASE Audit(r)
    BY <2>4 DEF Audit, Tidy, SetsTyped, leases
  <2> QED BY <2>1, <2>2, <2>3, <2>4 DEF CleanupStep
<1> QED BY <1>3, <1>4, <1>5 DEF Tidy

LEMMA OthersTidy ==
  ASSUME Typed, Tidy,
         \/ \E r \in Runs : DriverStep(r) \/ RecoveryStep(r)
         \/ RepeatComplete \/ OtherTaskCommits \/ LeaseExpires \/ CrashAndRestart
         \/ UNCHANGED vars
  PROVE  Tidy'
<1>0. SetsTyped /\ CleanupsTyped /\ (UNCHANGED cl => CleanupsTyped')
  BY DEF Tidy, CleanupsTyped
<1>1. ASSUME UNCHANGED <<cmd, snap>> PROVE \A d \in Commands : AtRest(d)'
  BY <1>1 DEF Tidy, AtRest
<1>2. ASSUME NEW r \in Runs, DriverStep(r) PROVE Tidy'
  <2>1. UNCHANGED <<contexts, delivered, audited, leases, registry, cmd, cl, snap>>
    BY <1>2 DEF DriverStep, DriverProgresses, DriverAsks, DriverCompletes, DriverFails, DriverExits,
       Outside, notes
  <2> QED BY <1>0, <1>1, <2>1 DEF Tidy, SetsTyped, leases, registry
<1>3. ASSUME NEW r \in Runs, RecoveryStep(r) PROVE Tidy'
  <2>1. \E recs, next : Commits(None, recs, next)
    BY <1>3 DEF RecoveryStep, Resume, InterruptRecovery
  <2>2. UNCHANGED <<contexts, delivered, audited, cmd, cl>>
    BY <1>3 DEF RecoveryStep, Resume, InterruptRecovery, notes
  <2>3. None \notin Commands
    BY NamesAssumption DEF Threads
  <2>4. \A d \in Commands : AtRest(d)'
    BY <2>1, <2>2, <2>3, RestStays DEF Tidy
  <2>5. SetsTyped'
    BY <1>0, <1>3, <2>2 DEF RecoveryStep, Resume, InterruptRecovery, SetsTyped, registry
  <2> QED BY <1>0, <2>2, <2>4, <2>5 DEF Tidy
<1>4. CASE RepeatComplete
  <2>1. CleanupsTyped'
    BY <1>0, <1>4, StartedCleanup DEF RepeatComplete
  <2> QED BY <1>0, <1>1, <1>4, <2>1 DEF RepeatComplete, Tidy, SetsTyped, notes, leases, registry
<1>5. CASE LeaseExpires
  BY <1>0, <1>1, <1>5 DEF LeaseExpires, Outside, Tidy, SetsTyped, notes, registry
<1>6. CASE UNCHANGED vars
  BY <1>0, <1>1, <1>6 DEF vars, Tidy, SetsTyped, notes, leases, registry
<1>7. CASE OtherTaskCommits
  <2>1. \A d \in Commands : snap[d] = {} => snap'[d] = {}
    BY <1>7 DEF OtherTaskCommits, Threads
  <2>2. \A d \in Commands : AtRest(d)'
    BY <1>7, <2>1 DEF OtherTaskCommits, Tidy, AtRest
  <2> QED BY <1>0, <1>7, <2>2 DEF OtherTaskCommits, Tidy, SetsTyped, notes, leases, registry
<1>8. CASE CrashAndRestart
  <2>1. \A d \in Commands : AtRest(d)'
    BY <1>8 DEF CrashAndRestart, AtRest, Threads
  <2>2. CleanupsTyped'
    BY <1>8 DEF CrashAndRestart, CleanupsTyped, NoCleanup, CleanupStates, CleanupPcs
  <2> QED BY <1>0, <1>8, <2>1, <2>2 DEF CrashAndRestart, Tidy, SetsTyped, notes
<1> QED BY <1>2, <1>3, <1>4, <1>5, <1>6, <1>7, <1>8

\* Every thread's state is of its type: requests, snapshots, clean-ups and the numbers of
\* open questions, in every interleaving and after every restart.
THEOREM TypeCorrect == Spec => []TypeOK
<1>1. Init => Tidy
  BY DEF Init, Idle, Tidy, SetsTyped, CleanupsTyped, AtRest, Threads, NoCleanup,
     CleanupStates, CleanupPcs
<1>2. IInv /\ Tidy /\ [Next]_vars => Tidy'
  BY RequestRests, CommandTidies, EventTidies, CleanupTidies, OthersTidy DEF IInv, Next
<1>3. ASSUME IInv, Tidy PROVE TypeOK
  <2>1. L!TypeOK
    <3>1. LP!TypeOK
      BY <1>3 DEF IInv, LP!IInv
    <3> QED BY <3>1 DEF LP!TypeOK, L!TypeOK, LP!TaskStatuses, L!TaskStatuses, LP!RunStatuses,
               L!RunStatuses, LP!BindingStatuses, L!BindingStatuses, LP!ApprovalStatuses,
               L!ApprovalStatuses
  <2>2. SetsTyped
    BY <1>3 DEF Tidy
  <2>3. latest \in Runs \cup {None} /\ toRecover \subseteq Runs /\ crashes \in 0..MaxCrashes
    BY <1>3 DEF IInv, Typed, StreamsHold, StreamsTyped
  <2>4. ASSUME NEW r \in Runs
        PROVE  /\ checkpoint[r].saved \subseteq DOMAIN checkpoint[r].history
               /\ ev[r] = "none" => queue[r] = <<>>
               /\ cl[r].pc = "none" => cl[r] = NoCleanup
               /\ asks[r] \subseteq DOMAIN history[r]
    BY <1>3 DEF IInv, StreamsHold, StreamHolds, Tidy, CleanupsTyped
  <2>5. ASSUME NEW c \in Commands
        PROVE  /\ DOMAIN cmd[c] = DOMAIN Idle
               /\ cmd[c].pc = "idle" => cmd[c] = Idle /\ snap[c] = {}
    <3>1. cmd[c] \in Requests /\ AtRest(c)
      BY <1>3 DEF IInv, Typed, Tidy
    <3>2. DOMAIN cmd[c] = {"op", "pc", "run", "src", "n", "verdict", "proc"}
      BY <3>1 DEF Requests, RequestRecords
    <3>3. DOMAIN Idle = {"op", "pc", "run", "src", "n", "verdict", "proc"}
      BY DEF Idle
    <3> QED BY <3>1, <3>2, <3>3 DEF AtRest, RestPcs
  <2> QED BY <2>1, <2>2, <2>3, <2>4, <2>5 DEF TypeOK, SetsTyped
<1> QED
  BY <1>1, <1>2, <1>3, Invariance, PTL DEF Spec

(***************************************************************************)
(* Decisions find their questions.                                         *)
(*                                                                         *)
(* A question is the event it was asked with.  While a driver works, each  *)
(* of its questions is open or decided, and a decision is on its way in    *)
(* one request at most.                                                    *)
(***************************************************************************)
AnswerPcs == {"respond", "rejectCancel", "rejectClose", "rejectClosing", "rejectDraining",
              "rejectClosed", "deliver", "markDelivered"}
\* The driver was given the answer of request c.
Answered(c) ==
  \/ cmd[c].pc \in {"rejectCancel", "deliver", "markDelivered"}
  \/ /\ cmd[c].pc \in {"rejectClose", "rejectClosing", "rejectDraining", "rejectClosed"}
     /\ cmd[c].verdict = "reject"
Decided(r, n)  == approval[<<r, n>>] \in {"approved", "denied"}
Answerable(r)  == run[r] \notin {"absent", "created"}
Settled(r, n)  == n \in DOMAIN history[r] \ asks[r]
Asked(r)       == Places(history[r], "permission")

AnswerHolds(c) ==
  /\ cmd[c].pc \in AnswerPcs => cmd[c].n # 0 /\ Decided(cmd[c].run, cmd[c].n)
  /\ cmd[c].pc = "respond" =>
       /\ Answerable(cmd[c].run)
       /\ driver[cmd[c].run] = "working" => cmd[c].n \in asks[cmd[c].run]
  /\ crashes = 0 /\ Answered(c) => Settled(cmd[c].run, cmd[c].n)
\* One request at most answers a question.
AnsweredOnce ==
  \A c, d \in Commands :
    At(c, "respond") /\ At(d, "respond") /\ cmd[c].run = cmd[d].run /\ cmd[c].n = cmd[d].n => c = d

QuestionHolds(r) ==
  /\ driver[r] = "working" => \A n \in Asked(r) : n \in asks[r] \/ Decided(r, n)
  /\ \A n \in Places(checkpoint[r].history, "permission") : Decided(r, n)
  /\ \A i \in DOMAIN queue[r] : queue[r][i].type = "permission" => queue[r][i].n \in Asked(r)
  /\ driver[r] = "working" => \A n \in 1..LastEvent : approval[<<r, n>>] = "pending" => n \in asks[r]
  /\ ~Answerable(r) => history[r] = <<>> /\ driver[r] # "working"

DeliveredHolds ==
  \A a \in delivered : Decided(a[1], a[2]) /\ (crashes = 0 => Settled(a[1], a[2]))

AnswerInv == /\ \A c \in Commands : AnswerHolds(c)
             /\ AnsweredOnce
             /\ \A r \in Runs : QuestionHolds(r)
             /\ DeliveredHolds
             /\ toRecover # {} => crashes # 0

\* What no step takes back.
Lasts == /\ RunsStay
         /\ \A r \in Runs, n \in 0..LastEvent : Decided(r, n) => Decided(r, n)'

LEMMA DecisionsLast ==
  ASSUME LP!IInv, [L!Next]_(L!ledger)
  PROVE  Lasts
<1>1. RunsStay /\ DOMAIN approval = Approvals
  BY LedgerRunsStay, LedgerSays
<1>2. CASE UNCHANGED approval
  BY <1>1, <1>2 DEF Lasts, Decided
<1>3. L!TaskStep \/ (\E r \in Runs : L!RunStep(r)) \/ UNCHANGED L!ledger => UNCHANGED approval
  BY DEF L!ledger, L!TaskStep, L!Enqueue, L!Retry, L!StartRun, L!FailStart,
     L!StartVerification, L!RequestReview, L!ApproveReview, L!Complete,
     L!RunStep, L!CreateRun, L!RunStarted, L!RunStartFailed, L!RequestCancel, L!ConfirmCancel,
     L!DriverFailed, L!Interrupt, L!Submit
<1>4. ASSUME NEW a \in Approvals, L!ApprovalStep(a) PROVE Lasts
  <2>1. \/ approval[a] = "absent" /\ approval' = [approval EXCEPT ![a] = "pending"]
        \/ approval[a] = "pending" /\ approval' = [approval EXCEPT ![a] = "approved"]
        \/ approval[a] = "pending" /\ approval' = [approval EXCEPT ![a] = "denied"]
    BY <1>4 DEF L!ApprovalStep, L!RequestFallback, L!ApproveFallback, L!RejectFallback,
       L!RequestPermission, L!ApprovePermission, L!RejectPermission
  <2>2. \A b \in Approvals : b # a => approval'[b] = approval[b]
    BY <1>1, <2>1
  <2>3. ASSUME NEW r \in Runs, NEW n \in 0..LastEvent, Decided(r, n) PROVE Decided(r, n)'
    <3>1. <<r, n>> \in Approvals
      BY DEF Approvals
    <3>2. <<r, n>> # a
      BY <2>1, <2>3 DEF Decided
    <3> QED BY <2>2, <2>3, <3>1, <3>2 DEF Decided
  <2> QED BY <1>1, <2>3 DEF Lasts
<1> QED BY <1>2, <1>3, <1>4 DEF L!Next

\* A step that asks nothing, and answers nothing a working driver waits for.
Untouched(s) ==
  /\ asks'[s] \subseteq asks[s]
  /\ driver'[s] = "working" => driver[s] = "working" /\ asks'[s] = asks[s]
  /\ \A i \in DOMAIN queue'[s] : queue'[s][i].type = "permission" =>
       \E j \in DOMAIN queue[s] : queue[s][j] = queue'[s][i]
  /\ \A n \in 1..LastEvent : approval'[<<s, n>>] = "pending" => approval[<<s, n>>] = "pending"
AsksNothing == /\ UNCHANGED <<history, checkpoint, crashes>>
               /\ \A s \in Runs : Untouched(s)

LEMMA PlacesAreNumbers ==
  ASSUME StreamsHold, NEW r \in Runs
  PROVE  /\ Asked(r) \subseteq 1..LastEvent /\ DOMAIN history[r] \subseteq 1..LastEvent
         /\ Places(checkpoint[r].history, "permission") \subseteq 0..LastEvent
         /\ 1..LastEvent \subseteq 0..LastEvent /\ asks[r] \subseteq DOMAIN history[r]
<1>1. /\ StreamHolds(r) /\ history[r] \in Seq(Kinds) /\ checkpoint[r].history \in Seq(Kinds)
      /\ LastEvent \in Nat
  BY BoundsAssumption DEF StreamsHold, StreamsTyped, LastEvent
<1>2. DOMAIN history[r] \subseteq 1..LastEvent
  BY HistoriesAreShort
<1>3. Len(checkpoint[r].history) <= LastEvent
  <2> DEFINE h == checkpoint[r].history
             more == IF r \in toRecover THEN 1 ELSE 0
             p == SentIn(h, "progress")
             q == SentIn(h, "permission")
  <2>1. Len(h) = p + q /\ p \in Nat /\ q \in Nat
    BY <1>1, KindsAddUp, KindsAreFinite
  <2>2. p + more <= MaxProgress + crashes /\ q <= MaxPermissions
    BY <1>1 DEF StreamHolds, Bounded
  <2>3. more \in 0..1 /\ crashes \in 0..MaxCrashes
    BY DEF StreamsHold, StreamsTyped
  <2>4. MaxProgress \in Nat /\ MaxPermissions \in Nat /\ MaxCrashes \in Nat
        /\ LastEvent = MaxProgress + MaxPermissions + MaxCrashes
    BY BoundsAssumption DEF LastEvent
  <2> HIDE DEF h, more, p, q
  <2>5. Len(h) <= LastEvent
    BY <2>1, <2>2, <2>3, <2>4
  <2> QED BY <2>5 DEF h
<1>4. DOMAIN checkpoint[r].history \subseteq 0..LastEvent
  <2>1. DOMAIN checkpoint[r].history = 1..Len(checkpoint[r].history)
        /\ Len(checkpoint[r].history) \in Nat
    BY <1>1, LenProperties
  <2> QED BY <1>1, <1>3, <2>1
<1> QED BY <1>1, <1>2, <1>4 DEF Asked, Places, StreamHolds

LEMMA QuestionsStay ==
  ASSUME StreamsHold, Lasts, NEW r \in Runs, QuestionHolds(r), Untouched(r),
         history'[r] = history[r], checkpoint'[r].history = checkpoint[r].history
  PROVE  QuestionHolds(r)'
<1>1. Untouched(r) /\ history'[r] = history[r] /\ checkpoint'[r].history = checkpoint[r].history
  OBVIOUS
<1>2. Asked(r)' = Asked(r)
  BY <1>1 DEF Asked
<1>3. ASSUME driver'[r] = "working"
      PROVE  /\ \A n \in Asked(r)' : n \in asks'[r] \/ Decided(r, n)'
             /\ \A n \in 1..LastEvent : approval'[<<r, n>>] = "pending" => n \in asks'[r]
  BY <1>1, <1>2, <1>3, PlacesAreNumbers DEF QuestionHolds, Untouched, Lasts
<1>4. \A n \in Places(checkpoint'[r].history, "permission") : Decided(r, n)'
  BY <1>1, PlacesAreNumbers DEF QuestionHolds, Lasts
<1>5. \A i \in DOMAIN queue'[r] : queue'[r][i].type = "permission" => queue'[r][i].n \in Asked(r)'
  BY <1>1, <1>2 DEF QuestionHolds, Untouched
<1>6. ~Answerable(r)' => history'[r] = <<>> /\ driver'[r] # "working"
  BY <1>1 DEF QuestionHolds, Untouched, Lasts, RunsStay, Answerable
<1> QED BY <1>3, <1>4, <1>5, <1>6 DEF QuestionHolds

\* What a request needs of the drivers, to go on knowing what it knew.
KeepsAnswers ==
  \A r \in Runs :
    /\ Answerable(r) /\ driver'[r] = "working" => driver[r] = "working" /\ asks[r] \subseteq asks'[r]
    /\ crashes' = 0 => crashes = 0 /\ \A n : Settled(r, n) => Settled(r, n)'

LEMMA NothingAskedNothingLost ==
  ASSUME AsksNothing
  PROVE  KeepsAnswers
  BY DEF AsksNothing, Untouched, KeepsAnswers, Settled

\* Request d goes on with the same question.
Follows(d) ==
  cmd'[d].pc \in AnswerPcs =>
    /\ cmd[d].pc \in AnswerPcs /\ cmd'[d].run = cmd[d].run /\ cmd'[d].n = cmd[d].n
    /\ cmd'[d].pc = "respond" => cmd[d].pc = "respond"
    /\ Answered(d)' => Answered(d)

LEMMA QuestionsAreOfRuns ==
  ASSUME Typed, NEW c \in Commands, cmd[c].pc \in AnswerPcs
  PROVE  cmd[c].run \in Runs /\ cmd[c].n \in 0..LastEvent
  BY DEF Typed, Requests, RequestRecords, AnswerPcs

LEMMA AnsweredAreAnswering ==
  ASSUME NEW c \in Commands, Answered(c)
  PROVE  cmd[c].pc \in AnswerPcs
  BY DEF Answered, AnswerPcs

LEMMA AnswersStay ==
  ASSUME Typed, Lasts, KeepsAnswers, NEW d \in Commands, AnswerHolds(d), Follows(d)
  PROVE  AnswerHolds(d)'
<1> SUFFICES ASSUME cmd'[d].pc \in AnswerPcs PROVE AnswerHolds(d)'
  BY DEF AnswerHolds, Answered, AnswerPcs
<1> DEFINE r == cmd[d].run
           n == cmd[d].n
<1>1. /\ cmd[d].pc \in AnswerPcs /\ cmd'[d].run = r /\ cmd'[d].n = n
      /\ cmd'[d].pc = "respond" => cmd[d].pc = "respond"
      /\ Answered(d)' => Answered(d)
  BY DEF Follows
<1>2. r \in Runs /\ n \in 0..LastEvent
  BY <1>1, QuestionsAreOfRuns
<1>3. n # 0 /\ Decided(r, n)'
  BY <1>1, <1>2 DEF AnswerHolds, Lasts
<1>4. cmd'[d].pc = "respond" => Answerable(r)' /\ (driver'[r] = "working" => n \in asks'[r])
  BY <1>1, <1>2 DEF AnswerHolds, Lasts, RunsStay, Answerable, KeepsAnswers
<1>5. crashes' = 0 /\ Answered(d)' => Settled(r, n)'
  BY <1>1, <1>2 DEF AnswerHolds, KeepsAnswers
<1> QED BY <1>1, <1>3, <1>4, <1>5 DEF AnswerHolds, Decided, Answerable, Settled

LEMMA DeliveredStays ==
  ASSUME Lasts, KeepsAnswers, delivered \subseteq Approvals, UNCHANGED delivered, DeliveredHolds
  PROVE  DeliveredHolds'
<1>1. \A a \in delivered : a[1] \in Runs /\ a[2] \in 0..LastEvent
  BY DEF Approvals
<1> QED BY <1>1 DEF DeliveredHolds, Lasts, KeepsAnswers

LEMMA OnceStays ==
  ASSUME AnsweredOnce, \A d \in Commands : Follows(d)
  PROVE  AnsweredOnce'
  BY DEF AnsweredOnce, Follows, At, AnswerPcs

\* All of it together, for the steps that ask and answer nothing.
LEMMA AnswersGoOn ==
  ASSUME IInv, AnswerInv, Lasts, AsksNothing, delivered \subseteq Approvals, UNCHANGED delivered,
         toRecover' \subseteq toRecover, \A d \in Commands : Follows(d)
  PROVE  AnswerInv'
<1>1. Typed /\ StreamsHold /\ KeepsAnswers
  BY NothingAskedNothingLost DEF IInv
<1>2. \A d \in Commands : AnswerHolds(d)'
  BY <1>1, AnswersStay DEF AnswerInv
<1>3. \A r \in Runs : QuestionHolds(r)'
  BY <1>1, QuestionsStay DEF AnswerInv, AsksNothing
<1>4. AnsweredOnce' /\ DeliveredHolds'
  BY <1>1, OnceStays, DeliveredStays DEF AnswerInv
<1>5. toRecover' # {} => crashes' # 0
  BY DEF AnswerInv, AsksNothing
<1> QED BY <1>2, <1>3, <1>4, <1>5 DEF AnswerInv

LEMMA NothingAsked ==
  ASSUME UNCHANGED <<history, checkpoint, crashes, driver, asks, queue>>,
         \A s \in Runs, n \in 1..LastEvent :
           approval'[<<s, n>>] = "pending" => approval[<<s, n>>] = "pending"
  PROVE  AsksNothing
  BY DEF AsksNothing, Untouched

\* The ends of drivers: what they still send is no question.
LEMMA EndsAskNothing ==
  ASSUME StreamsHold, OnlyEnds, UNCHANGED approval,
         \A s \in Runs : driver'[s] = "working" => driver[s] = "working" /\ asks'[s] = asks[s]
  PROVE  AsksNothing
<1>1. ASSUME NEW s \in Runs, NEW i \in DOMAIN queue'[s], queue'[s][i].type = "permission"
      PROVE  \E j \in DOMAIN queue[s] : queue[s][j] = queue'[s][i]
  <2>1. queue[s] \in Seq(Sendable)
    BY DEF StreamsHold, StreamsTyped
  <2>2. ASSUME NEW e \in Sendable, e.type \notin Kinds, queue'[s] = Append(queue[s], e)
        PROVE  i \in DOMAIN queue[s] /\ queue[s][i] = queue'[s][i]
    <3>1. /\ DOMAIN queue[s] = 1..Len(queue[s]) /\ DOMAIN queue'[s] = 1..(Len(queue[s]) + 1)
          /\ \A j \in DOMAIN queue[s] : queue'[s][j] = queue[s][j]
          /\ queue'[s][Len(queue[s]) + 1] = e
          /\ Len(queue[s]) \in Nat
      BY <2>1, <2>2
    <3>2. i # Len(queue[s]) + 1
      BY <1>1, <2>2, <3>1 DEF Kinds
    <3> QED BY <3>1, <3>2
  <2> QED BY <1>1, <2>2 DEF OnlyEnds
<1> QED BY <1>1 DEF OnlyEnds, AsksNothing, Untouched

\* A step of one request leaves the others alone.
LEMMA OtherRequestsRest ==
  ASSUME Typed, NEW c \in Commands, CommandStep(c)
  PROVE  \A d \in Commands \ {c} : cmd'[d] = cmd[d]
  BY DEF Await, Return, AwaitCleanup, CommandStep, LaunchStep, DecideStep, Conflict, Enqueue,
     StartRun, Launch, Ensure, Select,
     AskFallback, CreateRun, DriverStarted, Abort, Reconcile, Release, LaunchFailed, FailTask,
     DecideFallback, Decide, Respond, RejectCancel, RejectClose, RejectClosing, RejectClosed,
     Deliver, MarkDelivered, RequestCancel, CancelRpc, CheckCancelled, ConfirmCancel,
     PrepareRetryContext, Requeue, ConfirmCleanup, ApproveReview, Complete, Typed

LEMMA SameRequestFollows ==
  ASSUME NEW d \in Commands, cmd'[d] = cmd[d]
  PROVE  Follows(d)
  BY DEF Follows, Answered

LEMMA Elsewhere ==
  ASSUME NEW d \in Commands, cmd'[d].pc \notin AnswerPcs
  PROVE  Follows(d)
  BY DEF Follows

\* Where a request goes.
LEMMA Awaits ==
  ASSUME Typed, NEW c \in Commands, NEW q, Await(c, q)
  PROVE  /\ cmd'[c].pc = q /\ cmd'[c].run = cmd[c].run /\ cmd'[c].n = cmd[c].n
         /\ cmd'[c].verdict = cmd[c].verdict
  BY DEF Typed, Requests, RequestRecords, Await

LEMMA FailsToSend ==
  ASSUME Typed, NEW c \in Commands, NEW q, NEW v,
         cmd' = [cmd EXCEPT ![c].pc = q, ![c].verdict = v]
  PROVE  /\ cmd'[c].pc = q /\ cmd'[c].run = cmd[c].run /\ cmd'[c].n = cmd[c].n
         /\ cmd'[c].verdict = v
  BY DEF Typed, Requests, RequestRecords

Leaves(c) == \/ Return(c)
             \/ \E q : q \notin AnswerPcs /\ Await(c, q)
             \/ \E q, b : q \notin AnswerPcs /\ cmd' = [cmd EXCEPT ![c].pc = q, ![c].proc = b]

LEMMA LeavesTheQuestion ==
  ASSUME Typed, NEW c \in Commands, Leaves(c)
  PROVE  cmd'[c].pc \notin AnswerPcs
<1>1. cmd[c] \in RequestRecords /\ DOMAIN cmd = Commands
  BY DEF Typed, Requests
<1>2. CASE Return(c)
  BY <1>1, <1>2 DEF Return, Idle, AnswerPcs
<1>3. ASSUME NEW q, q \notin AnswerPcs, Await(c, q) PROVE cmd'[c].pc = q
  BY <1>3, Awaits
<1>4. ASSUME NEW q, NEW b, cmd' = [cmd EXCEPT ![c].pc = q, ![c].proc = b] PROVE cmd'[c].pc = q
  BY <1>1, <1>4 DEF RequestRecords
<1> QED BY <1>2, <1>3, <1>4 DEF Leaves

\* Requests on their way to a driver, to an end or to a clean-up.
LEMMA OtherOperations ==
  ASSUME IInv, NEW c \in Commands,
         \/ Enqueue(c) \/ StartRun(c) \/ (LaunchStep(c) /\ ~DriverStarted(c)) \/ DecideFallback(c)
         \/ RequestCancel(c) \/ CheckCancelled(c) \/ ConfirmCancel(c)
         \/ PrepareRetryContext(c) \/ Requeue(c) \/ ConfirmCleanup(c) \/ ApproveReview(c) \/ Complete(c)
  PROVE  AsksNothing /\ Follows(c) /\ UNCHANGED <<delivered, toRecover>>
<1>1. UNCHANGED <<drivers, checkpoint, crashes, toRecover, delivered>>
  BY DEF Enqueue, StartRun, LaunchStep, Launch, Ensure, Select, AskFallback, CreateRun, Abort, Reconcile,
       Release, LaunchFailed, FailTask, Conflict, notes, process, DecideFallback, RequestCancel,
       CheckCancelled, ConfirmCancel, PrepareRetryContext, Requeue, ConfirmCleanup, ApproveReview,
       Complete
<1>2. \/ UNCHANGED approval
      \/ \E status : approval' = [approval EXCEPT ![Fallback(cmd[c].run)] = status]
  BY DEF Enqueue, StartRun, LaunchStep, Launch, Ensure, Select, AskFallback, CreateRun, Abort, Reconcile,
       Release, LaunchFailed, FailTask, Conflict, records, DecideFallback, RequestCancel,
       CheckCancelled, ConfirmCancel, PrepareRetryContext, Requeue, ConfirmCleanup, ApproveReview,
       Complete
<1>3. \A s \in Runs, n \in 1..LastEvent : approval'[<<s, n>>] = approval[<<s, n>>]
  <2>1. \A s \in Runs, n \in 1..LastEvent : <<s, n>> \in Approvals /\ \A r : <<s, n>> # Fallback(r)
    BY BoundsAssumption DEF Fallback, Approvals, LastEvent
  <2>2. DOMAIN approval = Approvals
    BY LedgerSays DEF IInv
  <2> QED BY <1>2, <2>1, <2>2
<1>4. AsksNothing
  BY <1>1, <1>3, NothingAsked DEF drivers
<1>5. DOMAIN cmd = Commands /\ "pc" \in DOMAIN cmd[c] /\ "proc" \in DOMAIN cmd[c]
  BY DEF IInv, Typed, Requests, RequestRecords
<1>6. ASSUME Enqueue(c) PROVE cmd'[c].pc \notin AnswerPcs
  <2>1. Return(c) \/ Await(c, "start")
    BY <1>6 DEF Enqueue, Conflict
  <2> QED BY <1>5, <2>1 DEF Await, Return, Idle, AnswerPcs
<1>7. ASSUME StartRun(c) PROVE cmd'[c].pc \notin AnswerPcs
  <2>1. Return(c) \/ Await(c, "launch")
    BY <1>7 DEF StartRun, Conflict
  <2> QED BY <1>5, <2>1 DEF Await, Return, Idle, AnswerPcs
<1>8. ASSUME FailTask(c) PROVE cmd'[c].pc \notin AnswerPcs
  <2>1. Return(c)
    BY <1>8 DEF FailTask, Conflict
  <2> QED BY <1>5, <2>1 DEF Await, Return, Idle, AnswerPcs
<1>9. ASSUME CreateRun(c) PROVE cmd'[c].pc \notin AnswerPcs
  <2>1. Await(c, "starting") \/ Await(c, "release")
    BY <1>9 DEF CreateRun, Conflict
  <2> QED BY <1>5, <2>1 DEF Await, Return, Idle, AnswerPcs
<1>10. ASSUME Reconcile(c) PROVE cmd'[c].pc \notin AnswerPcs
  <2>1. Await(c, "release")
    BY <1>10 DEF Reconcile, Conflict
  <2> QED BY <1>5, <2>1 DEF Await, Return, Idle, AnswerPcs
<1>11. ASSUME Launch(c) PROVE cmd'[c].pc \notin AnswerPcs
  <2>1. Return(c) \/ Await(c, "cleaning") \/ Await(c, "ensure")
    BY <1>11 DEF Launch
  <2> QED BY <1>5, <2>1 DEF Await, Return, Idle, AnswerPcs
<1>12. ASSUME Ensure(c) PROVE cmd'[c].pc \notin AnswerPcs
  <2>1. Await(c, "select") \/ Await(c, "failed")
    BY <1>12 DEF Ensure
  <2> QED BY <1>5, <2>1 DEF Await, Return, Idle, AnswerPcs
<1>13. ASSUME Abort(c) PROVE cmd'[c].pc \notin AnswerPcs
  <2>1. cmd' = [cmd EXCEPT ![c].pc = "release", ![c].proc = FALSE]
    BY <1>13 DEF Abort
  <2> QED BY <1>5, <2>1 DEF Await, Return, Idle, AnswerPcs
<1>14. ASSUME Release(c) PROVE cmd'[c].pc \notin AnswerPcs
  <2>1. cmd' = [cmd EXCEPT ![c].pc = "failed", ![c].proc = FALSE]
    BY <1>14 DEF Release
  <2> QED BY <1>5, <2>1 DEF Await, Return, Idle, AnswerPcs
<1>15. ASSUME LaunchFailed(c) PROVE cmd'[c].pc \notin AnswerPcs
  <2>1. Return(c) \/ Await(c, "failTask")
    BY <1>15 DEF LaunchFailed
  <2> QED BY <1>5, <2>1 DEF Await, Return, Idle, AnswerPcs
<1>16. ASSUME AskFallback(c) PROVE cmd'[c].pc \notin AnswerPcs
  <2>1. Return(c) \/ Await(c, "failed")
    BY <1>16 DEF AskFallback
  <2> QED BY <1>5, <2>1 DEF Await, Return, Idle, AnswerPcs
<1>17. ASSUME DecideFallback(c) PROVE cmd'[c].pc \notin AnswerPcs
  <2>1. Return(c)
    BY <1>17 DEF DecideFallback, Conflict
  <2> QED BY <1>5, <2>1 DEF Await, Return, Idle, AnswerPcs
<1>18. ASSUME RequestCancel(c) PROVE cmd'[c].pc \notin AnswerPcs
  <2>1. Return(c) \/ Await(c, "cancelRpc")
    BY <1>18 DEF RequestCancel, Conflict
  <2> QED BY <1>5, <2>1 DEF Await, Return, Idle, AnswerPcs
<1>19. ASSUME CheckCancelled(c) PROVE cmd'[c].pc \notin AnswerPcs
  <2>1. Return(c) \/ Await(c, "tidying") \/ Await(c, "confirm")
    BY <1>19 DEF CheckCancelled, AwaitCleanup
  <2> QED BY <1>5, <2>1 DEF Await, Return, Idle, AnswerPcs
<1>20. ASSUME ConfirmCancel(c) PROVE cmd'[c].pc \notin AnswerPcs
  <2>1. Return(c) \/ Await(c, "tidying")
    BY <1>20 DEF ConfirmCancel, AwaitCleanup, Conflict
  <2> QED BY <1>5, <2>1 DEF Await, Return, Idle, AnswerPcs
<1>21. ASSUME PrepareRetryContext(c) PROVE cmd'[c].pc \notin AnswerPcs
  <2>1. Return(c) \/ Await(c, "requeue")
    BY <1>21 DEF PrepareRetryContext, Conflict
  <2> QED BY <1>5, <2>1 DEF Await, Return, Idle, AnswerPcs
<1>22. ASSUME Requeue(c) PROVE cmd'[c].pc \notin AnswerPcs
  <2>1. Return(c) \/ Await(c, "enqueue")
    BY <1>22 DEF Requeue
  <2> QED BY <1>5, <2>1 DEF Await, Return, Idle, AnswerPcs
<1>23. ASSUME ConfirmCleanup(c) PROVE cmd'[c].pc \notin AnswerPcs
  <2>1. Return(c) \/ Await(c, "tidying")
    BY <1>23 DEF ConfirmCleanup, AwaitCleanup, Conflict
  <2> QED BY <1>5, <2>1 DEF Await, Return, Idle, AnswerPcs
<1>24. ASSUME ApproveReview(c) PROVE cmd'[c].pc \notin AnswerPcs
  <2>1. Return(c) \/ Await(c, "complete")
    BY <1>24 DEF ApproveReview, Conflict
  <2> QED BY <1>5, <2>1 DEF Await, Return, Idle, AnswerPcs
<1>25. ASSUME Complete(c) PROVE cmd'[c].pc \notin AnswerPcs
  <2>1. Return(c) \/ Await(c, "tidying")
    BY <1>25 DEF Complete, AwaitCleanup, Conflict
  <2> QED BY <1>5, <2>1 DEF Await, Return, Idle, AnswerPcs
<1>26. ASSUME Select(c) PROVE cmd'[c].pc \notin AnswerPcs
  <2>1. \/ cmd' = [cmd EXCEPT ![c].pc = OrchestratorPc(cmd[c].run), ![c].proc = TRUE]
        \/ Await(c, "askFallback") \/ Await(c, "release")
    BY <1>26 DEF Select
  <2>2. OrchestratorPc(cmd[c].run) \notin AnswerPcs
    BY DEF OrchestratorPc, AnswerPcs
  <2> QED BY <1>5, <2>1, <2>2 DEF Await, AnswerPcs
<1>27. cmd'[c].pc \notin AnswerPcs
  BY <1>6, <1>7, <1>8, <1>9, <1>10, <1>11, <1>12, <1>13, <1>14, <1>15, <1>16, <1>17, <1>18, <1>19, <1>20, <1>21, <1>22, <1>23, <1>24, <1>25, <1>26 DEF LaunchStep
<1> QED BY <1>1, <1>4, <1>27, Elsewhere

\* What is done with a driver whose run is over.
LEMMA StoppedDrivers ==
  ASSUME NEW r \in Runs, StreamsHold,
         \/ DriverCancels(r) \/ DriverCancelFails(r)
         \/ CloseDriver(r) /\ UNCHANGED queue,
         UNCHANGED <<history, checkpoint, crashes, approval>>
  PROVE  AsksNothing
<1>1. OnlyEnds
  BY DriversAreStopped DEF StreamsHold
<1>2. \A s \in Runs : driver'[s] = "working" => driver[s] = "working" /\ asks'[s] = asks[s]
  BY DEF DriverCancels, DriverCancelFails, CloseDriver, StreamsHold, StreamsTyped
<1> QED BY <1>1, <1>2, EndsAskNothing

\* A request whose decision was sent goes on to its end.
LEMMA RejectedGoesOn ==
  ASSUME IInv, AnswerInv, Lasts, delivered \subseteq Approvals, NEW c \in Commands,
         \/ RejectCancel(c) \/ CancelRpc(c) \/ RejectClose(c) \/ RejectClosing(c) \/ RejectClosed(c)
         \/ Deliver(c)
  PROVE  AnswerInv'
<1>0. /\ Typed /\ StreamsHold /\ cmd[c] \in Requests
      /\ \A d \in Commands \ {c} : cmd'[d] = cmd[d]
  <2>1. CommandStep(c)
    BY DEF CommandStep, DecideStep
  <2> QED BY <2>1, OtherRequestsRest DEF IInv, Typed
<1>1. UNCHANGED <<history, checkpoint, crashes, approval, delivered, toRecover>>
  BY DEF RejectCancel, CancelRpc, RejectClose, RejectClosing, RejectClosed, Deliver, records, notes,
     drivers, process
<1>2. AsksNothing
  <2>1. CASE RejectCancel(c) \/ CancelRpc(c)
    <3>1. cmd[c].run \in Runs
      BY <1>0, <2>1 DEF RejectCancel, CancelRpc, At, Requests, RequestRecords
    <3> QED BY <1>0, <1>1, <2>1, <3>1, StoppedDrivers DEF RejectCancel, CancelRpc
  <2>2. CASE RejectClosing(c)
    <3>1. cmd[c].run \in Runs
      BY <1>0, <2>2 DEF RejectClosing, At, Requests, RequestRecords
    <3> QED BY <1>0, <1>1, <2>2, <3>1, StoppedDrivers DEF RejectClosing
  <2>3. CASE RejectClose(c) \/ RejectClosed(c) \/ Deliver(c)
    BY <1>1, <2>3, NothingAsked DEF RejectClose, RejectClosed, Deliver, drivers
  <2> QED BY <2>1, <2>2, <2>3
<1>3. Follows(c)
  <2>1. CASE CancelRpc(c)
    <3>1. Leaves(c)
      BY <2>1 DEF CancelRpc, Leaves, AnswerPcs
    <3> QED BY <1>0, <3>1, LeavesTheQuestion, Elsewhere
  <2>2. CASE RejectCancel(c)
    <3>1. cmd[c].pc = "rejectCancel"
          /\ \/ Await(c, "rejectClose")
             \/ cmd' = [cmd EXCEPT ![c].pc = "rejectClose", ![c].verdict = "undelivered"]
      BY <2>2 DEF RejectCancel, At
    <3>2. cmd'[c].pc = "rejectClose" /\ cmd'[c].run = cmd[c].run /\ cmd'[c].n = cmd[c].n
      BY <1>0, <3>1, Awaits, FailsToSend
    <3> QED BY <3>1, <3>2 DEF AnswerPcs, Follows, Answered
  <2>3. CASE RejectClose(c)
    <3>1. cmd[c].pc = "rejectClose" /\ (Await(c, "rejectClosing") \/ Await(c, "rejectClosed"))
      BY <2>3 DEF RejectClose, At
    <3>2. /\ cmd'[c].pc \in {"rejectClosing", "rejectClosed"} /\ cmd'[c].run = cmd[c].run
          /\ cmd'[c].n = cmd[c].n /\ cmd'[c].verdict = cmd[c].verdict
      BY <1>0, <3>1, Awaits
    <3> QED BY <3>1, <3>2 DEF AnswerPcs, Follows, Answered
  <2>4. CASE RejectClosing(c)
    <3>1. cmd[c].pc = "rejectClosing" /\ Await(c, "rejectDraining")
      BY <2>4 DEF RejectClosing, At
    <3>2. /\ cmd'[c].pc = "rejectDraining" /\ cmd'[c].run = cmd[c].run
          /\ cmd'[c].n = cmd[c].n /\ cmd'[c].verdict = cmd[c].verdict
      BY <1>0, <3>1, Awaits
    <3> QED BY <3>1, <3>2 DEF AnswerPcs, Follows, Answered
  <2>5. CASE RejectClosed(c)
    <3>1. /\ cmd[c].pc \in {"rejectDraining", "rejectClosed"}
          /\ \/ cmd[c].verdict = "reject" /\ Await(c, "deliver")
             \/ Return(c)
      BY <2>5 DEF RejectClosed, At
    <3>2. CASE Return(c)
      BY <1>0, <3>2, LeavesTheQuestion, Elsewhere DEF Leaves
    <3>3. CASE cmd[c].verdict = "reject" /\ Await(c, "deliver")
      <4>1. cmd'[c].pc = "deliver" /\ cmd'[c].run = cmd[c].run /\ cmd'[c].n = cmd[c].n
        BY <1>0, <3>3, Awaits
      <4> QED BY <3>1, <3>3, <4>1 DEF AnswerPcs, Follows, Answered
    <3> QED BY <3>1, <3>2, <3>3
  <2>6. CASE Deliver(c)
    <3>1. cmd[c].pc = "deliver" /\ Await(c, "markDelivered")
      BY <2>6 DEF Deliver, At
    <3>2. cmd'[c].pc = "markDelivered" /\ cmd'[c].run = cmd[c].run /\ cmd'[c].n = cmd[c].n
      BY <1>0, <3>1, Awaits
    <3> QED BY <3>1, <3>2 DEF AnswerPcs, Follows, Answered
  <2> QED BY <2>1, <2>2, <2>3, <2>4, <2>5, <2>6
<1>4. \A d \in Commands : Follows(d)
  BY <1>0, <1>3, SameRequestFollows
<1> QED BY <1>1, <1>2, <1>4, AnswersGoOn

\* The decision is taken: its question is open, and nobody else has decided it.
LEMMA DecisionIsTaken ==
  ASSUME IInv, AnswerInv, Lasts, delivered \subseteq Approvals, NEW c \in Commands, Decide(c)
  PROVE  AnswerInv'
<1>0. /\ Typed /\ StreamsHold /\ cmd[c] \in Requests
      /\ \A d \in Commands \ {c} : cmd'[d] = cmd[d]
  <2>1. CommandStep(c)
    BY DEF CommandStep, DecideStep
  <2> QED BY <2>1, OtherRequestsRest DEF IInv, Typed
<1>1. PICK r \in Runs, n \in 1..LastEvent : r = cmd[c].run /\ n = cmd[c].n
  <2>1. cmd[c].pc = "decide"
    BY DEF Decide, At
  <2>2. cmd[c].run \in Runs /\ cmd[c].n \in 0..LastEvent /\ cmd[c].n # 0
    BY <1>0, <2>1 DEF Requests, RequestRecords
  <2> QED BY <2>2, BoundsAssumption DEF LastEvent
<1>4. /\ cmd[c].pc = "decide"
      /\ UNCHANGED <<history, checkpoint, crashes, driver, asks, queue, delivered, toRecover>>
  BY DEF Decide, Conflict, At, drivers, notes, process
<1>2. CASE Conflict(c, "idle")
  <2>1. AsksNothing
    BY <1>2, <1>4, NothingAsked DEF Conflict, records
  <2>2. Follows(c)
    BY <1>0, <1>2, LeavesTheQuestion, Elsewhere DEF Conflict, Leaves
  <2> QED BY <1>0, <1>4, <2>1, <2>2, SameRequestFollows, AnswersGoOn
<1>3. CASE ~Conflict(c, "idle")
  <2>1. /\ Fresh(c) /\ Await(c, "respond")
        /\ \/ approval' = [approval EXCEPT ![<<r, n>>] = "approved"]
           \/ approval' = [approval EXCEPT ![<<r, n>>] = "denied"]
    BY <1>1, <1>3 DEF Decide
  <2>2. approval[<<r, n>>] = "pending" /\ run[r] = "waiting_permission" /\ Answerable(r)
    BY <1>1, <1>4, <2>1 DEF IInv, Informed, SnapHolds, Answerable
  <2>3. cmd'[c].pc = "respond" /\ cmd'[c].run = r /\ cmd'[c].n = n
    BY <1>0, <1>1, <2>1, Awaits
  <2>4. Decided(r, n)' /\ Answerable(r)'
    <3>1. <<r, n>> \in DOMAIN approval
      <4>1. DOMAIN approval = Approvals
        BY LedgerSays DEF IInv
      <4> QED BY <1>1, <4>1 DEF Approvals
    <3> QED BY <1>1, <2>1, <2>2, <3>1 DEF Decided, Lasts, RunsStay, Answerable
  <2>5. AsksNothing /\ KeepsAnswers
    <3>1. ASSUME NEW s \in Runs, NEW m \in 1..LastEvent, approval'[<<s, m>>] = "pending"
          PROVE  approval[<<s, m>>] = "pending"
      <4>1. DOMAIN approval = Approvals /\ <<s, m>> \in Approvals
        BY LedgerSays, BoundsAssumption DEF IInv, Approvals, LastEvent
      <4> QED BY <2>1, <3>1, <4>1
    <3> QED BY <1>4, <3>1, NothingAsked, NothingAskedNothingLost
  <2>6. driver'[r] = "working" => n \in asks'[r]
    BY <1>1, <1>4, <2>2 DEF AnswerInv, QuestionHolds
  <2>7. AnswerHolds(c)'
    BY <1>1, <2>3, <2>4, <2>6 DEF AnswerHolds, Answered, Decided, Answerable
  <2>8. \A d \in Commands \ {c} : AnswerHolds(d)'
    BY <1>0, <2>5, SameRequestFollows, AnswersStay DEF AnswerInv
  <2>9. AnsweredOnce'
    <3>1. ASSUME NEW d \in Commands \ {c}, cmd[d].pc = "respond"
          PROVE  ~(cmd[d].run = r /\ cmd[d].n = n)
      <4>1. Decided(cmd[d].run, cmd[d].n)
        BY <3>1 DEF AnswerInv, AnswerHolds, AnswerPcs
      <4> QED BY <2>2, <4>1 DEF Decided
    <3> QED BY <1>0, <2>3, <3>1 DEF AnswerInv, AnsweredOnce, At
  <2>10. \A s \in Runs : QuestionHolds(s)'
    BY <1>0, <2>5, QuestionsStay DEF AnswerInv, AsksNothing
  <2>11. DeliveredHolds' /\ (toRecover' # {} => crashes' # 0)
    BY <1>4, <2>5, DeliveredStays DEF AnswerInv
  <2> QED BY <2>7, <2>8, <2>9, <2>10, <2>11 DEF AnswerInv
<1> QED BY <1>2, <1>3

\* A new request decides nothing yet.
LEMMA RequestsAskNothing ==
  ASSUME IInv, AnswerInv, Lasts, delivered \subseteq Approvals, NEW c \in Commands, Request(c)
  PROVE  AnswerInv'
<1>1. PICK op, k, recs : Serve(c, op, k, recs) /\ k.pc \notin OngoingPcs
  BY RequestServes
<1>2. \A d \in Commands \ {c} : cmd'[d] = cmd[d]
  BY <1>1 DEF Serve, Typed, IInv
<1>3. cmd'[c].pc \notin AnswerPcs
  BY <1>1 DEF Serve, Typed, IInv, OngoingPcs, RestPcs, AnswerPcs
<1>4. UNCHANGED <<history, checkpoint, crashes, driver, asks, queue, approval, toRecover, delivered>>
  BY DEF Request, BeginComplete, BeginStart, BeginRelaunch, BeginCancel, BeginRetry, BeginCleanup,
     BeginDecide, records, notes, drivers, process
<1>5. AsksNothing
  BY <1>4, NothingAsked
<1>6. \A d \in Commands : Follows(d)
  BY <1>2, <1>3, SameRequestFollows, Elsewhere
<1> QED BY <1>4, <1>5, <1>6, AnswersGoOn

\* The answer is sent: the question is open no more.
LEMMA AnswerIsSent ==
  ASSUME IInv, AnswerInv, Lasts, delivered \subseteq Approvals, NEW c \in Commands, Respond(c)
  PROVE  AnswerInv'
<1>0. /\ Typed /\ StreamsHold /\ StreamsTyped /\ cmd[c] \in Requests
      /\ \A d \in Commands \ {c} : cmd'[d] = cmd[d]
  <2>1. CommandStep(c)
    BY DEF CommandStep, DecideStep
  <2> QED BY <2>1, OtherRequestsRest DEF IInv, Typed, StreamsHold
<1>1. PICK r \in Runs, n \in 1..LastEvent : r = cmd[c].run /\ n = cmd[c].n
  <2>1. cmd[c].pc = "respond"
    BY DEF Respond, At
  <2>2. cmd[c].run \in Runs /\ cmd[c].n \in 0..LastEvent /\ cmd[c].n # 0
    BY <1>0, <2>1 DEF Requests, RequestRecords, AnswerInv, AnswerHolds, AnswerPcs
  <2> QED BY <2>2, BoundsAssumption DEF LastEvent
<1>2. /\ cmd[c].pc = "respond"
      /\ UNCHANGED <<history, checkpoint, crashes, driver, queue, approval, delivered, toRecover>>
  BY DEF Respond, At, records, notes, process
<1>3. Decided(r, n) /\ Answerable(r)
  BY <1>1, <1>2 DEF AnswerInv, AnswerHolds, AnswerPcs
<1>4. \/ UNCHANGED asks
      \/ asks' = [asks EXCEPT ![r] = @ \ {n}]
  BY <1>1 DEF Respond
<1>5. /\ \A s \in Runs : asks'[s] \subseteq asks[s]
      /\ \A s \in Runs : \A m \in asks[s] : m \in asks'[s] \/ (s = r /\ m = n)
  BY <1>0, <1>4 DEF StreamsTyped
<1>6. \/ n \in asks[r] /\ n \notin asks'[r] /\ (Await(c, "deliver") \/ Await(c, "rejectCancel"))
      \/ Return(c)
      \/ cmd' = [cmd EXCEPT ![c].pc = "rejectClose", ![c].verdict = "undelivered"]
  <2>1. \/ /\ n \in asks[r] /\ asks' = [asks EXCEPT ![r] = @ \ {n}]
           /\ Await(c, IF cmd[c].verdict = "approve" THEN "deliver" ELSE "rejectCancel")
        \/ IF cmd[c].verdict = "approve"
             THEN Return(c)
             ELSE cmd' = [cmd EXCEPT ![c].pc = "rejectClose", ![c].verdict = "undelivered"]
    BY <1>1 DEF Respond
  <2>2. asks' = [asks EXCEPT ![r] = @ \ {n}] => n \notin asks'[r]
    BY <1>0 DEF StreamsTyped
  <2>3. CASE cmd[c].verdict = "approve"
    BY <2>1, <2>2, <2>3
  <2>4. CASE cmd[c].verdict # "approve"
    BY <2>1, <2>2, <2>4
  <2> QED BY <2>3, <2>4
<1>7. AnswerHolds(c)'
  <2>1. CASE Return(c)
    <3>1. cmd'[c].pc = "idle"
      BY <1>0, <2>1 DEF Return, Typed, Idle
    <3> QED BY <3>1 DEF AnswerHolds, Answered, AnswerPcs
  <2>2. CASE cmd' = [cmd EXCEPT ![c].pc = "rejectClose", ![c].verdict = "undelivered"]
    <3>1. /\ cmd'[c].pc = "rejectClose" /\ cmd'[c].run = r /\ cmd'[c].n = n
          /\ cmd'[c].verdict = "undelivered"
      BY <1>0, <1>1, <2>2 DEF Typed, Requests, RequestRecords
    <3>2. n # 0 /\ Decided(r, n)'
      BY <1>2, <1>3 DEF Decided
    <3> QED BY <3>1, <3>2 DEF AnswerHolds, Answered, Decided
  <2>3. CASE n \in asks[r] /\ n \notin asks'[r] /\ (Await(c, "deliver") \/ Await(c, "rejectCancel"))
    <3>1. /\ cmd'[c].pc \in {"deliver", "rejectCancel"} /\ cmd'[c].run = r /\ cmd'[c].n = n
      BY <1>0, <1>1, <2>3, Awaits
    <3>2. n # 0 /\ Decided(r, n)' /\ Settled(r, n)'
      BY <1>0, <1>2, <1>3, <2>3, PlacesAreNumbers DEF Decided, Settled
    <3> QED BY <3>1, <3>2 DEF AnswerHolds, Decided, Settled
  <2> QED BY <1>6, <2>1, <2>2, <2>3
<1>8. cmd'[c].pc # "respond"
  <2>1. DOMAIN cmd = Commands /\ "pc" \in DOMAIN cmd[c] /\ "verdict" \in DOMAIN cmd[c]
    BY <1>0 DEF Typed, Requests, RequestRecords
  <2>2. CASE Return(c)
    BY <2>1, <2>2 DEF Return, Idle
  <2>3. CASE Await(c, "deliver") \/ Await(c, "rejectCancel")
    BY <2>1, <2>3 DEF Await
  <2>4. CASE cmd' = [cmd EXCEPT ![c].pc = "rejectClose", ![c].verdict = "undelivered"]
    BY <2>1, <2>4
  <2> QED BY <1>6, <2>2, <2>3, <2>4
<1>9. ASSUME NEW d \in Commands \ {c} PROVE AnswerHolds(d)'
  <2>1. cmd'[d] = cmd[d] /\ AnswerHolds(d)
    BY <1>0 DEF AnswerInv
  <2>2. ASSUME cmd[d].pc = "respond", driver[cmd[d].run] = "working"
        PROVE  cmd[d].n \in asks'[cmd[d].run]
    <3>1. cmd[d].run \in Runs /\ cmd[d].n \in asks[cmd[d].run]
      BY <1>0, <2>1, <2>2, QuestionsAreOfRuns DEF AnswerHolds, AnswerPcs
    <3>2. ~(cmd[d].run = r /\ cmd[d].n = n)
      BY <1>1, <1>2, <2>2 DEF AnswerInv, AnsweredOnce, At
    <3> QED BY <1>5, <3>1, <3>2
  <2>3. ASSUME crashes = 0, Answered(d) PROVE Settled(cmd[d].run, cmd[d].n)'
    <3>1. cmd[d].run \in Runs
      BY <1>0, <2>3, QuestionsAreOfRuns, AnsweredAreAnswering
    <3>2. Settled(cmd[d].run, cmd[d].n)
      BY <2>1, <2>3 DEF AnswerHolds
    <3> QED BY <1>2, <1>5, <2>1, <3>1, <3>2 DEF Settled
  <2>4. cmd[d].pc = "respond" => Answerable(cmd[d].run)'
    <3>1. cmd[d].pc = "respond" => cmd[d].run \in Runs /\ Answerable(cmd[d].run)
      BY <1>0, <2>1, QuestionsAreOfRuns DEF AnswerHolds, AnswerPcs
    <3> QED BY <2>1, <3>1 DEF Answerable, Lasts, RunsStay
  <2> QED BY <1>2, <2>1, <2>2, <2>3, <2>4 DEF AnswerHolds, Decided, Answered, Settled, Answerable
<1>10. AnsweredOnce'
  BY <1>0, <1>8 DEF AnswerInv, AnsweredOnce, At
<1>11. ASSUME NEW s \in Runs PROVE QuestionHolds(s)'
  <2>1. QuestionHolds(s) /\ asks'[s] \subseteq asks[s]
    BY <1>5 DEF AnswerInv
  <2>2. \A m \in 1..LastEvent : m \in asks[s] => m \in asks'[s] \/ Decided(s, m)
    BY <1>3, <1>5
  <2>3. Asked(s) \subseteq 1..LastEvent
    BY <1>0, PlacesAreNumbers
  <2>4. \A m : Decided(s, m)' <=> Decided(s, m)
    BY <1>2 DEF Decided
  <2>5. driver[s] = "working" => \A m \in Asked(s) : m \in asks'[s] \/ Decided(s, m)
    BY <2>1, <2>2, <2>3 DEF QuestionHolds
  <2>6. driver[s] = "working" =>
          \A m \in 1..LastEvent : approval[<<s, m>>] = "pending" => m \in asks'[s]
    BY <2>1, <2>2 DEF QuestionHolds, Decided
  <2>7. ~Answerable(s)' => ~Answerable(s)
    BY DEF Lasts, RunsStay, Answerable
  <2>8. Asked(s)' = Asked(s)
    BY <1>2 DEF Asked
  <2> QED BY <1>2, <2>1, <2>4, <2>5, <2>6, <2>7, <2>8 DEF QuestionHolds
<1>12. DeliveredHolds'
  <2>1. \A a \in delivered : a[1] \in Runs
    BY DEF Approvals
  <2> QED BY <1>2, <1>5, <2>1 DEF AnswerInv, DeliveredHolds, Settled, Decided
<1> QED BY <1>2, <1>7, <1>9, <1>10, <1>11, <1>12 DEF AnswerInv

\* The answer is recorded as delivered.
LEMMA DeliveryIsRecorded ==
  ASSUME IInv, AnswerInv, Lasts, delivered \subseteq Approvals, NEW c \in Commands, MarkDelivered(c)
  PROVE  AnswerInv'
<1>0. /\ Typed /\ StreamsHold /\ cmd[c] \in Requests
      /\ \A d \in Commands \ {c} : cmd'[d] = cmd[d]
  <2>1. CommandStep(c)
    BY DEF CommandStep, DecideStep
  <2> QED BY <2>1, OtherRequestsRest DEF IInv, Typed
<1>1. /\ cmd[c].pc = "markDelivered"
      /\ UNCHANGED <<history, checkpoint, crashes, driver, asks, queue, approval, toRecover>>
  BY DEF MarkDelivered, Conflict, At, records, notes, drivers, process
<1>2. AsksNothing /\ KeepsAnswers
  BY <1>1, NothingAsked, NothingAskedNothingLost
<1>3. Follows(c)
  <2>1. Return(c) \/ Await(c, "tidying")
    BY DEF MarkDelivered, AwaitCleanup, Conflict
  <2>2. DOMAIN cmd = Commands /\ "pc" \in DOMAIN cmd[c]
    BY <1>0 DEF Typed, Requests, RequestRecords
  <2>3. cmd'[c].pc \notin AnswerPcs
    BY <2>1, <2>2 DEF Await, Return, Idle, AnswerPcs
  <2> QED BY <2>3, Elsewhere
<1>4. \A d \in Commands : Follows(d)
  BY <1>0, <1>3, SameRequestFollows
<1>5. CASE UNCHANGED delivered
  BY <1>1, <1>2, <1>4, <1>5, AnswersGoOn
<1>6. CASE delivered' = delivered \cup {<<cmd[c].run, cmd[c].n>>}
  <2>1. /\ Decided(cmd[c].run, cmd[c].n)
        /\ crashes = 0 => Settled(cmd[c].run, cmd[c].n)
    BY <1>1 DEF AnswerInv, AnswerHolds, AnswerPcs, Answered
  <2>2. DeliveredHolds'
    <3> DEFINE Holds(r, n) == Decided(r, n) /\ (crashes = 0 => Settled(r, n))
    <3>1. \A a \in delivered : Holds(a[1], a[2])
      BY DEF AnswerInv, DeliveredHolds
    <3>2. \A a \in delivered' : Holds(a[1], a[2])
      <4> HIDE DEF Holds
      <4>1. Holds(cmd[c].run, cmd[c].n)
        BY <2>1 DEF Holds
      <4> QED BY <1>6, <3>1, <4>1
    <3> QED BY <1>1, <3>2 DEF DeliveredHolds, Decided, Settled
  <2>3. (\A d \in Commands : AnswerHolds(d)') /\ AnsweredOnce'
    BY <1>0, <1>2, <1>4, AnswersStay, OnceStays DEF AnswerInv
  <2>4. \A r \in Runs : QuestionHolds(r)'
    BY <1>0, <1>2, QuestionsStay DEF AnswerInv, AsksNothing
  <2> QED BY <1>1, <2>2, <2>3, <2>4 DEF AnswerInv
<1> QED BY <1>5, <1>6 DEF MarkDelivered, Conflict, notes

\* A run that has no driver, or whose driver goes on, has no question open.
LEMMA NoQuestionWaits ==
  ASSUME LP!IInv, NEW r \in Runs, run[r] \in {"absent", "created", "running"}, NEW n \in 1..LastEvent
  PROVE  approval[<<r, n>>] # "pending"
<1> DEFINE ap == [a \in Approvals |-> a[1]]
<1>1. <<r, n>> \in Approvals \ {Fallback(s) : s \in Runs}
  BY BoundsAssumption DEF Approvals, Fallback, LastEvent
<1>2. ap[<<r, n>>] = r
  BY <1>1
<1>3. \A a \in Approvals \ {Fallback(s) : s \in Runs} :
        approval[a] = "pending" => run[ap[a]] \notin {"absent", "created", "running"}
  BY DEF LP!IInv, LP!PendingRequests, LP!PendingPermission
<1> HIDE DEF ap
<1> QED BY <1>1, <1>2, <1>3

\* A driver starts with no question asked.
LEMMA StartedDriverAskedNothing ==
  ASSUME IInv, AnswerInv, Lasts, delivered \subseteq Approvals, NEW c \in Commands, DriverStarted(c)
  PROVE  AnswerInv'
<1>0. /\ Typed /\ StreamsHold /\ StreamsTyped /\ cmd[c] \in Requests
      /\ \A d \in Commands \ {c} : cmd'[d] = cmd[d]
  <2>1. CommandStep(c)
    BY DEF CommandStep, LaunchStep
  <2> QED BY <2>1, OtherRequestsRest DEF IInv, Typed, StreamsHold
<1>1. PICK r \in Runs : r = cmd[c].run
  BY <1>0 DEF DriverStarted, At, Requests, RequestRecords
<1>2. UNCHANGED <<history, checkpoint, crashes, asks, queue, approval, delivered, toRecover>>
  BY DEF DriverStarted, notes, process
<1>3. Follows(c)
  <2>1. Return(c) \/ Await(c, "abort")
    BY DEF DriverStarted
  <2>2. DOMAIN cmd = Commands /\ "pc" \in DOMAIN cmd[c]
    BY <1>0 DEF Typed, Requests, RequestRecords
  <2>3. cmd'[c].pc \notin AnswerPcs
    BY <2>1, <2>2 DEF Await, Return, Idle, AnswerPcs
  <2> QED BY <2>3, Elsewhere
<1>4. \A d \in Commands : Follows(d)
  BY <1>0, <1>3, SameRequestFollows
<1>5. CASE UNCHANGED driver
  <2>1. AsksNothing
    BY <1>2, <1>5, NothingAsked
  <2> QED BY <1>2, <1>4, <2>1, AnswersGoOn
<1>6. CASE run[r] = "created" /\ run'[r] = "running" /\ driver' = [driver EXCEPT ![r] = "working"]
  <2>1. driver'[r] = "working" /\ \A s \in Runs \ {r} : driver'[s] = driver[s]
    BY <1>0, <1>6 DEF StreamsTyped
  <2>2. ~Answerable(r)
    BY <1>6 DEF Answerable
  <2>3. KeepsAnswers
    BY <1>2, <2>1, <2>2 DEF KeepsAnswers, Settled
  <2>4. (\A d \in Commands : AnswerHolds(d)') /\ AnsweredOnce' /\ DeliveredHolds'
    BY <1>0, <1>2, <1>4, <2>3, AnswersStay, OnceStays, DeliveredStays DEF AnswerInv
  <2>5. ASSUME NEW s \in Runs \ {r} PROVE QuestionHolds(s)'
    BY <1>0, <1>2, <2>1, QuestionsStay DEF AnswerInv, Untouched
  <2>6. QuestionHolds(r)'
    <3>1. QuestionHolds(r) /\ history[r] = <<>>
      BY <2>2 DEF AnswerInv, QuestionHolds
    <3>2. Asked(r)' = {} /\ Asked(r) = {}
      BY <1>2, <3>1 DEF Asked, Places
    <3>3. \A n \in 1..LastEvent : approval'[<<r, n>>] # "pending"
      BY <1>2, <1>6, NoQuestionWaits DEF IInv
    <3>4. Answerable(r)'
      BY <1>6 DEF Answerable
    <3>5. \A n \in Places(checkpoint'[r].history, "permission") : Decided(r, n)'
      BY <1>2, <3>1 DEF QuestionHolds, Decided
    <3>6. \A i \in DOMAIN queue'[r] : queue'[r][i].type = "permission" => queue'[r][i].n \in Asked(r)'
      BY <1>2, <3>1, <3>2 DEF QuestionHolds
    <3> QED BY <3>2, <3>3, <3>4, <3>5, <3>6 DEF QuestionHolds
  <2> QED BY <1>2, <2>4, <2>5, <2>6 DEF AnswerInv
<1> QED
  <2>1. \/ UNCHANGED driver
        \/ run[r] = "created" /\ RunGoes(r, "START", "running") /\ driver' = [driver EXCEPT ![r] = "working"]
    BY <1>1 DEF DriverStarted
  <2>2. RunGoes(r, "START", "running") => run'[r] = "running"
    BY RunEvents, LedgerSays DEF IInv
  <2> QED BY <1>5, <1>6, <2>1, <2>2

\* A checkpoint is taken while the driver waits for nobody: what it asked is decided.
LEMMA SavedQuestionsAreDecided ==
  ASSUME IInv, AnswerInv, Lasts, delivered \subseteq Approvals, NEW r \in Runs, SaveCheckpoint(r)
  PROVE  AnswerInv'
<1>0. /\ Typed /\ StreamsHold /\ StreamsTyped
      /\ UNCHANGED <<history, crashes, asks, driver, queue, approval, delivered, toRecover, cmd>>
  BY DEF IInv, StreamsHold, SaveCheckpoint, Throws, records, process
<1>1. \A d \in Commands : Follows(d)
  BY <1>0, SameRequestFollows
<1>2. CASE UNCHANGED checkpoint
  <2>1. AsksNothing
    BY <1>0, <1>2, NothingAsked
  <2> QED BY <1>0, <1>1, <2>1, AnswersGoOn
<1>3. CASE /\ driver[r] = "working" /\ asks[r] = {}
           /\ checkpoint' = [checkpoint EXCEPT ![r] = [history |-> history[r],
                                                      saved   |-> @.saved \cup {Event(r).n}]]
  <2>1. checkpoint'[r].history = history[r] /\ \A s \in Runs \ {r} : checkpoint'[s] = checkpoint[s]
    BY <1>0, <1>3 DEF StreamsTyped
  <2>2. KeepsAnswers
    BY <1>0 DEF KeepsAnswers, Settled
  <2>3. (\A d \in Commands : AnswerHolds(d)') /\ AnsweredOnce' /\ DeliveredHolds'
    BY <1>0, <1>1, <2>2, AnswersStay, OnceStays, DeliveredStays DEF AnswerInv
  <2>4. \A s \in Runs : Untouched(s)
    BY <1>0 DEF Untouched
  <2>5. ASSUME NEW s \in Runs \ {r} PROVE QuestionHolds(s)'
    BY <1>0, <2>1, <2>4, QuestionsStay DEF AnswerInv
  <2>6. QuestionHolds(r)'
    <3>1. QuestionHolds(r)
      BY DEF AnswerInv
    <3>2. \A n \in Asked(r) : Decided(r, n)
      BY <1>3, <3>1 DEF QuestionHolds
    <3>3. \A n \in Places(checkpoint'[r].history, "permission") : Decided(r, n)'
      BY <1>0, <2>1, <3>2 DEF Decided, Asked
    <3>4. Answerable(r)
      BY <1>3, <3>1 DEF QuestionHolds
    <3>5. Answerable(r)'
      BY <3>4 DEF Answerable, Lasts, RunsStay
    <3> QED BY <1>0, <3>1, <3>3, <3>5 DEF QuestionHolds, Asked, Decided
  <2> QED BY <1>0, <2>3, <2>5, <2>6 DEF AnswerInv
<1> QED BY <1>2, <1>3 DEF SaveCheckpoint

\* A question is put to the operator once, while its driver waits for the answer.
LEMMA QuestionIsPut ==
  ASSUME IInv, AnswerInv, Lasts, delivered \subseteq Approvals, NEW r \in Runs, RequestPermission(r)
  PROVE  AnswerInv'
<1> DEFINE n == Event(r).n
<1>0. /\ Typed /\ StreamsHold /\ StreamsTyped /\ StreamHolds(r) /\ QuestionHolds(r)
      /\ UNCHANGED <<history, checkpoint, crashes, asks, driver, delivered, toRecover, cmd>>
      /\ ev[r] = "ask"
  BY DEF IInv, StreamsHold, AnswerInv, RequestPermission, notes, process
<1>1. \A d \in Commands : Follows(d)
  BY <1>0, SameRequestFollows
<1>2. CASE UNCHANGED <<approval, queue>>
  <2>1. AsksNothing
    BY <1>0, <1>2, NothingAsked
  <2> QED BY <1>0, <1>1, <2>1, AnswersGoOn
<1>3. CASE /\ approval[<<r, n>>] = "absent" /\ approval' = [approval EXCEPT ![<<r, n>>] = "pending"]
           /\ queue' = [queue EXCEPT ![r] = Tail(@)]
  <2>1. queue[r] \in Seq(Sendable) /\ queue[r] # <<>> /\ Event(r).type = "permission"
    BY <1>0 DEF StreamHolds, StreamsTyped
  <2>2. n \in Asked(r)
    <3>1. 1 \in DOMAIN queue[r] /\ Event(r) = queue[r][1]
      BY <2>1 DEF Event
    <3> QED BY <1>0, <2>1, <3>1 DEF QuestionHolds
  <2>3. n \in 1..LastEvent /\ <<r, n>> \in Approvals
    <3>1. n \in 1..LastEvent
      BY <1>0, <2>2, PlacesAreNumbers
    <3> QED BY <3>1, BoundsAssumption DEF Approvals, LastEvent
  <2>4. KeepsAnswers
    BY <1>0 DEF KeepsAnswers, Settled
  <2>5. (\A d \in Commands : AnswerHolds(d)') /\ AnsweredOnce' /\ DeliveredHolds'
    BY <1>0, <1>1, <2>4, AnswersStay, OnceStays, DeliveredStays DEF AnswerInv
  <2>6. \A a : a # <<r, n>> => approval'[a] = approval[a] \/ a \notin Approvals
    <3>1. DOMAIN approval = Approvals
      BY LedgerSays DEF IInv
    <3> QED BY <1>3, <3>1
  <2>7. \A s \in Runs, m \in 1..LastEvent : <<s, m>> \in Approvals
    BY BoundsAssumption DEF Approvals, LastEvent
  <2>8. \A s \in Runs \ {r} : queue'[s] = queue[s]
    BY <1>0, <1>3 DEF StreamsTyped
  <2>9. ASSUME NEW s \in Runs \ {r} PROVE QuestionHolds(s)'
    <3>1. \A m \in 1..LastEvent : approval'[<<s, m>>] = approval[<<s, m>>]
      BY <2>6, <2>7
    <3>2. Untouched(s)
      BY <1>0, <2>8, <3>1 DEF Untouched
    <3> QED BY <1>0, <3>2, QuestionsStay DEF AnswerInv
  <2>10. QuestionHolds(r)'
    <3>1. \A i \in DOMAIN queue'[r] : \E j \in DOMAIN queue[r] : queue[r][j] = queue'[r][i]
      <4>1. queue'[r] = Tail(queue[r])
        BY <1>0, <1>3 DEF StreamsTyped
      <4>2. /\ Len(queue'[r]) = Len(queue[r]) - 1 /\ queue'[r] \in Seq(Sendable)
            /\ \A i \in 1..Len(queue'[r]) : queue'[r][i] = queue[r][i + 1]
        BY <2>1, <4>1, HeadTailProperties
      <4>3. /\ DOMAIN queue'[r] = 1..Len(queue'[r]) /\ DOMAIN queue[r] = 1..Len(queue[r])
            /\ Len(queue[r]) \in Nat
        BY <2>1, <4>2
      <4>4. \A i \in DOMAIN queue'[r] : i + 1 \in DOMAIN queue[r] /\ queue'[r][i] = queue[r][i + 1]
        BY <4>2, <4>3
      <4> QED BY <4>4
    <3>2. \A i \in DOMAIN queue'[r] : queue'[r][i].type = "permission" => queue'[r][i].n \in Asked(r)'
      BY <1>0, <3>1 DEF QuestionHolds, Asked
    <3>3. driver[r] = "working" => n \in asks[r]
      BY <1>0, <1>3, <2>2 DEF QuestionHolds, Decided
    <3>4. driver'[r] = "working" => \A m \in 1..LastEvent : approval'[<<r, m>>] = "pending" => m \in asks'[r]
      <4>1. ASSUME NEW m \in 1..LastEvent, approval'[<<r, m>>] = "pending", driver[r] = "working"
            PROVE  m \in asks[r]
        <5>1. CASE m = n
          BY <3>3, <4>1, <5>1
        <5>2. CASE m # n
          <6>1. approval'[<<r, m>>] = approval[<<r, m>>]
            BY <2>6, <2>7, <5>2
          <6> QED BY <1>0, <4>1, <6>1 DEF QuestionHolds
        <5> QED BY <5>1, <5>2
      <4> QED BY <1>0, <4>1
    <3>5. Asked(r)' = Asked(r) /\ Asked(r) \subseteq 1..LastEvent
      BY <1>0, PlacesAreNumbers DEF Asked
    <3>6. driver'[r] = "working" => \A m \in Asked(r)' : m \in asks'[r] \/ Decided(r, m)'
      BY <1>0, <3>5, PlacesAreNumbers DEF QuestionHolds, Lasts
    <3>7. \A m \in Places(checkpoint'[r].history, "permission") : Decided(r, m)'
      BY <1>0, PlacesAreNumbers DEF QuestionHolds, Lasts
    <3>8. ~Answerable(r)' => history'[r] = <<>> /\ driver'[r] # "working"
      BY <1>0 DEF QuestionHolds, Lasts, RunsStay, Answerable
    <3> QED BY <3>2, <3>4, <3>6, <3>7, <3>8 DEF QuestionHolds
  <2> QED BY <1>0, <2>5, <2>9, <2>10 DEF AnswerInv
<1> QED BY <1>2, <1>3 DEF RequestPermission, Consumed, Throws

\* The consumer goes on, or gives up: what it leaves in the queue was there.
LEMMA ConsumersAskNothing ==
  ASSUME IInv, AnswerInv, Lasts, delivered \subseteq Approvals, NEW r \in Runs, EventStep(r),
         ~SaveCheckpoint(r), ~RequestPermission(r)
  PROVE  AnswerInv'
<1>0. /\ Typed /\ StreamsHold /\ StreamsTyped /\ StreamHolds(r) /\ queue[r] \in Seq(Sendable)
  BY DEF IInv, StreamsHold, StreamsTyped
<1>1. UNCHANGED <<history, checkpoint, crashes, asks, driver, approval, delivered, toRecover, cmd>>
  BY DEF EventStep, StreamEnds, Checkpoint, Notify, RunCompleted, CollectOutcome, Submit,
     RecordVerification, RequestReview, DriverEnded, RecordFailure, InterruptAfterError,
     RecordInterruption, InterruptRecords, records, notes, process, drivers
<1>2. \/ UNCHANGED queue
      \/ queue[r] # <<>> /\ queue' = [queue EXCEPT ![r] = Tail(@)]
      \/ queue' = [queue EXCEPT ![r] = <<>>]
  <2>1. CASE StreamEnds(r) \/ Checkpoint(r) \/ CollectOutcome(r) \/ Submit(r) \/ RecordVerification(r)
    BY <2>1 DEF StreamEnds, Checkpoint, CollectOutcome, Submit, RecordVerification, Throws, drivers
  <2>2. CASE InterruptAfterError(r) \/ RecordInterruption(r)
    BY <2>2 DEF InterruptAfterError, RecordInterruption, StopConsuming
  <2>3. CASE Notify(r) \/ RequestReview(r) \/ RecordFailure(r)
    <3>1. queue[r] # <<>>
      BY <1>0, <2>3 DEF StreamHolds, Notify, RequestReview, RecordFailure
    <3> QED BY <2>3, <3>1 DEF Notify, RequestReview, RecordFailure, TerminalConsumed, Consumed, Throws
  <2>4. CASE RunCompleted(r) \/ DriverEnded(r)
    BY <2>4 DEF RunCompleted, DriverEnded, EventIs, TerminalConsumed, Consumed
  <2> QED BY <2>1, <2>2, <2>3, <2>4 DEF EventStep
<1>3. ASSUME NEW s \in Runs, NEW i \in DOMAIN queue'[s]
      PROVE  \E j \in DOMAIN queue[s] : queue[s][j] = queue'[s][i]
  <2>1. CASE queue'[s] = queue[s]
    BY <1>3, <2>1
  <2>2. CASE queue'[s] # queue[s]
    <3>1. s = r /\ (queue'[r] = <<>> \/ (queue[r] # <<>> /\ queue'[r] = Tail(queue[r])))
      BY <1>0, <1>2, <2>2 DEF StreamsTyped
    <3>2. queue[r] # <<>> /\ queue'[r] = Tail(queue[r])
      BY <1>3, <3>1
    <3>3. /\ Len(queue'[r]) = Len(queue[r]) - 1 /\ queue'[r] \in Seq(Sendable)
          /\ \A k \in 1..Len(queue'[r]) : queue'[r][k] = queue[r][k + 1]
      BY <1>0, <3>2, HeadTailProperties
    <3>4. /\ DOMAIN queue'[r] = 1..Len(queue'[r]) /\ DOMAIN queue[r] = 1..Len(queue[r])
          /\ Len(queue[r]) \in Nat
      BY <1>0, <3>3
    <3>5. i + 1 \in DOMAIN queue[r] /\ queue'[r][i] = queue[r][i + 1]
      BY <1>3, <3>1, <3>3, <3>4
    <3> QED BY <3>1, <3>5
  <2> QED BY <2>1, <2>2
<1>4. AsksNothing
  BY <1>1, <1>3 DEF AsksNothing, Untouched
<1>5. \A d \in Commands : Follows(d)
  BY <1>1, SameRequestFollows
<1> QED BY <1>1, <1>4, <1>5, AnswersGoOn

\* A clean-up closes its driver and answers those who wait for it.
LEMMA CleanupsAskNothing ==
  ASSUME IInv, AnswerInv, Lasts, delivered \subseteq Approvals, NEW r \in Runs, CleanupStep(r)
  PROVE  AnswerInv'
<1>0. Typed /\ StreamsHold /\ UNCHANGED <<history, checkpoint, crashes, approval, delivered, toRecover>>
  BY DEF IInv, CleanupStep, InspectTargets, CleanupClosesDriver, EventsDrained, ReleaseLease, Audit,
     records, notes, drivers, process
<1>1. AsksNothing
  <2>1. CASE CleanupClosesDriver(r)
    BY <1>0, <2>1, StoppedDrivers DEF CleanupClosesDriver
  <2>2. CASE InspectTargets(r) \/ EventsDrained(r) \/ ReleaseLease(r) \/ Audit(r)
    <3>1. UNCHANGED drivers
      BY <2>2 DEF InspectTargets, EventsDrained, ReleaseLease, Audit
    <3> QED BY <1>0, <3>1, NothingAsked DEF drivers
  <2> QED BY <2>1, <2>2 DEF CleanupStep
<1>2. UNCHANGED cmd \/ CleanupEnds(r, "ensure") \/ CleanupEnds(r, "failed")
  BY DEF CleanupStep, InspectTargets, CleanupClosesDriver, EventsDrained, ReleaseLease, Audit
<1>3. ASSUME NEW d \in Commands PROVE Follows(d)
  <2>1. CASE cmd'[d] = cmd[d]
    BY <2>1, SameRequestFollows
  <2>2. CASE cmd'[d] # cmd[d]
    <3>1. \/ cmd'[d] = Idle
          \/ cmd'[d] = [cmd[d] EXCEPT !.pc = "ensure"]
          \/ cmd'[d] = [cmd[d] EXCEPT !.pc = "failed"]
      BY <1>2, <2>2 DEF CleanupEnds
    <3>2. "pc" \in DOMAIN cmd[d]
      BY <1>0 DEF Typed, Requests, RequestRecords
    <3>3. cmd'[d].pc \notin AnswerPcs
      BY <3>1, <3>2 DEF Idle, AnswerPcs
    <3> QED BY <3>3, Elsewhere
  <2> QED BY <2>1, <2>2
<1> QED BY <1>0, <1>1, <1>3, AnswersGoOn

\* A working driver sends one more event, which may be a question.
LEMMA DriverSpeaks ==
  ASSUME IInv, AnswerInv, Lasts, delivered \subseteq Approvals, NEW r \in Runs,
         DriverProgresses(r) \/ DriverAsks(r)
  PROVE  AnswerInv'
<1> DEFINE h == history[r]
           m == Len(history[r]) + 1
<1>0. /\ Typed /\ StreamsHold /\ StreamsTyped /\ StreamHolds(r) /\ QuestionHolds(r)
      /\ h \in Seq(Kinds) /\ queue[r] \in Seq(Sendable) /\ driver[r] = "working"
      /\ UNCHANGED <<checkpoint, crashes, driver, approval, delivered, toRecover, cmd>>
  BY DEF IInv, StreamsHold, StreamsTyped, AnswerInv, DriverProgresses, DriverAsks, Outside, records,
     notes, process
<1>1. PICK type \in Kinds :
        /\ SendsNext(r, type)
        /\ IF type = "permission" THEN asks' = [asks EXCEPT ![r] = @ \cup {m}] ELSE UNCHANGED asks
  BY DEF DriverProgresses, DriverAsks, Kinds
<1>2. /\ history'[r] = Append(h, type) /\ \A s \in Runs \ {r} : history'[s] = history[s]
      /\ \A s \in Runs \ {r} : queue'[s] = queue[s]
      /\ queue'[r] = queue[r] \/ queue'[r] = Append(queue[r], [type |-> type, n |-> m])
  BY <1>0, <1>1 DEF SendsNext, Sends, StreamsTyped
<1>3. /\ \A s \in Runs \ {r} : asks'[s] = asks[s]
      /\ asks'[r] = IF type = "permission" THEN asks[r] \cup {m} ELSE asks[r]
  BY <1>0, <1>1 DEF StreamsTyped
<1>4. /\ DOMAIN h = 1..Len(h) /\ Len(h) \in Nat /\ DOMAIN history'[r] = 1..m
      /\ \A i \in DOMAIN h : history'[r][i] = h[i]
      /\ history'[r][m] = type /\ m \notin DOMAIN h /\ m \in DOMAIN history'[r]
      /\ DOMAIN history'[r] = DOMAIN h \cup {m}
  BY <1>0, <1>2
<1> HIDE DEF m, h
<1>5. \A d \in Commands : Follows(d)
  BY <1>0, SameRequestFollows
<1>6. KeepsAnswers
  <2>1. \A s \in Runs : asks[s] \subseteq asks'[s]
    BY <1>3
  <2>2. ASSUME NEW s \in Runs, NEW n, Settled(s, n) PROVE Settled(s, n)'
    <3>1. CASE s = r
      <4>1. n \in DOMAIN h /\ n \notin asks[r]
        BY <2>2, <3>1 DEF Settled, h
      <4> QED BY <1>3, <1>4, <3>1, <4>1 DEF Settled
    <3>2. CASE s # r
      BY <1>2, <1>3, <2>2, <3>2 DEF Settled
    <3> QED BY <3>1, <3>2
  <2> QED BY <1>0, <2>1, <2>2 DEF KeepsAnswers
<1>7. (\A d \in Commands : AnswerHolds(d)') /\ AnsweredOnce' /\ DeliveredHolds'
  BY <1>0, <1>5, <1>6, AnswersStay, OnceStays, DeliveredStays DEF AnswerInv
<1>8. ASSUME NEW s \in Runs \ {r} PROVE QuestionHolds(s)'
  BY <1>0, <1>2, <1>3, QuestionsStay DEF AnswerInv, Untouched
<1>9. QuestionHolds(r)'
  <2>1. /\ Asked(r) \subseteq Asked(r)'
        /\ \A n \in Asked(r)' : n \in Asked(r) \/ (n = m /\ type = "permission")
        /\ type = "permission" => m \in Asked(r)'
    BY <1>4 DEF Asked, Places, h
  <2>2. \A n : Decided(r, n)' <=> Decided(r, n)
    BY <1>0 DEF Decided
  <2>3. \A n \in Asked(r)' : n \in asks'[r] \/ Decided(r, n)'
    BY <1>0, <1>3, <2>1, <2>2 DEF QuestionHolds
  <2>4. \A n \in Places(checkpoint'[r].history, "permission") : Decided(r, n)'
    BY <1>0, <2>2 DEF QuestionHolds
  <2>5. \A i \in DOMAIN queue'[r] : queue'[r][i].type = "permission" => queue'[r][i].n \in Asked(r)'
    <3>1. CASE queue'[r] = queue[r]
      BY <1>0, <2>1, <3>1 DEF QuestionHolds
    <3>2. CASE queue'[r] = Append(queue[r], [type |-> type, n |-> m])
      <4> DEFINE e == [type |-> type, n |-> m]
      <4>1. e.type = type /\ e.n = m
        OBVIOUS
      <4> HIDE DEF e
      <4>2. queue'[r] = Append(queue[r], e)
        BY <3>2 DEF e
      <4>3. /\ DOMAIN queue[r] = 1..Len(queue[r]) /\ DOMAIN queue'[r] = 1..(Len(queue[r]) + 1)
            /\ \A j \in DOMAIN queue[r] : queue'[r][j] = queue[r][j]
            /\ queue'[r][Len(queue[r]) + 1] = e
            /\ Len(queue[r]) \in Nat
        BY <1>0, <4>2
      <4>4. \A i \in DOMAIN queue'[r] : i \in DOMAIN queue[r] \/ queue'[r][i] = e
        BY <4>3
      <4> QED BY <1>0, <2>1, <4>1, <4>3, <4>4 DEF QuestionHolds
    <3> QED BY <1>2, <3>1, <3>2
  <2>6. \A n \in 1..LastEvent : approval'[<<r, n>>] = "pending" => n \in asks'[r]
    BY <1>0, <1>3 DEF QuestionHolds
  <2>7. Answerable(r)'
    BY <1>0 DEF QuestionHolds, Answerable, Lasts, RunsStay
  <2> QED BY <2>3, <2>4, <2>5, <2>6, <2>7 DEF QuestionHolds
<1> QED BY <1>0, <1>7, <1>8, <1>9 DEF AnswerInv

\* Otherwise it comes to an end.
LEMMA DriversAskAndEnd ==
  ASSUME IInv, AnswerInv, Lasts, delivered \subseteq Approvals, NEW r \in Runs, DriverStep(r)
  PROVE  AnswerInv'
<1>1. CASE DriverProgresses(r) \/ DriverAsks(r)
  BY <1>1, DriverSpeaks
<1>2. CASE DriverCompletes(r) \/ DriverFails(r) \/ DriverExits(r)
  <2>0. /\ StreamsHold /\ StreamsTyped
        /\ UNCHANGED <<history, checkpoint, crashes, approval, delivered, toRecover, cmd>>
    BY <1>2 DEF IInv, StreamsHold, DriverCompletes, DriverFails, DriverExits, Outside, records, notes,
       process
  <2>1. PICK to \in {"finished", "failed", "exited"} : driver' = [driver EXCEPT ![r] = to]
    BY <1>2 DEF DriverCompletes, DriverFails, DriverExits
  <2>2. UNCHANGED asks \/ asks' = [asks EXCEPT ![r] = {}]
    BY <1>2 DEF DriverCompletes, DriverFails, DriverExits
  <2>3. /\ asks' \in [Runs -> SUBSET Nat] /\ \A s \in Runs : asks'[s] \subseteq asks[s]
        /\ driver' \in [Runs -> {"none", "working", "finished", "failed", "cancelled", "exited"}]
        /\ \A s \in Runs : driver'[s] = "working" => driver[s] = "working" /\ asks'[s] = asks[s]
    BY <2>0, <2>1, <2>2 DEF StreamsTyped
  <2>4. /\ queue' \in [Runs -> Seq(Sendable)]
        /\ \A s \in Runs :
             \/ queue'[s] = queue[s]
             \/ /\ ev[s] # "none"
                /\ \E e \in Sendable : e.type \notin Kinds /\ queue'[s] = Append(queue[s], e)
    <3>1. UNCHANGED queue \/ Sends(r, "completed", 0) \/ Sends(r, "failed", ApprovalWrites(r))
      BY <1>2 DEF DriverCompletes, DriverFails, DriverExits, SendsEnd
    <3>2. ApprovalWrites(r) \in Nat /\ 0 \in Nat
      BY ApprovalWritesAreCounted
    <3> QED BY <2>0, <3>1, <3>2, EndsAreSent DEF StreamsTyped
  <2>5. OnlyEnds
    BY <2>0, <2>3, <2>4 DEF OnlyEnds, StreamsTyped
  <2>6. AsksNothing
    BY <2>0, <2>3, <2>5, EndsAskNothing
  <2> QED BY <2>0, <2>6, SameRequestFollows, AnswersGoOn
<1> QED BY <1>1, <1>2 DEF DriverStep

\* A resumed driver takes up a history whose questions are decided.
LEMMA ResumedDriverWaitsForNobody ==
  ASSUME IInv, AnswerInv, Lasts, delivered \subseteq Approvals, NEW r \in Runs, Resume(r)
  PROVE  AnswerInv'
<1> DEFINE h == checkpoint[r].history
           g == Append(checkpoint[r].history, "progress")
           q == [i \in DOMAIN g |-> [type |-> g[i], n |-> i]]
<1>0. /\ Typed /\ StreamsHold /\ StreamsTyped /\ StreamHolds(r) /\ QuestionHolds(r)
      /\ h \in Seq(Kinds) /\ r \in toRecover /\ run[r] = "running" /\ asks[r] = {}
      /\ UNCHANGED <<run, approval, checkpoint, asks, crashes, delivered, cmd>>
      /\ toRecover' \subseteq toRecover
      /\ driver' = [driver EXCEPT ![r] = "working"]
      /\ history' = [history EXCEPT ![r] = g]
      /\ \A c \in Commands : cmd[c] = Idle
      /\ crashes # 0
  BY DEF IInv, RecoversFirst, AnswerInv, StreamsHold, StreamsTyped, StreamHolds, Resume, Resumable,
     Resumed, records, notes
<1>1. history'[r] = g /\ \A s \in Runs \ {r} : history'[s] = history[s]
  BY <1>0 DEF StreamsTyped
<1>2. queue'[r] = q /\ \A s \in Runs \ {r} : queue'[s] = queue[s]
  <2>1. queue' = [queue EXCEPT ![r] = q]
    BY <1>1 DEF Resume
  <2> HIDE DEF q
  <2> QED BY <1>0, <2>1 DEF StreamsTyped
<1>3. \A s \in Runs \ {r} : driver'[s] = driver[s]
  BY <1>0 DEF StreamsTyped
<1>4. Asked(r)' = Places(h, "permission")
  <2>1. /\ DOMAIN h = 1..Len(h) /\ Len(h) \in Nat /\ DOMAIN g = 1..(Len(h) + 1)
        /\ \A i \in DOMAIN h : g[i] = h[i]
        /\ g[Len(h) + 1] = "progress"
    BY <1>0 DEF Kinds
  <2> HIDE DEF g, h
  <2> QED BY <1>1, <2>1 DEF Asked, Places
<1>5. \A n \in Places(h, "permission") : Decided(r, n) /\ Decided(r, n)'
  BY <1>0 DEF QuestionHolds, Decided
<1>6. QuestionHolds(r)'
  <2>1. \A i \in DOMAIN queue'[r] : queue'[r][i].type = "permission" => queue'[r][i].n \in Asked(r)'
    <3> DEFINE E(i) == [type |-> g[i], n |-> i]
    <3>1. \A i : E(i).type = g[i] /\ E(i).n = i
      OBVIOUS
    <3>2. DOMAIN q = DOMAIN g /\ \A i \in DOMAIN g : q[i] = E(i)
      <4> HIDE DEF g
      <4> QED OBVIOUS
    <3> HIDE DEF E, q, g
    <3> QED BY <1>1, <1>2, <3>1, <3>2 DEF Asked, Places
  <2>2. \A n \in 1..LastEvent : approval'[<<r, n>>] # "pending"
    BY <1>0, NoQuestionWaits DEF IInv
  <2>3. Answerable(r)'
    BY <1>0 DEF Answerable
  <2> HIDE DEF q, g
  <2> QED BY <1>0, <1>4, <1>5, <2>1, <2>2, <2>3 DEF QuestionHolds
<1> HIDE DEF q, g, h
<1>7. ASSUME NEW s \in Runs \ {r} PROVE QuestionHolds(s)'
  BY <1>0, <1>1, <1>2, <1>3, QuestionsStay DEF AnswerInv, Untouched
<1>8. (\A c \in Commands : AnswerHolds(c)') /\ AnsweredOnce'
  BY <1>0 DEF AnswerHolds, AnsweredOnce, Answered, At, Idle, AnswerPcs
<1>9. DeliveredHolds'
  BY <1>0 DEF AnswerInv, DeliveredHolds, Decided
<1> QED BY <1>0, <1>6, <1>7, <1>8, <1>9 DEF AnswerInv

\* The Bridge goes down: every request and every driver is gone.
LEMMA CrashForgetsQuestions ==
  ASSUME IInv, AnswerInv, CrashAndRestart
  PROVE  AnswerInv'
<1>0. /\ StreamsTyped
      /\ UNCHANGED <<approval, checkpoint, delivered>> /\ crashes' # 0
      /\ \A c \in Commands : cmd'[c].pc = "idle"
      /\ \A r \in Runs : driver'[r] = "none" /\ queue'[r] = <<>> /\ history'[r] = <<>>
  BY DEF IInv, StreamsHold, StreamsTyped, CrashAndRestart, records, notes, Idle
<1>1. (\A c \in Commands : AnswerHolds(c)') /\ AnsweredOnce'
  BY <1>0 DEF AnswerHolds, AnsweredOnce, Answered, At, AnswerPcs
<1>2. ASSUME NEW r \in Runs PROVE QuestionHolds(r)'
  BY <1>0 DEF AnswerInv, QuestionHolds, Decided
<1>3. DeliveredHolds'
  BY <1>0 DEF AnswerInv, DeliveredHolds, Decided
<1> QED BY <1>0, <1>1, <1>2, <1>3 DEF AnswerInv

LEMMA AnswersAreFound ==
  ASSUME IInv, AnswerInv, Lasts, delivered \subseteq Approvals, [Next]_vars
  PROVE  AnswerInv'
<1>1. ASSUME NEW c \in Commands, CommandStep(c) PROVE AnswerInv'
  <2>1. CASE \/ Enqueue(c) \/ StartRun(c) \/ (LaunchStep(c) /\ ~DriverStarted(c)) \/ DecideFallback(c)
             \/ RequestCancel(c) \/ CheckCancelled(c) \/ ConfirmCancel(c)
             \/ PrepareRetryContext(c) \/ Requeue(c) \/ ConfirmCleanup(c) \/ ApproveReview(c)
             \/ Complete(c)
    <3>1. AsksNothing /\ Follows(c) /\ UNCHANGED <<delivered, toRecover>>
      BY <2>1, OtherOperations
    <3>2. \A d \in Commands : Follows(d)
      BY <1>1, <3>1, OtherRequestsRest, SameRequestFollows DEF IInv
    <3> QED BY <3>1, <3>2, AnswersGoOn
  <2>2. CASE \/ RejectCancel(c) \/ CancelRpc(c) \/ RejectClose(c) \/ RejectClosing(c)
             \/ RejectClosed(c) \/ Deliver(c)
    BY <2>2, RejectedGoesOn
  <2>3. CASE DriverStarted(c) \/ Decide(c) \/ Respond(c) \/ MarkDelivered(c)
    BY <2>3, StartedDriverAskedNothing, DecisionIsTaken, AnswerIsSent, DeliveryIsRecorded
  <2> QED BY <1>1, <2>1, <2>2, <2>3 DEF CommandStep, DecideStep, LaunchStep
<1>2. ASSUME NEW r \in Runs, EventStep(r) PROVE AnswerInv'
  BY <1>2, ConsumersAskNothing, SavedQuestionsAreDecided, QuestionIsPut
<1>3. ASSUME NEW r \in Runs, RecoveryStep(r) PROVE AnswerInv'
  <2>1. CASE InterruptRecovery(r)
    <3>1. UNCHANGED <<history, checkpoint, crashes, driver, asks, queue, approval, delivered, cmd>>
          /\ toRecover' \subseteq toRecover
      BY <2>1 DEF InterruptRecovery, InterruptRecords, notes, drivers
    <3>2. AsksNothing
      BY <3>1, NothingAsked
    <3> QED BY <3>1, <3>2, SameRequestFollows, AnswersGoOn
  <2> QED BY <1>3, <2>1, ResumedDriverWaitsForNobody DEF RecoveryStep
<1>4. CASE RepeatComplete \/ OtherTaskCommits \/ LeaseExpires \/ UNCHANGED vars
  <2>1. UNCHANGED <<history, checkpoint, crashes, driver, asks, queue, approval, delivered, cmd, toRecover>>
    BY <1>4 DEF RepeatComplete, OtherTaskCommits, LeaseExpires, Outside, vars, records, notes, drivers,
       process
  <2>2. AsksNothing
    BY <2>1, NothingAsked
  <2> QED BY <2>1, <2>2, SameRequestFollows, AnswersGoOn
<1> QED
  BY <1>1, <1>2, <1>3, <1>4, RequestsAskNothing, CleanupsAskNothing, DriversAskAndEnd,
     CrashForgetsQuestions DEF Next

LEMMA NothingIsAskedYet == Init => AnswerInv
<1> SUFFICES ASSUME Init PROVE AnswerInv
  OBVIOUS
<1>1. /\ \A a \in Approvals : approval[a] = "absent"
      /\ \A r \in Runs : run[r] = "absent" /\ driver[r] = "none" /\ queue[r] = <<>>
                         /\ history[r] = <<>> /\ checkpoint[r].history = <<>>
      /\ \A c \in Commands : cmd[c].pc = "idle"
      /\ delivered = {} /\ toRecover = {}
  BY DEF Init, L!Init, Idle
<1>2. (\A c \in Commands : AnswerHolds(c)) /\ AnsweredOnce /\ DeliveredHolds
  BY <1>1 DEF AnswerHolds, AnsweredOnce, Answered, At, AnswerPcs, DeliveredHolds
<1>3. ASSUME NEW r \in Runs PROVE QuestionHolds(r)
  BY <1>1 DEF QuestionHolds, Places
<1> QED BY <1>1, <1>2, <1>3 DEF AnswerInv

LEMMA AnswersFollow ==
  ASSUME IInv, AnswerInv, delivered \subseteq Approvals
  PROVE  RespondsToOpenQuestion /\ (crashes = 0 => AnswersFindTheirQuestion)
<1>1. RespondsToOpenQuestion
  BY DEF AnswerInv, AnswerHolds, AnsweredOnce, RespondsToOpenQuestion, At
<1>2. crashes = 0 => DeliveredIsAnswered
  <2>1. \A r, n : Settled(r, n) => n \notin asks[r]
    BY DEF Settled
  <2>2. \A a \in delivered : a = <<a[1], a[2]>>
    BY DEF Approvals
  <2> QED BY <2>1, <2>2 DEF AnswerInv, DeliveredHolds, DeliveredIsAnswered, Decided
<1> QED BY <1>1, <1>2 DEF AnswersFindTheirQuestion

\* A decision is sent to a driver only while it waits for it, and by one request; and until the
\* Bridge first goes down, what is recorded as delivered was decided and is waited for no more.
THEOREM DecisionsFindTheirQuestion ==
  Spec => [](RespondsToOpenQuestion /\ (crashes = 0 => AnswersFindTheirQuestion))
<1>1. IInv /\ AnswerInv /\ delivered \subseteq Approvals /\ [Next]_vars => AnswerInv'
  <2> SUFFICES ASSUME IInv, AnswerInv, delivered \subseteq Approvals, [Next]_vars PROVE AnswerInv'
    OBVIOUS
  <2>1. [L!Next]_(L!ledger)
    BY Induction
  <2>2. Lasts
    BY <2>1, DecisionsLast DEF IInv
  <2> QED BY <2>2, AnswersAreFound
<1>2. TypeOK => delivered \subseteq Approvals
  BY DEF TypeOK
<1> QED
  BY <1>1, <1>2, NothingIsAskedYet, AnswersFollow, Invariance, TypeCorrect, PTL DEF Spec
=============================================================================
