----------------------------- MODULE BridgeRun -----------------------------
(***************************************************************************)
(* The Bridge process executing one version of one task: the MCP and       *)
(* management commands, the consumer of each driver's event stream, the    *)
(* serialized clean-up of each run, the driver processes, and a crash of   *)
(* the Bridge followed by its recovery.                                    *)
(*                                                                         *)
(* Everything runs on one event loop, so a handler is atomic between two   *)
(* awaits.  Consecutive reads of a handler are one step; a read and the    *)
(* commit built from it are two.  The repository refuses a commit whose    *)
(* expected revisions (or event cursor) are not the stored ones.  Since    *)
(* revisions and the cursor only grow, "the expected revision is stored"   *)
(* is "nobody wrote the record since it was read": snap[t] is the set of   *)
(* records thread t has read and is about to write, and it becomes Stale   *)
(* when another thread commits one of them.                                *)
(***************************************************************************)
EXTENDS Naturals, Sequences, FiniteSets

CONSTANTS Runs,           \* run ids; a retry takes a new one
          Commands,       \* requests that may be in flight at the same time
          None,
          Ops,            \* the operations clients call
          Faults,         \* what may go wrong
          MaxProgress,    \* bound: other events a driver sends, but for resumptions
          MaxPermissions, \* bound: permission requests a driver sends
          MaxCrashes      \* bound: crashes of the Bridge

ASSUME BoundsAssumption == /\ MaxProgress \in Nat
                           /\ MaxPermissions \in Nat
                           /\ MaxCrashes \in Nat
ASSUME OpsAssumption ==
  /\ Ops \subseteq {"start", "fallback", "relaunch", "decide", "cancel", "retry",
                    "cleanup", "complete", "otherTask"}
  /\ Faults \subseteq {"startFail", "driverFail", "driverExit", "rpcFail",
                       "exportFail", "outcomeFail", "recoverFail", "leaseExpiry"}

VARIABLES
  \* durable records, see RunLedger
  task, run, binding, approval, result,
  \* other durable state
  latest,     \* the run created last
  contexts,   \* runs with a context package
  checkpoint, \* run -> the driver history its last recovery checkpoint holds, and
              \* the numbers of the events that saved one
  audited,    \* runs whose record holds the outcome of a clean-up
  delivered,  \* approvals whose delivery_status is "delivered"
  lease,      \* owner of the lease on the task version and its worktree, or None
  \* state of the process
  toRecover,  \* runs recovery still has to look at; requests are served after it
  owner,      \* GitWorktreeManager.ownershipByPath of the worktree
  managed,    \* LocalBridgeRuntime.runWorktrees
  active,     \* ActiveRunRegistry.runs
  cmd,        \* command -> the request it serves and where it awaits
  ev,         \* run -> where the consumer of its event stream awaits
  cl,         \* run -> where its clean-up awaits
  snap,       \* thread -> the records of its pending commit, or Stale
  \* driver processes
  driver,     \* run -> state of the registered driver process
  asks,       \* run -> permission requests the driver waits on
  queue,      \* run -> events not consumed yet
  history,    \* run -> the kinds of the events its driver sent; an event is
              \* numbered by its place, and a permission request by its event
  crashes

records  == <<task, run, binding, approval, result>>
notes    == <<latest, contexts, checkpoint, audited, delivered>>
leases   == <<lease, owner>>
registry == <<active, managed>>
drivers  == <<driver, asks, queue, history>>
process  == <<toRecover, crashes>>
vars == <<records, notes, leases, registry, drivers, process, cmd, ev, cl, snap>>

\* A resumed driver sends one more event, which says so.
LastEvent == MaxProgress + MaxPermissions + MaxCrashes

Approvals == Runs \X (0..LastEvent)
Fallback(r) == <<r, 0>>

L == INSTANCE RunLedger WITH ApprovalRun <- [a \in Approvals |-> a[1]],
                             Fallbacks <- {Fallback(r) : r \in Runs}

TaskGoes(event, to)   == L!TaskGoes(event, to)
RunGoes(r, event, to) == L!RunGoes(r, event, to)
BindingEnds(r, to)    == L!BindingEnds(r, to)
Terminal(r)           == run[r] \in L!TerminalRunStatuses
Retryable(s)          == s \in {"FAILED", "CANCELLED", "INTERRUPTED"}

-----------------------------------------------------------------------------
(***************************************************************************)
(* Snapshots and commits.                                                  *)
(***************************************************************************)
Task        == <<"task">>
Cursor      == <<"cursor">>
Run(r)      == <<"run", r>>
Binding(r)  == <<"binding", r>>
Approval(a) == <<"approval", a>>
Stale       == {<<"stale">>}

Events(r)  == <<"events", r>>
Cleanup(r) == <<"cleanup", r>>
Threads == Commands \cup {Events(r) : r \in Runs} \cup {Cleanup(r) : r \in Runs}

\* Runs, requests and the threads of a run are told apart.
ASSUME NamesAssumption == /\ None \notin Runs \cup Threads
                          /\ Commands \cap ({Events(r) : r \in Runs} \cup {Cleanup(r) : r \in Runs}) = {}

\* Mutant: a commit is never refused.
NeverStale(t) == TRUE

Fresh(t) == snap[t] # Stale

\* Thread t remembers what it read.
Reads(t, recs) == snap' = [snap EXCEPT ![t] = recs]

\* Thread t commits recs, which also moves the event cursor, and goes on with
\* the records next, which it reads right after (or still holds).
Commits(t, recs, next) ==
  snap' = [u \in Threads |->
             IF u = t THEN next
             ELSE IF snap[u] \cap (recs \cup {Cursor}) # {} THEN Stale ELSE snap[u]]

\* The binding is written with the run only while it is ACTIVE.
BoundRecords(r) == {Run(r)} \cup (IF binding[r] = "ACTIVE" THEN {Binding(r)} ELSE {})

\* ... and so is the task while the run's end interrupts it.
EndingRecords(r) ==
  BoundRecords(r) \cup (IF task \in {"RUNNING", "WAITING_APPROVAL"} THEN {Task} ELSE {})

\* The task is interrupted if the snapshot saw it executing.
TaskInterrupted(t) == IF Task \in snap[t] THEN TaskGoes("INTERRUPT", "INTERRUPTED")
                                          ELSE UNCHANGED task

-----------------------------------------------------------------------------
(***************************************************************************)
(* Requests: each is a command c that awaits at cmd[c].pc.                 *)
(***************************************************************************)
Idle == [op |-> "none", pc |-> "idle", run |-> None, src |-> None, n |-> 0,
         verdict |-> "none", proc |-> FALSE]

Serving == toRecover = {}

\* Command c serves a new request, after reading recs.
Serve(c, op, request, recs) == /\ op \in Ops
                               /\ Serving
                               /\ cmd[c] = Idle
                               /\ cmd' = [cmd EXCEPT ![c] = request]
                               /\ Reads(c, recs)

At(c, pc)    == cmd[c].pc = pc
Await(c, pc) == cmd' = [cmd EXCEPT ![c].pc = pc]
Return(c)    == cmd' = [cmd EXCEPT ![c] = Idle]

\* The commit of command c is refused: it goes on at pc with nothing written.
Conflict(c, pc) == /\ ~Fresh(c)
                   /\ IF pc = "idle" THEN Return(c) ELSE Await(c, pc)
                   /\ Reads(c, {})
                   /\ UNCHANGED <<records, notes, leases, registry, drivers, process, ev, cl>>

\* No clean-up; one that is under way also holds the targets it found.
NoCleanup == [pc |-> "none", child |-> FALSE, lease |-> FALSE]

\* runCleanupSerialized: a clean-up of r runs, this one or one under way.
StartCleanup(r) ==
  cl' = [cl EXCEPT ![r] = IF @ = NoCleanup THEN [@ EXCEPT !.pc = "inspect"] ELSE @]

\* Command c answers when the clean-up of its run is over, however it went.
AwaitCleanup(c) == Await(c, "tidying") /\ StartCleanup(cmd[c].run)

(***************************************************************************)
(* bridge_start_task, up to the launch, which it shares with the retry.    *)
(***************************************************************************)
BeginStart(c, r) ==
  /\ task = "VALIDATED"
  /\ Serve(c, "start", [Idle EXCEPT !.op = "start", !.pc = "enqueue", !.run = r], {Task})
  /\ contexts' = contexts \cup {r}
  /\ UNCHANGED <<records, latest, checkpoint, audited, delivered, leases, registry, drivers,
                 process, ev, cl>>

\* The task is RUNNING, its run is not, and the fallback driver was approved.
BeginRelaunch(c, r) ==
  /\ task = "RUNNING"
  /\ r \in contexts
  /\ ~(run[r] = "running" /\ binding[r] = "ACTIVE")
  /\ approval[Fallback(r)] = "approved"
  /\ Serve(c, "relaunch", [Idle EXCEPT !.op = "relaunch", !.pc = "launch", !.run = r], {Task})
  /\ UNCHANGED <<records, notes, leases, registry, drivers, process, ev, cl>>

\* Only the retry states the event cursor it expects.
RetryCursor(c) == IF cmd[c].op = "retry" THEN {Cursor} ELSE {}

Enqueue(c) ==
  /\ At(c, "enqueue")
  /\ \/ /\ Fresh(c)
        /\ TaskGoes(IF cmd[c].op = "retry" THEN "RETRY" ELSE "ENQUEUE", "QUEUED")
        /\ Commits(c, {Task}, {Task} \cup RetryCursor(c))
        /\ Await(c, "start")
        /\ UNCHANGED <<run, binding, approval, result, notes, leases, registry, drivers, process,
                       ev, cl>>
     \/ Conflict(c, "idle")

\* bridge_start_task keeps the task it read here until it may have to ask for
\* the fallback.
StartRun(c) ==
  /\ At(c, "start")
  /\ \/ /\ Fresh(c)
        /\ TaskGoes("START_RUN", "RUNNING")
        /\ Commits(c, {Task}, IF cmd[c].op = "retry" THEN {} ELSE {Task})
        /\ Await(c, "launch")
        /\ UNCHANGED <<run, binding, approval, result, notes, leases, registry, drivers, process,
                       ev, cl>>
     \/ Conflict(c, "idle")

(***************************************************************************)
(* LocalBridgeRuntime.start and RunOrchestrator.start.                     *)
(***************************************************************************)

\* A run already under way is returned; a retry first waits for the clean-up of
\* the run it replaces.
Launch(c) == LET r == cmd[c].run IN
  /\ At(c, "launch")
  /\ IF run[r] = "running" /\ r \in active
       THEN Return(c) /\ Reads(c, {}) /\ UNCHANGED cl
       ELSE /\ UNCHANGED snap
            /\ IF cmd[c].op = "retry"
                 THEN Await(c, "cleaning") /\ StartCleanup(cmd[c].src)
                 ELSE Await(c, "ensure") /\ UNCHANGED cl
  /\ UNCHANGED <<records, notes, leases, registry, drivers, process, ev>>

\* The worktree is this launch's, or it can be created or adopted for run r.
CanOwn(r) == \/ r \in managed /\ owner # None
             \/ owner = r
             \/ owner = None /\ lease \in {None, r}

Ensure(c) == LET r == cmd[c].run IN
  /\ At(c, "ensure")
  /\ \/ /\ CanOwn(r)
        /\ managed' = managed \cup {r}
        /\ IF owner = None THEN owner' = r /\ lease' = r ELSE UNCHANGED leases
        /\ Await(c, "select")
     \/ /\ ~CanOwn(r) \/ "startFail" \in Faults
        /\ Await(c, "failed")
        /\ UNCHANGED <<managed, leases>>
  /\ UNCHANGED <<records, notes, active, drivers, process, ev, cl, snap>>

\* Mutant: only a run under way keeps its record.
RecreatePc(r) == CASE run[r] = "running" -> "release"
                   [] run[r] = "created" -> "reconcile"
                   [] OTHER              -> "create"

\* What RunOrchestrator.start does about the record it finds.
OrchestratorPc(r) == CASE run[r] = "absent"  -> "create"
                       [] run[r] = "created" -> "reconcile"
                       [] OTHER              -> "release"

\* What a process outside answers comes in a later turn of the event loop: a handler
\* whose commit is over has then done the reads it follows it with.
Answers == \A d \in Commands : ~At(d, "requeue")

\* The driver process is spawned and inspected: the primary is healthy, or the
\* fallback is and was approved; or an approval of the fallback is needed; or
\* no driver is available.
Select(c) == LET r == cmd[c].run IN
  /\ At(c, "select")
  /\ \/ /\ Answers
        /\ cmd' = [cmd EXCEPT ![c].pc = OrchestratorPc(r), ![c].proc = TRUE]
        /\ Reads(c, {Run(r)})
     \/ /\ Answers
        /\ "fallback" \in Ops
        /\ approval[Fallback(r)] # "approved"
        /\ Await(c, "askFallback")
        /\ Reads(c, IF cmd[c].op = "retry" THEN {Task, Cursor} ELSE snap[c])
     \/ /\ "startFail" \in Faults
        /\ Await(c, "release")
        /\ Reads(c, {})
  /\ UNCHANGED <<records, notes, leases, registry, drivers, process, ev, cl>>

\* The lease and the worktree stay with the run that may be launched later.
AskFallback(c) == LET a == Fallback(cmd[c].run)
                      ok == Fresh(c) /\ task = "RUNNING" /\ approval[a] = "absent" IN
  /\ At(c, "askFallback")
  /\ \/ /\ ok
        /\ TaskGoes("REQUEST_APPROVAL", "WAITING_APPROVAL")
        /\ approval' = [approval EXCEPT ![a] = "pending"]
        /\ Commits(c, {Task, Approval(a)}, {})
        /\ Return(c)
     \/ /\ ~ok
        /\ Await(c, "failed")
        /\ Reads(c, {})
        /\ UNCHANGED <<task, approval>>
  /\ UNCHANGED <<run, binding, result, notes, leases, registry, drivers, process, ev, cl>>

\* The record must be new.  A relaunch with the idempotency key of another is
\* refused as well, since every attempt takes a change_id of its own.
CreateRun(c) == LET r == cmd[c].run IN
  /\ At(c, "create")
  /\ \/ /\ Fresh(c)
        /\ run' = [run EXCEPT ![r] = "created"]
        /\ latest' = r
        /\ Commits(c, {Run(r)}, {})
        /\ Await(c, "starting")
        /\ UNCHANGED <<task, binding, approval, result, contexts, checkpoint, audited, delivered,
                       leases, registry, drivers, process, ev, cl>>
     \/ Conflict(c, "release")

\* prepareTask and startTask answered.  The outcome is committed against the
\* first revision of the record, which a created run still has.
DriverStarted(c) == LET r == cmd[c].run IN
  /\ At(c, "starting")
  /\ \/ /\ run[r] = "created"
        /\ RunGoes(r, "START", "running")
        /\ binding' = [binding EXCEPT ![r] = "ACTIVE"]
        /\ active' = active \cup {r}
        /\ driver' = [driver EXCEPT ![r] = "working"]
        /\ ev' = [ev EXCEPT ![r] = "next"]
        /\ Commits(c, {Run(r), Binding(r)}, {})
        /\ Return(c)
     \/ /\ run[r] # "created" \/ "startFail" \in Faults
        /\ Await(c, "abort")
        /\ UNCHANGED <<run, binding, active, driver, ev, snap>>
  /\ UNCHANGED <<task, approval, result, notes, leases, managed, asks, queue, history, process,
                 cl>>

\* The driver is closed and the start is recorded as failed, if it still can be.
Abort(c) == LET r == cmd[c].run IN
  /\ At(c, "abort")
  /\ IF run[r] = "created"
       THEN RunGoes(r, "FAIL", "failed") /\ Commits(c, {Run(r)}, {})
       ELSE UNCHANGED <<run, snap>>
  /\ cmd' = [cmd EXCEPT ![c].pc = "release", ![c].proc = FALSE]
  /\ UNCHANGED <<task, binding, approval, result, notes, leases, registry, drivers, process, ev,
                 cl>>

\* A run found in status created is taken for one whose start was lost.
Reconcile(c) == LET r == cmd[c].run IN
  /\ At(c, "reconcile")
  /\ \/ /\ Fresh(c)
        /\ RunGoes(r, "FAIL", "failed")
        /\ Commits(c, {Run(r)}, {})
        /\ Await(c, "release")
        /\ UNCHANGED <<task, binding, approval, result, notes, leases, registry, drivers, process,
                       ev, cl>>
     \/ Conflict(c, "release")

\* GitWorktreeManager.release for run r; another owner makes it throw.
ReleaseWorktree(r) == IF owner = r
                        THEN /\ owner' = None
                             /\ lease' = IF lease = r THEN None ELSE lease
                        ELSE UNCHANGED leases

\* The error path of the launch.
Release(c) == LET r == cmd[c].run IN
  /\ At(c, "release")
  /\ ReleaseWorktree(r)
  /\ managed' = IF owner \in {r, None} THEN managed \ {r} ELSE managed
  /\ cmd' = [cmd EXCEPT ![c].pc = "failed", ![c].proc = FALSE]
  /\ UNCHANGED <<records, notes, active, drivers, process, ev, cl, snap>>

\* The launch threw: startTask and retryRun fail a task that is still RUNNING;
\* the launch after an approved fallback has no such handler.
LaunchFailed(c) ==
  /\ At(c, "failed")
  /\ IF cmd[c].op = "relaunch" \/ task # "RUNNING"
       THEN Return(c) /\ Reads(c, {})
       ELSE Await(c, "failTask") /\ Reads(c, {Task} \cup RetryCursor(c))
  /\ UNCHANGED <<records, notes, leases, registry, drivers, process, ev, cl>>

FailTask(c) ==
  /\ At(c, "failTask")
  /\ \/ /\ Fresh(c)
        /\ TaskGoes("FAIL", "FAILED")
        /\ Commits(c, {Task}, {})
        /\ Return(c)
        /\ UNCHANGED <<run, binding, approval, result, notes, leases, registry, drivers, process,
                       ev, cl>>
     \/ Conflict(c, "idle")

(***************************************************************************)
(* Approval decisions.                                                     *)
(***************************************************************************)
BeginDecide(c, a, v) == LET r == a[1] IN
  /\ approval[a] = "pending"
  /\ task = "WAITING_APPROVAL"
  /\ IF a = Fallback(r)
       THEN Serve(c, "decide",
                  [Idle EXCEPT !.op = "decide", !.pc = "decideFallback", !.run = r, !.verdict = v],
                  {Approval(a), Task, Cursor})
       ELSE /\ r \in active
            /\ run[r] = "waiting_permission"
            /\ binding[r] = "ACTIVE"
            /\ Serve(c, "decide",
                     [Idle EXCEPT !.op = "decide", !.pc = "decide", !.run = r, !.n = a[2],
                                  !.verdict = v],
                     {Approval(a), Task, Run(r), Cursor}
                       \cup (IF v = "reject" THEN {Binding(r)} ELSE {}))
  /\ UNCHANGED <<records, notes, leases, registry, drivers, process, ev, cl>>

DecideFallback(c) == LET a == Fallback(cmd[c].run) IN
  /\ At(c, "decideFallback")
  /\ \/ /\ Fresh(c)
        /\ IF cmd[c].verdict = "approve"
             THEN /\ TaskGoes("APPROVE_ACTION", "RUNNING")
                  /\ approval' = [approval EXCEPT ![a] = "approved"]
             ELSE /\ TaskGoes("FAIL", "FAILED") \* DENY_ACTION, then FAIL
                  /\ approval' = [approval EXCEPT ![a] = "denied"]
        /\ Commits(c, snap[c], {})
        /\ Return(c)
        /\ UNCHANGED <<run, binding, result, notes, leases, registry, drivers, process, ev, cl>>
     \/ Conflict(c, "idle")

Decide(c) == LET r == cmd[c].run
                 a == <<r, cmd[c].n>> IN
  /\ At(c, "decide")
  /\ \/ /\ Fresh(c)
        /\ IF cmd[c].verdict = "approve"
             THEN /\ TaskGoes("APPROVE_ACTION", "RUNNING")
                  /\ RunGoes(r, "RESUME", "running")
                  /\ approval' = [approval EXCEPT ![a] = "approved"]
                  /\ UNCHANGED binding
             ELSE /\ TaskGoes("INTERRUPT", "INTERRUPTED")
                  /\ RunGoes(r, "INTERRUPT", "interrupted")
                  /\ approval' = [approval EXCEPT ![a] = "denied"]
                  /\ BindingEnds(r, "FAILED")
        /\ Commits(c, snap[c], {})
        /\ Await(c, "respond")
        /\ UNCHANGED <<result, notes, leases, registry, drivers, process, ev, cl>>
     \/ Conflict(c, "idle")

\* The driver of a registered run is there to answer an RPC.
Reachable(r) == r \in active /\ driver[r] \notin {"none", "exited"}

\* respondToPermission.  Without an answer the driver may or may not have taken
\* the response; an approval is not tried again.
Respond(c) == LET r == cmd[c].run
                  answers == Reachable(r) /\ driver[r] = "working" /\ cmd[c].n \in asks[r] IN
  /\ At(c, "respond")
  /\ \/ /\ answers
        /\ asks' = [asks EXCEPT ![r] = @ \ {cmd[c].n}]
        /\ Await(c, IF cmd[c].verdict = "approve" THEN "deliver" ELSE "rejectCancel")
     \/ /\ ~answers \/ "rpcFail" \in Faults
        /\ \/ UNCHANGED asks
           \/ answers /\ asks' = [asks EXCEPT ![r] = @ \ {cmd[c].n}]
        /\ IF cmd[c].verdict = "approve"
             THEN Return(c)
             ELSE cmd' = [cmd EXCEPT ![c].pc = "rejectClose", ![c].verdict = "undelivered"]
  /\ UNCHANGED <<records, notes, leases, registry, driver, queue, history, process, ev, cl, snap>>

\* The driver of r sends an event.  If its consumer gave up, it is lost.
Sends(r, type, n) ==
  queue' = [queue EXCEPT ![r] =
              IF ev[r] = "none" THEN @ ELSE Append(@, [type |-> type, n |-> n])]

\* How often the approvals of r made the task's updated_at move on.
ApprovalWrites(r) == Cardinality({n \in 1..LastEvent : approval[<<r, n>>] # "absent"})
                   + Cardinality({n \in 1..LastEvent : approval[<<r, n>>] = "approved"})

\* The event that ends the run; it carries the time at which it occurred.
SendsEnd(r, type) == Sends(r, type, ApprovalWrites(r))

\* cancelTask on the driver of r.  A working driver aborts its session and
\* reports run.cancelled before it answers; one with a result answers that it
\* did not accept, which nobody looks at; when the RPC fails the client kills
\* the process.
DriverCancels(r) ==
  /\ Reachable(r)
  /\ IF driver[r] = "working"
       THEN /\ driver' = [driver EXCEPT ![r] = "cancelled"]
            /\ asks' = [asks EXCEPT ![r] = {}]
            /\ SendsEnd(r, "cancelled")
       ELSE UNCHANGED <<driver, asks, queue>>

DriverCancelFails(r) ==
  \/ /\ ~Reachable(r)
     /\ UNCHANGED <<driver, asks, queue>>
  \/ /\ Reachable(r)
     /\ "rpcFail" \in Faults
     /\ driver' = [driver EXCEPT ![r] = "exited"]
     /\ asks' = [asks EXCEPT ![r] = {}]
     /\ \/ UNCHANGED queue
        \/ /\ driver[r] = "working" \* the runtime refused to abort
           /\ SendsEnd(r, "failed")

RejectCancel(c) == LET r == cmd[c].run IN
  /\ At(c, "rejectCancel")
  /\ \/ DriverCancels(r) /\ Await(c, "rejectClose")
     \/ /\ DriverCancelFails(r)
        /\ cmd' = [cmd EXCEPT ![c].pc = "rejectClose", ![c].verdict = "undelivered"]
  /\ UNCHANGED <<records, notes, leases, registry, history, process, ev, cl, snap>>

\* active_runs.close: the handle goes first, then the process, then the events
\* it left behind are consumed.
RejectClose(c) == LET r == cmd[c].run IN
  /\ At(c, "rejectClose")
  /\ active' = active \ {r}
  /\ Await(c, IF r \in active THEN "rejectClosing" ELSE "rejectClosed")
  /\ UNCHANGED <<records, notes, leases, managed, drivers, process, ev, cl, snap>>

CloseDriver(r) == /\ driver' = [driver EXCEPT ![r] = "none"]
                  /\ asks' = [asks EXCEPT ![r] = {}]

RejectClosing(c) ==
  /\ At(c, "rejectClosing")
  /\ CloseDriver(cmd[c].run)
  /\ Await(c, "rejectDraining")
  /\ UNCHANGED <<records, notes, leases, registry, queue, history, process, ev, cl, snap>>

RejectClosed(c) ==
  /\ \/ At(c, "rejectDraining") /\ ev[cmd[c].run] = "none"
     \/ At(c, "rejectClosed")
  /\ IF cmd[c].verdict = "reject" THEN Await(c, "deliver") ELSE Return(c)
  /\ UNCHANGED <<records, notes, leases, registry, drivers, process, ev, cl, snap>>

\* markApprovalDelivered, then the clean-up of a rejected run.
Deliver(c) ==
  /\ At(c, "deliver")
  /\ Reads(c, {Approval(<<cmd[c].run, cmd[c].n>>), Cursor})
  /\ Await(c, "markDelivered")
  /\ UNCHANGED <<records, notes, leases, registry, drivers, process, ev, cl>>

MarkDelivered(c) == LET a == <<cmd[c].run, cmd[c].n>> IN
  /\ At(c, "markDelivered")
  /\ \/ /\ Fresh(c)
        /\ delivered' = delivered \cup {a}
        /\ Commits(c, snap[c], {})
        /\ IF cmd[c].verdict = "reject" THEN AwaitCleanup(c) ELSE Return(c) /\ UNCHANGED cl
        /\ UNCHANGED <<records, latest, contexts, checkpoint, audited, leases, registry, drivers,
                       process, ev>>
     \/ Conflict(c, "idle")

(***************************************************************************)
(* Cancel, retry, clean up, complete.                                      *)
(***************************************************************************)
BeginCancel(c, r) ==
  /\ run[r] \in {"running", "waiting_permission"}
  /\ r \in active
  /\ task \in {"RUNNING", "WAITING_APPROVAL"}
  /\ Serve(c, "cancel", [Idle EXCEPT !.op = "cancel", !.pc = "cancel", !.run = r],
           {Task, Run(r), Cursor})
  /\ UNCHANGED <<records, notes, leases, registry, drivers, process, ev, cl>>

RequestCancel(c) == LET r == cmd[c].run IN
  /\ At(c, "cancel")
  /\ \/ /\ Fresh(c)
        /\ TaskGoes("CANCEL", "CANCELLED")
        /\ RunGoes(r, "REQUEST_CANCELLATION", "cancelling")
        /\ Commits(c, snap[c], {})
        /\ Await(c, "cancelRpc")
        /\ UNCHANGED <<binding, approval, result, notes, leases, registry, drivers, process, ev,
                       cl>>
     \/ Conflict(c, "idle")

CancelRpc(c) == LET r == cmd[c].run IN
  /\ At(c, "cancelRpc")
  /\ \/ DriverCancels(r) /\ Await(c, "cancelled")
     \/ DriverCancelFails(r) /\ Return(c)
  /\ UNCHANGED <<records, notes, leases, registry, history, process, ev, cl, snap>>

\* The event consumer may have confirmed the cancellation already.
CheckCancelled(c) == LET r == cmd[c].run IN
  /\ At(c, "cancelled")
  /\ CASE run[r] = "cancelled"  -> AwaitCleanup(c) /\ Reads(c, {})
       [] run[r] = "cancelling" -> /\ Await(c, "confirm")
                                   /\ Reads(c, BoundRecords(r) \cup {Cursor})
                                   /\ UNCHANGED cl
       [] OTHER                 -> Return(c) /\ Reads(c, {}) /\ UNCHANGED cl
  /\ UNCHANGED <<records, notes, leases, registry, drivers, process, ev>>

ConfirmCancel(c) == LET r == cmd[c].run IN
  /\ At(c, "confirm")
  /\ \/ /\ Fresh(c)
        /\ RunGoes(r, "CONFIRM_CANCELLED", "cancelled")
        /\ BindingEnds(r, "CLOSED")
        /\ Commits(c, snap[c], {})
        /\ AwaitCleanup(c)
        /\ UNCHANGED <<task, approval, result, notes, leases, registry, drivers, process, ev>>
     \/ Conflict(c, "idle")

\* A run without a binding never started and cannot be retried.
BeginRetry(c, r) ==
  /\ latest # None
  /\ run[latest] \in {"failed", "cancelled", "interrupted"}
  /\ Retryable(task)
  /\ binding[latest] # "absent"
  /\ r \notin contexts /\ \A d \in Commands : cmd[d].run # r
  /\ Serve(c, "retry",
           [Idle EXCEPT !.op = "retry", !.pc = "context", !.run = r, !.src = latest],
           {Run(latest), Cursor})
  /\ UNCHANGED <<records, notes, leases, registry, drivers, process, ev, cl>>

PrepareRetryContext(c) ==
  /\ At(c, "context")
  /\ \/ /\ Fresh(c)
        /\ contexts' = contexts \cup {cmd[c].run}
        /\ Commits(c, {}, {Run(cmd[c].src)})
        /\ Await(c, "requeue")
        /\ UNCHANGED <<records, latest, checkpoint, audited, delivered, leases, registry, drivers,
                       process, ev, cl>>
     \/ Conflict(c, "idle")

\* The source run must not have been written since the request came in.
Requeue(c) ==
  /\ At(c, "requeue")
  /\ IF Fresh(c) /\ Retryable(task)
       THEN Await(c, "enqueue") /\ Reads(c, {Task, Cursor})
       ELSE Return(c) /\ Reads(c, {})
  /\ UNCHANGED <<records, notes, leases, registry, drivers, process, ev, cl>>

BeginCleanup(c, r) ==
  /\ Terminal(r)
  /\ Serve(c, "cleanup", [Idle EXCEPT !.op = "cleanup", !.pc = "cleanup", !.run = r],
           {Run(r), Cursor})
  /\ UNCHANGED <<records, notes, leases, registry, drivers, process, ev, cl>>

ConfirmCleanup(c) ==
  /\ At(c, "cleanup")
  /\ \/ /\ Fresh(c)
        /\ Commits(c, snap[c], {})
        /\ AwaitCleanup(c)
        /\ UNCHANGED <<records, notes, leases, registry, drivers, process, ev>>
     \/ Conflict(c, "idle")

BeginComplete(c) ==
  /\ task \in {"REVIEW_REQUIRED", "READY_FOR_MERGE"}
  /\ Serve(c, "complete",
           [Idle EXCEPT !.op = "complete", !.run = latest,
                        !.pc = IF task = "REVIEW_REQUIRED" THEN "approveReview" ELSE "complete"],
           {Task})
  /\ UNCHANGED <<records, notes, leases, registry, drivers, process, ev, cl>>

ApproveReview(c) ==
  /\ At(c, "approveReview")
  /\ \/ /\ Fresh(c)
        /\ TaskGoes("APPROVE_REVIEW", "READY_FOR_MERGE")
        /\ Commits(c, {Task}, {Task})
        /\ Await(c, "complete")
        /\ UNCHANGED <<run, binding, approval, result, notes, leases, registry, drivers, process,
                       ev, cl>>
     \/ Conflict(c, "idle")

\* The other task of the project commits something: the event cursor moves.
OtherTaskCommits ==
  /\ "otherTask" \in Ops
  /\ \E t \in Threads : Cursor \in snap[t]
  /\ snap' = [t \in Threads |-> IF Cursor \in snap[t] THEN Stale ELSE snap[t]]
  /\ UNCHANGED <<records, notes, leases, registry, drivers, process, cmd, ev, cl>>

Complete(c) ==
  /\ At(c, "complete")
  /\ \/ /\ Fresh(c)
        /\ TaskGoes("COMPLETE", "COMPLETED")
        /\ Commits(c, {Task}, {})
        /\ AwaitCleanup(c)
        /\ UNCHANGED <<run, binding, approval, result, notes, leases, registry, drivers, process,
                       ev>>
     \/ Conflict(c, "idle")

\* The completion is reported again: only the clean-up is repeated.
RepeatComplete ==
  /\ "complete" \in Ops
  /\ Serving
  /\ task = "COMPLETED"
  /\ StartCleanup(latest)
  /\ UNCHANGED <<records, notes, leases, registry, drivers, process, cmd, ev, snap>>

-----------------------------------------------------------------------------
(***************************************************************************)
(* The consumer of the event stream of run r.  The event it works on stays *)
(* at the head of the queue until it is done with it.                      *)
(***************************************************************************)
Event(r) == Head(queue[r])

EventIs(r, types) == ev[r] = "next" /\ queue[r] # <<>> /\ Event(r).type \in types

Consume(r, pc) == ev' = [ev EXCEPT ![r] = pc]

Consumed(r) == /\ Consume(r, "next")
               /\ queue' = [queue EXCEPT ![r] = Tail(@)]

\* Mutant: the consumer waits for the clean-up it starts.
TerminalAwaitsCleanup(r) == Consume(r, "cleaning") /\ UNCHANGED queue /\ StartCleanup(r)

\* handleAgentEvent is done with a terminal event: its finally starts the
\* clean-up and does not wait for it.
TerminalConsumed(r) == Consumed(r) /\ StartCleanup(r)

\* It threw: the finally runs, then the run is interrupted.
Throws(r) == /\ Consume(r, "threw")
             /\ UNCHANGED queue
             /\ IF Event(r).type \in {"completed", "failed", "cancelled"}
                  THEN StartCleanup(r) ELSE UNCHANGED cl

\* Mutant: the events nobody will consume are kept.
StopAndKeepEvents(r) == Consume(r, "none") /\ UNCHANGED queue

\* The listener threw, so nothing consumes the rest of the stream.
StopConsuming(r) == /\ Consume(r, "none")
                    /\ queue' = [queue EXCEPT ![r] = <<>>]

StreamEnds(r) == /\ ev[r] = "next"
                 /\ queue[r] = <<>>
                 /\ driver[r] # "working"
                 /\ Consume(r, "none")
                 /\ UNCHANGED <<records, notes, leases, registry, drivers, process, cmd, cl,
                                snap>>

\* checkpointAgentEvent reads the run, and the events a checkpoint was saved for.
Checkpoint(r) ==
  /\ EventIs(r, {"progress", "permission"})
  /\ IF /\ r \in active
        /\ run[r] \in {"running", "waiting_permission", "cancelling"}
        /\ Event(r).n \notin checkpoint[r].saved
       THEN Consume(r, "export") /\ Reads(Events(r), {Run(r)})
       ELSE Consume(r, "notify") /\ UNCHANGED snap
  /\ UNCHANGED <<records, notes, leases, registry, drivers, process, cmd, cl>>

\* The driver exports its state only between tool calls (exportFail: one is
\* open) and not while it waits for a permission.  Without a state the last
\* checkpoint is kept; a conflict is an error.
SaveCheckpoint(r) ==
  LET exports == Reachable(r) /\ driver[r] = "working" /\ asks[r] = {} IN
  /\ ev[r] = "export"
  /\ \/ /\ exports /\ Fresh(Events(r))
        /\ checkpoint' = [checkpoint EXCEPT ![r] = [history |-> history[r],
                                                   saved   |-> @.saved \cup {Event(r).n}]]
        /\ Commits(Events(r), {Run(r)}, {})
        /\ Consume(r, "notify")
        /\ UNCHANGED <<queue, cl>>
     \/ /\ exports /\ ~Fresh(Events(r))
        /\ Throws(r)
        /\ Reads(Events(r), {})
        /\ UNCHANGED checkpoint
     \/ /\ ~exports \/ "exportFail" \in Faults
        /\ Consume(r, "notify")
        /\ Reads(Events(r), {})
        /\ UNCHANGED <<checkpoint, queue, cl>>
  /\ UNCHANGED <<records, latest, contexts, audited, delivered, leases, registry, driver, asks,
                 history, process, cmd>>

\* onAgentEvent ignores progress, and a request it cannot put to the operator.
Notify(r) ==
  /\ ev[r] = "notify"
  /\ IF Event(r).type = "permission" /\ binding[r] = "ACTIVE" /\ task = "RUNNING"
       THEN /\ Consume(r, "ask")
            /\ Reads(Events(r), {Task, Run(r), Approval(<<r, Event(r).n>>)})
            /\ UNCHANGED queue
       ELSE Consumed(r) /\ UNCHANGED snap
  /\ UNCHANGED <<records, notes, leases, registry, driver, asks, history, process, cmd, cl>>

\* Mutant: a request that was put before is put again.
RequestPermissionAgain(r) == LET a == <<r, Event(r).n>> IN
  /\ ev[r] = "ask"
  /\ IF Fresh(Events(r))
       THEN /\ TaskGoes("REQUEST_APPROVAL", "WAITING_APPROVAL")
            /\ RunGoes(r, "WAIT_FOR_PERMISSION", "waiting_permission")
            /\ approval' = [approval EXCEPT ![a] = "pending"]
            /\ Commits(Events(r), snap[Events(r)], {})
            /\ Consumed(r)
            /\ UNCHANGED cl
       ELSE /\ Throws(r)
            /\ Reads(Events(r), {})
            /\ UNCHANGED <<task, run, approval>>
  /\ UNCHANGED <<binding, result, notes, leases, registry, driver, asks, history, process, cmd>>

\* An event that is replayed was committed with other contents: the commit is
\* refused for its idempotency key.
RequestPermission(r) == LET a == <<r, Event(r).n>> IN
  /\ ev[r] = "ask"
  /\ IF Fresh(Events(r)) /\ approval[a] = "absent"
       THEN /\ TaskGoes("REQUEST_APPROVAL", "WAITING_APPROVAL")
            /\ RunGoes(r, "WAIT_FOR_PERMISSION", "waiting_permission")
            /\ approval' = [approval EXCEPT ![a] = "pending"]
            /\ Commits(Events(r), snap[Events(r)], {})
            /\ Consumed(r)
            /\ UNCHANGED cl
       ELSE /\ Throws(r)
            /\ Reads(Events(r), {})
            /\ UNCHANGED <<task, run, approval>>
  /\ UNCHANGED <<binding, result, notes, leases, registry, driver, asks, history, process, cmd>>

\* recordCompletedRun reads the run and the task, then verifies the worktree.
RunCompleted(r) ==
  /\ EventIs(r, {"completed"})
  /\ IF task = "RUNNING"
       THEN /\ Consume(r, "collect")
            /\ Reads(Events(r), {Task, Run(r)})
            /\ UNCHANGED <<queue, cl>>
       ELSE TerminalConsumed(r) /\ UNCHANGED snap
  /\ UNCHANGED <<records, notes, leases, registry, driver, asks, history, process, cmd>>

\* collectOutcome needs the driver's result and the ownership of the worktree.
\* The bindings are read after it.
CollectOutcome(r) ==
  LET collected == r \in managed /\ owner = r /\ Reachable(r) /\ driver[r] = "finished" IN
  /\ ev[r] = "collect"
  /\ \/ /\ collected
        /\ Consume(r, "submit")
        /\ Reads(Events(r), snap[Events(r)] \cup (BoundRecords(r) \ {Run(r)}))
        /\ UNCHANGED <<queue, cl>>
     \/ /\ ~collected \/ "outcomeFail" \in Faults
        /\ Throws(r)
        /\ Reads(Events(r), {})
  /\ UNCHANGED <<records, notes, leases, registry, driver, asks, history, process, cmd>>

Submit(r) ==
  /\ ev[r] = "submit"
  /\ IF {Task, Run(r)} \subseteq snap[Events(r)] /\ run[r] = "running"
       THEN /\ TaskGoes("SUBMIT", "SUBMITTED")
            /\ RunGoes(r, "SUCCEED", "succeeded")
            /\ BindingEnds(r, "CLOSED")
            /\ result' = result \cup {r}
            /\ Commits(Events(r), snap[Events(r)], {Task})
            /\ Consume(r, "verify")
            /\ UNCHANGED <<approval, queue, cl>>
       ELSE /\ Throws(r)
            /\ Reads(Events(r), {})
            /\ UNCHANGED records
  /\ UNCHANGED <<notes, leases, registry, driver, asks, history, process, cmd>>

\* Mutant: the review is not requested.
VerificationIsAll(r) ==
  /\ ev[r] = "verify"
  /\ IF Fresh(Events(r))
       THEN /\ TaskGoes("START_VERIFICATION", "VERIFYING")
            /\ Commits(Events(r), {Task}, {})
            /\ TerminalConsumed(r)
       ELSE Throws(r) /\ Reads(Events(r), {}) /\ UNCHANGED task
  /\ UNCHANGED <<run, binding, approval, result, notes, leases, registry, driver, asks, history,
                 process, cmd>>

\* The verification is over: its start and the request for review are recorded.
RecordVerification(r) ==
  /\ ev[r] = "verify"
  /\ IF Fresh(Events(r))
       THEN /\ TaskGoes("START_VERIFICATION", "VERIFYING")
            /\ Commits(Events(r), {Task}, {Task})
            /\ Consume(r, "review")
            /\ UNCHANGED <<queue, cl>>
       ELSE Throws(r) /\ Reads(Events(r), {}) /\ UNCHANGED task
  /\ UNCHANGED <<run, binding, approval, result, notes, leases, registry, driver, asks, history,
                 process, cmd>>

RequestReview(r) ==
  /\ ev[r] = "review"
  /\ IF Fresh(Events(r))
       THEN /\ TaskGoes("REQUEST_REVIEW", "REVIEW_REQUIRED")
            /\ Commits(Events(r), {Task}, {})
            /\ TerminalConsumed(r)
       ELSE Throws(r) /\ Reads(Events(r), {}) /\ UNCHANGED task
  /\ UNCHANGED <<run, binding, approval, result, notes, leases, registry, driver, asks, history,
                 process, cmd>>

\* recordTerminalDriverFailure
DriverEnded(r) ==
  /\ EventIs(r, {"failed", "cancelled"})
  /\ IF run[r] \in {"running", "waiting_permission", "cancelling"}
       THEN /\ Consume(r, "fail")
            /\ Reads(Events(r), EndingRecords(r))
            /\ UNCHANGED <<queue, cl>>
       ELSE TerminalConsumed(r) /\ UNCHANGED snap
  /\ UNCHANGED <<records, notes, leases, registry, driver, asks, history, process, cmd>>

\* The records take the time of the event; the task refuses to go back in time,
\* as it would have to when an approval was recorded after the event occurred
\* (it need not, if both happened in the same millisecond).
RecordFailure(r) ==
  LET confirms == Event(r).type = "cancelled" /\ run[r] = "cancelling"
      late == Task \in snap[Events(r)] /\ Event(r).n < ApprovalWrites(r)
  IN
  /\ ev[r] = "fail"
  /\ \/ /\ Fresh(Events(r))
        /\ IF confirms THEN RunGoes(r, "CONFIRM_CANCELLED", "cancelled")
                       ELSE RunGoes(r, "FAIL", "failed")
        /\ BindingEnds(r, IF Event(r).type = "cancelled" THEN "CLOSED" ELSE "FAILED")
        /\ TaskInterrupted(Events(r))
        /\ Commits(Events(r), snap[Events(r)], {})
        /\ TerminalConsumed(r)
        /\ UNCHANGED <<approval, result>>
     \/ /\ ~Fresh(Events(r)) \/ late
        /\ Throws(r)
        /\ Reads(Events(r), {})
        /\ UNCHANGED records
  /\ UNCHANGED <<notes, leases, registry, driver, asks, history, process, cmd>>

\* Mutant: after an error the run is left alone.
StopAfterError(r) ==
  /\ ev[r] = "threw"
  /\ StopConsuming(r)
  /\ UNCHANGED <<records, notes, leases, registry, driver, asks, history, process, cmd, cl, snap>>

\* interruptRecoveryCandidate: a run that is over is left alone.
InterruptAfterError(r) ==
  /\ ev[r] = "threw"
  /\ IF Terminal(r)
       THEN StopConsuming(r) /\ UNCHANGED snap
       ELSE /\ Consume(r, "interrupt")
            /\ Reads(Events(r), EndingRecords(r))
            /\ UNCHANGED queue
  /\ UNCHANGED <<records, notes, leases, registry, driver, asks, history, process, cmd, cl>>

\* Mutant: the binding stays ACTIVE.
InterruptOnlyRun(r) ==
  /\ IF run[r] = "created" THEN RunGoes(r, "FAIL", "failed")
                           ELSE RunGoes(r, "INTERRUPT", "interrupted")
  /\ UNCHANGED <<binding, approval, result>>

\* What the interruption writes besides the task.
InterruptRecords(r) ==
  /\ IF run[r] = "created" THEN RunGoes(r, "FAIL", "failed")
                           ELSE RunGoes(r, "INTERRUPT", "interrupted")
  /\ BindingEnds(r, "FAILED")
  /\ UNCHANGED <<approval, result>>

RecordInterruption(r) ==
  /\ ev[r] = "interrupt"
  /\ IF Fresh(Events(r))
       THEN /\ InterruptRecords(r)
            /\ TaskInterrupted(Events(r))
            /\ Commits(Events(r), snap[Events(r)], {})
       ELSE /\ Reads(Events(r), {})
            /\ UNCHANGED records
  /\ StopConsuming(r)
  /\ UNCHANGED <<notes, leases, registry, driver, asks, history, process, cmd, cl>>

-----------------------------------------------------------------------------
(***************************************************************************)
(* cleanupTerminalResources of run r; at most one is under way.            *)
(***************************************************************************)
CleanupAwaits(r, pc) == cl' = [cl EXCEPT ![r].pc = pc]

\* The clean-up ends; the retries that wait for it go on, or fail with it, and
\* the requests that wait for it are answered.
CleanupEnds(r, pc) ==
  /\ cl' = [cl EXCEPT ![r] = NoCleanup]
  /\ cmd' = [c \in Commands |->
               CASE At(c, "cleaning") /\ cmd[c].src = r -> [cmd[c] EXCEPT !.pc = pc]
                 [] At(c, "tidying") /\ cmd[c].run = r  -> Idle
                 [] OTHER                               -> cmd[c]]

\* Mutant: the driver is left to exit by itself.
InspectWithoutClosing(r) ==
  /\ cl[r].pc = "inspect"
  /\ cl' = [cl EXCEPT ![r] = [pc |-> "releasing", child |-> r \in active, lease |-> lease = r]]
  /\ active' = active \ {r}
  /\ Reads(Cleanup(r), {Run(r)})
  /\ UNCHANGED <<records, notes, leases, managed, drivers, process, cmd, ev>>

\* Mutant: the handle stays registered.
InspectKeepingHandle(r) ==
  /\ cl[r].pc = "inspect"
  /\ cl' = [cl EXCEPT ![r] = [pc    |-> IF r \in active THEN "closing" ELSE "releasing",
                              child |-> r \in active,
                              lease |-> lease = r]]
  /\ Reads(Cleanup(r), {Run(r)})
  /\ UNCHANGED <<records, notes, leases, registry, drivers, process, cmd, ev>>

\* The registered handle is removed before its driver is closed.
InspectTargets(r) ==
  /\ cl[r].pc = "inspect"
  /\ cl' = [cl EXCEPT ![r] = [pc    |-> IF r \in active THEN "closing" ELSE "releasing",
                              child |-> r \in active,
                              lease |-> lease = r]]
  /\ active' = active \ {r}
  /\ Reads(Cleanup(r), {Run(r)})
  /\ UNCHANGED <<records, notes, leases, managed, drivers, process, cmd, ev>>

CleanupClosesDriver(r) ==
  /\ cl[r].pc = "closing"
  /\ CloseDriver(r)
  /\ CleanupAwaits(r, "draining")
  /\ UNCHANGED <<records, notes, leases, registry, queue, history, process, cmd, ev, snap>>

EventsDrained(r) ==
  /\ cl[r].pc = "draining"
  /\ ev[r] = "none"
  /\ CleanupAwaits(r, "releasing")
  /\ UNCHANGED <<records, notes, leases, registry, drivers, process, cmd, ev, snap>>

\* The lease is released only if the inspection found it, through the worktree
\* while this process manages it.
ReleaseLease(r) ==
  /\ cl[r].pc = "releasing"
  /\ IF cl[r].lease /\ r \in managed /\ owner \notin {r, None}
       THEN /\ CleanupEnds(r, "failed")
            /\ Reads(Cleanup(r), {})
            /\ UNCHANGED leases
       ELSE /\ CASE ~cl[r].lease                 -> UNCHANGED leases
                  [] cl[r].lease /\ r \in managed -> ReleaseWorktree(r)
                  [] OTHER -> /\ lease' = IF lease = r THEN None ELSE lease
                              /\ UNCHANGED owner
            /\ CleanupAwaits(r, "auditing")
            /\ UNCHANGED <<cmd, snap>>
  /\ UNCHANGED <<records, notes, registry, drivers, process, ev>>

\* Nothing was removed and an earlier clean-up is on record: nothing to audit.
Audit(r) ==
  LET nothing == ~cl[r].child /\ ~cl[r].lease /\ r \in audited IN
  /\ cl[r].pc = "auditing"
  /\ \/ /\ nothing
        /\ managed' = managed \ {r}
        /\ CleanupEnds(r, "ensure")
        /\ Reads(Cleanup(r), {})
        /\ UNCHANGED audited
     \/ /\ ~nothing /\ Fresh(Cleanup(r))
        /\ audited' = audited \cup {r}
        /\ managed' = managed \ {r}
        /\ CleanupEnds(r, "ensure")
        /\ Commits(Cleanup(r), {Run(r)}, {})
     \/ /\ ~nothing /\ ~Fresh(Cleanup(r))
        /\ CleanupEnds(r, "failed")
        /\ Reads(Cleanup(r), {})
        /\ UNCHANGED <<audited, managed>>
  /\ UNCHANGED <<records, latest, contexts, checkpoint, delivered, leases, active, drivers,
                 process, ev>>

-----------------------------------------------------------------------------
(***************************************************************************)
(* The driver process of run r, and the passing of time.                   *)
(***************************************************************************)
Outside == <<records, notes, registry, process, cmd, ev, cl, snap>>

Sent(r, type) == Cardinality({i \in DOMAIN history[r] : history[r][i] = type})

SendsNext(r, type) == /\ history' = [history EXCEPT ![r] = Append(@, type)]
                      /\ Sends(r, type, Len(history[r]) + 1)

DriverProgresses(r) ==
  /\ driver[r] = "working"
  /\ Sent(r, "progress") < MaxProgress
  /\ SendsNext(r, "progress")
  /\ UNCHANGED <<Outside, leases, driver, asks>>

\* Several tools of a session may ask before the first is answered.
DriverAsks(r) ==
  /\ driver[r] = "working"
  /\ Sent(r, "permission") < MaxPermissions
  /\ SendsNext(r, "permission")
  /\ asks' = [asks EXCEPT ![r] = @ \cup {Len(history[r]) + 1}]
  /\ UNCHANGED <<Outside, leases, driver>>

DriverCompletes(r) ==
  /\ driver[r] = "working"
  /\ asks[r] = {}
  /\ driver' = [driver EXCEPT ![r] = "finished"]
  /\ Sends(r, "completed", 0)
  /\ UNCHANGED <<Outside, leases, asks, history>>

DriverFails(r) ==
  /\ "driverFail" \in Faults
  /\ driver[r] = "working"
  /\ driver' = [driver EXCEPT ![r] = "failed"]
  /\ asks' = [asks EXCEPT ![r] = {}]
  /\ SendsEnd(r, "failed")
  /\ UNCHANGED <<Outside, leases, history>>

\* The process dies; events it sent are still delivered, then the stream ends.
DriverExits(r) ==
  /\ "driverExit" \in Faults
  /\ driver[r] \notin {"none", "exited"}
  /\ driver' = [driver EXCEPT ![r] = "exited"]
  /\ asks' = [asks EXCEPT ![r] = {}]
  /\ UNCHANGED <<Outside, leases, queue, history>>

\* The lease was granted for timeout_seconds and is not renewed while the run
\* works.
LeaseExpires ==
  /\ "leaseExpiry" \in Faults
  /\ lease # None
  /\ lease' = None
  /\ UNCHANGED <<Outside, drivers, owner>>

-----------------------------------------------------------------------------
(***************************************************************************)
(* The Bridge process goes down and comes back.                            *)
(***************************************************************************)
Live(r) == L!Live(r)

\* Every process and every variable of the Bridge is gone; the drivers die with
\* it.  The runs to look at are read on the way up.
CrashAndRestart ==
  /\ crashes < MaxCrashes
  /\ crashes' = crashes + 1
  /\ toRecover' = {r \in Runs : Live(r)}
  /\ owner' = None
  /\ managed' = {} /\ active' = {}
  /\ driver' = [r \in Runs |-> "none"]
  /\ asks' = [r \in Runs |-> {}]
  /\ queue' = [r \in Runs |-> <<>>] /\ history' = [r \in Runs |-> <<>>]
  /\ cmd' = [c \in Commands |-> Idle]
  /\ ev' = [r \in Runs |-> "none"]
  /\ cl' = [r \in Runs |-> NoCleanup]
  /\ snap' = [t \in Threads |-> {}]
  /\ UNCHANGED <<records, notes, lease>>

\* recoverPersistedRun: only a run with a checkpoint and one bound session whose
\* worktree can be adopted is resumed.
Resumable(r) == /\ run[r] = "running"
                /\ checkpoint[r].history # <<>>
                /\ binding[r] = "ACTIVE"
                /\ owner \in {r, None} /\ lease \in {r, None}

\* The driver takes up the history in the checkpoint and reports that it resumed.
Resumed(r) == /\ history' = [history EXCEPT ![r] = Append(checkpoint[r].history, "progress")]
              /\ driver' = [driver EXCEPT ![r] = "working"]

\* Mutant: nobody consumes the events of the resumed driver.
ResumeUnheard(r) ==
  /\ r \in toRecover
  /\ Resumable(r)
  /\ lease' = r /\ owner' = r
  /\ managed' = managed \cup {r} /\ active' = active \cup {r}
  /\ Resumed(r)
  /\ Commits(None, {Run(r)}, {})
  /\ toRecover' = toRecover \ {r}
  /\ UNCHANGED <<records, notes, asks, queue, crashes, cmd, ev, cl>>

\* The new consumer is sent all of that history, what was consumed before too.
Resume(r) ==
  /\ r \in toRecover
  /\ Resumable(r)
  /\ lease' = r /\ owner' = r
  /\ managed' = managed \cup {r} /\ active' = active \cup {r}
  /\ Resumed(r)
  /\ queue' = [queue EXCEPT ![r] =
                 [i \in DOMAIN history'[r] |-> [type |-> history'[r][i], n |-> i]]]
  /\ Consume(r, "next")
  /\ Commits(None, {Run(r)}, {})
  /\ toRecover' = toRecover \ {r}
  /\ UNCHANGED <<records, notes, asks, crashes, cmd, cl>>

\* Otherwise it is interrupted.  A failure after the adoption, which the fault
\* recoverFail stands for, releases the lease; a failure before it does not.
InterruptRecovery(r) ==
  /\ r \in toRecover
  /\ \/ ~Resumable(r) /\ UNCHANGED lease
     \/ Resumable(r) /\ "recoverFail" \in Faults /\ lease' = None
  /\ InterruptRecords(r)
  /\ IF task \in {"RUNNING", "WAITING_APPROVAL"}
       THEN TaskGoes("INTERRUPT", "INTERRUPTED") ELSE UNCHANGED task
  /\ Commits(None, EndingRecords(r), {})
  /\ toRecover' = toRecover \ {r}
  /\ UNCHANGED <<notes, owner, registry, drivers, crashes, cmd, ev, cl>>

-----------------------------------------------------------------------------
Init ==
  /\ L!Init
  /\ latest = None
  /\ contexts = {} /\ delivered = {} /\ audited = {}
  /\ checkpoint = [r \in Runs |-> [history |-> <<>>, saved |-> {}]]
  /\ lease = None /\ owner = None
  /\ toRecover = {} /\ crashes = 0
  /\ managed = {} /\ active = {}
  /\ cmd = [c \in Commands |-> Idle]
  /\ ev = [r \in Runs |-> "none"]
  /\ cl = [r \in Runs |-> NoCleanup]
  /\ snap = [t \in Threads |-> {}]
  /\ driver = [r \in Runs |-> "none"]
  /\ asks = [r \in Runs |-> {}]
  /\ queue = [r \in Runs |-> <<>>]
  /\ history = [r \in Runs |-> <<>>]

\* A client's request comes in.
Request(c) == \/ BeginComplete(c)
              \/ \E r \in Runs : \/ BeginStart(c, r) \/ BeginRelaunch(c, r)
                                 \/ BeginCancel(c, r) \/ BeginRetry(c, r)
                                 \/ BeginCleanup(c, r)
              \/ \E a \in Approvals, v \in {"approve", "reject"} : BeginDecide(c, a, v)

LaunchStep(c) == \/ Launch(c) \/ Ensure(c) \/ Select(c) \/ AskFallback(c) \/ CreateRun(c)
                 \/ DriverStarted(c) \/ Abort(c) \/ Reconcile(c) \/ Release(c)
                 \/ LaunchFailed(c) \/ FailTask(c)

DecideStep(c) == \/ DecideFallback(c) \/ Decide(c) \/ Respond(c) \/ RejectCancel(c)
                 \/ RejectClose(c) \/ RejectClosing(c) \/ RejectClosed(c)
                 \/ Deliver(c) \/ MarkDelivered(c)

CommandStep(c) == \/ Enqueue(c) \/ StartRun(c) \/ LaunchStep(c) \/ DecideStep(c)
                  \/ RequestCancel(c) \/ CancelRpc(c) \/ CheckCancelled(c)
                  \/ ConfirmCancel(c) \/ PrepareRetryContext(c) \/ Requeue(c)
                  \/ ConfirmCleanup(c) \/ ApproveReview(c) \/ Complete(c)

EventStep(r) ==
  \/ StreamEnds(r) \/ Checkpoint(r) \/ SaveCheckpoint(r) \/ Notify(r)
  \/ RequestPermission(r) \/ RunCompleted(r) \/ CollectOutcome(r) \/ Submit(r)
  \/ RecordVerification(r) \/ RequestReview(r) \/ DriverEnded(r) \/ RecordFailure(r)
  \/ InterruptAfterError(r) \/ RecordInterruption(r)

CleanupStep(r) == \/ InspectTargets(r) \/ CleanupClosesDriver(r) \/ EventsDrained(r)
                  \/ ReleaseLease(r) \/ Audit(r)

DriverStep(r) == \/ DriverProgresses(r) \/ DriverAsks(r) \/ DriverCompletes(r)
                 \/ DriverFails(r) \/ DriverExits(r)

RecoveryStep(r) == Resume(r) \/ InterruptRecovery(r)

Next == \/ \E c \in Commands : Request(c) \/ CommandStep(c)
        \/ \E r \in Runs : EventStep(r) \/ CleanupStep(r) \/ DriverStep(r) \/ RecoveryStep(r)
        \/ RepeatComplete \/ OtherTaskCommits \/ LeaseExpires \/ CrashAndRestart

Spec == Init /\ [][Next]_vars

\* Handlers, consumers and clean-ups run to their end: the event loop drops no
\* continuation, RPCs and verifications time out, and closing a driver kills it
\* if it does not exit.  Nothing is assumed of clients, operators and drivers.
FairSpec == /\ Spec
            /\ \A c \in Commands : WF_vars(CommandStep(c))
            /\ \A r \in Runs : /\ WF_vars(EventStep(r))
                               /\ WF_vars(CleanupStep(r))
                               /\ WF_vars(RecoveryStep(r))

-----------------------------------------------------------------------------
\* However the handlers interleave, the durable records move only as the ledger
\* allows: optimistic commits and the guards read before them are enough.
Implements == L!Spec

\* The process's own state: threads await where their code can, snapshots name
\* records, and the ledger's statuses are its lifecycles'.
TypeOK ==
  /\ L!TypeOK
  /\ latest \in Runs \cup {None} /\ contexts \subseteq Runs /\ delivered \subseteq Approvals
  /\ audited \subseteq Runs
  /\ \A r \in Runs : checkpoint[r].saved \subseteq DOMAIN checkpoint[r].history
  /\ lease \in Runs \cup {None} /\ owner \in Runs \cup {None}
  /\ toRecover \subseteq Runs /\ managed \subseteq Runs /\ active \subseteq Runs
  /\ \A c \in Commands : /\ DOMAIN cmd[c] = DOMAIN Idle
                         /\ cmd[c].pc = "idle" => cmd[c] = Idle /\ snap[c] = {}
  /\ \A r \in Runs : /\ ev[r] = "none" => queue[r] = <<>>
                     /\ cl[r].pc = "none" => cl[r] = NoCleanup
                     /\ asks[r] \subseteq DOMAIN history[r]
  /\ crashes \in 0..MaxCrashes

\* At most one driver process works in the worktree of the task version, counting
\* those still being started or not yet closed: they would edit the same files.
Processes == {r \in Runs : driver[r] \notin {"none", "exited"}}
               \cup {c \in Commands : cmd[c].proc}

OneDriverProcess == Cardinality(Processes) <= 1

\* A driver the Bridge counts as active writes under its own lease: whoever is
\* refused by the lease can rely on the holder being the one at work.
ActiveHoldsLease == \A r \in active : owner = r /\ lease = r

\* While requests are served, somebody consumes the events of every run that
\* awaits its driver: else the run never ends on its own.
SomebodyListens ==
  Serving => \A r \in Runs :
               run[r] \in {"running", "waiting_permission"} => ev[r] # "none"

\* A decision is sent to the driver only while the driver waits for it, and by
\* one request: a repeated or contradictory decision never reaches it.
RespondsToOpenQuestion ==
  \A c \in Commands : At(c, "respond") =>
    /\ Reachable(cmd[c].run) /\ driver[cmd[c].run] = "working"
         => cmd[c].n \in asks[cmd[c].run]
    /\ \A d \in Commands :
         At(d, "respond") /\ cmd[c].run = cmd[d].run /\ cmd[c].n = cmd[d].n => c = d

\* A decision shown as delivered was made, and its driver does not wait for it.
DeliveredIsAnswered ==
  \A a \in delivered : /\ approval[a] \in {"approved", "denied"}
                       /\ a[2] \notin asks[a[1]]

\* What is sent to a driver, and what is shown as sent, answers the question it was for.
AnswersFindTheirQuestion == RespondsToOpenQuestion /\ DeliveredIsAnswered

\* No request is in flight and no event is being consumed.
Quiet == /\ Serving
         /\ \A c \in Commands : cmd[c] = Idle
         /\ \A r \in Runs : ev[r] \in {"none", "next"}

\* In the quiet a RUNNING task has a run, or an approved fallback to launch
\* (bridge-control-service.ts startTask, management-command-service.ts retry).
RunningTaskHasRun ==
  Quiet /\ task = "RUNNING" => \E r \in Runs : Live(r) \/ approval[Fallback(r)] = "approved"

\* In the quiet the task is not in a status that only the Bridge itself would move on
\* from: no operation of a client accepts it there, and no restart looks at it.
NothingHalfDone == /\ Quiet => task \notin {"QUEUED", "SUBMITTED", "VERIFYING"}
                   /\ RunningTaskHasRun

\* Every request is answered and every clean-up releases what it holds: whatever
\* they wait for - each other, the events still in the stream - does not wait for
\* them in turn.
NobodyWaitsForever ==
  /\ \A c \in Commands : cmd[c] # Idle ~> cmd[c] = Idle
  /\ \A r \in Runs : cl[r] # NoCleanup ~> cl[r] = NoCleanup

\* A cancellation the operator asked for is confirmed, by the request or by the
\* driver's event, whichever comes first, or the run ends in another way.
CancellationEnds == \A r \in Runs : run[r] = "cancelling" ~> Terminal(r)

\* Where nobody cancels, finished work is judged: the run ends, and its result reaches the
\* review of the task (bridge-control-service.ts onAgentEvent, recordTerminal).
WorkIsJudged ==
  /\ \A r \in Runs : driver[r] = "finished" ~> Terminal(r)
  /\ result # {} ~> task \in {"REVIEW_REQUIRED", "COMPLETED"}

\* A driver that failed or exited ends its run.
DeadDriverEndsRun == \A r \in Runs : driver[r] \in {"failed", "exited"} ~> Terminal(r)
=============================================================================
