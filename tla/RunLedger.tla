----------------------------- MODULE RunLedger -----------------------------
(***************************************************************************)
(* What the Bridge promises about the durable records of ONE version of    *)
(* ONE task: the task status, the runs, their session bindings, the        *)
(* approval requests and the submitted result.  Every action is one        *)
(* transaction of the domain repository, with no reader, driver process or *)
(* handler in sight.  BridgeRun models the concurrent handlers and is      *)
(* shown to implement this module.                                         *)
(***************************************************************************)
EXTENDS FiniteSets

CONSTANTS Runs,        \* run ids
          Approvals,   \* approval request ids
          ApprovalRun, \* the run an approval request belongs to
          Fallbacks    \* the requests whose operation is "driver.fallback";
                       \* the others are driver permissions

ASSUME ApprovalAssumption == /\ ApprovalRun \in [Approvals -> Runs]
                             /\ Fallbacks \subseteq Approvals

VARIABLES task,        \* tasks.status
          run,         \* agent_runs.status, "absent" before the record exists
          binding,     \* status of the run's session binding, or "absent"
          approval,    \* status of the approval request, or "absent"
          result       \* the runs with a task_result record

ledger == <<task, run, binding, approval, result>>

TaskStatuses == {"DRAFT", "VALIDATED", "QUEUED", "RUNNING", "WAITING_APPROVAL",
                 "SUBMITTED", "VERIFYING", "REVIEW_REQUIRED", "CHANGES_REQUESTED",
                 "READY_FOR_MERGE", "COMPLETED", "INTERRUPTED", "FAILED",
                 "CANCELLED"}

\* TASK_TRANSITIONS as a set of <<from, event, to>>
TaskTransitions ==
  {<<"DRAFT", "VALIDATE", "VALIDATED">>,
   <<"VALIDATED", "ENQUEUE", "QUEUED">>,
   <<"VALIDATED", "START_NEW_VERSION", "DRAFT">>,
   <<"QUEUED", "START_RUN", "RUNNING">>,
   <<"RUNNING", "REQUEST_APPROVAL", "WAITING_APPROVAL">>,
   <<"WAITING_APPROVAL", "APPROVE_ACTION", "RUNNING">>,
   <<"WAITING_APPROVAL", "DENY_ACTION", "RUNNING">>,
   <<"RUNNING", "SUBMIT", "SUBMITTED">>,
   <<"SUBMITTED", "START_VERIFICATION", "VERIFYING">>,
   <<"VERIFYING", "FAIL", "FAILED">>,
   <<"VERIFYING", "REQUEST_REVIEW", "REVIEW_REQUIRED">>,
   <<"REVIEW_REQUIRED", "REQUEST_CHANGES", "CHANGES_REQUESTED">>,
   <<"REVIEW_REQUIRED", "APPROVE_REVIEW", "READY_FOR_MERGE">>,
   <<"CHANGES_REQUESTED", "RESUME_CHANGES", "RUNNING">>,
   <<"READY_FOR_MERGE", "COMPLETE", "COMPLETED">>}
    \cup {<<s, "INTERRUPT", "INTERRUPTED">> : s \in {"RUNNING", "WAITING_APPROVAL"}}
    \cup {<<s, "FAIL", "FAILED">> : s \in {"RUNNING", "WAITING_APPROVAL"}}
    \cup {<<s, "CANCEL", "CANCELLED">> : s \in {"RUNNING", "WAITING_APPROVAL"}}
    \cup {<<s, "RETRY", "QUEUED">> : s \in {"INTERRUPTED", "FAILED", "CANCELLED"}}
    \cup {<<s, "START_NEW_VERSION", "DRAFT">> :
            s \in {"INTERRUPTED", "FAILED", "CANCELLED", "REVIEW_REQUIRED",
                   "READY_FOR_MERGE", "COMPLETED"}}

\* Mutant: the list of statuses lacks one the transitions lead to.
StatusesWithoutInterrupted == {"created", "running", "waiting_permission", "cancelling",
                               "succeeded", "failed", "cancelled"}

RunStatuses == {"created", "running", "waiting_permission", "cancelling",
                "succeeded", "failed", "cancelled", "interrupted"}

\* AGENT_RUN_TRANSITIONS as a set of <<from, event, to>>
RunTransitions ==
  {<<"created", "START", "running">>,
   <<"created", "FAIL", "failed">>,
   <<"running", "WAIT_FOR_PERMISSION", "waiting_permission">>,
   <<"running", "REQUEST_CANCELLATION", "cancelling">>,
   <<"running", "SUCCEED", "succeeded">>,
   <<"running", "FAIL", "failed">>,
   <<"running", "INTERRUPT", "interrupted">>,
   <<"waiting_permission", "RESUME", "running">>,
   <<"waiting_permission", "REQUEST_CANCELLATION", "cancelling">>,
   <<"waiting_permission", "FAIL", "failed">>,
   <<"waiting_permission", "INTERRUPT", "interrupted">>,
   <<"cancelling", "CONFIRM_CANCELLED", "cancelled">>,
   <<"cancelling", "FAIL", "failed">>,
   <<"cancelling", "INTERRUPT", "interrupted">>}

BindingStatuses == {"ACTIVE", "CLOSED", "FAILED"}

ApprovalStatuses == {"pending", "approved", "denied"}

TerminalRunStatuses == {"succeeded", "failed", "cancelled", "interrupted"}

LiveRunStatuses == RunStatuses \ TerminalRunStatuses

\* A run the Bridge still owes an outcome.
Live(r) == run[r] \in LiveRunStatuses

NoLiveRun == \A r \in Runs : ~Live(r)

\* transitionTask: the next status of the task, if the table has the event.
TaskGoes(event, to) == /\ <<task, event, to>> \in TaskTransitions
                       /\ task' = to

\* transitionAgentRunStatus, for the record of run r.
RunGoes(r, event, to) == /\ <<run[r], event, to>> \in RunTransitions
                         /\ run' = [run EXCEPT ![r] = to]

\* Mutant: the binding is forgotten.
BindingForgotten(r, to) == UNCHANGED binding

\* The ACTIVE binding of r, if there is one, ends in status to.
BindingEnds(r, to) ==
  binding' = [binding EXCEPT ![r] = IF @ = "ACTIVE" THEN to ELSE @]

\* Mutant: only a RUNNING task is interrupted.
OnlyRunningInterrupted == IF task = "RUNNING" THEN TaskGoes("INTERRUPT", "INTERRUPTED")
                                              ELSE task' = task

\* Whatever ends a run early also takes the task out of execution, unless a
\* cancellation already did.
TaskInterrupted == IF task \in {"RUNNING", "WAITING_APPROVAL"}
                     THEN TaskGoes("INTERRUPT", "INTERRUPTED")
                     ELSE task' = task

-----------------------------------------------------------------------------
Init == /\ task = "VALIDATED"
        /\ run = [r \in Runs |-> "absent"]
        /\ binding = [r \in Runs |-> "absent"]
        /\ approval = [a \in Approvals |-> "absent"]
        /\ result = {}

(***************************************************************************)
(* Starting: bridge_start_task, and the retry of a run that ended.         *)
(***************************************************************************)

\* bridge_start_task_queue
Enqueue == /\ TaskGoes("ENQUEUE", "QUEUED")
           /\ UNCHANGED <<run, binding, approval, result>>

\* management_retry_queue
Retry == /\ NoLiveRun
         /\ TaskGoes("RETRY", "QUEUED")
         /\ UNCHANGED <<run, binding, approval, result>>

\* bridge_start_task_running and management_retry_start
StartRun == /\ TaskGoes("START_RUN", "RUNNING")
            /\ UNCHANGED <<run, binding, approval, result>>

\* bridge_start_task_failed and management_retry_failed
FailStart == /\ NoLiveRun
             /\ task = "RUNNING"
             /\ TaskGoes("FAIL", "FAILED")
             /\ UNCHANGED <<run, binding, approval, result>>

\* Mutant: a live run is not looked for.
CreateAnotherRun(r) == /\ task = "RUNNING"
                       /\ run[r] = "absent"
                       /\ run' = [run EXCEPT ![r] = "created"]
                       /\ UNCHANGED <<task, binding, approval, result>>

\* bridge_start_task_create: a run is only ever created for a RUNNING task
\* that has no other live run.
CreateRun(r) == /\ NoLiveRun
                /\ task = "RUNNING"
                /\ run[r] = "absent"
                /\ run' = [run EXCEPT ![r] = "created"]
                /\ UNCHANGED <<task, binding, approval, result>>

\* bridge_start_task_outcome: the driver accepted the task
RunStarted(r) == /\ RunGoes(r, "START", "running")
                 /\ binding' = [binding EXCEPT ![r] = "ACTIVE"]
                 /\ UNCHANGED <<task, approval, result>>

\* bridge_start_task_outcome: it did not, or the outcome is unknown
RunStartFailed(r) == /\ run[r] = "created"
                     /\ RunGoes(r, "FAIL", "failed")
                     /\ UNCHANGED <<task, binding, approval, result>>

(***************************************************************************)
(* Approvals: the fallback driver and the driver's permission requests.    *)
(***************************************************************************)

\* Mutant: the fallback is asked for although a run is live.
RequestFallbackAnyway(a) == /\ a \in Fallbacks
                            /\ approval[a] = "absent"
                            /\ TaskGoes("REQUEST_APPROVAL", "WAITING_APPROVAL")
                            /\ approval' = [approval EXCEPT ![a] = "pending"]
                            /\ UNCHANGED <<run, binding, result>>

\* bridge_driver_fallback_requested and management_retry_fallback_approval
RequestFallback(a) == /\ a \in Fallbacks
                      /\ NoLiveRun
                      /\ approval[a] = "absent"
                      /\ TaskGoes("REQUEST_APPROVAL", "WAITING_APPROVAL")
                      /\ approval' = [approval EXCEPT ![a] = "pending"]
                      /\ UNCHANGED <<run, binding, result>>

\* management_decide_control_approval
ApproveFallback(a) == /\ a \in Fallbacks
                      /\ approval[a] = "pending"
                      /\ TaskGoes("APPROVE_ACTION", "RUNNING")
                      /\ approval' = [approval EXCEPT ![a] = "approved"]
                      /\ UNCHANGED <<run, binding, result>>

\* management_decide_control_approval: DENY_ACTION then FAIL in one commit
RejectFallback(a) == /\ a \in Fallbacks
                     /\ approval[a] = "pending"
                     /\ <<task, "DENY_ACTION", "RUNNING">> \in TaskTransitions
                     /\ TaskGoes("FAIL", "FAILED")
                     /\ approval' = [approval EXCEPT ![a] = "denied"]
                     /\ UNCHANGED <<run, binding, result>>

\* driver_permission_requested
RequestPermission(a) == LET r == ApprovalRun[a] IN
  /\ a \in Approvals \ Fallbacks
  /\ approval[a] = "absent"
  /\ RunGoes(r, "WAIT_FOR_PERMISSION", "waiting_permission")
  /\ TaskGoes("REQUEST_APPROVAL", "WAITING_APPROVAL")
  /\ approval' = [approval EXCEPT ![a] = "pending"]
  /\ UNCHANGED <<binding, result>>

\* management_decide_approval, approved
ApprovePermission(a) == LET r == ApprovalRun[a] IN
  /\ a \in Approvals \ Fallbacks
  /\ approval[a] = "pending"
  /\ RunGoes(r, "RESUME", "running")
  /\ TaskGoes("APPROVE_ACTION", "RUNNING")
  /\ approval' = [approval EXCEPT ![a] = "approved"]
  /\ UNCHANGED <<binding, result>>

\* management_decide_approval, rejected: the run is over
RejectPermission(a) == LET r == ApprovalRun[a] IN
  /\ a \in Approvals \ Fallbacks
  /\ approval[a] = "pending"
  /\ run[r] = "waiting_permission"
  /\ RunGoes(r, "INTERRUPT", "interrupted")
  /\ TaskGoes("INTERRUPT", "INTERRUPTED")
  /\ BindingEnds(r, "FAILED")
  /\ approval' = [approval EXCEPT ![a] = "denied"]
  /\ UNCHANGED result

(***************************************************************************)
(* Ending a run.                                                           *)
(***************************************************************************)

\* Mutant: the task is left as it was.
CancelOnlyRun(r) == /\ RunGoes(r, "REQUEST_CANCELLATION", "cancelling")
                    /\ UNCHANGED <<task, binding, approval, result>>

\* management_cancel_run
RequestCancel(r) == /\ RunGoes(r, "REQUEST_CANCELLATION", "cancelling")
                    /\ TaskGoes("CANCEL", "CANCELLED")
                    /\ UNCHANGED <<binding, approval, result>>

\* management_cancel_run_confirm, or the driver's run.cancelled
ConfirmCancel(r) == /\ RunGoes(r, "CONFIRM_CANCELLED", "cancelled")
                    /\ BindingEnds(r, "CLOSED")
                    /\ UNCHANGED <<task, approval, result>>

\* Mutant: the event is believed whatever became of the run.
DriverFailedLate(r) == /\ run[r] \notin {"absent", "created"}
                       /\ run' = [run EXCEPT ![r] = "failed"]
                       /\ BindingEnds(r, "FAILED")
                       /\ TaskInterrupted
                       /\ UNCHANGED <<approval, result>>

\* driver_run_terminal_failure
DriverFailed(r) == /\ run[r] # "created"
                   /\ RunGoes(r, "FAIL", "failed")
                   /\ \E s \in {"CLOSED", "FAILED"} : BindingEnds(r, s)
                   /\ TaskInterrupted
                   /\ UNCHANGED <<approval, result>>

\* bridge_interrupt_unrecoverable_run
Interrupt(r) == /\ \/ /\ run[r] = "created"
                      /\ RunGoes(r, "FAIL", "failed")
                   \/ RunGoes(r, "INTERRUPT", "interrupted")
                /\ BindingEnds(r, "FAILED")
                /\ TaskInterrupted
                /\ UNCHANGED <<approval, result>>

\* Mutant: the task is not submitted with the run.
SubmitOnlyRun(r) == /\ RunGoes(r, "SUCCEED", "succeeded")
                    /\ BindingEnds(r, "CLOSED")
                    /\ result' = result \cup {r}
                    /\ UNCHANGED <<task, approval>>

\* driver_run_submitted
Submit(r) == /\ RunGoes(r, "SUCCEED", "succeeded")
             /\ TaskGoes("SUBMIT", "SUBMITTED")
             /\ BindingEnds(r, "CLOSED")
             /\ result' = result \cup {r}
             /\ UNCHANGED approval

(***************************************************************************)
(* After the run: verification, review, completion.                        *)
(***************************************************************************)
StartVerification == /\ TaskGoes("START_VERIFICATION", "VERIFYING")
                     /\ UNCHANGED <<run, binding, approval, result>>

RequestReview == /\ TaskGoes("REQUEST_REVIEW", "REVIEW_REQUIRED")
                 /\ UNCHANGED <<run, binding, approval, result>>

ApproveReview == /\ TaskGoes("APPROVE_REVIEW", "READY_FOR_MERGE")
                 /\ UNCHANGED <<run, binding, approval, result>>

Complete == /\ TaskGoes("COMPLETE", "COMPLETED")
            /\ UNCHANGED <<run, binding, approval, result>>

RunStep(r) == \/ CreateRun(r) \/ RunStarted(r) \/ RunStartFailed(r)
              \/ RequestCancel(r) \/ ConfirmCancel(r)
              \/ DriverFailed(r) \/ Interrupt(r) \/ Submit(r)

ApprovalStep(a) == \/ RequestFallback(a) \/ ApproveFallback(a) \/ RejectFallback(a)
                   \/ RequestPermission(a) \/ ApprovePermission(a)
                   \/ RejectPermission(a)

TaskStep == \/ Enqueue \/ Retry \/ StartRun \/ FailStart
            \/ StartVerification \/ RequestReview \/ ApproveReview \/ Complete

Next == \/ TaskStep
        \/ \E r \in Runs : RunStep(r)
        \/ \E a \in Approvals : ApprovalStep(a)

Spec == Init /\ [][Next]_ledger

-----------------------------------------------------------------------------
(***************************************************************************)
(* What the records promise.                                               *)
(***************************************************************************)

\* Every record holds a status of its lifecycle, or is absent.
TypeOK == /\ task \in TaskStatuses
          /\ run \in [Runs -> RunStatuses \cup {"absent"}]
          /\ binding \in [Runs -> BindingStatuses \cup {"absent"}]
          /\ approval \in [Approvals -> ApprovalStatuses \cup {"absent"}]
          /\ result \in SUBSET Runs

\* One run at a time: retries, fallbacks and recoveries of a task version never
\* leave two runs that both still await an outcome.
OneLiveRun == \A r, s \in Runs : Live(r) /\ Live(s) => r = s

\* The status of a live run and the status of the task agree, though three
\* components write them: an operator who sees a RUNNING task is not looking at
\* a run that waits for an answer, and a cancelled task has no working run.
TaskStatusOf(s) == CASE s \in {"created", "running"} -> "RUNNING"
                     [] s = "waiting_permission" -> "WAITING_APPROVAL"
                     [] s = "cancelling" -> "CANCELLED"

RunTaskAgreement == \A r \in Runs : Live(r) => task = TaskStatusOf(run[r])

\* A session is bound to a run exactly while a driver may work for it: events
\* of the run are then attributed to a session, and to none afterwards.
BoundWhileLive ==
  \A r \in Runs : binding[r] = "ACTIVE" <=> Live(r) /\ run[r] # "created"

\* A task waits for an approval only while there is a request to decide, and
\* exactly one: of the waiting run, or for the fallback of a run not created.
Decidable(a) == /\ approval[a] = "pending"
                /\ IF a \in Fallbacks THEN NoLiveRun
                                       ELSE run[ApprovalRun[a]] = "waiting_permission"

WaitingIsDecidable ==
  task = "WAITING_APPROVAL" => \E a \in Approvals : Decidable(a)

DecidableIsUnique ==
  \A a, b \in Approvals :
    task = "WAITING_APPROVAL" /\ Decidable(a) /\ Decidable(b) => a = b

\* A request left undecided never comes back to life: an undecided fallback is
\* what its task waits for, and an undecided permission belongs to a run that
\* waits for it or is on its way out; neither has a rival.
PendingFallback ==
  /\ \A a \in Fallbacks :
       approval[a] = "pending" => task = "WAITING_APPROVAL" /\ NoLiveRun
  /\ \A a, b \in Fallbacks :
       approval[a] = "pending" /\ approval[b] = "pending" => a = b

PendingPermission ==
  /\ \A a \in Approvals \ Fallbacks :
       approval[a] = "pending" => run[ApprovalRun[a]] \notin {"absent", "created", "running"}
  /\ \A a, b \in Approvals \ Fallbacks :
       /\ approval[a] = "pending" /\ approval[b] = "pending"
       /\ ApprovalRun[a] = ApprovalRun[b]
       => a = b

PendingRequests == PendingFallback /\ PendingPermission

\* A task passes SUBMITTED exactly when one run succeeded and its result was
\* recorded: no task is reviewed without a result and no result is lost.
SubmittedStatuses == {"SUBMITTED", "VERIFYING", "REVIEW_REQUIRED",
                      "READY_FOR_MERGE", "COMPLETED"}

ResultIsOfTheSuccess ==
  /\ result = {r \in Runs : run[r] = "succeeded"}
  /\ \A r, s \in result : r = s
  /\ task \in SubmittedStatuses <=> result # {}

\* An outcome is final: no late event, retry or recovery rewrites the status of
\* a run that ended or a decision that was made.
OutcomesAreFinal ==
  [][/\ \A r \in Runs : run[r] \in TerminalRunStatuses => run'[r] = run[r]
     /\ \A a \in Approvals :
          approval[a] \in {"approved", "denied"} => approval'[a] = approval[a]]_ledger
=============================================================================
