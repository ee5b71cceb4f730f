-------------------------- MODULE RunLedgerProofs --------------------------
(***************************************************************************)
(* Proofs about RunLedger, for any set of runs and approval requests.      *)
(*                                                                         *)
(* The ledger's safety properties are not inductive one by one: that a     *)
(* waiting task has a request to decide needs that its run waits too, that *)
(* its run is the only live one, and that an undecided request of an       *)
(* earlier wait cannot become decidable again.  IInv is their conjunction  *)
(* with PendingRequests, and Induction proves it step by step.  Most steps *)
(* fall under one of two schemes, TaskMoves (the task goes on while no run *)
(* is live) and RunEnds (the live run ends without a result).              *)
(***************************************************************************)
EXTENDS RunLedger, TLAPS

(***************************************************************************)
(* The transition tables, read by event.                                   *)
(***************************************************************************)

\* TASK_TRANSITIONS: what each event the ledger uses starts from and leads to.
LEMMA TaskTable ==
  ASSUME NEW s, NEW t
  PROVE  /\ <<s, "ENQUEUE", t>> \in TaskTransitions => s = "VALIDATED" /\ t = "QUEUED"
         /\ <<s, "START_RUN", t>> \in TaskTransitions => s = "QUEUED" /\ t = "RUNNING"
         /\ <<s, "REQUEST_APPROVAL", t>> \in TaskTransitions
              => s = "RUNNING" /\ t = "WAITING_APPROVAL"
         /\ <<s, "APPROVE_ACTION", t>> \in TaskTransitions
              => s = "WAITING_APPROVAL" /\ t = "RUNNING"
         /\ <<s, "DENY_ACTION", t>> \in TaskTransitions
              => s = "WAITING_APPROVAL" /\ t = "RUNNING"
         /\ <<s, "INTERRUPT", t>> \in TaskTransitions
              => s \in {"RUNNING", "WAITING_APPROVAL"} /\ t = "INTERRUPTED"
         /\ <<s, "CANCEL", t>> \in TaskTransitions
              => s \in {"RUNNING", "WAITING_APPROVAL"} /\ t = "CANCELLED"
         /\ <<s, "FAIL", t>> \in TaskTransitions
              => s \in {"RUNNING", "WAITING_APPROVAL", "VERIFYING"} /\ t = "FAILED"
         /\ <<s, "RETRY", t>> \in TaskTransitions
              => s \in {"INTERRUPTED", "FAILED", "CANCELLED"} /\ t = "QUEUED"
         /\ <<s, "SUBMIT", t>> \in TaskTransitions => s = "RUNNING" /\ t = "SUBMITTED"
         /\ <<s, "START_VERIFICATION", t>> \in TaskTransitions
              => s = "SUBMITTED" /\ t = "VERIFYING"
         /\ <<s, "REQUEST_REVIEW", t>> \in TaskTransitions
              => s = "VERIFYING" /\ t = "REVIEW_REQUIRED"
         /\ <<s, "APPROVE_REVIEW", t>> \in TaskTransitions
              => s = "REVIEW_REQUIRED" /\ t = "READY_FOR_MERGE"
         /\ <<s, "COMPLETE", t>> \in TaskTransitions
              => s = "READY_FOR_MERGE" /\ t = "COMPLETED"
  BY DEF TaskTransitions

\* AGENT_RUN_TRANSITIONS, likewise.
LEMMA RunTable ==
  ASSUME NEW s, NEW t
  PROVE  /\ <<s, "START", t>> \in RunTransitions => s = "created" /\ t = "running"
         /\ <<s, "WAIT_FOR_PERMISSION", t>> \in RunTransitions
              => s = "running" /\ t = "waiting_permission"
         /\ <<s, "RESUME", t>> \in RunTransitions
              => s = "waiting_permission" /\ t = "running"
         /\ <<s, "REQUEST_CANCELLATION", t>> \in RunTransitions
              => s \in {"running", "waiting_permission"} /\ t = "cancelling"
         /\ <<s, "CONFIRM_CANCELLED", t>> \in RunTransitions
              => s = "cancelling" /\ t = "cancelled"
         /\ <<s, "SUCCEED", t>> \in RunTransitions => s = "running" /\ t = "succeeded"
         /\ <<s, "FAIL", t>> \in RunTransitions
              => s \in {"created", "running", "waiting_permission", "cancelling"} /\ t = "failed"
         /\ <<s, "INTERRUPT", t>> \in RunTransitions
              => s \in {"running", "waiting_permission", "cancelling"} /\ t = "interrupted"
  BY DEF RunTransitions

(***************************************************************************)
(* Type correctness.                                                       *)
(***************************************************************************)

\* Every transaction writes statuses of the lifecycles only, for the transition
\* tables lead nowhere else.
LEMMA TypeOKStep ==
  ASSUME TypeOK, [Next]_ledger
  PROVE  TypeOK'
<1> USE ApprovalAssumption DEF TypeOK
<1>1. \A event, to : TaskGoes(event, to) => task' \in TaskStatuses
  BY DEF TaskGoes, TaskTransitions, TaskStatuses
<1>2. \A r \in Runs : \A event, to :
        RunGoes(r, event, to) => run' \in [Runs -> RunStatuses \cup {"absent"}]
  BY DEF RunGoes, RunTransitions, RunStatuses
<1>3. \A r \in Runs, to \in BindingStatuses :
        BindingEnds(r, to) => binding' \in [Runs -> BindingStatuses \cup {"absent"}]
  BY DEF BindingEnds, BindingStatuses
<1>4. CASE TaskStep
  BY <1>1, <1>4 DEF TaskStep, Enqueue, Retry, StartRun, FailStart, StartVerification,
     RequestReview, ApproveReview, Complete
<1>5. ASSUME NEW r \in Runs, RunStep(r) PROVE TypeOK'
  <2>1. CASE CreateRun(r)
    BY <2>1 DEF CreateRun, RunStatuses
  <2>2. CASE RunStarted(r)
    BY <1>2, <2>2 DEF RunStarted, BindingStatuses
  <2>3. CASE RunStartFailed(r)
    BY <1>2, <2>3 DEF RunStartFailed
  <2>4. CASE RequestCancel(r)
    BY <1>1, <1>2, <2>4 DEF RequestCancel
  <2>5. CASE ConfirmCancel(r)
    BY <1>2, <1>3, <2>5 DEF ConfirmCancel, BindingStatuses
  <2>6. CASE DriverFailed(r)
    BY <1>1, <1>2, <1>3, <2>6 DEF DriverFailed, TaskInterrupted, BindingStatuses
  <2>7. CASE Interrupt(r)
    BY <1>1, <1>2, <1>3, <2>7 DEF Interrupt, TaskInterrupted, BindingStatuses
  <2>8. CASE Submit(r)
    BY <1>1, <1>2, <1>3, <2>8 DEF Submit, BindingStatuses
  <2> QED BY <1>5, <2>1, <2>2, <2>3, <2>4, <2>5, <2>6, <2>7, <2>8 DEF RunStep
<1>6. ASSUME NEW a \in Approvals, ApprovalStep(a) PROVE TypeOK'
  <2>1. CASE RequestFallback(a)
    BY <1>1, <2>1 DEF RequestFallback, ApprovalStatuses
  <2>2. CASE ApproveFallback(a)
    BY <1>1, <2>2 DEF ApproveFallback, ApprovalStatuses
  <2>3. CASE RejectFallback(a)
    BY <1>1, <2>3 DEF RejectFallback, ApprovalStatuses
  <2>4. CASE RequestPermission(a)
    BY <1>1, <1>2, <2>4 DEF RequestPermission, ApprovalStatuses
  <2>5. CASE ApprovePermission(a)
    BY <1>1, <1>2, <2>5 DEF ApprovePermission, ApprovalStatuses
  <2>6. CASE RejectPermission(a)
    BY <1>1, <1>2, <1>3, <2>6 DEF RejectPermission, ApprovalStatuses, BindingStatuses
  <2> QED BY <1>6, <2>1, <2>2, <2>3, <2>4, <2>5, <2>6 DEF ApprovalStep
<1>7. CASE UNCHANGED ledger
  BY <1>7 DEF ledger
<1> QED BY <1>4, <1>5, <1>6, <1>7 DEF Next

\* Every record always holds a status of its lifecycle: the two transition
\* tables lead nowhere else.
THEOREM TypeCorrect == Spec => []TypeOK
<1>1. Init => TypeOK
  BY DEF Init, TypeOK, TaskStatuses
<1> QED
  BY <1>1, TypeOKStep, PTL DEF Spec

(***************************************************************************)
(* The inductive invariant.                                                *)
(***************************************************************************)

IInv == /\ TypeOK
        /\ OneLiveRun
        /\ RunTaskAgreement
        /\ BoundWhileLive
        /\ WaitingIsDecidable
        /\ PendingRequests
        /\ ResultIsOfTheSuccess

\* A validated task has no run, binding, request or result yet.
LEMMA InitIInv == Init => IInv
<1> SUFFICES ASSUME Init PROVE IInv
  OBVIOUS
<1>1. TypeOK
  BY DEF Init, TypeOK, TaskStatuses
<1>2. \A r \in Runs : ~Live(r) /\ run[r] = "absent"
  BY DEF Init, Live, LiveRunStatuses, RunStatuses
<1>3. OneLiveRun /\ RunTaskAgreement /\ BoundWhileLive
  BY <1>2 DEF Init, OneLiveRun, RunTaskAgreement, BoundWhileLive
<1>4. WaitingIsDecidable /\ PendingRequests
  BY ApprovalAssumption
     DEF Init, WaitingIsDecidable, PendingRequests, PendingFallback, PendingPermission
<1>5. ResultIsOfTheSuccess
  BY <1>2 DEF Init, ResultIsOfTheSuccess, SubmittedStatuses
<1> QED
  BY <1>1, <1>3, <1>4, <1>5 DEF IInv

\* The live statuses, listed.
LEMMA LiveStatuses ==
  /\ \A r : Live(r) <=> run[r] \in {"created", "running", "waiting_permission", "cancelling"}
  /\ \A r : Live(r)' <=> run'[r] \in {"created", "running", "waiting_permission", "cancelling"}
  BY DEF Live, LiveRunStatuses, RunStatuses, TerminalRunStatuses

\* What the task's status says of the runs, and what a live run says of the task.
LEMMA LiveRunOfTask ==
  ASSUME IInv
  PROVE  /\ task \notin {"RUNNING", "WAITING_APPROVAL", "CANCELLED"} => NoLiveRun
         /\ \A r \in Runs :
              /\ run[r] \in {"created", "running"} => task = "RUNNING"
              /\ run[r] = "waiting_permission" => task = "WAITING_APPROVAL"
              /\ run[r] = "cancelling" => task = "CANCELLED"
  BY LiveStatuses DEF IInv, RunTaskAgreement, TaskStatusOf, NoLiveRun

\* Moving run r leaves the other runs as they are.
LEMMA RunMoves ==
  ASSUME TypeOK, NEW r \in Runs, NEW s, run' = [run EXCEPT ![r] = s]
  PROVE  /\ run'[r] = s
         /\ \A q \in Runs : q # r => run'[q] = run[q] /\ (Live(q)' <=> Live(q))
  BY LiveStatuses DEF TypeOK

\* So does ending its binding, which is then not ACTIVE.
LEMMA BindingMoves ==
  ASSUME TypeOK, NEW r \in Runs, NEW s \in {"CLOSED", "FAILED"}, BindingEnds(r, s)
  PROVE  /\ binding'[r] # "ACTIVE"
         /\ \A q \in Runs : q # r => binding'[q] = binding[q]
  BY DEF TypeOK, BindingEnds

\* Deciding or making request a leaves the other requests as they are.
LEMMA ApprovalMoves ==
  ASSUME TypeOK, NEW a \in Approvals, NEW s, approval' = [approval EXCEPT ![a] = s]
  PROVE  /\ approval'[a] = s
         /\ \A b \in Approvals : b # a => approval'[b] = approval[b]
  BY DEF TypeOK

(***************************************************************************)
(* Scheme 1: no run is live, and the task goes on by itself.               *)
(***************************************************************************)

\* IInv speaks of the task only through its waiting and its being submitted.
LEMMA TaskMoves ==
  ASSUME IInv, TypeOK', NoLiveRun,
         UNCHANGED <<run, binding, approval, result>>,
         task # "WAITING_APPROVAL", task' # "WAITING_APPROVAL",
         task' \in SubmittedStatuses <=> task \in SubmittedStatuses
  PROVE  IInv'
<1> USE DEF IInv
<1>1. \A r \in Runs : ~Live(r)' /\ run'[r] = run[r] /\ binding'[r] = binding[r]
  BY LiveStatuses DEF NoLiveRun
<1>2. OneLiveRun' /\ RunTaskAgreement'
  BY <1>1 DEF OneLiveRun, RunTaskAgreement
<1>3. BoundWhileLive'
  BY <1>1 DEF BoundWhileLive, NoLiveRun
<1>4. WaitingIsDecidable'
  BY DEF WaitingIsDecidable
<1>5. PendingRequests'
  BY DEF PendingRequests, PendingFallback, PendingPermission, NoLiveRun
<1>6. ResultIsOfTheSuccess'
  BY DEF ResultIsOfTheSuccess
<1> QED
  BY <1>2, <1>3, <1>4, <1>5, <1>6

(***************************************************************************)
(* Scheme 2: the live run ends without a result, nothing new is asked, and *)
(* the task does not wait afterwards.                                      *)
(***************************************************************************)

\* Nothing is live afterwards, and the requests of the run stay undecided.
LEMMA RunEnds ==
  ASSUME IInv, TypeOK', NEW r \in Runs, Live(r),
         NEW s \in {"failed", "cancelled", "interrupted"},
         run' = [run EXCEPT ![r] = s],
         binding'[r] # "ACTIVE",
         \A q \in Runs : q # r => binding'[q] = binding[q],
         \A a \in Approvals : approval'[a] = "pending" => approval[a] = "pending",
         result' = result,
         task' # "WAITING_APPROVAL",
         task' \in SubmittedStatuses <=> task \in SubmittedStatuses
  PROVE  IInv'
<1> USE DEF IInv
<1>1. \A q \in Runs : ~Live(q)'
  BY RunMoves, LiveStatuses DEF OneLiveRun
<1>2. OneLiveRun' /\ RunTaskAgreement'
  BY <1>1 DEF OneLiveRun, RunTaskAgreement
<1>3. BoundWhileLive'
  BY <1>1, RunMoves DEF BoundWhileLive, OneLiveRun
<1>4. WaitingIsDecidable'
  BY DEF WaitingIsDecidable
<1>5. PendingFallback'
  BY ApprovalAssumption DEF PendingRequests, PendingFallback, NoLiveRun
<1>6. PendingPermission'
  BY RunMoves, ApprovalAssumption DEF PendingRequests, PendingPermission
<1>7. ResultIsOfTheSuccess'
  <2>1. run[r] # "succeeded"
    BY LiveStatuses
  <2>2. \A q \in Runs : run'[q] = "succeeded" <=> run[q] = "succeeded"
    BY <2>1, RunMoves
  <2> QED
    BY <2>2 DEF ResultIsOfTheSuccess
<1> QED
  BY <1>2, <1>3, <1>4, <1>5, <1>6, <1>7 DEF PendingRequests

(***************************************************************************)
(* The steps of the task alone.                                            *)
(***************************************************************************)

\* Starting and failing a task without a live run, and all that follows its result.
LEMMA TaskStepKeepsIInv ==
  ASSUME IInv, TypeOK', TaskStep
  PROVE  IInv'
<1> USE TaskTable, TaskMoves, LiveRunOfTask DEF TaskGoes, SubmittedStatuses
<1>1. CASE Enqueue
  BY <1>1 DEF Enqueue
<1>2. CASE Retry
  BY <1>2 DEF Retry
<1>3. CASE StartRun
  BY <1>3 DEF StartRun
<1>4. CASE FailStart
  BY <1>4 DEF FailStart
<1>5. CASE StartVerification
  BY <1>5 DEF StartVerification
<1>6. CASE RequestReview
  BY <1>6 DEF RequestReview
<1>7. CASE ApproveReview
  BY <1>7 DEF ApproveReview
<1>8. CASE Complete
  BY <1>8 DEF Complete
<1> QED
  BY <1>1, <1>2, <1>3, <1>4, <1>5, <1>6, <1>7, <1>8 DEF TaskStep

(***************************************************************************)
(* The steps of a run.                                                     *)
(***************************************************************************)

\* The new run is the only live one, for the task had none.
LEMMA CreateRunKeepsIInv ==
  ASSUME IInv, TypeOK', NEW r \in Runs, CreateRun(r)
  PROVE  IInv'
<1> USE DEF IInv
<1>1. /\ NoLiveRun /\ task = "RUNNING" /\ run[r] = "absent"
      /\ run' = [run EXCEPT ![r] = "created"]
      /\ UNCHANGED <<task, binding, approval, result>>
  BY DEF CreateRun
<1>2. \A q \in Runs : Live(q)' <=> q = r
  BY <1>1, RunMoves, LiveStatuses DEF NoLiveRun
<1>3. OneLiveRun'
  BY <1>2 DEF OneLiveRun
<1>4. RunTaskAgreement'
  BY <1>1, <1>2, RunMoves DEF RunTaskAgreement, TaskStatusOf
<1>5. BoundWhileLive'
  BY <1>1, <1>2, RunMoves DEF BoundWhileLive, NoLiveRun
<1>6. WaitingIsDecidable'
  BY <1>1 DEF WaitingIsDecidable
<1>7. PendingRequests'
  BY <1>1, RunMoves, ApprovalAssumption DEF PendingRequests, PendingFallback, PendingPermission
<1>8. ResultIsOfTheSuccess'
  BY <1>1, RunMoves DEF ResultIsOfTheSuccess
<1> QED
  BY <1>3, <1>4, <1>5, <1>6, <1>7, <1>8

\* The created run gets its binding as it starts to work.
LEMMA RunStartedKeepsIInv ==
  ASSUME IInv, TypeOK', NEW r \in Runs, RunStarted(r)
  PROVE  IInv'
<1> USE DEF IInv
<1>1. /\ run[r] = "created" /\ run' = [run EXCEPT ![r] = "running"]
      /\ binding' = [binding EXCEPT ![r] = "ACTIVE"]
      /\ UNCHANGED <<task, approval, result>>
  BY RunTable DEF RunStarted, RunGoes
<1>2. task = "RUNNING"
  BY <1>1, LiveRunOfTask
<1>3. \A q \in Runs : Live(q)' <=> Live(q)
  BY <1>1, RunMoves, LiveStatuses
<1>4. OneLiveRun'
  BY <1>3 DEF OneLiveRun
<1>5. RunTaskAgreement'
  BY <1>1, <1>2, <1>3, RunMoves DEF RunTaskAgreement, TaskStatusOf
<1>6. BoundWhileLive'
  BY <1>1, <1>3, RunMoves, LiveStatuses DEF BoundWhileLive, TypeOK
<1>7. WaitingIsDecidable'
  BY <1>1, <1>2 DEF WaitingIsDecidable
<1>8. PendingRequests'
  BY <1>1, <1>2, RunMoves, ApprovalAssumption
     DEF PendingRequests, PendingFallback, PendingPermission
<1>9. ResultIsOfTheSuccess'
  BY <1>1, RunMoves DEF ResultIsOfTheSuccess
<1> QED
  BY <1>4, <1>5, <1>6, <1>7, <1>8, <1>9

\* The cancelled task has a cancelling run, which is still bound; an undecided
\* permission request stays undecided.
LEMMA RequestCancelKeepsIInv ==
  ASSUME IInv, TypeOK', NEW r \in Runs, RequestCancel(r)
  PROVE  IInv'
<1> USE DEF IInv
<1>1. /\ run[r] \in {"running", "waiting_permission"}
      /\ run' = [run EXCEPT ![r] = "cancelling"]
      /\ task \in {"RUNNING", "WAITING_APPROVAL"} /\ task' = "CANCELLED"
      /\ UNCHANGED <<binding, approval, result>>
  BY RunTable, TaskTable DEF RequestCancel, RunGoes, TaskGoes
<1>2. \A q \in Runs : Live(q)' <=> q = r
  BY <1>1, RunMoves, LiveStatuses DEF OneLiveRun
<1>3. Live(r)
  BY <1>1, LiveStatuses
<1>4. OneLiveRun'
  BY <1>2 DEF OneLiveRun
<1>5. RunTaskAgreement'
  <2>1. run'[r] = "cancelling"
    BY <1>1, RunMoves
  <2> QED
    BY <1>1, <1>2, <2>1 DEF RunTaskAgreement, TaskStatusOf
<1>6. BoundWhileLive'
  BY <1>1, <1>2, <1>3, RunMoves DEF BoundWhileLive, OneLiveRun
<1>7. WaitingIsDecidable'
  BY <1>1 DEF WaitingIsDecidable
<1>8. PendingFallback'
  BY <1>1, <1>3, ApprovalAssumption DEF PendingRequests, PendingFallback, NoLiveRun
<1>9. PendingPermission'
  BY <1>1, RunMoves, ApprovalAssumption DEF PendingRequests, PendingPermission
<1>10. ResultIsOfTheSuccess'
  BY <1>1, RunMoves DEF ResultIsOfTheSuccess, SubmittedStatuses
<1> QED
  BY <1>4, <1>5, <1>6, <1>7, <1>8, <1>9, <1>10 DEF PendingRequests

\* The run succeeds, so it is the first to: its task was still RUNNING.
LEMMA SubmitKeepsIInv ==
  ASSUME IInv, TypeOK', NEW r \in Runs, Submit(r)
  PROVE  IInv'
<1> USE DEF IInv
<1>1. /\ run[r] = "running" /\ run' = [run EXCEPT ![r] = "succeeded"]
      /\ task = "RUNNING" /\ task' = "SUBMITTED"
      /\ BindingEnds(r, "CLOSED")
      /\ result' = result \cup {r}
      /\ UNCHANGED approval
  <2>1. run[r] = "running" /\ run' = [run EXCEPT ![r] = "succeeded"]
    BY RunTable DEF Submit, RunGoes
  <2>2. task = "RUNNING" /\ task' = "SUBMITTED"
    BY TaskTable DEF Submit, TaskGoes
  <2> QED
    BY <2>1, <2>2 DEF Submit
<1>a. Live(r) /\ \A q \in Runs : q # r => ~Live(q)
  BY <1>1, LiveStatuses DEF OneLiveRun
<1>b. run'[r] = "succeeded" /\ \A q \in Runs : q # r => (Live(q)' <=> Live(q))
  BY <1>1, RunMoves
<1>2. \A q \in Runs : ~Live(q)'
  BY <1>a, <1>b, LiveStatuses
<1>3. OneLiveRun' /\ RunTaskAgreement'
  BY <1>2 DEF OneLiveRun, RunTaskAgreement
<1>4. BoundWhileLive'
  BY <1>1, <1>2, <1>a, BindingMoves DEF BoundWhileLive
<1>5. WaitingIsDecidable'
  BY <1>1 DEF WaitingIsDecidable
<1>6. PendingFallback'
  BY <1>1, ApprovalAssumption DEF PendingRequests, PendingFallback
<1>7. PendingPermission'
  BY <1>1, RunMoves, ApprovalAssumption DEF PendingRequests, PendingPermission
<1>8. ResultIsOfTheSuccess'
  <2>1. result = {}
    BY <1>1 DEF ResultIsOfTheSuccess, SubmittedStatuses
  <2>2. result' = {q \in Runs : run'[q] = "succeeded"}
    <3>1. \A q \in Runs : run[q] # "succeeded"
      BY <2>1 DEF ResultIsOfTheSuccess
    <3>2. \A q \in Runs : run'[q] = "succeeded" <=> q = r
      BY <1>1, <3>1, RunMoves
    <3> QED
      BY <1>1, <2>1, <3>2
  <2>3. (task' \in SubmittedStatuses) /\ result' = {r}
    BY <1>1, <2>1 DEF SubmittedStatuses
  <2> QED
    BY <2>2, <2>3 DEF ResultIsOfTheSuccess
<1> QED
  BY <1>3, <1>4, <1>5, <1>6, <1>7, <1>8 DEF PendingRequests

\* Every transaction of a run, from its creation to its end.
LEMMA RunStepKeepsIInv ==
  ASSUME IInv, TypeOK', NEW r \in Runs, RunStep(r)
  PROVE  IInv'
<1> USE DEF IInv
<1>a. TaskInterrupted => /\ task' # "WAITING_APPROVAL"
                         /\ task' \in SubmittedStatuses <=> task \in SubmittedStatuses
  BY TaskTable DEF TaskInterrupted, TaskGoes, SubmittedStatuses
<1>1. CASE CreateRun(r)
  BY <1>1, CreateRunKeepsIInv
<1>2. CASE RunStarted(r)
  BY <1>2, RunStartedKeepsIInv
<1>3. CASE RunStartFailed(r)
  <2>1. /\ run[r] = "created" /\ run' = [run EXCEPT ![r] = "failed"]
        /\ UNCHANGED <<task, binding, approval, result>>
    BY <1>3, RunTable DEF RunStartFailed, RunGoes
  <2>2. Live(r) /\ task = "RUNNING"
    BY <2>1, LiveRunOfTask, LiveStatuses
  <2>3. binding[r] # "ACTIVE"
    BY <2>1 DEF BoundWhileLive
  <2> QED
    BY <2>1, <2>2, <2>3, RunEnds
<1>4. CASE RequestCancel(r)
  BY <1>4, RequestCancelKeepsIInv
<1>5. CASE ConfirmCancel(r)
  <2>1. /\ run[r] = "cancelling" /\ run' = [run EXCEPT ![r] = "cancelled"]
        /\ BindingEnds(r, "CLOSED")
        /\ UNCHANGED <<task, approval, result>>
    BY <1>5, RunTable DEF ConfirmCancel, RunGoes
  <2>2. Live(r) /\ task = "CANCELLED"
    BY <2>1, LiveRunOfTask, LiveStatuses
  <2> QED
    BY <2>1, <2>2, BindingMoves, RunEnds
<1>6. CASE DriverFailed(r)
  <2>1. /\ run[r] \in {"created", "running", "waiting_permission", "cancelling"}
        /\ run' = [run EXCEPT ![r] = "failed"]
        /\ \E s \in {"CLOSED", "FAILED"} : BindingEnds(r, s)
        /\ TaskInterrupted
        /\ UNCHANGED <<approval, result>>
    BY <1>6, RunTable DEF DriverFailed, RunGoes
  <2>2. Live(r)
    BY <2>1, LiveStatuses
  <2> QED
    BY <1>a, <2>1, <2>2, BindingMoves, RunEnds
<1>7. CASE Interrupt(r)
  <2>1. PICK s \in {"failed", "interrupted"} :
          /\ run[r] \in {"created", "running", "waiting_permission", "cancelling"}
          /\ run' = [run EXCEPT ![r] = s]
          /\ BindingEnds(r, "FAILED")
          /\ TaskInterrupted
          /\ UNCHANGED <<approval, result>>
    BY <1>7, RunTable DEF Interrupt, RunGoes
  <2>2. Live(r)
    BY <2>1, LiveStatuses
  <2> QED
    BY <1>a, <2>1, <2>2, BindingMoves, RunEnds
<1>8. CASE Submit(r)
  BY <1>8, SubmitKeepsIInv
<1> QED
  BY <1>1, <1>2, <1>3, <1>4, <1>5, <1>6, <1>7, <1>8 DEF RunStep

(***************************************************************************)
(* The steps of an approval request.                                       *)
(***************************************************************************)

\* Fallback requests are made, approved and rejected while no run is live.
LEMMA RequestFallbackKeepsIInv ==
  ASSUME IInv, TypeOK', NEW a \in Approvals, RequestFallback(a)
  PROVE  IInv'
<1> USE DEF IInv
<1>1. /\ a \in Fallbacks /\ NoLiveRun
      /\ task = "RUNNING" /\ task' = "WAITING_APPROVAL"
      /\ approval' = [approval EXCEPT ![a] = "pending"]
      /\ UNCHANGED <<run, binding, result>>
  BY TaskTable DEF RequestFallback, TaskGoes
<1>2. NoLiveRun' /\ \A q \in Runs : Live(q)' <=> Live(q)
  BY <1>1, LiveStatuses DEF NoLiveRun
<1>3. OneLiveRun' /\ RunTaskAgreement'
  BY <1>2 DEF OneLiveRun, RunTaskAgreement, NoLiveRun
<1>4. BoundWhileLive'
  BY <1>1, <1>2 DEF BoundWhileLive
<1>5. WaitingIsDecidable'
  BY <1>1, <1>2, ApprovalMoves DEF WaitingIsDecidable, Decidable
<1>6. PendingFallback'
  BY <1>1, <1>2, ApprovalMoves, ApprovalAssumption DEF PendingRequests, PendingFallback
<1>7. PendingPermission'
  BY <1>1, ApprovalMoves, ApprovalAssumption DEF PendingRequests, PendingPermission
<1>8. ResultIsOfTheSuccess'
  BY <1>1 DEF ResultIsOfTheSuccess, SubmittedStatuses
<1> QED
  BY <1>3, <1>4, <1>5, <1>6, <1>7, <1>8 DEF PendingRequests

\* Deciding the only undecided fallback leaves none behind.
LEMMA DecideFallbackKeepsIInv ==
  ASSUME IInv, TypeOK', NEW a \in Approvals, ApproveFallback(a) \/ RejectFallback(a)
  PROVE  IInv'
<1> USE DEF IInv
<1>1. /\ a \in Fallbacks /\ approval[a] = "pending"
      /\ task' \in {"RUNNING", "FAILED"}
      /\ \E s \in {"approved", "denied"} : approval' = [approval EXCEPT ![a] = s]
      /\ UNCHANGED <<run, binding, result>>
  BY TaskTable DEF ApproveFallback, RejectFallback, TaskGoes
<1>2. task = "WAITING_APPROVAL" /\ NoLiveRun
  BY <1>1 DEF PendingRequests, PendingFallback
<1>3. \A q \in Runs : ~Live(q)' /\ ~Live(q)
  BY <1>1, <1>2, LiveStatuses DEF NoLiveRun
<1>4. \A b \in Approvals : approval'[b] = "pending" => b # a /\ approval[b] = "pending"
  BY <1>1, ApprovalMoves
<1>5. OneLiveRun' /\ RunTaskAgreement'
  BY <1>3 DEF OneLiveRun, RunTaskAgreement
<1>6. BoundWhileLive'
  BY <1>1, <1>3 DEF BoundWhileLive
<1>7. WaitingIsDecidable'
  BY <1>1 DEF WaitingIsDecidable
<1>8. PendingFallback'
  BY <1>1, <1>4, ApprovalAssumption DEF PendingRequests, PendingFallback
<1>9. PendingPermission'
  BY <1>1, <1>4 DEF PendingRequests, PendingPermission
<1>10. ResultIsOfTheSuccess'
  BY <1>1, <1>2 DEF ResultIsOfTheSuccess, SubmittedStatuses
<1> QED
  BY <1>5, <1>6, <1>7, <1>8, <1>9, <1>10 DEF PendingRequests

\* The run had no undecided request while it was running, so a is the only one.
LEMMA RequestPermissionKeepsIInv ==
  ASSUME IInv, TypeOK', NEW a \in Approvals, RequestPermission(a)
  PROVE  IInv'
<1> USE DEF IInv
<1> DEFINE r == ApprovalRun[a]
<1>1. /\ r \in Runs /\ a \notin Fallbacks
      /\ run[r] = "running" /\ run' = [run EXCEPT ![r] = "waiting_permission"]
      /\ task = "RUNNING" /\ task' = "WAITING_APPROVAL"
      /\ approval[a] = "absent" /\ approval' = [approval EXCEPT ![a] = "pending"]
      /\ UNCHANGED <<binding, result>>
  <2>1. r \in Runs
    BY ApprovalAssumption
  <2>2. RunGoes(r, "WAIT_FOR_PERMISSION", "waiting_permission")
    BY DEF RequestPermission
  <2>3. TaskGoes("REQUEST_APPROVAL", "WAITING_APPROVAL")
    BY DEF RequestPermission
  <2>4. run[r] = "running" /\ run' = [run EXCEPT ![r] = "waiting_permission"]
    BY <2>2, RunTable DEF RunGoes
  <2>5. task = "RUNNING" /\ task' = "WAITING_APPROVAL"
    BY <2>3, TaskTable DEF TaskGoes
  <2> QED
    BY <2>1, <2>4, <2>5 DEF RequestPermission
<1> HIDE DEF r
<1>2. run'[r] = "waiting_permission" /\ \A q \in Runs : q # r => run'[q] = run[q]
  BY <1>1, RunMoves
<1>3. \A q \in Runs : (Live(q)' <=> q = r) /\ (Live(q) <=> q = r)
  BY <1>1, <1>2, LiveStatuses DEF OneLiveRun
<1>4. OneLiveRun'
  BY <1>3 DEF OneLiveRun
<1>5. RunTaskAgreement'
  BY <1>1, <1>2, <1>3 DEF RunTaskAgreement, TaskStatusOf
<1>6. BoundWhileLive'
  BY <1>1, <1>2, <1>3 DEF BoundWhileLive
<1>7. WaitingIsDecidable'
  <2>1. Decidable(a)'
    BY <1>1, <1>2, ApprovalMoves DEF Decidable, r
  <2> QED
    BY <2>1 DEF WaitingIsDecidable
<1>8. PendingFallback'
  BY <1>1, ApprovalMoves, ApprovalAssumption DEF PendingRequests, PendingFallback
<1>9. PendingPermission'
  <2>1. \A b \in Approvals \ Fallbacks :
          approval'[b] = "pending" => b = a \/ approval[b] = "pending"
    BY <1>1, ApprovalMoves
  <2>2. \A b \in Approvals \ Fallbacks : approval[b] = "pending" => ApprovalRun[b] # r
    BY <1>1 DEF PendingRequests, PendingPermission
  <2> QED
    BY <1>1, <1>2, <2>1, <2>2, ApprovalAssumption DEF PendingRequests, PendingPermission, r
<1>10. ResultIsOfTheSuccess'
  BY <1>1, <1>2 DEF ResultIsOfTheSuccess, SubmittedStatuses
<1> QED
  BY <1>4, <1>5, <1>6, <1>7, <1>8, <1>9, <1>10 DEF PendingRequests

\* The run goes on, and no other request of it was left undecided.
LEMMA ApprovePermissionKeepsIInv ==
  ASSUME IInv, TypeOK', NEW a \in Approvals, ApprovePermission(a)
  PROVE  IInv'
<1> USE DEF IInv
<1> DEFINE r == ApprovalRun[a]
<1>1. /\ r \in Runs /\ a \notin Fallbacks /\ approval[a] = "pending"
      /\ run[r] = "waiting_permission" /\ run' = [run EXCEPT ![r] = "running"]
      /\ task = "WAITING_APPROVAL" /\ task' = "RUNNING"
      /\ approval' = [approval EXCEPT ![a] = "approved"]
      /\ UNCHANGED <<binding, result>>
  <2>1. r \in Runs
    BY ApprovalAssumption
  <2>2. RunGoes(r, "RESUME", "running")
    BY DEF ApprovePermission
  <2>3. TaskGoes("APPROVE_ACTION", "RUNNING")
    BY DEF ApprovePermission
  <2>4. run[r] = "waiting_permission" /\ run' = [run EXCEPT ![r] = "running"]
    BY <2>2, RunTable DEF RunGoes
  <2>5. task = "WAITING_APPROVAL" /\ task' = "RUNNING"
    BY <2>3, <2>4, <2>1, LiveStatuses, TaskTable DEF TaskGoes, RunTaskAgreement, TaskStatusOf
  <2> QED
    BY <2>1, <2>4, <2>5 DEF ApprovePermission
<1>a. \A b \in Approvals \ Fallbacks :
        approval'[b] = "pending" => approval[b] = "pending" /\ ApprovalRun[b] # r
  <2>1. \A b \in Approvals : approval'[b] = "pending" => b # a /\ approval[b] = "pending"
    BY <1>1, ApprovalMoves
  <2> QED
    BY <1>1, <2>1 DEF PendingRequests, PendingPermission
<1> HIDE DEF r
<1>2. run'[r] = "running" /\ \A q \in Runs : q # r => run'[q] = run[q]
  BY <1>1, RunMoves
<1>3. \A q \in Runs : (Live(q)' <=> q = r) /\ (Live(q) <=> q = r)
  BY <1>1, <1>2, LiveStatuses DEF OneLiveRun
<1>4. OneLiveRun'
  BY <1>3 DEF OneLiveRun
<1>5. RunTaskAgreement'
  BY <1>1, <1>2, <1>3 DEF RunTaskAgreement, TaskStatusOf
<1>6. BoundWhileLive'
  BY <1>1, <1>2, <1>3 DEF BoundWhileLive
<1>7. WaitingIsDecidable'
  BY <1>1 DEF WaitingIsDecidable
<1>8. PendingFallback'
  BY <1>1, <1>3, ApprovalMoves, ApprovalAssumption
     DEF PendingRequests, PendingFallback, NoLiveRun
<1>9. PendingPermission'
  BY <1>1, <1>2, <1>a, ApprovalAssumption DEF PendingRequests, PendingPermission
<1>10. ResultIsOfTheSuccess'
  BY <1>1, <1>2 DEF ResultIsOfTheSuccess, SubmittedStatuses
<1> QED
  BY <1>4, <1>5, <1>6, <1>7, <1>8, <1>9, <1>10 DEF PendingRequests

\* The rejected request is decided and its run ends, with its binding.
LEMMA RejectPermissionKeepsIInv ==
  ASSUME IInv, TypeOK', NEW a \in Approvals, RejectPermission(a)
  PROVE  IInv'
<1> USE DEF IInv
<1> DEFINE r == ApprovalRun[a]
<1>1. /\ r \in Runs
      /\ run[r] = "waiting_permission" /\ run' = [run EXCEPT ![r] = "interrupted"]
      /\ task = "WAITING_APPROVAL" /\ task' = "INTERRUPTED"
      /\ BindingEnds(r, "FAILED")
      /\ approval' = [approval EXCEPT ![a] = "denied"]
      /\ UNCHANGED result
  <2>1. r \in Runs
    BY ApprovalAssumption
  <2>2. RunGoes(r, "INTERRUPT", "interrupted") /\ TaskGoes("INTERRUPT", "INTERRUPTED")
    BY DEF RejectPermission
  <2>3. task = "WAITING_APPROVAL"
    BY <2>1, LiveStatuses DEF RejectPermission, RunTaskAgreement, TaskStatusOf
  <2> QED
    BY <2>1, <2>2, <2>3 DEF RejectPermission, RunGoes, TaskGoes
<1> HIDE DEF r
<1>2. Live(r)
  BY <1>1, LiveStatuses
<1>3. \A b \in Approvals : approval'[b] = "pending" => approval[b] = "pending"
  BY <1>1, ApprovalMoves
<1>4. task' \in SubmittedStatuses <=> task \in SubmittedStatuses
  BY <1>1 DEF SubmittedStatuses
<1> QED
  BY <1>1, <1>2, <1>3, <1>4, BindingMoves, RunEnds

(***************************************************************************)
(* The theorems.                                                           *)
(***************************************************************************)

\* Every transaction, and every stutter, keeps the invariant.
LEMMA Induction ==
  ASSUME IInv, [Next]_ledger
  PROVE  IInv'
<1>1. TypeOK'
  BY TypeOKStep DEF IInv
<1>2. CASE TaskStep
  BY <1>1, <1>2, TaskStepKeepsIInv
<1>3. ASSUME NEW r \in Runs, RunStep(r) PROVE IInv'
  BY <1>1, <1>3, RunStepKeepsIInv
<1>4. ASSUME NEW a \in Approvals, ApprovalStep(a) PROVE IInv'
  BY <1>1, <1>4, RequestFallbackKeepsIInv, DecideFallbackKeepsIInv,
     RequestPermissionKeepsIInv, ApprovePermissionKeepsIInv, RejectPermissionKeepsIInv
     DEF ApprovalStep
<1>5. CASE UNCHANGED ledger
  BY <1>5 DEF ledger, IInv, TypeOK, OneLiveRun, RunTaskAgreement, BoundWhileLive,
     WaitingIsDecidable, Decidable, PendingRequests, PendingFallback, PendingPermission,
     ResultIsOfTheSuccess, Live, NoLiveRun, TaskStatusOf
<1> QED
  BY <1>2, <1>3, <1>4, <1>5 DEF Next

\* The inductive invariant holds of every state the transactions lead to.
THEOREM Invariance == Spec => []IInv
<1> QED
  BY InitIInv, Induction, PTL DEF Spec

\* Retries, fallbacks and recoveries never leave two runs of a task version that
\* both still await an outcome.
THEOREM RunsAreSerial == Spec => []OneLiveRun
<1>1. IInv => OneLiveRun
  BY DEF IInv
<1> QED
  BY <1>1, Invariance, PTL

\* The task's status tells what its live run does, whoever wrote them last.
THEOREM TaskTellsRun == Spec => []RunTaskAgreement
<1>1. IInv => RunTaskAgreement
  BY DEF IInv
<1> QED
  BY <1>1, Invariance, PTL

\* A session is bound to a run exactly from its start to its end.
THEOREM BindingFollowsRun == Spec => []BoundWhileLive
<1>1. IInv => BoundWhileLive
  BY DEF IInv
<1> QED
  BY <1>1, Invariance, PTL

\* A waiting task has one request whose decision lets it go on, never none and
\* never two.
THEOREM WaitingHasItsRequest == Spec => [](WaitingIsDecidable /\ DecidableIsUnique)
<1>1. ASSUME IInv PROVE DecidableIsUnique
  <2> SUFFICES ASSUME NEW a \in Approvals, NEW b \in Approvals,
                      Decidable(a), Decidable(b)
               PROVE  a = b
    BY DEF DecidableIsUnique
  <2> USE <1>1 DEF IInv, PendingRequests
  <2>1. CASE a \in Fallbacks /\ b \in Fallbacks
    BY <2>1 DEF PendingFallback, Decidable
  <2>2. CASE a \notin Fallbacks /\ b \notin Fallbacks
    <3>1. Live(ApprovalRun[a]) /\ Live(ApprovalRun[b])
      BY <2>2, LiveStatuses DEF Decidable
    <3>2. ApprovalRun[a] = ApprovalRun[b]
      BY <3>1, ApprovalAssumption DEF OneLiveRun
    <3> QED
      BY <2>2, <3>2 DEF PendingPermission, Decidable
  <2>3. CASE ~(a \in Fallbacks <=> b \in Fallbacks)
    BY <2>3, ApprovalAssumption, LiveStatuses DEF Decidable, NoLiveRun
  <2> QED
    BY <2>1, <2>2, <2>3
<1>2. IInv => WaitingIsDecidable
  BY DEF IInv
<1> QED
  BY <1>1, <1>2, Invariance, PTL

\* An undecided request never becomes the business of a later wait.
THEOREM RequestsDoNotReturn == Spec => []PendingRequests
<1>1. IInv => PendingRequests
  BY DEF IInv
<1> QED
  BY <1>1, Invariance, PTL

\* A task passes SUBMITTED exactly when one run succeeded and left its result.
THEOREM ResultsAreKept == Spec => []ResultIsOfTheSuccess
<1>1. IInv => ResultIsOfTheSuccess
  BY DEF IInv
<1> QED
  BY <1>1, Invariance, PTL

\* No step rewrites the status of a run that ended, nor a decision that was made.
THEOREM OutcomesStay == Spec => OutcomesAreFinal
<1>1. ASSUME TypeOK, [Next]_ledger
      PROVE  /\ \A r \in Runs : run[r] \in TerminalRunStatuses => run'[r] = run[r]
             /\ \A a \in Approvals :
                  approval[a] \in {"approved", "denied"} => approval'[a] = approval[a]
  <2> USE <1>1, ApprovalAssumption DEF TerminalRunStatuses
  <2>a. ASSUME NEW q \in Runs, NEW e, NEW to, RunGoes(q, e, to),
               NEW r \in Runs, run[r] \in TerminalRunStatuses
        PROVE  run'[r] = run[r]
    <3>1. run[q] \notin TerminalRunStatuses
      BY <2>a DEF RunGoes, RunTransitions
    <3> QED
      BY <2>a, <3>1 DEF RunGoes, TypeOK
  <2>1. CASE TaskStep
    BY <2>1 DEF TaskStep, Enqueue, Retry, StartRun, FailStart, StartVerification,
       RequestReview, ApproveReview, Complete
  <2>2. ASSUME NEW q \in Runs, RunStep(q)
        PROVE  /\ \A r \in Runs : run[r] \in TerminalRunStatuses => run'[r] = run[r]
               /\ approval' = approval
    <3>1. CASE CreateRun(q)
      BY <3>1 DEF CreateRun, TypeOK
    <3> QED
      BY <2>a, <2>2, <3>1 DEF RunStep, RunStarted, RunStartFailed, RequestCancel,
         ConfirmCancel, DriverFailed, Interrupt, Submit
  <2>3. ASSUME NEW a \in Approvals, ApprovalStep(a)
        PROVE  /\ \A r \in Runs : run[r] \in TerminalRunStatuses => run'[r] = run[r]
               /\ \A b \in Approvals :
                    approval[b] \in {"approved", "denied"} => approval'[b] = approval[b]
    <3>1. /\ run' = run \/ \E e, to : RunGoes(ApprovalRun[a], e, to)
          /\ approval[a] \in {"absent", "pending"}
          /\ \E s : approval' = [approval EXCEPT ![a] = s]
      BY <2>3 DEF ApprovalStep, RequestFallback, ApproveFallback, RejectFallback,
         RequestPermission, ApprovePermission, RejectPermission
    <3>2. \A b \in Approvals : b # a => approval'[b] = approval[b]
      BY <3>1, ApprovalMoves
    <3> QED
      BY <2>a, <3>1, <3>2
  <2>4. CASE UNCHANGED ledger
    BY <2>4 DEF ledger
  <2> QED
    BY <2>1, <2>2, <2>3, <2>4 DEF Next
<1> QED
  BY <1>1, TypeCorrect, PTL DEF Spec, OutcomesAreFinal
=============================================================================
