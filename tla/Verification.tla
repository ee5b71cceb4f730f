----------------------------- MODULE Verification -----------------------------
(***************************************************************************)
(* An independent verification: the acceptance commands of a task are run  *)
(* one after the other as supervised processes, each log is archived, and  *)
(* the outcomes are summed up in a report.  cancel may come at any await.  *)
(***************************************************************************)
EXTENDS ProcessSupervisor, Sequences, SequencesExt

CONSTANT MaxCommands

ASSUME VerificationAssumption == /\ MaxCommands \in Nat \ {0}
                                 /\ Procs = 1..MaxCommands

VARIABLES
  exec,       \* [pc, i]: where execute is, and at which command
  cancelled,  \* state.cancelled
  active,     \* state.active: the command it can cancel, or 0
  results,    \* the status of each command so far
  overall

verificationVars == <<proc, exec, cancelled, active, results, overall>>

VerificationInit == /\ proc = [p \in Procs |-> Unstarted]
                    /\ exec = [pc |-> "idle", i |-> 1]
                    /\ cancelled = FALSE
                    /\ active = 0
                    /\ results = <<>>
                    /\ overall = "passed"

\* VerificationRunner.start
StartVerification == /\ exec.pc = "idle"
                     /\ exec' = [exec EXCEPT !.pc = "next"]
                     /\ UNCHANGED <<proc, cancelled, active, results, overall>>

\* The command is done with; the loop goes on.
Counts(status) == results' = Append(results, status)
NextCommand == exec' = [pc |-> "next", i |-> exec.i + 1]

NotRun == /\ exec.pc = "next" /\ exec.i <= MaxCommands
          /\ cancelled
          /\ Counts("not_run")
          /\ overall' = "cancelled"
          /\ NextCommand
          /\ UNCHANGED <<proc, cancelled, active>>

BeginCommand == /\ exec.pc = "next" /\ exec.i <= MaxCommands
                /\ ~cancelled
                /\ exec' = [exec EXCEPT !.pc = "starting"]
                /\ UNCHANGED <<proc, cancelled, active, results, overall>>

StartFailed == /\ exec.pc = "starting"
               /\ SpawnFails(exec.i)
               /\ Counts("start_failed")
               /\ overall' = "failed"
               /\ NextCommand
               /\ UNCHANGED <<cancelled, active>>

\* A cancellation that came while the process was being started reaches it now.
Started == /\ exec.pc = "starting"
           /\ \E q \in Spawned(exec.i) :
                proc' = IF cancelled THEN Termination(q, exec.i, "cancelled") ELSE q
           /\ active' = exec.i
           /\ exec' = [exec EXCEPT !.pc = "waiting"]
           /\ UNCHANGED <<cancelled, results, overall>>

Exited == /\ exec.pc = "waiting"
          /\ proc[exec.i].wait = "settled"
          /\ active' = 0
          /\ exec' = [exec EXCEPT !.pc = "archiving"]
          /\ UNCHANGED <<proc, cancelled, results, overall>>

CommandStatus(p) == CASE p.outcome = "cancelled" -> "cancelled"
                      [] p.outcome = "timed_out" -> "timed_out"
                      [] p.outcome = "exited" /\ p.code = 0 -> "passed"
                      [] OTHER -> "failed"

\* The log is archived and the command counts.
Archived == LET status == CommandStatus(proc[exec.i])
            IN /\ exec.pc = "archiving"
               /\ Counts(status)
               /\ overall' = CASE status \in {"cancelled", "timed_out"} -> status
                               [] status = "failed" /\ overall = "passed" -> "failed"
                               [] OTHER -> overall
               /\ cancelled' = (cancelled \/ status \in {"cancelled", "timed_out"})
               /\ NextCommand
               /\ UNCHANGED <<proc, active>>

Reported == /\ exec.pc = "next" /\ exec.i > MaxCommands
            /\ exec' = [exec EXCEPT !.pc = "done"]
            /\ UNCHANGED <<proc, cancelled, active, results, overall>>

\* VerificationExecution.cancel
CancelVerification ==
  /\ exec.pc \notin {"idle", "done"} /\ ~cancelled
  /\ cancelled' = TRUE
  /\ proc' = IF active = 0 THEN proc ELSE Termination(proc, active, "cancelled")
  /\ UNCHANGED <<exec, active, results, overall>>

ExecuteStep == \/ NotRun \/ BeginCommand \/ StartFailed \/ Started \/ Exited
               \/ Archived \/ Reported

VerificationNext ==
  \/ StartVerification
  \/ ExecuteStep
  \/ CancelVerification
  \/ \E p \in Procs : /\ ProcessStep(p) \/ SupervisorStep(p)
                      /\ UNCHANGED <<exec, cancelled, active, results, overall>>

\* The timers fire, a group dies of SIGKILL and the operating system reports it; nothing
\* is assumed of the commands themselves.
VerificationFairness ==
  /\ WF_verificationVars(ExecuteStep)
  /\ \A p \in Procs :
       /\ WF_proc(TimesOut(p)) /\ WF_proc(GraceEnds(p)) /\ WF_proc(GroupGone(p))
       /\ WF_proc(Closes(p)) /\ WF_proc(WaitSettles(p))

-----------------------------------------------------------------------------
VerificationTypeOK ==
  /\ ProcTypeOK
  /\ exec.pc \in {"idle", "next", "starting", "waiting", "archiving", "done"}
  /\ exec.i \in 1..(MaxCommands + 1)
  /\ Len(results) = exec.i - 1
  /\ active \in 0..MaxCommands
  /\ overall \in {"passed", "failed", "timed_out", "cancelled"}

\* A verification passes only when every command ran and ended by itself with code 0,
\* and a command running under a cancelled verification is on its way out, also when
\* the cancellation came while it was being started; no command leaves a process behind
\* (verification-runner.ts execute, process-supervisor.ts completion).
PassedMeansAllRan ==
  /\ NothingLeftBehind
  /\ exec.pc = "done" /\ overall = "passed" =>
       \A p \in Procs : /\ proc[p].wait = "settled" /\ proc[p].code = 0
                        /\ proc[p].outcome = "exited"
  /\ exec.pc = "done" /\ cancelled => overall # "passed" \/ ToSet(results) = {"passed"}
  /\ cancelled /\ exec.pc = "waiting" => proc[exec.i].termination # "none"

\* Whatever the commands do, the verification ends, since timeouts and SIGKILL see to it,
\* and what it reports is what happened (verification-runner.ts execute, cancel).
VerificationEnds == []PassedMeansAllRan /\ (exec.pc # "idle" ~> exec.pc = "done")
=============================================================================
