--------------------------- MODULE ProcessSupervisor ---------------------------
(***************************************************************************)
(* Child processes and their groups.  A process is over when its leader    *)
(* has exited and nobody holds its pipes any more ("close"); then the rest *)
(* of its group is terminated, and only then does wait settle.  A timeout  *)
(* or a cancellation terminates the group earlier.                         *)
(*                                                                         *)
(* A group is its leader and one descendant, who may hold the pipes and    *)
(* may ignore SIGTERM.  Nobody survives SIGKILL, and nobody leaves the     *)
(* group.  Time is left out: a timer may fire whenever it is set.          *)
(***************************************************************************)
EXTENDS Naturals

CONSTANT Procs

VARIABLE proc   \* process -> its state

Members == {"leader", "descendant"}

Unstarted == [wait |-> "unstarted",     \* unstarted, running, closed, settled, start_failed
              alive |-> {},
              deaf |-> {},              \* members that ignore SIGTERM
              holds |-> FALSE,          \* the descendant holds the pipes
              code |-> 0,
              outcome |-> "exited",     \* requestedOutcome
              termination |-> "none"]   \* none, term, kill, done

\* The process, in its own time.
MemberExits(p) ==
  \E m \in proc[p].alive, c \in {0, 1} :
    /\ m = "descendant" => c = 0
    /\ proc' = [proc EXCEPT ![p].alive = @ \ {m},
                            ![p].code = IF m = "leader" THEN c ELSE @]

Forks(p) ==
  /\ "leader" \in proc[p].alive
  /\ "descendant" \notin proc[p].alive
  /\ proc[p].termination \in {"none", "term"}
  /\ \E h \in BOOLEAN, d \in SUBSET {"descendant"} :
       proc' = [proc EXCEPT ![p].alive = Members, ![p].holds = h, ![p].deaf = @ \cup d]

-----------------------------------------------------------------------------
\* start: spawn and wait for the "spawn" event.
Spawned(p) ==
  {[proc EXCEPT ![p] = [Unstarted EXCEPT !.wait = "running", !.alive = {"leader"}, !.deaf = d]]
     : d \in SUBSET {"leader"}}
SpawnFails(p) ==
  /\ proc[p].wait = "unstarted"
  /\ proc' = [proc EXCEPT ![p].wait = "start_failed"]

\* requestTermination on the table q: the first request names the outcome, and there is
\* one termination only.
Termination(q, p, outcome) ==
  [q EXCEPT ![p] = [@ EXCEPT
     !.outcome = IF @ = "exited" THEN outcome ELSE @,
     !.termination = IF @ = "none" THEN "term" ELSE @]]

TimesOut(p) == /\ proc[p].wait = "running"
               /\ proc' = Termination(proc, p, "timed_out")

\* terminate: SIGTERM to the group, then SIGKILL once the grace period is over.
Obeys(p) == /\ proc[p].termination = "term"
            /\ \E m \in proc[p].alive \ proc[p].deaf :
                 proc' = [proc EXCEPT ![p].alive = @ \ {m},
                                      ![p].code = IF m = "leader" THEN 1 ELSE @]
\* Mutant: SIGKILL goes to the leader, not to its group.
GraceEndsForLeader(p) == /\ proc[p].termination = "term"
                         /\ proc[p].alive # {}
                         /\ proc' = [proc EXCEPT ![p].alive = @ \ {"leader"}, ![p].termination = "kill",
                                        ![p].code = IF "leader" \in proc[p].alive THEN 1 ELSE @]

GraceEnds(p) == /\ proc[p].termination = "term"
                /\ proc[p].alive # {}
                /\ proc' = [proc EXCEPT ![p].alive = {}, ![p].termination = "kill",
                                        ![p].code = IF "leader" \in proc[p].alive THEN 1 ELSE @]
GroupGone(p) == /\ proc[p].termination \in {"term", "kill"}
                /\ proc[p].alive = {}
                /\ proc' = [proc EXCEPT ![p].termination = "done"]

\* The "close" event; the completion terminates what is left of the group.
Closes(p) == /\ proc[p].wait = "running"
             /\ "leader" \notin proc[p].alive
             /\ proc[p].holds => "descendant" \notin proc[p].alive
             /\ proc' = [proc EXCEPT ![p].wait = "closed",
                                     ![p].termination = IF @ = "none" THEN "term" ELSE @]
WaitSettles(p) == /\ proc[p].wait = "closed"
                  /\ proc[p].termination = "done"
                  /\ proc' = [proc EXCEPT ![p].wait = "settled"]

SupervisorStep(p) == \/ TimesOut(p) \/ Obeys(p) \/ GraceEnds(p) \/ GroupGone(p)
                     \/ Closes(p) \/ WaitSettles(p)
ProcessStep(p) == MemberExits(p) \/ Forks(p)

-----------------------------------------------------------------------------
ProcTypeOK ==
  \A p \in Procs :
    /\ proc[p].wait \in {"unstarted", "running", "closed", "settled", "start_failed"}
    /\ proc[p].alive \subseteq Members /\ proc[p].deaf \subseteq Members
    /\ proc[p].code \in {0, 1} /\ proc[p].holds \in BOOLEAN
    /\ proc[p].outcome \in {"exited", "cancelled", "timed_out"}
    /\ proc[p].termination \in {"none", "term", "kill", "done"}

\* When wait settles nobody of the process's group is alive, however it ended: the
\* `descendantsCleaned: true` of the answer (process-supervisor.ts completion).
NothingLeftBehind == \A p \in Procs : proc[p].wait = "settled" => proc[p].alive = {}
=============================================================================
