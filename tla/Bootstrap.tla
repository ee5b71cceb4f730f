------------------------------- MODULE Bootstrap -------------------------------
(***************************************************************************)
(* The life of a Bridge process: it takes the lock of the runtime root,    *)
(* opens the database, records the project baseline, recovers the runs     *)
(* that were left, drains the outbox, serves the MCP tools or the          *)
(* dashboard, and gives everything back in the opposite order.  The next   *)
(* Bridge of the root begins at any time.                                  *)
(*                                                                         *)
(* A start is in flight from the launch of its driver to its registration. *)
(* The HTTP server's close waits for the requests whose connection is      *)
(* open; nothing waits for one whose client hung up, nor for an MCP call.  *)
(***************************************************************************)
EXTENDS InstanceLock

CONSTANT StartedRuns   \* the runs of the project

ASSUME BootAssumption == "none" \notin StartedRuns

VARIABLES
  bridge,    \* process -> how far bootstrap or close has got
  project,      \* the database: whether the baseline is recorded, and the runs
  drivers    \* the driver processes: <<Bridge process, run>>

bootVars == <<file, lock, bridge, project, drivers>>

NoBridge == [pc |-> "off", front |-> "none", request |-> "none", waited |-> FALSE,
             registered |-> {}, unheeded |-> {}]

BootInit == /\ LockInit
            /\ bridge = [p \in Processes |-> NoBridge]
            /\ project = [baseline |-> FALSE, run |-> [r \in StartedRuns |-> "new"]]
            /\ drivers = {}

IsAt(p, pc) == bridge[p].pc = pc
Reaches(p, pc) == bridge' = [bridge EXCEPT ![p].pc = pc]
OnLock == UNCHANGED <<bridge, project, drivers>>
OnBridge == UNCHANGED <<file, lock, project, drivers>>

\* acquireBridgeInstanceLock
TakesLock(p) ==
  /\ Asks(p) \/ OpenExclusive(p) \/ WriteRecord(p) \/ ReadRecord(p) \/ RenameStale(p)
  /\ OnLock

\* The error path of bootstrapBridgeApplication is the close of the application.
BootFails(p) == Reaches(p, "stopping") /\ OnBridge

OpenDatabase(p) == /\ At(p, "held") /\ IsAt(p, "off")
                   /\ \/ Reaches(p, "opened") /\ OnBridge
                      \/ BootFails(p)

EnsureProjectBaseline(p) ==
  /\ IsAt(p, "opened")
  /\ \/ /\ Reaches(p, "recovering")
        /\ project' = [project EXCEPT !.baseline = TRUE]
        /\ UNCHANGED <<file, lock, drivers>>
     \/ BootFails(p)   \* the file cannot be read or is not a baseline

\* recoverPersistedRuns: a run that was left is carried on in a new driver process, or is
\* recorded as interrupted, or neither can be recorded.
Left(p) == {r \in StartedRuns : project.run[r] = "running"} \ bridge[p].registered
RecoverRun(p, r) ==
  /\ IsAt(p, "recovering") /\ r \in Left(p)
  /\ \/ /\ bridge' = [bridge EXCEPT ![p].registered = @ \cup {r}]
        /\ drivers' = drivers \cup {<<p, r>>}
        /\ UNCHANGED <<file, lock, project>>
     \/ /\ project' = [project EXCEPT !.run[r] = "ended"]
        /\ UNCHANGED <<file, lock, bridge, drivers>>
     \/ BootFails(p)
DrainOutbox(p) == /\ IsAt(p, "recovering") /\ Left(p) = {}
                  /\ \/ Reaches(p, "ready") /\ OnBridge
                     \/ BootFails(p)

\* main and startBridgeDashboard
ServeBridgeMcpStdio(p) == /\ IsAt(p, "ready")
                          /\ bridge' = [bridge EXCEPT ![p].pc = "serving", ![p].front = "mcp"]
                          /\ OnBridge
StartManagementHttpServer(p) ==
  /\ IsAt(p, "ready")
  /\ \/ bridge' = [bridge EXCEPT ![p].pc = "serving", ![p].front = "http"]
     \/ Reaches(p, "stopping")
  /\ OnBridge

\* A start (or retry) of a run: its record and its driver, then its registration.
Launch(p, r) ==
  /\ IsAt(p, "serving") /\ bridge[p].request = "none"
  /\ project.run[r] = "new"
  /\ project' = [project EXCEPT !.run[r] = "running"]
  /\ drivers' = drivers \cup {<<p, r>>}
  /\ LET waited == bridge[p].front = "http"
     IN bridge' = [bridge EXCEPT ![p].request = r, ![p].waited = waited,
                                 ![p].unheeded = IF waited THEN @ ELSE @ \cup {r}]
  /\ UNCHANGED <<file, lock>>

HangsUp(p) == /\ bridge[p].waited
              /\ bridge' = [bridge EXCEPT ![p].waited = FALSE, ![p].unheeded = @ \cup {bridge[p].request}]
              /\ OnBridge

\* With the database closed the outcome cannot be committed, and the orchestrator closes
\* the driver.
Registers(p) ==
  LET r == bridge[p].request
      b == [bridge[p] EXCEPT !.request = "none", !.waited = FALSE]
  IN /\ r # "none"
     /\ IF IsAt(p, "closed")
        THEN bridge' = [bridge EXCEPT ![p] = b] /\ drivers' = drivers \ {<<p, r>>}
        ELSE bridge' = [bridge EXCEPT ![p] = [b EXCEPT !.registered = @ \cup {r}]] /\ UNCHANGED drivers
     /\ UNCHANGED <<file, lock, project>>

\* The driver has ended its run, and the run is cleaned up.
RunEnds(p, r) ==
  /\ r \in bridge[p].registered /\ bridge[p].pc \in {"recovering", "ready", "serving", "closing", "stopping"}
  /\ project' = [project EXCEPT !.run[r] = "ended"]
  /\ bridge' = [bridge EXCEPT ![p].registered = @ \ {r}]
  /\ drivers' = drivers \ {<<p, r>>}
  /\ UNCHANGED <<file, lock>>

\* close: first the front end, then the outbox and the fan-out, the active runs, the
\* repository, the lock.
BeginClose(p) == IsAt(p, "serving") /\ Reaches(p, "closing") /\ OnBridge
\* Mutant: the server is closed without waiting for its requests.
CloseFrontAtOnce(p) == IsAt(p, "closing") /\ Reaches(p, "stopping") /\ OnBridge

CloseFront(p) == /\ IsAt(p, "closing") /\ ~bridge[p].waited
                 /\ Reaches(p, "stopping") /\ OnBridge
CloseAll(p) == /\ IsAt(p, "stopping")
               /\ bridge' = [bridge EXCEPT ![p].pc = "emptied", ![p].registered = {}]
               /\ drivers' = drivers \ ({p} \X bridge[p].registered)
               /\ UNCHANGED <<file, lock, project>>
CloseRepository(p) == IsAt(p, "emptied") /\ Reaches(p, "closed") /\ OnBridge
GiveLockBack(p) == IsAt(p, "closed") /\ ReleaseLock(p) /\ OnLock

\* Without a handler for the signal, or killed: what it wrote stays, and its drivers too
\* until they notice.
Dies(p) == /\ ProcessCrashes(p)
           /\ bridge' = [bridge EXCEPT ![p] = [NoBridge EXCEPT !.pc = "crashed"]]
           /\ UNCHANGED <<project, drivers>>
DriverDies(p, r) == /\ <<p, r>> \in drivers /\ IsAt(p, "crashed")
                    /\ drivers' = drivers \ {<<p, r>>}
                    /\ UNCHANGED <<file, lock, bridge, project>>

BootNext == \E p \in Processes :
  \/ TakesLock(p) \/ OpenDatabase(p) \/ EnsureProjectBaseline(p) \/ DrainOutbox(p)
  \/ ServeBridgeMcpStdio(p) \/ StartManagementHttpServer(p) \/ HangsUp(p) \/ Registers(p)
  \/ BeginClose(p) \/ CloseFront(p) \/ CloseAll(p) \/ CloseRepository(p) \/ GiveLockBack(p) \/ Dies(p)
  \/ \E r \in StartedRuns : RecoverRun(p, r) \/ Launch(p, r) \/ RunEnds(p, r) \/ DriverDies(p, r)

BootSpec == BootInit /\ [][BootNext]_bootVars

-----------------------------------------------------------------------------
BootTypeOK ==
  /\ LockTypeOK
  /\ DOMAIN project.run = StartedRuns
  /\ drivers \subseteq Processes \X StartedRuns
  /\ \A p \in Processes : /\ bridge[p].registered \cup bridge[p].unheeded \subseteq StartedRuns
                          /\ bridge[p].request \in StartedRuns \cup {"none"}

HasDatabase(p) == bridge[p].pc \in {"opened", "recovering", "ready", "serving", "closing", "stopping", "emptied"}

\* Two processes found a stale lock each; it may have been the same one, and the second to
\* move it aside then moves the lock of the first.
Raced == \E p, q \in Processes : p # q /\ lock[p].read # NoFile /\ lock[q].read # NoFile

\* Bridges of one runtime root take turns, unless they raced for a stale lock.  Two never
\* have the database open together; one that serves has recorded the baseline and carries
\* every run the database calls running, whoever started it and however that Bridge ended;
\* and a Bridge that was closed leaves no driver process behind, except one whose start
\* nobody waited for (bootstrap.ts bootstrapBridgeApplication and close,
\* dashboard-startup.ts, index.ts main).
BridgesTakeTurns ==
  /\ ~Raced => /\ \A p, q \in Processes : HasDatabase(p) /\ HasDatabase(q) => p = q
               /\ \A p \in Processes : IsAt(p, "serving") => Left(p) \subseteq {bridge[p].request}
  /\ \A p \in Processes : IsAt(p, "serving") => project.baseline
  /\ \A d \in drivers : IsAt(d[1], "closed") => d[2] \in bridge[d[1]].unheeded
=============================================================================
