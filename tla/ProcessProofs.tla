----------------------------- MODULE ProcessProofs -----------------------------
(***************************************************************************)
(* Proofs about the processes: the Bridges of a runtime root, the          *)
(* transport to the driver processes, and the runs of the two drivers in   *)
(* them, for any number of processes, calls, events, queries and sessions. *)
(***************************************************************************)
EXTENDS Bootstrap, StdioTransport, FiniteSetTheorems, SequenceTheorems, TLAPS

(***************************************************************************)
(* The Bridges of one runtime root.                                        *)
(***************************************************************************)
LockPcs == {"off", "open", "write", "read", "rename", "held", "refused", "dead"}
Files == [id : {"none", "lock"}, of : Processes \cup {"nobody", "gone"}, written : BOOLEAN]
LockRecords == [pc : LockPcs, attempt : Nat, read : Files]

BridgePcs == {"off", "opened", "recovering", "ready", "serving", "closing", "stopping", "emptied",
              "closed", "crashed"}
BridgeRecords == [pc : BridgePcs, front : {"none", "mcp", "http"},
                  request : StartedRuns \cup {"none"}, waited : BOOLEAN,
                  registered : SUBSET StartedRuns, unheeded : SUBSET StartedRuns]

BridgesTyped ==
  /\ file \in Files
  /\ lock \in [Processes -> LockRecords]
  /\ bridge \in [Processes -> BridgeRecords]
  /\ project \in [baseline : BOOLEAN, run : [StartedRuns -> {"new", "running", "ended"}]]
  /\ drivers \subseteq Processes \X StartedRuns

\* A process is as far with its lock as it is with the rest.
LockWithBridge ==
  \A p \in Processes : /\ HasDatabase(p) => At(p, "held")
                       /\ IsAt(p, "closed") => lock[p].pc \in {"held", "dead"}
                       /\ IsAt(p, "crashed") => At(p, "dead")

Unwritten(p) == [FileOf(p) EXCEPT !.written = FALSE]

\* Whoever wrote the lock file has begun.  Without a race it is that of whoever writes or holds
\* it, and a lock that is about to be moved aside is the one that was read, of a process
\* that is gone.
FileStands ==
  /\ file.of \in Processes => ~At(file.of, "off")
  /\ ~Raced => \A p \in Processes :
                 /\ At(p, "write") => file = Unwritten(p)
                 /\ At(p, "held") => file = FileOf(p)
                 /\ At(p, "rename") => /\ file = lock[p].read /\ file # NoFile
                                       /\ file.written /\ ~Exists(file.of)

RunsCarried ==
  ~Raced => \A p \in Processes : bridge[p].pc \in {"ready", "serving"} => Left(p) \subseteq {bridge[p].request}

BaselineRecorded ==
  \A p \in Processes : bridge[p].pc \in {"recovering", "ready", "serving"} => project.baseline

\* A request is in flight from when it is served, and somebody waits for it or it may be
\* left; a driver belongs to a run that is registered, waited for or unheeded.
Belong(p, b, ds) ==
  /\ b.pc \in {"off", "opened", "recovering", "ready"} => b.request = "none"
  /\ b.waited => b.pc \in {"serving", "closing"} /\ b.request # "none"
  /\ b.request # "none" /\ ~b.waited => b.request \in b.unheeded
  /\ \A r \in StartedRuns : <<p, r>> \in ds /\ b.pc # "crashed" =>
       \/ r \in b.unheeded \/ (b.waited /\ r = b.request)
       \/ r \in b.registered /\ b.pc \notin {"emptied", "closed"}

DriversBelong == \A p \in Processes : Belong(p, bridge[p], drivers)

BridgesInv == /\ BridgesTyped /\ LockWithBridge /\ FileStands /\ RunsCarried /\ BaselineRecorded
              /\ DriversBelong

LEMMA BridgesStart == BootInit => BridgesInv
<1> SUFFICES ASSUME BootInit PROVE BridgesInv
  OBVIOUS
<1> USE BootAssumption, LockAssumption DEF BootInit, LockInit, NoBridge
<1>1. BridgesTyped
  <2>1. file \in Files
    <3>1. NoFile \in Files /\ [id |-> "lock", of |-> "gone", written |-> TRUE] \in Files
      BY DEF Files, NoFile
    <3> QED BY <3>1
  <2>2. lock \in [Processes -> LockRecords]
    BY DEF LockRecords, LockPcs, Files, NoFile
  <2>3. bridge \in [Processes -> BridgeRecords]
    BY DEF BridgeRecords, BridgePcs
  <2>4. project \in [baseline : BOOLEAN, run : [StartedRuns -> {"new", "running", "ended"}]]
    OBVIOUS
  <2> QED BY <2>1, <2>2, <2>3, <2>4 DEF BridgesTyped
<1>2. \A p \in Processes : At(p, "off") /\ IsAt(p, "off")
  BY DEF At, IsAt
<1>4. FileStands
  <2>1. file.of \notin Processes
    BY DEF NoFile
  <2> QED BY <1>2, <2>1 DEF FileStands, At
<1>5. LockWithBridge /\ RunsCarried /\ BaselineRecorded
  BY <1>2 DEF LockWithBridge, RunsCarried, BaselineRecorded, HasDatabase, IsAt
<1>3. DriversBelong
  BY DEF DriversBelong, Belong
<1> QED BY <1>1, <1>3, <1>4, <1>5 DEF BridgesInv

\* The steps of one process with the lock file.
LockStep(p) == TakesLock(p) \/ ReleaseLock(p) \/ ProcessCrashes(p)

LEMMA LockMoves ==
  ASSUME BridgesTyped, NEW p \in Processes, LockStep(p)
  PROVE  LET l == lock[p]
             m == lock'[p]
         IN /\ lock' = [lock EXCEPT ![p] = m] /\ m \in LockRecords
            /\ m.read = l.read \/ m.read # NoFile
            /\ \/ l.pc \in {"off", "open", "read"} /\ m.pc \in {"open", "read", "refused"} /\ UNCHANGED file
               \/ /\ l.pc = "open" /\ m.pc = "write" /\ file = NoFile
                  /\ file' = Unwritten(p)
               \/ /\ l.pc = "write" /\ m.pc = "held"
                  /\ file' = IF file.of = p THEN FileOf(p) ELSE file
               \/ /\ l.pc = "read" /\ m.pc = "rename" /\ UNCHANGED file
                  /\ m.read = file /\ file # NoFile /\ file.written /\ ~Exists(file.of)
               \/ l.pc = "rename" /\ m.pc \in {"open", "refused"} /\ file' = NoFile
               \/ /\ l.pc = "held" /\ m.pc = "dead"
                  /\ file' = IF file = FileOf(p) THEN NoFile ELSE file
               \/ l.pc \notin {"off", "dead", "refused"} /\ m.pc = "dead" /\ UNCHANGED file
<1> USE LockAssumption DEF BridgesTyped, LockRecords, LockPcs, At, To
<1>1. CASE Asks(p)
  BY <1>1 DEF Asks
<1>2. CASE OpenExclusive(p)
  BY <1>2 DEF OpenExclusive, Unwritten
<1>3. CASE WriteRecord(p)
  BY <1>3 DEF WriteRecord
<1>4. CASE ReadRecord(p)
  BY <1>4 DEF ReadRecord
<1>5. CASE RenameStale(p)
  BY <1>5 DEF RenameStale
<1>6. CASE ReleaseLock(p)
  BY <1>6 DEF ReleaseLock
<1>7. CASE ProcessCrashes(p)
  BY <1>7 DEF ProcessCrashes
<1> QED BY <1>1, <1>2, <1>3, <1>4, <1>5, <1>6, <1>7 DEF LockStep, TakesLock

\* A process that is gone does not come back, and what was read stays read.
LEMMA LockSteps ==
  ASSUME BridgesTyped, NEW p \in Processes, LockStep(p)
  PROVE  /\ file' \in Files /\ lock' \in [Processes -> LockRecords]
         /\ Raced => Raced'
         /\ \A q \in Processes \ {p} : lock'[q] = lock[q]
         /\ At(p, "held")' => At(p, "write")
         /\ At(p, "held") => At(p, "dead")'
         /\ lock[p].pc \notin {"dead", "refused"} /\ ~At(p, "off")'
         /\ \A q : Exists(q)' => Exists(q) \/ At(q, "off")
<1>1. file' \in Files
  <2>1. NoFile \in Files /\ FileOf(p) \in Files /\ Unwritten(p) \in Files
    BY DEF NoFile, FileOf, Files, Unwritten
  <2>2. \/ file' = file \/ file' = NoFile \/ file' = FileOf(p)
        \/ file' = Unwritten(p)
    BY LockMoves
  <2> QED BY <2>1, <2>2 DEF BridgesTyped
<1>2. lock' \in [Processes -> LockRecords] /\ \A q \in Processes \ {p} : lock'[q] = lock[q]
  BY LockMoves DEF BridgesTyped
<1>3. lock[p].read # NoFile => lock'[p].read # NoFile
  BY LockMoves
<1>4. Raced => Raced'
  BY <1>2, <1>3 DEF Raced
<1>5. /\ At(p, "held")' => At(p, "write")
      /\ At(p, "held") => At(p, "dead")'
      /\ lock[p].pc \notin {"dead", "refused"} /\ ~At(p, "off")'
  BY LockMoves DEF At
<1>6. \A q : Exists(q)' => Exists(q) \/ At(q, "off")
  BY <1>2, <1>5 DEF Exists, At
<1> QED BY <1>1, <1>2, <1>4, <1>5, <1>6

LEMMA FileStays ==
  ASSUME BridgesTyped, FileStands, NEW p \in Processes, LockStep(p)
  PROVE  FileStands'
<1> USE LockAssumption
<1>1. /\ file' \in Files /\ lock' \in [Processes -> LockRecords] /\ (Raced => Raced')
      /\ \A q \in Processes \ {p} : lock'[q] = lock[q]
      /\ \A q : Exists(q)' => Exists(q) \/ At(q, "off")
      /\ ~At(p, "off")'
  BY LockSteps
<1>2. file \in Files /\ lock \in [Processes -> LockRecords]
  BY DEF BridgesTyped
<1>3. \A q \in Processes : At(q, "off")' => At(q, "off")
  BY <1>1 DEF At
<1>0. \A r : /\ FileOf(r).of = r /\ Unwritten(r).of = r
             /\ ~Unwritten(r).written
             /\ FileOf(r) # NoFile /\ Unwritten(r) # NoFile
  BY DEF FileOf, NoFile, Unwritten
<1>4. file' = file \/ file' = NoFile \/ file'.of = p
  <2>1. \/ file' = file \/ file' = NoFile \/ file' = FileOf(p)
        \/ file' = Unwritten(p)
    BY LockMoves
  <2> QED BY <1>0, <2>1
<1>5. file'.of \in Processes => ~At(file.of, "off")'
  BY <1>1, <1>3, <1>4 DEF FileStands, NoFile
<1>7. \/ file' = file
      \/ At(p, "open") /\ At(p, "write")'
      \/ At(p, "write") /\ At(p, "held")'
      \/ At(p, "rename") /\ file' = NoFile
      \/ At(p, "held") /\ At(p, "dead")'
  <2> DEFINE l == lock[p]
  <2> DEFINE m == lock'[p]
  <2> HIDE DEF l, m
  <2>1. \/ file' = file
        \/ l.pc = "open" /\ m.pc = "write"
        \/ l.pc = "write" /\ m.pc = "held"
        \/ l.pc = "rename" /\ file' = NoFile
        \/ l.pc = "held" /\ m.pc = "dead"
    BY LockMoves DEF l, m
  <2> QED BY <2>1 DEF At, l, m
<1>6. ASSUME ~Raced', NEW q \in Processes
      PROVE  /\ At(q, "write")' => file' = Unwritten(q)
             /\ At(q, "held")' => file' = FileOf(q)
             /\ At(q, "rename")' => /\ file' = lock'[q].read /\ file' # NoFile
                                    /\ file'.written /\ ~Exists(file.of)'
  <2>1. ~Raced
    BY <1>1, <1>6
  <2>2. \A r \in Processes : /\ At(r, "write") => file = Unwritten(r)
                             /\ At(r, "held") => file = FileOf(r)
                             /\ At(r, "rename") => /\ file = lock[r].read /\ file # NoFile
                                                   /\ file.written /\ ~Exists(file.of)
    BY <2>1 DEF FileStands
  <2>3. ASSUME NEW r \in Processes
        PROVE  /\ At(r, "write") => file.of = r /\ ~file.written
               /\ At(r, "held") => file.of = r
               /\ At(r, "write") \/ At(r, "held") => Exists(r) /\ file # NoFile
    BY <1>0, <2>2, <2>3 DEF Exists, At
  <2>4. CASE UNCHANGED file
    <3>1. ~Exists(file.of) => ~Exists(file.of)'
      BY <1>1, <2>4 DEF FileStands, Exists
    <3>2. CASE q # p
      BY <1>1, <2>2, <2>4, <3>1, <3>2 DEF At
    <3>3. CASE q = p
      <4>1. At(p, "held")' => At(p, "write") /\ (file.of = p => file' = FileOf(p))
        BY LockMoves DEF At
      <4>2. At(p, "rename")' => file # NoFile /\ file.written /\ ~Exists(file.of) /\ lock'[p].read = file
        BY LockMoves DEF At
      <4>3. ~At(p, "write")'
        BY <1>0, <2>4, LockMoves DEF At
      <4>4. At(p, "held")' => file' = FileOf(p)
        BY <2>3, <4>1
      <4> QED BY <3>3, <2>4, <3>1, <4>2, <4>3, <4>4
    <3> QED BY <3>2, <3>3
  <2>5. CASE At(p, "open") /\ At(p, "write")'
    <3>1. file = NoFile /\ file' = Unwritten(p)
      BY <2>5, LockMoves DEF At
    <3>2. q # p => ~At(q, "write")' /\ ~At(q, "held")' /\ ~At(q, "rename")'
      BY <1>1, <2>2, <2>3, <3>1 DEF At
    <3> QED BY <2>5, <3>1, <3>2 DEF At
  <2>6. CASE At(p, "write") /\ At(p, "held")'
    <3>1. file' = FileOf(p)
      BY <2>3, <2>6, LockMoves DEF At
    <3>2. q # p => ~At(q, "write")' /\ ~At(q, "held")' /\ ~At(q, "rename")'
      BY <1>1, <2>2, <2>3, <2>6 DEF At
    <3> QED BY <2>6, <3>1, <3>2 DEF At
  <2>7. CASE At(p, "rename") /\ file' = NoFile
    <3>1. \A r \in Processes : ~At(r, "write") /\ ~At(r, "held")
      BY <2>2, <2>3, <2>7
    <3>2. \A r \in Processes : At(r, "rename") => lock[r].read # NoFile
      BY <2>2
    <3>3. \A r \in Processes : At(r, "rename") => r = p
      BY <2>1, <2>7, <3>2 DEF Raced
    <3>4. ~At(p, "write")' /\ ~At(p, "held")' /\ ~At(p, "rename")'
      BY <2>7, <1>6, LockMoves DEF At
    <3> QED BY <1>1, <3>1, <3>3, <3>4 DEF At
  <2>8. CASE At(p, "held") /\ At(p, "dead")'
    <3>1. \A r \in Processes : At(r, "write") \/ At(r, "held") \/ At(r, "rename") => r = p
      BY <2>2, <2>3, <2>8
    <3> QED BY <1>1, <2>8, <3>1 DEF At
  <2> QED
    BY <2>4, <2>5, <2>6, <2>7, <2>8, <1>7
<1> QED BY <1>5, <1>6 DEF FileStands

\* Without a race one Bridge has the database open.
LEMMA Alone ==
  ASSUME BridgesInv, ~Raced, NEW p \in Processes, NEW q \in Processes, HasDatabase(p), HasDatabase(q)
  PROVE  p = q
<1>1. file = FileOf(p) /\ file = FileOf(q)
  BY DEF BridgesInv, LockWithBridge, FileStands
<1>2. FileOf(p).of = p /\ FileOf(q).of = q
  BY DEF FileOf
<1> QED BY <1>1, <1>2

Begun(b) == b.pc \in {"opened", "recovering", "ready", "serving", "closing", "stopping", "emptied"}

\* One process changes its record, the project and its drivers.
LEMMA OneBridge ==
  ASSUME BridgesInv, NEW p \in Processes, NEW b \in BridgeRecords,
         bridge' = [bridge EXCEPT ![p] = b], UNCHANGED <<file, lock>>,
         project' \in [baseline : BOOLEAN, run : [StartedRuns -> {"new", "running", "ended"}]],
         drivers' \subseteq Processes \X StartedRuns,
         Begun(b) => At(p, "held"), b.pc = "closed" => lock[p].pc \in {"held", "dead"},
         b.pc = "crashed" => At(p, "dead"),
         ~Raced /\ b.pc \in {"ready", "serving"} =>
           \A r \in StartedRuns : project'.run[r] = "running" => r \in b.registered \cup {b.request},
         project'.run = project.run \/ HasDatabase(p),
         project.baseline => project'.baseline,
         b.pc \in {"recovering", "ready", "serving"} => project'.baseline,
         Belong(p, b, drivers'), \A d \in drivers' : d[1] # p => d \in drivers
  PROVE  BridgesInv'
<1>1. /\ BridgesTyped /\ LockWithBridge /\ FileStands /\ RunsCarried /\ BaselineRecorded /\ DriversBelong
  BY DEF BridgesInv
<1>2. bridge'[p] = b /\ \A q \in Processes \ {p} : bridge'[q] = bridge[q]
  BY <1>1 DEF BridgesTyped
<1>3. BridgesTyped'
  BY <1>1 DEF BridgesTyped
<1>4. LockWithBridge'
  BY <1>1, <1>2 DEF LockWithBridge, HasDatabase, Begun, IsAt, At
<1>5. FileStands' /\ (Raced' <=> Raced)
  BY <1>1 DEF FileStands, Raced, At, Exists
<1>6. RunsCarried'
  <2> SUFFICES ASSUME ~Raced, NEW q \in Processes, bridge'[q].pc \in {"ready", "serving"},
                      NEW r \in StartedRuns, project'.run[r] = "running", r \notin bridge'[q].registered
               PROVE  r = bridge'[q].request
    BY <1>5 DEF RunsCarried, Left
  <2>1. CASE q = p
    BY <1>2, <2>1
  <2>2. CASE q # p
    <3>1. HasDatabase(q)
      BY <1>2, <2>2 DEF HasDatabase
    <3>2. project'.run = project.run
      BY <2>2, <3>1, Alone
    <3> QED BY <1>1, <1>2, <2>2, <3>2 DEF RunsCarried, Left
  <2> QED BY <2>1, <2>2
<1>7. BaselineRecorded'
  BY <1>1, <1>2 DEF BaselineRecorded
<1>8. ASSUME NEW q \in Processes PROVE Belong(q, bridge[q], drivers)'
  <2>1. CASE q = p
    BY <1>2, <2>1
  <2>2. CASE q # p
    <3>1. Belong(q, bridge[q], drivers)
      BY <1>1 DEF DriversBelong
    <3>2. \A r \in StartedRuns : <<q, r>> \in drivers' => <<q, r>> \in drivers
      BY <2>2
    <3> QED BY <1>2, <2>2, <3>1, <3>2 DEF Belong
  <2> QED BY <2>1, <2>2
<1>9. DriversBelong'
  BY <1>8 DEF DriversBelong
<1> QED BY <1>3, <1>4, <1>5, <1>6, <1>7, <1>9 DEF BridgesInv

LEMMA LockStepKeeps ==
  ASSUME BridgesInv, NEW p \in Processes,
         \/ TakesLock(p) \/ GiveLockBack(p) \/ Dies(p)
  PROVE  BridgesInv'
<1>1. /\ BridgesTyped /\ LockWithBridge /\ FileStands /\ RunsCarried /\ BaselineRecorded /\ DriversBelong
  BY DEF BridgesInv
<1>2. LockStep(p) /\ UNCHANGED <<project, drivers>>
  BY DEF GiveLockBack, Dies, LockStep, TakesLock, OnLock
<1>3. FileStands'
  BY <1>1, <1>2, FileStays
<1>4. /\ file' \in Files /\ lock' \in [Processes -> LockRecords] /\ (Raced => Raced')
      /\ \A q \in Processes \ {p} : lock'[q] = lock[q]
      /\ (At(p, "held") => At(p, "dead")') /\ lock[p].pc \notin {"dead", "refused"}
  BY <1>1, <1>2, LockSteps
<1> DEFINE b == bridge'[p]
<1>5. /\ bridge' = [bridge EXCEPT ![p] = b]
      /\ \/ b = bridge[p] /\ b.pc \notin {"closed", "crashed"} /\ ~HasDatabase(p)
         \/ b = bridge[p] /\ b.pc = "closed" /\ At(p, "dead")'
         \/ b = [NoBridge EXCEPT !.pc = "crashed"] /\ At(p, "dead")'
  <2>1. CASE TakesLock(p)
    <3>1. ~At(p, "held") /\ ~At(p, "dead")
      BY <2>1 DEF TakesLock, Asks, OpenExclusive, WriteRecord, ReadRecord, RenameStale, At
    <3> QED BY <1>1, <2>1, <3>1 DEF TakesLock, OnLock, BridgesTyped, LockWithBridge, IsAt, At
  <2>2. CASE GiveLockBack(p)
    BY <1>1, <1>4, <2>2 DEF GiveLockBack, OnLock, ReleaseLock, BridgesTyped, IsAt
  <2>3. CASE Dies(p)
    BY <1>1, <2>3 DEF Dies, ProcessCrashes, To, At, BridgesTyped
  <2> QED BY <2>1, <2>2, <2>3
<1>6. [NoBridge EXCEPT !.pc = "crashed"] \in BridgeRecords
      /\ Belong(p, [NoBridge EXCEPT !.pc = "crashed"], drivers)
  BY DEF NoBridge, BridgeRecords, BridgePcs, Belong
<1>7. b \in BridgeRecords /\ Belong(p, b, drivers) /\ ~Begun(b)
      /\ (b.pc = "closed" => lock'[p].pc \in {"held", "dead"}) /\ (b.pc = "crashed" => At(p, "dead")')
  BY <1>1, <1>5, <1>6
     DEF BridgesTyped, DriversBelong, Begun, HasDatabase, NoBridge, At, LockWithBridge, IsAt
<1>8. \A q \in Processes \ {p} : bridge'[q] = bridge[q]
  BY <1>1, <1>5 DEF BridgesTyped
<1> HIDE DEF b
<1>9. BridgesTyped'
  BY <1>1, <1>2, <1>4, <1>5, <1>7 DEF BridgesTyped
<1>10. LockWithBridge'
  BY <1>1, <1>4, <1>7, <1>8 DEF LockWithBridge, HasDatabase, Begun, IsAt, At, b
<1>11. RunsCarried' /\ BaselineRecorded'
  BY <1>1, <1>2, <1>4, <1>7, <1>8 DEF RunsCarried, BaselineRecorded, Left, Begun, b
<1>12. DriversBelong'
  BY <1>1, <1>2, <1>7, <1>8 DEF DriversBelong, b
<1> QED BY <1>3, <1>9, <1>10, <1>11, <1>12 DEF BridgesInv

\* What a process does while it is open, closes or is closed.
LEMMA BridgeStepKeeps ==
  ASSUME BridgesInv, NEW p \in Processes,
         \/ OpenDatabase(p) \/ EnsureProjectBaseline(p) \/ DrainOutbox(p) \/ ServeBridgeMcpStdio(p)
         \/ StartManagementHttpServer(p) \/ HangsUp(p) \/ Registers(p) \/ BeginClose(p)
         \/ CloseFront(p) \/ CloseAll(p) \/ CloseRepository(p)
         \/ \E r \in StartedRuns : RecoverRun(p, r) \/ Launch(p, r) \/ RunEnds(p, r) \/ DriverDies(p, r)
  PROVE  BridgesInv'
<1> USE BootAssumption
<1> DEFINE old == bridge[p]
<1>1. /\ BridgesTyped /\ LockWithBridge /\ FileStands /\ RunsCarried /\ BaselineRecorded /\ DriversBelong
  BY DEF BridgesInv
<1>2. /\ old \in BridgeRecords /\ bridge \in [Processes -> BridgeRecords] /\ Belong(p, old, drivers)
      /\ project \in [baseline : BOOLEAN, run : [StartedRuns -> {"new", "running", "ended"}]]
      /\ drivers \subseteq Processes \X StartedRuns
  BY <1>1 DEF BridgesTyped, DriversBelong
<1>3. /\ HasDatabase(p) <=> Begun(old)
      /\ Begun(old) => At(p, "held")
      /\ old.pc = "closed" => lock[p].pc \in {"held", "dead"}
      /\ old.pc = "crashed" => At(p, "dead")
      /\ old.pc \in {"recovering", "ready", "serving"} => project.baseline
      /\ ~Raced /\ old.pc \in {"ready", "serving"} =>
           \A r \in StartedRuns : project.run[r] = "running" => r \in old.registered \cup {old.request}
  BY <1>1 DEF LockWithBridge, HasDatabase, Begun, IsAt, BaselineRecorded, RunsCarried, Left
<1>4. UNCHANGED <<file, lock>>
  BY DEF OpenDatabase, EnsureProjectBaseline, DrainOutbox, ServeBridgeMcpStdio,
     StartManagementHttpServer, HangsUp, Registers, BeginClose, CloseFront, CloseAll,
     CloseRepository, RecoverRun, Launch, RunEnds, DriverDies, BootFails, OnBridge
\* A step on the way up or down changes nothing but the place.
<1>5. ASSUME NEW pc \in BridgePcs, Reaches(p, pc), OnBridge,
             \/ old.pc = "off" /\ At(p, "held") /\ pc \in {"opened", "stopping"}
             \/ old.pc = "opened" /\ pc = "stopping"
             \/ old.pc \in {"recovering", "ready"} /\ pc = "stopping"
             \/ old.pc = "recovering" /\ pc = "ready" /\ Left(p) = {}
             \/ old.pc = "serving" /\ pc = "closing"
             \/ old.pc = "closing" /\ ~old.waited /\ pc = "stopping"
             \/ old.pc = "emptied" /\ pc = "closed"
      PROVE  BridgesInv'
  <2> DEFINE b == [old EXCEPT !.pc = pc]
  <2>1. bridge' = [bridge EXCEPT ![p] = b] /\ b \in BridgeRecords
    BY <1>2, <1>5 DEF Reaches, BridgeRecords
  <2>2. b.pc = pc /\ b.request = old.request /\ b.waited = old.waited
        /\ b.registered = old.registered /\ b.unheeded = old.unheeded
    BY <1>2 DEF BridgeRecords
  <2> HIDE DEF b
  <2>3. Belong(p, b, drivers)
    BY <1>2, <1>5, <2>2 DEF Belong
  <2>4. pc \in {"ready", "serving"} =>
          \A r \in StartedRuns : project.run[r] = "running" => r \in b.registered
    BY <1>5, <2>2 DEF Left
  <2>5. At(p, "held") /\ b.pc # "crashed"
    <3>1. old.pc = "off" => At(p, "held")
      BY <1>5
    <3>2. old.pc \in {"off", "opened", "recovering", "ready", "serving", "closing", "emptied"}
      BY <1>5
    <3> QED BY <1>3, <1>5, <2>2, <3>1, <3>2 DEF Begun
  <2>6. b.pc \in {"recovering", "ready", "serving"} => project.baseline
    BY <1>3, <1>5, <2>2
  <2>7. UNCHANGED <<project, drivers>>
    BY <1>5 DEF OnBridge
  <2> HIDE DEF old
  <2> QED BY <1>2, <1>4, <2>1, <2>2, <2>3, <2>4, <2>5, <2>6, <2>7, OneBridge DEF At
<1>6. CASE \/ OpenDatabase(p) \/ DrainOutbox(p) \/ BeginClose(p) \/ CloseFront(p) \/ CloseRepository(p)
  BY <1>5, <1>6 DEF OpenDatabase, DrainOutbox, BeginClose, CloseFront, CloseRepository, BootFails,
     IsAt, BridgePcs
<1>7. CASE EnsureProjectBaseline(p)
  <2>1. CASE BootFails(p)
    BY <1>5, <1>7, <2>1 DEF EnsureProjectBaseline, BootFails, IsAt, BridgePcs
  <2>2. CASE Reaches(p, "recovering") /\ project' = [project EXCEPT !.baseline = TRUE]
             /\ UNCHANGED <<file, lock, drivers>>
    <3> DEFINE b == [old EXCEPT !.pc = "recovering"]
    <3>1. bridge' = [bridge EXCEPT ![p] = b] /\ b \in BridgeRecords /\ old.pc = "opened"
      BY <1>2, <1>7, <2>2 DEF EnsureProjectBaseline, IsAt, Reaches, BridgeRecords, BridgePcs
    <3>2. b.pc = "recovering" /\ Belong(p, b, drivers)
      BY <1>2, <3>1 DEF BridgeRecords, Belong
    <3>3. project'.baseline /\ project'.run = project.run
          /\ project' \in [baseline : BOOLEAN, run : [StartedRuns -> {"new", "running", "ended"}]]
      BY <1>2, <2>2
    <3> HIDE DEF b
    <3> QED BY <1>2, <1>3, <1>4, <2>2, <3>1, <3>2, <3>3, OneBridge DEF Begun
  <2> QED BY <1>7, <2>1, <2>2 DEF EnsureProjectBaseline
<1>8. CASE ServeBridgeMcpStdio(p) \/ StartManagementHttpServer(p)
  <2>1. CASE Reaches(p, "stopping")
    BY <1>5, <1>8, <2>1 DEF ServeBridgeMcpStdio, StartManagementHttpServer, IsAt, BridgePcs
  <2>2. ASSUME NEW front \in {"mcp", "http"},
               bridge' = [bridge EXCEPT ![p].pc = "serving", ![p].front = front]
        PROVE  BridgesInv'
    <3> DEFINE b == [old EXCEPT !.pc = "serving", !.front = front]
    <3>1. bridge' = [bridge EXCEPT ![p] = b] /\ b \in BridgeRecords
      BY <1>2, <2>2 DEF BridgeRecords, BridgePcs
    <3>2. b.pc = "serving" /\ b.request = old.request /\ b.registered = old.registered
      BY <1>2 DEF BridgeRecords
    <3>3. old.pc = "ready" /\ UNCHANGED <<project, drivers>>
      BY <1>8 DEF ServeBridgeMcpStdio, StartManagementHttpServer, IsAt, OnBridge
    <3>4. Belong(p, b, drivers)
      BY <1>2, <3>3 DEF BridgeRecords, Belong
    <3> HIDE DEF b
    <3> QED BY <1>2, <1>3, <1>4, <3>1, <3>2, <3>3, <3>4, OneBridge DEF Begun
  <2> QED BY <1>8, <2>1, <2>2 DEF ServeBridgeMcpStdio, StartManagementHttpServer
<1>9. CASE HangsUp(p)
  <2> DEFINE b == [old EXCEPT !.waited = FALSE, !.unheeded = @ \cup {old.request}]
  <2>1. old.waited /\ old.request # "none" /\ UNCHANGED <<project, drivers>>
    BY <1>2, <1>9 DEF HangsUp, OnBridge, Belong
  <2>2. bridge' = [bridge EXCEPT ![p] = b] /\ b \in BridgeRecords
    BY <1>2, <1>9, <2>1 DEF HangsUp, BridgeRecords
  <2>3. /\ b.pc = old.pc /\ b.request = old.request /\ b.registered = old.registered
        /\ Belong(p, b, drivers)
    BY <1>2, <2>1 DEF BridgeRecords, Belong
  <2> HIDE DEF b
  <2> QED BY <1>2, <1>3, <1>4, <2>1, <2>2, <2>3, OneBridge DEF Begun
<1>10. CASE Registers(p)
  <2> DEFINE r == old.request
             gone == [old EXCEPT !.request = "none", !.waited = FALSE]
             b == IF old.pc = "closed" THEN gone ELSE [gone EXCEPT !.registered = @ \cup {r}]
  <2>1. /\ r # "none" /\ r \in StartedRuns
        /\ UNCHANGED project
        /\ drivers' = IF old.pc = "closed" THEN drivers \ {<<p, r>>} ELSE drivers
    BY <1>2, <1>10 DEF Registers, IsAt, BridgeRecords
  <2>2. bridge' = [bridge EXCEPT ![p] = b]
    BY <1>2, <1>10 DEF Registers, IsAt, BridgeRecords
  <2>3. /\ b \in BridgeRecords /\ b.pc = old.pc /\ b.request = "none" /\ ~b.waited
        /\ b.unheeded = old.unheeded
        /\ b.registered = IF old.pc = "closed" THEN old.registered ELSE old.registered \cup {r}
    BY <1>2, <2>1 DEF BridgeRecords
  <2> HIDE DEF b, gone
  <2>4. Belong(p, b, drivers')
    BY <1>2, <2>1, <2>3 DEF Belong
  <2> QED BY <1>2, <1>3, <1>4, <2>1, <2>2, <2>3, <2>4, OneBridge DEF Begun
<1>11. CASE CloseAll(p)
  <2> DEFINE b == [old EXCEPT !.pc = "emptied", !.registered = {}]
  <2>1. /\ old.pc = "stopping" /\ UNCHANGED project
        /\ drivers' = drivers \ ({p} \X old.registered)
    BY <1>11 DEF CloseAll, IsAt
  <2>2. bridge' = [bridge EXCEPT ![p] = b] /\ b \in BridgeRecords
    BY <1>2, <1>11 DEF CloseAll, BridgeRecords, BridgePcs
  <2>3. b.pc = "emptied" /\ Belong(p, b, drivers')
    BY <1>2, <2>1 DEF BridgeRecords, Belong
  <2> HIDE DEF b
  <2> QED BY <1>2, <1>3, <1>4, <2>1, <2>2, <2>3, OneBridge DEF Begun
<1>12. ASSUME NEW r \in StartedRuns, RecoverRun(p, r)
       PROVE  BridgesInv'
  <2>0. old.pc = "recovering" /\ Begun(old)
    BY <1>12 DEF RecoverRun, IsAt, Begun
  <2>1. CASE BootFails(p)
    <3>1. Reaches(p, "stopping") /\ OnBridge /\ "stopping" \in BridgePcs
      BY <2>1 DEF BootFails, BridgePcs
    <3> HIDE DEF old
    <3> QED BY <1>5, <2>0, <3>1
  <2>2. CASE /\ bridge' = [bridge EXCEPT ![p].registered = @ \cup {r}]
             /\ drivers' = drivers \cup {<<p, r>>} /\ UNCHANGED project
    <3> DEFINE b == [old EXCEPT !.registered = @ \cup {r}]
    <3>1. bridge' = [bridge EXCEPT ![p] = b] /\ b \in BridgeRecords
      BY <1>2, <2>2 DEF BridgeRecords
    <3>2. b.pc = old.pc /\ Belong(p, b, drivers')
      BY <1>2, <2>0, <2>2 DEF BridgeRecords, Belong
    <3>3. drivers' \subseteq Processes \X StartedRuns /\ \A d \in drivers' : d[1] # p => d \in drivers
      BY <1>2, <2>2
    <3> HIDE DEF b
    <3> QED BY <1>2, <1>3, <1>4, <2>0, <2>2, <3>1, <3>2, <3>3, OneBridge DEF Begun
  <2>3. CASE project' = [project EXCEPT !.run[r] = "ended"] /\ UNCHANGED <<bridge, drivers>>
    <3>1. bridge' = [bridge EXCEPT ![p] = old] /\ project'.baseline = project.baseline
          /\ project' \in [baseline : BOOLEAN, run : [StartedRuns -> {"new", "running", "ended"}]]
      BY <1>2, <2>3
    <3> HIDE DEF old
    <3> QED BY <1>2, <1>3, <1>4, <2>0, <2>3, <3>1, OneBridge DEF Begun
  <2> QED BY <1>12, <2>1, <2>2, <2>3 DEF RecoverRun
<1>13. ASSUME NEW r \in StartedRuns, Launch(p, r)
       PROVE  BridgesInv'
  <2> DEFINE waited == old.front = "http"
             b == [old EXCEPT !.request = r, !.waited = waited,
                              !.unheeded = IF waited THEN @ ELSE @ \cup {r}]
  <2>1. /\ old.pc = "serving" /\ old.request = "none"
        /\ project' = [project EXCEPT !.run[r] = "running"]
        /\ drivers' = drivers \cup {<<p, r>>}
    BY <1>13 DEF Launch, IsAt
  <2>2. bridge' = [bridge EXCEPT ![p] = b]
    BY <1>2, <1>13 DEF Launch
  <2>3. /\ b \in BridgeRecords /\ b.pc = "serving" /\ b.request = r /\ b.waited = waited
        /\ b.unheeded = (IF waited THEN old.unheeded ELSE old.unheeded \cup {r})
        /\ b.registered = old.registered
    BY <1>2, <2>1 DEF BridgeRecords
  <2>4. /\ project' \in [baseline : BOOLEAN, run : [StartedRuns -> {"new", "running", "ended"}]]
        /\ project'.baseline = project.baseline
        /\ \A x \in StartedRuns : project'.run[x] = IF x = r THEN "running" ELSE project.run[x]
        /\ drivers' \subseteq Processes \X StartedRuns /\ \A d \in drivers' : d[1] # p => d \in drivers
    BY <1>2, <2>1
  <2> HIDE DEF b, waited
  <2>5. Belong(p, b, drivers')
    BY <1>2, <2>1, <2>3 DEF Belong
  <2>6. ~Raced => \A x \in StartedRuns :
          project'.run[x] = "running" => x \in b.registered \cup {b.request}
    BY <1>3, <2>1, <2>3, <2>4
  <2>7. Begun(old)
    BY <2>1 DEF Begun
  <2> HIDE DEF old
  <2>8. UNCHANGED <<file, lock>> /\ (Begun(old) => At(p, "held"))
    BY <1>3, <1>4
  <2>9. HasDatabase(p) /\ project.baseline
    BY <1>2, <1>3, <1>4, <2>1, <2>7
  <2>10. At(p, "held")
    BY <1>2, <1>3, <1>4, <2>1, <2>7, <2>8
  <2>11. /\ b \in BridgeRecords /\ b.pc \notin {"closed", "crashed", "ready"} /\ b.pc = "serving"
         /\ ~Raced => \A x \in StartedRuns :
              project'.run[x] = "running" => x \in b.registered \cup {b.request}
    BY <2>3, <2>6
  <2>12. /\ b.pc = "closed" => lock[p].pc \in {"held", "dead"}
         /\ b.pc = "crashed" => At(p, "dead")
         /\ project.baseline => project'.baseline
         /\ b.pc \in {"recovering", "ready", "serving"} => project'.baseline
         /\ Begun(b) => At(p, "held")
         /\ project'.run = project.run \/ HasDatabase(p)
         /\ ~Raced /\ b.pc \in {"ready", "serving"} => \A x \in StartedRuns :
              project'.run[x] = "running" => x \in b.registered \cup {b.request}
    BY <2>4, <2>9, <2>10, <2>11
  <2>13. /\ project' \in [baseline : BOOLEAN, run : [StartedRuns -> {"new", "running", "ended"}]]
         /\ drivers' \subseteq Processes \X StartedRuns /\ \A d \in drivers' : d[1] # p => d \in drivers
    BY <2>4
  <2>14. UNCHANGED <<file, lock>>
    BY <2>8
  <2> QED BY <2>2, <2>5, <2>11, <2>12, <2>13, <2>14, OneBridge
<1>14. ASSUME NEW r \in StartedRuns, RunEnds(p, r)
       PROVE  BridgesInv'
  <2> DEFINE b == [old EXCEPT !.registered = @ \ {r}]
  <2>1. /\ r \in old.registered /\ Begun(old) /\ old.pc # "emptied"
        /\ project' = [project EXCEPT !.run[r] = "ended"]
        /\ drivers' = drivers \ {<<p, r>>}
    BY <1>14 DEF RunEnds, Begun
  <2>2. bridge' = [bridge EXCEPT ![p] = b]
    BY <1>2, <1>14 DEF RunEnds
  <2>3. /\ b \in BridgeRecords /\ b.pc = old.pc /\ b.request = old.request /\ b.waited = old.waited
        /\ b.unheeded = old.unheeded /\ b.registered = old.registered \ {r}
    BY <1>2 DEF BridgeRecords
  <2>4. /\ project' \in [baseline : BOOLEAN, run : [StartedRuns -> {"new", "running", "ended"}]]
        /\ project'.baseline = project.baseline
        /\ \A x \in StartedRuns : project'.run[x] = IF x = r THEN "ended" ELSE project.run[x]
    BY <1>2, <2>1
  <2> HIDE DEF b
  <2>5. Belong(p, b, drivers')
    BY <1>2, <2>1, <2>3 DEF Belong
  <2>6. ~Raced /\ b.pc \in {"ready", "serving"} => \A x \in StartedRuns :
          project'.run[x] = "running" => x \in b.registered \cup {b.request}
    BY <1>3, <2>1, <2>3, <2>4
  <2> HIDE DEF old
  <2> QED BY <1>2, <1>3, <1>4, <2>1, <2>2, <2>3, <2>4, <2>5, <2>6, OneBridge DEF Begun
<1>15. ASSUME NEW r \in StartedRuns, DriverDies(p, r)
       PROVE  BridgesInv'
  <2>1. /\ bridge' = [bridge EXCEPT ![p] = old] /\ UNCHANGED project /\ drivers' = drivers \ {<<p, r>>}
        /\ old.pc = "crashed"
    BY <1>2, <1>15 DEF DriverDies, IsAt
  <2>2. Belong(p, old, drivers')
    BY <1>2, <2>1 DEF Belong
  <2> HIDE DEF old
  <2> QED BY <1>2, <1>3, <1>4, <2>1, <2>2, OneBridge DEF Begun
<1> QED BY <1>6, <1>7, <1>8, <1>9, <1>10, <1>11, <1>12, <1>13, <1>14, <1>15

LEMMA BridgesInductive == BridgesInv /\ [BootNext]_bootVars => BridgesInv'
<1> SUFFICES ASSUME BridgesInv, [BootNext]_bootVars PROVE BridgesInv'
  OBVIOUS
<1>1. CASE UNCHANGED bootVars
  BY <1>1 DEF bootVars, BridgesInv, BridgesTyped, LockWithBridge, FileStands, RunsCarried,
     BaselineRecorded, DriversBelong, Raced, HasDatabase, At, IsAt, Left, Exists
<1>2. CASE BootNext
  BY <1>2, LockStepKeeps, BridgeStepKeeps DEF BootNext
<1> QED BY <1>1, <1>2

\* Bridges of one runtime root take turns: for any number of processes and runs, however
\* they overlap, are closed, die and leave their locks, unless two raced for a stale lock.
THEOREM OneBridgeAtATime == BootSpec => []BridgesTakeTurns
<1>1. ASSUME BridgesInv PROVE BridgesTakeTurns
  <2>1. /\ BridgesTyped /\ RunsCarried /\ BaselineRecorded /\ DriversBelong
    BY <1>1 DEF BridgesInv
  <2>2. ~Raced => /\ \A p, q \in Processes : HasDatabase(p) /\ HasDatabase(q) => p = q
                  /\ \A p \in Processes : IsAt(p, "serving") => Left(p) \subseteq {bridge[p].request}
    BY <1>1, <2>1, Alone DEF RunsCarried, IsAt
  <2>3. \A p \in Processes : IsAt(p, "serving") => project.baseline
    BY <2>1 DEF BaselineRecorded, IsAt
  <2>4. ASSUME NEW d \in drivers, IsAt(d[1], "closed") PROVE d[2] \in bridge[d[1]].unheeded
    <3>1. d[1] \in Processes /\ d[2] \in StartedRuns /\ d = <<d[1], d[2]>>
      BY <2>1 DEF BridgesTyped
    <3>2. Belong(d[1], bridge[d[1]], drivers)
      BY <2>1, <3>1 DEF DriversBelong
    <3> QED BY <2>4, <3>1, <3>2 DEF Belong, IsAt
  <2> QED BY <2>2, <2>3, <2>4 DEF BridgesTakeTurns
<1> QED BY <1>1, BridgesStart, BridgesInductive, PTL DEF BootSpec

(***************************************************************************)
(* The transport.                                                          *)
(***************************************************************************)
Methods == {"initialize", "work", "cancelTask", "subscribeEvents", "unsubscribeEvents", "shutdown"}
Calls == [method : Methods, state : {"pending", "answered", "failed", "timed_out"}]
Lines == [kind : {"response", "event", "stream_closed", "ready"}, of : Nat, ok : BOOLEAN]

TransportTyped ==
  /\ calls \in Seq(Calls)
  /\ client \in [ready : BOOLEAN, closed : BOOLEAN, closing : {"no", "waiting", "closed"},
                 doomed : BOOLEAN]
  /\ inbox \in [queue : {"none", "open", "left"}, values : Nat, ended : {"no", "done", "failed"},
                consumer : {"none", "waiting", "listening", "done", "failed", "returned"}, got : Nat]
  /\ host \in [pc : {"off", "starting", "reading", "serving", "stopping", "exited"}, at : Nat,
               stream : {"none", "pending", "over"}, emitted : Nat]
  /\ pipes \in [stdin : Seq(Nat), stdout : Seq(Lines)]

\* The host serves the calls in their order.
ServedInOrder ==
  /\ Len(pipes.stdin) <= Len(calls)
  /\ \A k \in 1..Len(pipes.stdin) : pipes.stdin[k] = Len(calls) - Len(pipes.stdin) + k
  /\ host.at \in {0, Len(calls) - Len(pipes.stdin)}
  /\ host.pc = "serving" => host.at # 0

\* There is one subscription, and the stream begins when the host has served it.
Subscribes(i) == calls[i].method = "subscribeEvents"
OneSubscription ==
  /\ \A i, j \in Ids : Subscribes(i) /\ Subscribes(j) => i = j
  /\ inbox.queue = "none" => host.stream = "none" /\ \A i \in Ids : ~Subscribes(i)
  /\ host.stream # "none" => \A i \in Ids : Subscribes(i) =>
       i <= Len(calls) - Len(pipes.stdin) /\ i # host.at

EventsIn(lines) == Cardinality({i \in DOMAIN lines : lines[i].kind = "event"})
Ends(lines) == \E i \in DOMAIN lines : lines[i].kind = "stream_closed"

\* Nothing comes after the end of the stream.
EndIsLast(lines) == \A i, j \in DOMAIN lines :
                      i < j /\ lines[i].kind = "stream_closed" => lines[j].kind # "event"

\* Every event of the driver is on its way or has arrived, until the subscription is left.
EventsArrive ==
  LET arrived == inbox.got + inbox.values + EventsIn(pipes.stdout)
  IN /\ arrived <= host.emitted
     /\ inbox.queue # "left" => arrived = host.emitted
     /\ host.stream = "none" => host.emitted = 0

EndArrives ==
  /\ EndIsLast(pipes.stdout)
  /\ Ends(pipes.stdout) => host.stream = "over"
  /\ inbox.queue # "left" => inbox.ended = "no"
  /\ inbox.queue = "open" => inbox.consumer \in {"waiting", "listening"}
  /\ inbox.queue = "none" => inbox.consumer = "none"
  /\ inbox.ended = "done" /\ inbox.consumer \in {"waiting", "listening"} =>
       host.stream = "over" /\ inbox.got + inbox.values = host.emitted
  /\ inbox.consumer = "done" => host.stream = "over" /\ inbox.got = host.emitted

TransportInv == /\ TransportTyped /\ ServedInOrder /\ OneSubscription /\ EventsArrive /\ EndArrives
                /\ (client.closed => ~\E i \in Ids : Pending(i))

\* A sequence in which one place is written.
LEMMA OneWritten ==
  ASSUME NEW S, NEW s \in Seq(S), NEW i, NEW e \in S
  PROVE  /\ [s EXCEPT ![i] = e] \in Seq(S) /\ Len([s EXCEPT ![i] = e]) = Len(s)
         /\ DOMAIN [s EXCEPT ![i] = e] = DOMAIN s
         /\ \A k \in DOMAIN s : [s EXCEPT ![i] = e][k] = IF k = i THEN e ELSE s[k]
<1> DEFINE f == [k \in 1..Len(s) |-> IF k = i THEN e ELSE s[k]]
<1>1. [s EXCEPT ![i] = e] = f
  OBVIOUS
<1>2. f \in [1..Len(s) -> S] /\ Len(s) \in Nat
  OBVIOUS
<1>3. f \in Seq(S) /\ Len(f) = Len(s)
  BY <1>2
<1> QED BY <1>1, <1>3

(***************************************************************************)
(* The lines of the host.                                                  *)
(***************************************************************************)
EventPlaces(lines) == {i \in DOMAIN lines : lines[i].kind = "event"}

LEMMA CountsAreNumbers ==
  ASSUME NEW s \in Seq(Lines)
  PROVE  /\ IsFiniteSet(EventPlaces(s)) /\ EventsIn(s) \in Nat /\ EventsIn(s) = Cardinality(EventPlaces(s))
         /\ EventsIn(s) = 0 <=> EventPlaces(s) = {}
<1>1. DOMAIN s = 1..Len(s) /\ Len(s) \in Int /\ EventPlaces(s) \in SUBSET (DOMAIN s)
  BY DEF EventPlaces
<1>2. IsFiniteSet(EventPlaces(s))
  BY <1>1, FS_Interval, FS_Subset
<1>3. EventsIn(s) = Cardinality(EventPlaces(s))
  BY DEF EventsIn, EventPlaces
<1> QED BY <1>2, <1>3, FS_CardinalityType, FS_EmptySet

LEMMA LinesAddUp ==
  ASSUME NEW s \in Seq(Lines), NEW t \in Seq(Lines)
  PROVE  /\ s \o t \in Seq(Lines)
         /\ EventsIn(s \o t) = EventsIn(s) + EventsIn(t)
         /\ Ends(s \o t) <=> Ends(s) \/ Ends(t)
         /\ EndIsLast(s \o t) <=> EndIsLast(s) /\ EndIsLast(t) /\ (Ends(s) => EventsIn(t) = 0)
<1> DEFINE u == s \o t
           n == Len(s)
           P == EventPlaces(s)
           Q == EventPlaces(t)
           R == {i + n : i \in Q}
<1>1. /\ n \in Nat /\ Len(t) \in Nat /\ u \in Seq(Lines) /\ Len(u) = n + Len(t)
      /\ DOMAIN s = 1..n /\ DOMAIN t = 1..Len(t) /\ DOMAIN u = 1..(n + Len(t))
      /\ \A i \in 1..n : u[i] = s[i]
      /\ \A i \in 1..Len(t) : u[i + n] = t[i]
  BY ConcatProperties
<1> HIDE DEF u, n
<1>2. \A i \in DOMAIN u : i \in 1..n \/ (i - n \in 1..Len(t) /\ i = (i - n) + n)
  BY <1>1
<1>3. EventPlaces(u) = P \cup R /\ P \cap R = {}
  BY <1>1, <1>2 DEF EventPlaces
<1>4. IsFiniteSet(R) /\ Cardinality(R) = Cardinality(Q)
  <2> DEFINE f == [i \in Q |-> i + n]
  <2>1. f \in Bijection(Q, R)
    <3>1. \A i \in Q : i \in Nat
      BY <1>1 DEF EventPlaces
    <3> QED BY <1>1, <3>1 DEF Bijection, Injection, Surjection, IsInjective
  <2>2. ExistsBijection(Q, R)
    BY <2>1 DEF ExistsBijection
  <2> QED BY <2>2, CountsAreNumbers, FS_Bijection
<1>5. Cardinality(P \cup R) = Cardinality(P) + Cardinality(R)
  <2> HIDE DEF P, Q, R
  <2>1. IsFiniteSet(P) /\ Cardinality(P) \in Nat /\ Cardinality(Q) \in Nat
    BY CountsAreNumbers DEF P, Q
  <2>2. Cardinality(P \cup R) = Cardinality(P) + Cardinality(R) - Cardinality(P \cap R)
    BY <1>4, <2>1, FS_Union
  <2>3. Cardinality(P \cap R) = 0
    BY <1>3, FS_EmptySet
  <2>4. \A a, b \in Nat : a + b - 0 = a + b
    OBVIOUS
  <2> QED BY <1>4, <2>1, <2>2, <2>3, <2>4
<1>6. EventsIn(u) = EventsIn(s) + EventsIn(t)
  <2>1. EventsIn(u) = Cardinality(EventPlaces(u))
    BY <1>1, CountsAreNumbers
  <2>2. EventsIn(s) = Cardinality(P) /\ EventsIn(t) = Cardinality(Q)
    BY CountsAreNumbers
  <2>3. Cardinality(EventPlaces(u)) = Cardinality(P \cup R)
    BY <1>3
  <2> HIDE DEF P, Q, R
  <2> QED BY <1>4, <1>5, <2>1, <2>2, <2>3
<1>7. Ends(u) <=> Ends(s) \/ Ends(t)
  <2>1. ASSUME Ends(u) PROVE Ends(s) \/ Ends(t)
    <3>1. PICK i \in DOMAIN u : u[i].kind = "stream_closed"
      BY <2>1 DEF Ends
    <3>2. CASE i \in 1..n
      BY <1>1, <3>1, <3>2 DEF Ends
    <3>3. CASE i \notin 1..n
      <4>1. i - n \in 1..Len(t) /\ u[i] = t[i - n]
        BY <1>1, <1>2, <3>3
      <4> QED BY <1>1, <3>1, <4>1 DEF Ends
    <3> QED BY <3>2, <3>3
  <2>2. ASSUME Ends(s) PROVE Ends(u)
    <3>1. PICK i \in 1..n : s[i].kind = "stream_closed"
      BY <1>1, <2>2 DEF Ends
    <3>2. i \in DOMAIN u
      BY <1>1
    <3> QED BY <1>1, <3>1, <3>2 DEF Ends
  <2>3. ASSUME Ends(t) PROVE Ends(u)
    <3>1. PICK i \in 1..Len(t) : t[i].kind = "stream_closed"
      BY <1>1, <2>3 DEF Ends
    <3>2. i + n \in DOMAIN u
      BY <1>1
    <3> QED BY <1>1, <3>1, <3>2 DEF Ends
  <2> QED BY <2>1, <2>2, <2>3
<1>8. EventsIn(t) = 0 <=> \A j \in 1..Len(t) : t[j].kind # "event"
  BY <1>1, CountsAreNumbers DEF EventPlaces
<1>9. EndIsLast(u) <=> EndIsLast(s) /\ EndIsLast(t) /\ (Ends(s) => EventsIn(t) = 0)
  <2>1. ASSUME EndIsLast(u) PROVE EndIsLast(s) /\ EndIsLast(t) /\ (Ends(s) => EventsIn(t) = 0)
    <3>1. EndIsLast(s)
      BY <1>1, <2>1 DEF EndIsLast
    <3>2. EndIsLast(t)
      <4> SUFFICES ASSUME NEW i \in 1..Len(t), NEW j \in 1..Len(t), i < j, t[i].kind = "stream_closed"
                   PROVE  t[j].kind # "event"
        BY <1>1 DEF EndIsLast
      <4>1. i + n \in DOMAIN u /\ j + n \in DOMAIN u /\ i + n < j + n
        BY <1>1
      <4> QED BY <1>1, <2>1, <4>1 DEF EndIsLast
    <3>3. ASSUME Ends(s), NEW j \in 1..Len(t) PROVE t[j].kind # "event"
      <4>1. PICK i \in 1..n : s[i].kind = "stream_closed"
        BY <1>1, <3>3 DEF Ends
      <4>2. i \in DOMAIN u /\ j + n \in DOMAIN u /\ i < j + n
        BY <1>1
      <4> QED BY <1>1, <2>1, <4>1, <4>2 DEF EndIsLast
    <3> QED BY <1>8, <3>1, <3>2, <3>3
  <2>2. ASSUME EndIsLast(s), EndIsLast(t), Ends(s) => EventsIn(t) = 0 PROVE EndIsLast(u)
    <3> SUFFICES ASSUME NEW i \in DOMAIN u, NEW j \in DOMAIN u, i < j, u[i].kind = "stream_closed"
                 PROVE  u[j].kind # "event"
      BY DEF EndIsLast
    <3>1. CASE j \in 1..n
      <4>1. i \in 1..n
        BY <1>1, <3>1
      <4> QED BY <1>1, <2>2, <3>1, <4>1 DEF EndIsLast
    <3>2. CASE i \in 1..n /\ j \notin 1..n
      <4>1. Ends(s)
        BY <1>1, <3>2 DEF Ends
      <4> QED BY <1>1, <1>2, <1>8, <2>2, <3>2, <4>1
    <3>3. CASE i \notin 1..n /\ j \notin 1..n
      <4>1. i - n \in 1..Len(t) /\ j - n \in 1..Len(t) /\ i - n < j - n
        BY <1>1, <1>2, <3>3
      <4>2. u[i] = t[i - n] /\ u[j] = t[j - n]
        BY <1>1, <1>2, <3>3
      <4> QED BY <1>1, <2>2, <4>1, <4>2 DEF EndIsLast
    <3> QED BY <3>1, <3>2, <3>3
  <2> QED BY <2>1, <2>2
<1> QED BY <1>1, <1>6, <1>7, <1>9 DEF u

LEMMA OneLine ==
  ASSUME NEW m \in Lines
  PROVE  /\ <<m>> \in Seq(Lines)
         /\ EventsIn(<<m>>) = IF m.kind = "event" THEN 1 ELSE 0
         /\ Ends(<<m>>) <=> m.kind = "stream_closed"
         /\ EndIsLast(<<m>>)
<1>1. <<m>> \in Seq(Lines) /\ DOMAIN <<m>> = {1} /\ <<m>>[1] = m
  OBVIOUS
<1>2. EventPlaces(<<m>>) = IF m.kind = "event" THEN {1} ELSE {}
  BY <1>1 DEF EventPlaces
<1>3. EventsIn(<<m>>) = IF m.kind = "event" THEN 1 ELSE 0
  <2>1. Cardinality({1}) = 1 /\ Cardinality({}) = 0
    BY FS_Singleton, FS_EmptySet
  <2> QED BY <1>1, <1>2, <2>1, CountsAreNumbers
<1> QED BY <1>1, <1>3 DEF Ends, EndIsLast

\* The lines the host writes at once: an event if e, then in any order the end of the
\* stream if c and answers.
Output(out, e, c) ==
  /\ out \in Seq(Lines)
  /\ EventsIn(out) = IF e THEN 1 ELSE 0
  /\ Ends(out) <=> c
  /\ EndIsLast(out)

LEMMA HostWrites ==
  ASSUME NEW i \in Nat, NEW ok \in BOOLEAN
  PROVE  LET R == Response(i, ok)
         IN /\ Output(<<ReadyLine>>, FALSE, FALSE) /\ Output(<<R>>, FALSE, FALSE)
            /\ Output(<<StreamClosed>> \o <<R>>, FALSE, TRUE)
            /\ Output(<<>> \o <<R>>, FALSE, FALSE)
            /\ \A lines \in {<<>>, <<Event>>} :
                 LET e == lines # <<>> IN
                 /\ Output(lines \o <<>>, e, FALSE) /\ Output(lines \o <<StreamClosed>>, e, TRUE)
                 /\ Output(lines \o <<R>> \o <<StreamClosed>>, e, TRUE)
                 /\ Output(lines \o <<StreamClosed>> \o <<R>>, e, TRUE)
<1> DEFINE R == Response(i, ok)
<1>1. R \in Lines /\ Event \in Lines /\ StreamClosed \in Lines /\ ReadyLine \in Lines
  BY DEF Response, Event, StreamClosed, ReadyLine, Lines
<1>2. R.kind = "response" /\ Event.kind = "event" /\ StreamClosed.kind = "stream_closed"
      /\ ReadyLine.kind = "ready"
  BY DEF Response, Event, StreamClosed, ReadyLine
<1>3. /\ Output(<<R>>, FALSE, FALSE) /\ Output(<<Event>>, TRUE, FALSE)
      /\ Output(<<StreamClosed>>, FALSE, TRUE) /\ Output(<<ReadyLine>>, FALSE, FALSE)
  BY <1>1, <1>2, OneLine DEF Output
<1>4. Output(<<>>, FALSE, FALSE)
  <2>1. <<>> \in Seq(Lines) /\ DOMAIN <<>> = {}
    OBVIOUS
  <2>2. EventPlaces(<<>>) = {}
    BY <2>1 DEF EventPlaces
  <2> QED BY <2>1, <2>2, CountsAreNumbers DEF Output, Ends, EndIsLast
<1>5. ASSUME NEW s, NEW t, NEW d \in BOOLEAN, NEW e \in BOOLEAN, NEW c \in BOOLEAN,
             Output(s, e, c), Output(t, FALSE, d)
      PROVE  Output(s \o t, e, c \/ d)
  BY <1>5, LinesAddUp DEF Output
<1> HIDE DEF R
<1>6. Output(<<StreamClosed>> \o <<R>>, FALSE, TRUE) /\ Output(<<>> \o <<R>>, FALSE, FALSE)
  BY <1>3, <1>4, <1>5
<1>7. ASSUME NEW lines \in {<<>>, <<Event>>}
      PROVE  LET e == lines # <<>> IN
                 /\ Output(lines \o <<>>, e, FALSE) /\ Output(lines \o <<StreamClosed>>, e, TRUE)
                 /\ Output(lines \o <<R>> \o <<StreamClosed>>, e, TRUE)
                 /\ Output(lines \o <<StreamClosed>> \o <<R>>, e, TRUE)
  <2> DEFINE e == lines # <<>>
  <2>1. Output(lines, e, FALSE) /\ e \in BOOLEAN
    BY <1>3, <1>4
  <2> HIDE DEF e
  <2>2. Output(lines \o <<>>, e, FALSE) /\ Output(lines \o <<StreamClosed>>, e, TRUE)
        /\ Output(lines \o <<R>>, e, FALSE)
    BY <1>3, <1>4, <1>5, <2>1
  <2>3. Output(lines \o <<R>> \o <<StreamClosed>>, e, TRUE)
        /\ Output(lines \o <<StreamClosed>> \o <<R>>, e, TRUE)
    BY <1>3, <1>5, <2>1, <2>2
  <2> QED BY <2>2, <2>3 DEF e
<1> QED BY <1>3, <1>6, <1>7 DEF R

\* The invariant at the start.
LEMMA TransportStart == TransportInit => TransportInv
<1> SUFFICES ASSUME TransportInit PROVE TransportInv
  OBVIOUS
<1>1. /\ <<>> \in Seq(Calls) /\ <<>> \in Seq(Nat) /\ <<>> \in Seq(Lines)
      /\ Len(<<>>) = 0 /\ DOMAIN <<>> = {}
  OBVIOUS
<1>2. EventPlaces(<<>>) = {}
  BY <1>1 DEF EventPlaces
<1>3. EventsIn(<<>>) = 0
  BY <1>1, <1>2, CountsAreNumbers
<1>4. calls = <<>> /\ pipes.stdin = <<>> /\ pipes.stdout = <<>> /\ Ids = {}
  BY <1>1 DEF TransportInit, Ids
<1>5. TransportTyped
  BY <1>1 DEF TransportInit, TransportTyped
<1>6. ServedInOrder /\ OneSubscription
  BY <1>1, <1>4 DEF TransportInit, ServedInOrder, OneSubscription
<1>7. EventsArrive /\ EndArrives
  BY <1>1, <1>3, <1>4 DEF TransportInit, EventsArrive, EndArrives, EndIsLast, Ends
<1> QED BY <1>4, <1>5, <1>6, <1>7 DEF TransportInv, Pending

\* A request is one more call, behind all others; only a client without a subscription
\* may ask for one.
LEMMA OneMoreCall ==
  ASSUME TransportInv, NEW method \in Methods, Request(method), UNCHANGED host,
         method = "subscribeEvents" => inbox.queue = "none" /\ inbox'.queue = "open",
         inbox.queue # "none" => inbox'.queue # "none"
  PROVE  /\ calls' \in Seq(Calls) /\ pipes' \in [stdin : Seq(Nat), stdout : Seq(Lines)]
         /\ pipes'.stdout = pipes.stdout /\ ServedInOrder'
         /\ inbox'.queue \in {inbox.queue, "open", "left"} => OneSubscription'
<1> DEFINE c == [method |-> method, state |-> "pending"]
           n == Len(calls)
           m == Len(pipes.stdin)
<1>1. /\ TransportTyped /\ ServedInOrder /\ OneSubscription
  BY DEF TransportInv
<1>2. /\ calls \in Seq(Calls) /\ c \in Calls /\ calls' = Append(calls, c) /\ n \in Nat
      /\ pipes \in [stdin : Seq(Nat), stdout : Seq(Lines)] /\ pipes.stdin \in Seq(Nat) /\ m \in Nat
      /\ pipes' = [pipes EXCEPT !.stdin = Append(pipes.stdin, n + 1)] /\ host' = host
  BY <1>1 DEF TransportTyped, Request, Calls
<1>3. /\ calls' \in Seq(Calls) /\ Len(calls') = n + 1 /\ DOMAIN calls = 1..n /\ DOMAIN calls' = 1..(n + 1)
      /\ \A i \in 1..n : calls'[i] = calls[i]
      /\ calls'[n + 1] = c
  BY <1>2
<1>4. /\ pipes'.stdin = Append(pipes.stdin, n + 1) /\ pipes'.stdin \in Seq(Nat) /\ Len(pipes'.stdin) = m + 1
      /\ \A k \in 1..m : pipes'.stdin[k] = pipes.stdin[k]
      /\ pipes'.stdin[m + 1] = n + 1
  BY <1>2
<1>5. pipes' \in [stdin : Seq(Nat), stdout : Seq(Lines)] /\ pipes'.stdout = pipes.stdout
  BY <1>2, <1>4
<1>6. m <= n /\ (\A k \in 1..m : pipes.stdin[k] = n - m + k) /\ host.at \in {0, n - m}
      /\ (host.pc = "serving" => host.at # 0)
  BY <1>1 DEF ServedInOrder
<1>7. ServedInOrder'
  <2>1. \A k \in 1..(m + 1) : pipes'.stdin[k] = (n + 1) - (m + 1) + k
    BY <1>2, <1>4, <1>6
  <2> QED BY <1>2, <1>3, <1>4, <1>6, <2>1 DEF ServedInOrder
<1>8. ASSUME inbox'.queue \in {inbox.queue, "open", "left"} PROVE OneSubscription'
  <2>1. /\ \A i \in 1..n : calls'[i].method = calls[i].method
        /\ calls'[n + 1].method = method
    BY <1>3
  <2>2. method = "subscribeEvents" => host.stream = "none" /\ \A i \in 1..n : ~Subscribes(i)
    BY <1>1, <1>3 DEF OneSubscription, Ids
  <2>3. \A i \in 1..(n + 1) : i \in 1..n \/ i = n + 1
    BY <1>2
  <2> HIDE DEF n, m, c
  <2>4. \A i, j \in 1..(n + 1) : calls'[i].method = "subscribeEvents" /\ calls'[j].method = "subscribeEvents"
          => i = j
    BY <1>1, <1>3, <2>1, <2>2, <2>3 DEF OneSubscription, Ids, Subscribes
  <2>5. inbox'.queue = "none" => host.stream = "none" /\ \A i \in 1..(n + 1) : calls'[i].method # "subscribeEvents"
    BY <1>1, <1>3, <1>8, <2>1, <2>3 DEF OneSubscription, Ids, Subscribes
  <2>6. host.stream # "none" => \A i \in 1..(n + 1) : calls'[i].method = "subscribeEvents" =>
          i <= (n + 1) - (m + 1) /\ i # host.at
    <3>1. ASSUME host.stream # "none", NEW i \in 1..n, Subscribes(i) PROVE i <= n - m /\ i # host.at
      BY <1>1, <1>3, <3>1 DEF OneSubscription, Ids, n, m
    <3>2. (n + 1) - (m + 1) = n - m
      BY <1>2
    <3> QED BY <2>1, <2>2, <2>3, <3>1, <3>2 DEF Subscribes
  <2> QED BY <1>2, <1>3, <1>4, <2>4, <2>5, <2>6 DEF OneSubscription, Ids, Subscribes
<1> QED BY <1>3, <1>5, <1>7, <1>8

\* The types of the client and of its queue, and of the host.
Clients == [ready : BOOLEAN, closed : BOOLEAN, closing : {"no", "waiting", "closed"}, doomed : BOOLEAN]
Queues == [queue : {"none", "open", "left"}, values : Nat, ended : {"no", "done", "failed"},
           consumer : {"none", "waiting", "listening", "done", "failed", "returned"}, got : Nat]

\* The first line is read.
LEMMA FirstLine ==
  ASSUME NEW lines \in Seq(Lines), lines # <<>>, EndIsLast(lines)
  PROVE  LET m == Head(lines) IN
         /\ m \in Lines /\ Tail(lines) \in Seq(Lines) /\ EndIsLast(Tail(lines))
         /\ EventsIn(Tail(lines)) \in Nat
         /\ EventsIn(lines) = EventsIn(Tail(lines)) + (IF m.kind = "event" THEN 1 ELSE 0)
         /\ Ends(lines) <=> m.kind = "stream_closed" \/ Ends(Tail(lines))
         /\ m.kind = "stream_closed" => EventsIn(Tail(lines)) = 0
<1> DEFINE m == Head(lines)
           t == Tail(lines)
<1>1. m \in Lines /\ t \in Seq(Lines) /\ <<m>> \in Seq(Lines)
  OBVIOUS
<1>2. lines = <<m>> \o t
  OBVIOUS
<1>3. EventsIn(t) \in Nat
  BY <1>1, CountsAreNumbers
<1> HIDE DEF m, t
<1>4. /\ EventsIn(<<m>> \o t) = EventsIn(<<m>>) + EventsIn(t)
      /\ Ends(<<m>> \o t) <=> Ends(<<m>>) \/ Ends(t)
      /\ EndIsLast(<<m>> \o t) <=> EndIsLast(<<m>>) /\ EndIsLast(t) /\ (Ends(<<m>>) => EventsIn(t) = 0)
  BY <1>1, LinesAddUp
<1>5. /\ EventsIn(<<m>>) = IF m.kind = "event" THEN 1 ELSE 0
      /\ Ends(<<m>>) <=> m.kind = "stream_closed"
  BY <1>1, OneLine
<1>6. /\ EndIsLast(t)
      /\ EventsIn(lines) = EventsIn(t) + (IF m.kind = "event" THEN 1 ELSE 0)
      /\ Ends(lines) <=> m.kind = "stream_closed" \/ Ends(t)
      /\ m.kind = "stream_closed" => EventsIn(t) = 0
  <2>1. EventsIn(lines) = EventsIn(<<m>>) + EventsIn(t)
    BY <1>2, <1>4
  <2>2. Ends(lines) <=> Ends(<<m>>) \/ Ends(t)
    BY <1>2, <1>4
  <2>3. EndIsLast(t) /\ (Ends(<<m>>) => EventsIn(t) = 0)
    BY <1>2, <1>4
  <2>4. \A x \in Nat : 0 + x = x + 0 /\ 1 + x = x + 1
    OBVIOUS
  <2> QED BY <1>3, <1>5, <2>1, <2>2, <2>3, <2>4
<1> QED BY <1>1, <1>3, <1>6 DEF m, t

\* Steps that add no call and serve none leave the order of the calls and the subscription.
LEMMA CallsStand ==
  ASSUME TransportInv, calls' \in Seq(Calls), Len(calls') = Len(calls),
         \A i \in Ids : calls'[i].method = calls[i].method,
         pipes'.stdin = pipes.stdin, host' = host,
         inbox'.queue = "none" => inbox.queue = "none"
  PROVE  ServedInOrder' /\ OneSubscription'
<1>1. /\ calls \in Seq(Calls) /\ ServedInOrder /\ OneSubscription
  BY DEF TransportInv, TransportTyped
<1>2. DOMAIN calls' = DOMAIN calls
  BY <1>1
<1>3. ServedInOrder'
  BY <1>1 DEF ServedInOrder
<1>4. OneSubscription'
  BY <1>1, <1>2 DEF OneSubscription, Subscribes, Ids
<1> QED BY <1>3, <1>4

\* A call is settled, its subscription with it.
LEMMA OneSettled ==
  ASSUME TransportInv, NEW i, NEW state \in {"answered", "failed", "timed_out"},
         Settle(i, state), SettleQueue(i, state)
  PROVE  /\ calls' \in Seq(Calls) /\ Len(calls') = Len(calls)
         /\ \A k \in Ids : calls'[k].method = calls[k].method
         /\ \A k \in Ids : calls'[k].state = "pending" => calls[k].state = "pending"
         /\ client' \in Clients /\ client'.closed = client.closed
         /\ inbox' \in Queues /\ (inbox' = inbox \/ inbox' = [inbox EXCEPT !.queue = "left", !.ended = "failed"])
<1>1. /\ calls \in Seq(Calls) /\ client \in Clients /\ inbox \in Queues
  BY DEF TransportInv, TransportTyped, Clients, Queues
<1> DEFINE e == [calls[i] EXCEPT !.state = state]
<1>2. calls' = [calls EXCEPT ![i] = e]
  BY DEF Settle
<1>3. /\ calls' \in Seq(Calls) /\ Len(calls') = Len(calls)
      /\ \A k \in Ids : calls'[k].method = calls[k].method
      /\ \A k \in Ids : calls'[k].state = "pending" => calls[k].state = "pending"
  <2>1. CASE i \in DOMAIN calls
    <3>1. calls[i] \in Calls
      BY <1>1, <2>1
    <3>2. e \in Calls /\ e.method = calls[i].method /\ e.state # "pending"
      BY <3>1 DEF Calls
    <3> HIDE DEF e
    <3> QED BY <1>1, <1>2, <3>2, OneWritten DEF Ids
  <2>2. CASE i \notin DOMAIN calls
    <3>1. calls' = calls
      BY <1>1, <1>2, <2>2
    <3> QED BY <1>1, <3>1
  <2> QED BY <2>1, <2>2
<1>4. client' \in Clients /\ client'.closed = client.closed
  BY <1>1 DEF Settle, Clients
<1>5. inbox' \in Queues /\ (inbox' = inbox \/ inbox' = [inbox EXCEPT !.queue = "left", !.ended = "failed"])
  BY <1>1 DEF SettleQueue, Queues
<1> QED BY <1>3, <1>4, <1>5

\* The transport closes: nothing is pending after it.
LEMMA AllSettled ==
  ASSUME TransportInv, TransportClosed
  PROVE  /\ calls' \in Seq(Calls) /\ Len(calls') = Len(calls)
         /\ \A k \in Ids : calls'[k].method = calls[k].method /\ calls'[k].state # "pending"
         /\ client' \in Clients
         /\ inbox' \in Queues
         /\ (inbox' = inbox /\ inbox.queue # "open") \/ inbox' = [inbox EXCEPT !.queue = "left", !.ended = "failed"]
<1>1. /\ calls \in Seq(Calls) /\ client \in Clients /\ inbox \in Queues
  BY DEF TransportInv, TransportTyped, Clients, Queues
<1> DEFINE e(k) == IF Pending(k) THEN [calls[k] EXCEPT !.state = "failed"] ELSE calls[k]
<1>2. calls' = [k \in 1..Len(calls) |-> e(k)] /\ Len(calls) \in Nat /\ DOMAIN calls = 1..Len(calls)
  BY <1>1 DEF TransportClosed, Ids
<1>3. \A k \in 1..Len(calls) : e(k) \in Calls /\ e(k).method = calls[k].method /\ e(k).state # "pending"
  <2> SUFFICES ASSUME NEW k \in 1..Len(calls)
               PROVE  e(k) \in Calls /\ e(k).method = calls[k].method /\ e(k).state # "pending"
    OBVIOUS
  <2>1. calls[k] \in Calls
    BY <1>1
  <2> QED BY <2>1 DEF Calls, Pending
<1> HIDE DEF e
<1>4. calls' \in [1..Len(calls) -> Calls]
  BY <1>2, <1>3
<1>5. calls' \in Seq(Calls) /\ Len(calls') = Len(calls)
  BY <1>2, <1>4
<1>6. \A k \in Ids : calls'[k].method = calls[k].method /\ calls'[k].state # "pending"
  BY <1>2, <1>3 DEF Ids
<1>7. client' \in Clients
  BY <1>1 DEF TransportClosed, Clients
<1>8. inbox' \in Queues /\ ((inbox' = inbox /\ inbox.queue # "open") \/ inbox' = [inbox EXCEPT !.queue = "left", !.ended = "failed"])
  BY <1>1 DEF TransportClosed, Queues
<1> QED BY <1>5, <1>6, <1>7, <1>8

\* What the callers of the client do.
LEMMA CallersKeep ==
  TransportInv /\ (Initialize \/ (\E m \in Uses : Use(m)) \/ StreamEvents \/ ListenerThrows \/ Close
                  \/ NextEvent \/ ListenerReturns \/ CloseReturns) => TransportInv'
<1> SUFFICES ASSUME TransportInv
             PROVE  Initialize \/ (\E m \in Uses : Use(m)) \/ StreamEvents \/ ListenerThrows \/ Close
                      \/ NextEvent \/ ListenerReturns \/ CloseReturns => TransportInv'
  OBVIOUS
<1> DEFINE n == EventsIn(pipes.stdout)
<1>1. /\ TransportTyped /\ EventsArrive /\ EndArrives
      /\ calls \in Seq(Calls) /\ client \in Clients /\ inbox \in Queues
      /\ pipes \in [stdin : Seq(Nat), stdout : Seq(Lines)]
      /\ (client.closed => ~\E i \in Ids : Pending(i))
  BY DEF TransportInv, TransportTyped, Clients, Queues
<1>2. n \in Nat
  BY <1>1, CountsAreNumbers
<1>3. ASSUME NEW method \in Methods, Request(method), UNCHANGED host, client' \in Clients,
             client'.closed = client.closed, inbox' \in Queues,
             method = "subscribeEvents" => inbox.queue = "none" /\ inbox'.queue = "open",
             inbox.queue # "none" => inbox'.queue # "none",
             EventsArrive', EndArrives'
      PROVE  TransportInv'
  <2>1. /\ calls' \in Seq(Calls) /\ pipes' \in [stdin : Seq(Nat), stdout : Seq(Lines)]
        /\ ServedInOrder' /\ OneSubscription'
    BY <1>1, <1>3, OneMoreCall DEF Queues
  <2>2. TransportTyped'
    BY <1>1, <1>3, <2>1 DEF TransportTyped, Clients, Queues
  <2>3. ~client'.closed
    BY <1>3 DEF Request
  <2> QED BY <1>3, <2>1, <2>2, <2>3 DEF TransportInv
<1>4. ASSUME UNCHANGED <<calls, host, pipes>>, client' \in Clients,
             client'.closed = client.closed, inbox' \in Queues,
             inbox.queue # "none" => inbox'.queue # "none",
             EventsArrive', EndArrives'
      PROVE  TransportInv'
  <2>1. ServedInOrder' /\ OneSubscription'
    BY <1>1, <1>4, CallsStand
  <2>2. TransportTyped'
    BY <1>1, <1>4 DEF TransportTyped, Clients, Queues
  <2>3. (client.closed => ~\E i \in Ids : Pending(i))'
    BY <1>1, <1>4 DEF Ids, Pending
  <2> QED BY <1>4, <2>1, <2>2, <2>3 DEF TransportInv
<1>5. ASSUME NEW method, Request(method) PROVE pipes'.stdout = pipes.stdout /\ EventsIn(pipes'.stdout) = n
  BY <1>1, <1>5 DEF Request
<1>6. ASSUME UNCHANGED <<inbox, host>>, pipes'.stdout = pipes.stdout PROVE EventsArrive' /\ EndArrives'
  BY <1>1, <1>6 DEF EventsArrive, EndArrives
<1>7. CASE Initialize
  BY <1>1, <1>3, <1>5, <1>6, <1>7 DEF Initialize, Methods
<1>8. ASSUME NEW m \in Uses, Use(m) PROVE TransportInv'
  <2>1. m \in Methods /\ m # "subscribeEvents"
    BY TransportAssumption DEF Methods
  <2> QED BY <1>1, <1>3, <1>5, <1>6, <1>8, <2>1 DEF Use
<1>9. CASE StreamEvents
  <2>1. /\ Request("subscribeEvents") /\ UNCHANGED <<client, host>> /\ inbox.queue = "none"
        /\ inbox' = [inbox EXCEPT !.queue = "open", !.consumer = "waiting"]
    BY <1>9 DEF StreamEvents
  <2>2. inbox' \in Queues
    BY <1>1, <2>1 DEF Queues
  <2>3. /\ pipes'.stdout = pipes.stdout /\ EventsIn(pipes'.stdout) = n
    BY <1>5, <2>1
  <2>4. EventsArrive'
    BY <1>1, <2>1, <2>3 DEF EventsArrive, Queues
  <2>5. inbox.ended = "no"
    BY <1>1, <2>1 DEF EndArrives
  <2>6. EndArrives'
    BY <1>1, <2>1, <2>3, <2>5 DEF EndArrives, Queues
  <2> QED BY <1>1, <1>3, <2>1, <2>2, <2>4, <2>6 DEF Methods, Queues
<1>10. CASE ListenerThrows
  <2>1. /\ UNCHANGED <<client, host>> /\ inbox.consumer = "listening"
        /\ inbox' = [inbox EXCEPT !.consumer = "returned", !.ended = "done", !.queue = "left"]
        /\ Request("unsubscribeEvents") \/ UNCHANGED <<calls, pipes>>
    BY <1>10 DEF ListenerThrows
  <2>2. inbox' \in Queues /\ inbox'.queue = "left" /\ inbox'.consumer = "returned"
        /\ inbox'.got = inbox.got /\ inbox'.values = inbox.values
    BY <1>1, <2>1 DEF Queues
  <2>3. /\ pipes'.stdout = pipes.stdout /\ EventsIn(pipes'.stdout) = n
    BY <1>5, <2>1
  <2>4. EventsArrive'
    BY <1>1, <2>1, <2>2, <2>3 DEF EventsArrive
  <2>5. EndArrives'
    BY <1>1, <2>1, <2>2, <2>3 DEF EndArrives
  <2> QED BY <1>1, <1>3, <1>4, <2>1, <2>2, <2>4, <2>5 DEF Methods
<1>11. CASE Close
  <2>1. /\ UNCHANGED <<inbox, host>> /\ client' = [client EXCEPT !.closing = "waiting"]
        /\ Request("shutdown") \/ UNCHANGED <<calls, pipes>>
    BY <1>11 DEF Close
  <2>2. client' \in Clients /\ client'.closed = client.closed
    BY <1>1, <2>1 DEF Clients
  <2>3. pipes'.stdout = pipes.stdout
    BY <1>5, <2>1
  <2> QED BY <1>1, <1>3, <1>4, <1>6, <2>1, <2>2, <2>3 DEF Methods
<1>12. CASE NextEvent
  <2>1. /\ UNCHANGED <<calls, client, host, pipes>> /\ inbox.consumer = "waiting"
        /\ \/ /\ inbox.values > 0
              /\ inbox' = [inbox EXCEPT !.values = inbox.values - 1, !.got = inbox.got + 1, !.consumer = "listening"]
           \/ /\ ~(inbox.values > 0) /\ inbox.ended # "no"
              /\ inbox' = [inbox EXCEPT !.consumer = inbox.ended]
    BY <1>12 DEF NextEvent
  <2>2. /\ inbox.values \in Nat /\ inbox.got \in Nat /\ host.emitted \in Nat
    BY <1>1 DEF Queues, TransportTyped
  <2>3. /\ inbox' \in Queues /\ inbox'.queue = inbox.queue /\ inbox'.ended = inbox.ended
        /\ inbox'.got + inbox'.values = inbox.got + inbox.values
        /\ \/ inbox'.consumer = "listening"
           \/ inbox.ended # "no" /\ inbox'.consumer = inbox.ended /\ inbox'.values = 0
    <3>1. CASE inbox.values > 0
      <4>1. /\ inbox.values - 1 \in Nat /\ inbox.got + 1 \in Nat
            /\ (inbox.got + 1) + (inbox.values - 1) = inbox.got + inbox.values
        BY <2>2, <3>1
      <4>2. inbox' = [inbox EXCEPT !.values = inbox.values - 1, !.got = inbox.got + 1, !.consumer = "listening"]
        BY <2>1, <3>1
      <4> QED BY <1>1, <4>1, <4>2 DEF Queues
    <3>2. CASE ~(inbox.values > 0)
      <4>1. inbox.values = 0 /\ inbox.ended # "no" /\ inbox' = [inbox EXCEPT !.consumer = inbox.ended]
        BY <2>1, <2>2, <3>2
      <4> QED BY <1>1, <4>1 DEF Queues
    <3> QED BY <3>1, <3>2
  <2>4. inbox'.got \in Nat /\ inbox'.values \in Nat
    BY <2>3 DEF Queues
  <2>5. EventsArrive'
    BY <1>1, <1>2, <2>1, <2>3 DEF EventsArrive
  <2>6. EndArrives'
    <3>1. inbox.ended = "done" => host.stream = "over" /\ inbox'.got + inbox'.values = host.emitted
      BY <1>1, <2>1, <2>3 DEF EndArrives
    <3>2. inbox.queue # "none" /\ (inbox.queue = "open" => inbox.ended = "no")
      BY <1>1, <2>1 DEF EndArrives
    <3>3. inbox'.consumer = "done" => inbox'.got = host.emitted
      BY <2>2, <2>3, <2>4, <3>1
    <3> QED BY <1>1, <2>1, <2>3, <3>1, <3>2, <3>3 DEF EndArrives
  <2> QED BY <1>1, <1>4, <2>1, <2>3, <2>5, <2>6
<1>13. CASE ListenerReturns
  <2>1. /\ UNCHANGED <<calls, client, host, pipes>> /\ inbox.consumer = "listening"
        /\ inbox' = [inbox EXCEPT !.consumer = "waiting"]
    BY <1>13 DEF ListenerReturns
  <2>2. inbox' \in Queues /\ inbox'.queue = inbox.queue /\ inbox'.ended = inbox.ended
        /\ inbox'.got = inbox.got /\ inbox'.values = inbox.values /\ inbox'.consumer = "waiting"
    BY <1>1, <2>1 DEF Queues
  <2>3. EventsArrive' /\ EndArrives'
    BY <1>1, <2>1, <2>2 DEF EventsArrive, EndArrives
  <2> QED BY <1>1, <1>4, <2>1, <2>2, <2>3
<1>14. CASE CloseReturns
  <2>1. /\ UNCHANGED <<calls, inbox, host, pipes>> /\ client' = [client EXCEPT !.closing = "closed"]
    BY <1>14 DEF CloseReturns
  <2>2. client' \in Clients /\ client'.closed = client.closed
    BY <1>1, <2>1 DEF Clients
  <2> QED BY <1>1, <1>4, <1>6, <2>1, <2>2
<1> QED BY <1>7, <1>8, <1>9, <1>10, <1>11, <1>12, <1>13, <1>14

\* What the client hears: a line, that the process is over, or nothing in time.
LEMMA ClientHears == TransportInv /\ (RequestTimesOut \/ ReadLine \/ ProcessClosed) => TransportInv'
<1> SUFFICES ASSUME TransportInv, RequestTimesOut \/ ReadLine \/ ProcessClosed PROVE TransportInv'
  OBVIOUS
<1> DEFINE left == [inbox EXCEPT !.queue = "left", !.ended = "failed"]
<1>1. /\ TransportTyped /\ EventsArrive /\ EndArrives
      /\ calls \in Seq(Calls) /\ client \in Clients /\ inbox \in Queues
      /\ pipes \in [stdin : Seq(Nat), stdout : Seq(Lines)] /\ pipes.stdout \in Seq(Lines)
      /\ (client.closed => ~\E i \in Ids : Pending(i))
  BY DEF TransportInv, TransportTyped, Clients, Queues
<1>2. /\ EventsIn(pipes.stdout) \in Nat /\ inbox.got \in Nat /\ inbox.values \in Nat /\ host.emitted \in Nat
  BY <1>1, CountsAreNumbers DEF Queues, TransportTyped
<1>3. host' = host
  BY DEF RequestTimesOut, ReadLine, ProcessClosed
<1>4. ASSUME calls' \in Seq(Calls), Len(calls') = Len(calls),
             \A i \in Ids : calls'[i].method = calls[i].method,
             client'.closed => \A i \in Ids : calls'[i].state # "pending",
             client' \in Clients, inbox' \in Queues, pipes' \in [stdin : Seq(Nat), stdout : Seq(Lines)],
             pipes'.stdin = pipes.stdin, inbox'.queue = "none" => inbox.queue = "none",
             EventsArrive', EndArrives'
      PROVE  TransportInv'
  <2>1. ServedInOrder' /\ OneSubscription'
    BY <1>3, <1>4, CallsStand
  <2>2. TransportTyped'
    BY <1>1, <1>3, <1>4 DEF TransportTyped, Clients, Queues
  <2>3. DOMAIN calls' = DOMAIN calls
    BY <1>1, <1>4
  <2>4. (client.closed => ~\E i \in Ids : Pending(i))'
    BY <1>4, <2>3 DEF Ids, Pending
  <2> QED BY <1>4, <2>1, <2>2, <2>4 DEF TransportInv
<1>5. left \in Queues /\ left.queue = "left" /\ left.ended = "failed" /\ left.consumer = inbox.consumer
      /\ left.got = inbox.got /\ left.values = inbox.values
  BY <1>1 DEF Queues
<1> HIDE DEF left
\* The lines that are left when the client has read some, or none, that were no events
\* of its subscription.
<1>6. ASSUME pipes'.stdout \in Seq(Lines), EndIsLast(pipes'.stdout),
             Ends(pipes'.stdout) => Ends(pipes.stdout), EventsIn(pipes'.stdout) \in Nat,
             EventsIn(pipes'.stdout) <= EventsIn(pipes.stdout),
             \/ inbox' = inbox /\ (inbox.queue # "left" => EventsIn(pipes'.stdout) = EventsIn(pipes.stdout))
             \/ inbox' = left
      PROVE  /\ EventsArrive' /\ EndArrives' /\ inbox' \in Queues
             /\ inbox'.queue = "none" => inbox.queue = "none"
  <2>1. EventsArrive'
    <3>1. CASE inbox' = inbox
      BY <1>1, <1>2, <1>3, <1>5, <1>6, <3>1 DEF EventsArrive
    <3>2. CASE inbox' = left
      BY <1>1, <1>2, <1>3, <1>5, <1>6, <3>2 DEF EventsArrive
    <3> QED BY <1>6, <3>1, <3>2
  <2>2. EndArrives'
    <3>1. CASE inbox' = inbox
      BY <1>1, <1>3, <1>6, <3>1 DEF EndArrives
    <3>2. CASE inbox' = left
      BY <1>1, <1>3, <1>5, <1>6, <3>2 DEF EndArrives
    <3> QED BY <1>6, <3>1, <3>2
  <2> QED BY <1>1, <1>5, <1>6, <2>1, <2>2
<1>7. CASE RequestTimesOut
  <2>1. PICK i \in Ids : Settle(i, "timed_out") /\ SettleQueue(i, "timed_out") /\ UNCHANGED pipes
    BY <1>7 DEF RequestTimesOut
  <2>2. /\ calls' \in Seq(Calls) /\ Len(calls') = Len(calls)
        /\ \A k \in Ids : calls'[k].method = calls[k].method
        /\ \A k \in Ids : calls'[k].state = "pending" => calls[k].state = "pending"
        /\ client' \in Clients /\ client'.closed = client.closed
        /\ inbox' = inbox \/ inbox' = left
    BY <2>1, OneSettled DEF left
  <2>3. /\ EventsArrive' /\ EndArrives' /\ inbox' \in Queues /\ (inbox'.queue = "none" => inbox.queue = "none")
    BY <1>1, <1>2, <1>6, <2>1, <2>2 DEF EndArrives
  <2> QED BY <1>1, <1>4, <2>1, <2>2, <2>3 DEF Pending
<1>8. CASE ProcessClosed
  <2>1. TransportClosed /\ UNCHANGED pipes /\ pipes.stdout = <<>>
    BY <1>8 DEF ProcessClosed
  <2>2. /\ calls' \in Seq(Calls) /\ Len(calls') = Len(calls)
        /\ \A k \in Ids : calls'[k].method = calls[k].method /\ calls'[k].state # "pending"
        /\ client' \in Clients
        /\ inbox' = inbox \/ inbox' = left
    BY <2>1, AllSettled DEF left
  <2>3. /\ EventsArrive' /\ EndArrives' /\ inbox' \in Queues /\ (inbox'.queue = "none" => inbox.queue = "none")
    BY <1>1, <1>2, <1>6, <2>1, <2>2 DEF EndArrives
  <2> QED BY <1>1, <1>4, <2>1, <2>2, <2>3
<1>9. CASE ReadLine
  <2> DEFINE m == Head(pipes.stdout)
             rest == Tail(pipes.stdout)
  <2>1. /\ ~client.closed /\ pipes.stdout # <<>> /\ pipes' = [pipes EXCEPT !.stdout = rest]
        /\ \/ /\ m.kind = "response"
              /\ \E state \in {"answered", "failed"} : Settle(m.of, state) /\ SettleQueue(m.of, state)
           \/ /\ m.kind = "ready"
              /\ client' = [client EXCEPT !.ready = TRUE]
              /\ UNCHANGED <<calls, inbox>>
           \/ /\ m.kind = "event" /\ inbox.queue = "open"
              /\ inbox' = [inbox EXCEPT !.values = inbox.values + 1]
              /\ UNCHANGED <<calls, client>>
           \/ /\ m.kind = "stream_closed" /\ inbox.queue = "open"
              /\ inbox' = [inbox EXCEPT !.queue = "left", !.ended = "done"]
              /\ UNCHANGED <<calls, client>>
           \/ /\ m.kind \in {"event", "stream_closed"} => inbox.queue # "open"
              /\ TransportClosed
    BY <1>9 DEF ReadLine
  <2>2. /\ m \in Lines /\ rest \in Seq(Lines) /\ EndIsLast(rest) /\ EventsIn(rest) \in Nat
        /\ EventsIn(pipes.stdout) = EventsIn(rest) + (IF m.kind = "event" THEN 1 ELSE 0)
        /\ Ends(pipes.stdout) <=> m.kind = "stream_closed" \/ Ends(rest)
        /\ m.kind = "stream_closed" => EventsIn(rest) = 0
    BY <1>1, <2>1, FirstLine DEF EndArrives
  <2> HIDE DEF m, rest
  <2>3. /\ pipes' \in [stdin : Seq(Nat), stdout : Seq(Lines)] /\ pipes'.stdin = pipes.stdin
        /\ pipes'.stdout = rest
    BY <1>1, <2>1, <2>2
  <2>4. EventsIn(rest) <= EventsIn(pipes.stdout)
        /\ (m.kind # "event" => EventsIn(rest) = EventsIn(pipes.stdout))
    BY <1>2, <2>2
  <2>5. ASSUME calls' \in Seq(Calls), Len(calls') = Len(calls),
               \A i \in Ids : calls'[i].method = calls[i].method,
               client'.closed => \A i \in Ids : calls'[i].state # "pending",
               client' \in Clients,
               \/ inbox' = inbox /\ (inbox.queue # "left" => m.kind # "event")
               \/ inbox' = left
        PROVE  TransportInv'
    <3>1. /\ EventsArrive' /\ EndArrives' /\ inbox' \in Queues /\ (inbox'.queue = "none" => inbox.queue = "none")
      BY <1>6, <2>2, <2>3, <2>4, <2>5
    <3> QED BY <1>4, <2>3, <2>5, <3>1
  <2>6. ASSUME NEW state \in {"answered", "failed"}, m.kind = "response",
               Settle(m.of, state), SettleQueue(m.of, state)
        PROVE  TransportInv'
    <3>1. /\ calls' \in Seq(Calls) /\ Len(calls') = Len(calls)
          /\ \A k \in Ids : calls'[k].method = calls[k].method
          /\ client' \in Clients /\ client'.closed = client.closed
          /\ inbox' = inbox \/ inbox' = left
      BY <2>6, OneSettled DEF left
    <3> QED BY <2>1, <2>5, <2>6, <3>1
  <2>7. CASE m.kind = "ready" /\ client' = [client EXCEPT !.ready = TRUE] /\ UNCHANGED <<calls, inbox>>
    <3>1. client' \in Clients /\ client'.closed = client.closed
      BY <1>1, <2>7 DEF Clients
    <3> QED BY <1>1, <2>1, <2>5, <2>7, <3>1
  <2>8. CASE m.kind = "event" /\ inbox.queue = "open" /\ inbox' = [inbox EXCEPT !.values = inbox.values + 1]
               /\ UNCHANGED <<calls, client>>
    <3>1. inbox' \in Queues /\ inbox'.queue = "open" /\ inbox'.ended = inbox.ended
          /\ inbox'.consumer = inbox.consumer /\ inbox'.got = inbox.got /\ inbox'.values = inbox.values + 1
      <4>1. inbox.values + 1 \in Nat
        BY <1>2
      <4> QED BY <1>1, <2>8, <4>1 DEF Queues
    <3>2. EventsIn(pipes.stdout) = EventsIn(rest) + 1
      BY <2>2, <2>8
    <3>3. inbox'.got + inbox'.values + EventsIn(rest) = inbox.got + inbox.values + EventsIn(pipes.stdout)
      <4>1. \A g, v, r \in Nat : g + (v + 1) + r = g + v + (r + 1)
        OBVIOUS
      <4>2. EventsIn(rest) \in Nat /\ inbox'.got = inbox.got /\ inbox'.values = inbox.values + 1
        BY <2>2, <3>1
      <4> QED BY <1>2, <3>2, <4>1, <4>2
    <3>4. EventsArrive'
      BY <1>1, <1>3, <2>3, <2>8, <3>1, <3>3 DEF EventsArrive
    <3>5. EndArrives'
      BY <1>1, <1>3, <2>2, <2>3, <2>8, <3>1 DEF EndArrives
    <3> QED BY <1>1, <1>4, <2>1, <2>3, <2>8, <3>1, <3>4, <3>5
  <2>9. CASE m.kind = "stream_closed" /\ inbox.queue = "open"
               /\ inbox' = [inbox EXCEPT !.queue = "left", !.ended = "done"] /\ UNCHANGED <<calls, client>>
    <3>1. inbox' \in Queues /\ inbox'.queue = "left" /\ inbox'.ended = "done"
          /\ inbox'.consumer = inbox.consumer /\ inbox'.got = inbox.got /\ inbox'.values = inbox.values
      BY <1>1, <2>9 DEF Queues
    <3>2. EventsIn(pipes.stdout) = 0 /\ EventsIn(rest) = 0
      BY <2>2, <2>4, <2>9
    <3>3. inbox.got + inbox.values = host.emitted
      BY <1>1, <1>2, <2>9, <3>2 DEF EventsArrive
    <3>4. EventsArrive'
      BY <1>1, <1>2, <1>3, <2>3, <3>1, <3>2 DEF EventsArrive
    <3>5. host.stream = "over" /\ inbox.consumer \in {"waiting", "listening"}
      BY <1>1, <2>2, <2>9 DEF EndArrives
    <3>6. EndArrives'
      BY <1>3, <2>2, <2>3, <3>1, <3>3, <3>5 DEF EndArrives
    <3> QED BY <1>1, <1>4, <2>1, <2>3, <2>9, <3>1, <3>4, <3>6
  <2>10. CASE (m.kind \in {"event", "stream_closed"} => inbox.queue # "open") /\ TransportClosed
    <3>1. /\ calls' \in Seq(Calls) /\ Len(calls') = Len(calls)
          /\ \A k \in Ids : calls'[k].method = calls[k].method /\ calls'[k].state # "pending"
          /\ client' \in Clients
          /\ inbox' = inbox \/ inbox' = left
      BY <2>10, AllSettled DEF left
    <3>2. m.kind = "event" => inbox.queue = "left"
      <4>1. SUFFICES ASSUME m.kind = "event", inbox.queue = "none" PROVE FALSE
        BY <1>1, <2>10 DEF Queues
      <4>2. host.emitted = 0 /\ inbox.got + inbox.values + EventsIn(pipes.stdout) = 0
        BY <1>1, <4>1 DEF TransportInv, OneSubscription, EventsArrive
      <4>3. EventsIn(pipes.stdout) = EventsIn(rest) + 1
        BY <2>2, <4>1
      <4> QED BY <1>2, <2>2, <4>2, <4>3
    <3> QED BY <2>5, <3>1, <3>2
  <2> QED BY <2>1, <2>6, <2>7, <2>8, <2>9, <2>10
<1> QED BY <1>7, <1>8, <1>9

\* What the process does, which touches neither the calls nor the client.
HostStep == \/ StartProcess \/ ProcessDies \/ ProcessKilled \/ HostStarts \/ HostReads \/ HostStops
            \/ (\E ok \in BOOLEAN : HostAnswers(ok)) \/ DriverEmits \/ DriverStreamEnds

LEMMA HostOnly == HostStep => UNCHANGED <<calls, client, inbox>>
<1>1. ASSUME NEW ok \in BOOLEAN, HostAnswers(ok) PROVE UNCHANGED <<calls, client, inbox>>
  BY <1>1 DEF HostAnswers
<1>2. ASSUME NEW lines, Pumps(lines) PROVE UNCHANGED <<calls, client, inbox>>
  BY <1>2 DEF Pumps
<1>3. ASSUME StartProcess \/ ProcessDies \/ ProcessKilled \/ HostStarts \/ HostReads \/ HostStops
      PROVE  UNCHANGED <<calls, client, inbox>>
  BY <1>3 DEF StartProcess, ProcessDies, ProcessKilled, HostStarts, HostReads, HostStops
<1> QED BY <1>1, <1>2, <1>3 DEF HostStep, DriverEmits, DriverStreamEnds

LEMMA HostKeeps == TransportInv /\ HostStep => TransportInv'
<1> SUFFICES ASSUME TransportInv, HostStep PROVE TransportInv'
  OBVIOUS
<1> DEFINE n == Len(calls)
           k == Len(pipes.stdin)
           sent == EventsIn(pipes.stdout)
           Hosts == [pc : {"off", "starting", "reading", "serving", "stopping", "exited"}, at : Nat,
                     stream : {"none", "pending", "over"}, emitted : Nat]
<1>1. /\ TransportTyped /\ ServedInOrder /\ OneSubscription /\ EventsArrive /\ EndArrives
      /\ calls \in Seq(Calls) /\ inbox \in Queues /\ host \in Hosts
      /\ pipes \in [stdin : Seq(Nat), stdout : Seq(Lines)]
      /\ pipes.stdin \in Seq(Nat) /\ pipes.stdout \in Seq(Lines)
      /\ (client.closed => ~\E i \in Ids : Pending(i))
  BY DEF TransportInv, TransportTyped, Queues
<1>2. /\ sent \in Nat /\ inbox.got \in Nat /\ inbox.values \in Nat /\ host.emitted \in Nat
      /\ n \in Nat /\ k \in Nat /\ k <= n
  BY <1>1, CountsAreNumbers DEF Queues, ServedInOrder
<1>3. UNCHANGED <<calls, client, inbox>>
  BY HostOnly
<1> HIDE DEF Hosts
<1>4. ASSUME host' \in Hosts, pipes' \in [stdin : Seq(Nat), stdout : Seq(Lines)],
             ServedInOrder', OneSubscription', EventsArrive', EndArrives'
      PROVE  TransportInv'
  <2>1. TransportTyped'
    BY <1>1, <1>3, <1>4 DEF TransportTyped, Hosts
  <2>2. (client.closed => ~\E i \in Ids : Pending(i))'
    BY <1>1, <1>3 DEF Ids, Pending
  <2> QED BY <1>4, <2>1, <2>2 DEF TransportInv
\* The host takes no other call, and begins no stream.
<1>5. ASSUME pipes'.stdin = pipes.stdin, host'.at \in {0, host.at},
             host'.pc = "serving" => host.pc = "serving" /\ host'.at = host.at,
             host.stream = "none" => host'.stream = "none"
      PROVE  ServedInOrder' /\ OneSubscription'
  <2>1. ServedInOrder'
    BY <1>1, <1>3, <1>5 DEF ServedInOrder
  <2>2. \A i \in Ids : i # 0
    BY <1>1 DEF Ids
  <2>3. OneSubscription'
    BY <1>1, <1>3, <1>5, <2>2 DEF OneSubscription, Ids, Subscribes
  <2> QED BY <2>1, <2>3
\* The host writes an event if e, and the end of the stream if c.
<1>6. ASSUME NEW e \in BOOLEAN, NEW c \in BOOLEAN, NEW out, Output(out, e, c),
             pipes' = [pipes EXCEPT !.stdout = pipes.stdout \o out],
             host'.emitted = host.emitted + (IF e THEN 1 ELSE 0),
             c => host'.stream = "over", e => host.stream = "pending",
             host'.stream = "none" => host.stream = "none",
             host.stream = "over" => host'.stream = "over"
      PROVE  /\ EventsArrive' /\ EndArrives' /\ pipes' \in [stdin : Seq(Nat), stdout : Seq(Lines)]
             /\ pipes'.stdin = pipes.stdin
  <2>1. /\ out \in Seq(Lines) /\ (Ends(out) <=> c) /\ EndIsLast(out)
        /\ EventsIn(out) = IF e THEN 1 ELSE 0
    BY <1>6 DEF Output
  <2> DEFINE all == pipes.stdout \o out
  <2>2. /\ all \in Seq(Lines) /\ EventsIn(all) = sent + EventsIn(out)
        /\ Ends(all) <=> Ends(pipes.stdout) \/ Ends(out)
        /\ EndIsLast(all) <=> EndIsLast(pipes.stdout) /\ EndIsLast(out)
                              /\ (Ends(pipes.stdout) => EventsIn(out) = 0)
    BY <1>1, <2>1, LinesAddUp
  <2> HIDE DEF all
  <2>3. pipes' = [pipes EXCEPT !.stdout = all]
    BY <1>6 DEF all
  <2>4. pipes' \in [stdin : Seq(Nat), stdout : Seq(Lines)] /\ pipes'.stdin = pipes.stdin
        /\ pipes'.stdout = all
    BY <1>1, <2>2, <2>3
  <2> DEFINE a == inbox.got + inbox.values
  <2>5. a \in Nat
    <3>1. \A x, y \in Nat : x + y \in Nat
      OBVIOUS
    <3> QED BY <1>2, <3>1
  <2>6. EventsArrive'
    <3>1. /\ a + sent <= host.emitted
          /\ inbox.queue # "left" => a + sent = host.emitted
          /\ host.stream = "none" => host.emitted = 0
      BY <1>1 DEF EventsArrive
    <3>2. CASE e
      <4>1. host'.emitted = host.emitted + 1 /\ EventsIn(all) = sent + 1 /\ host'.stream # "none"
        BY <1>6, <2>1, <2>2, <3>2
      <4> HIDE DEF a, sent
      <4>2. /\ a + EventsIn(all) <= host'.emitted
            /\ inbox.queue # "left" => a + EventsIn(all) = host'.emitted
        BY <1>2, <2>5, <3>1, <4>1
      <4> QED BY <1>3, <2>4, <4>1, <4>2 DEF EventsArrive, a
    <3>3. CASE ~e
      <4>1. host'.emitted = host.emitted /\ EventsIn(all) = sent
        BY <1>2, <1>6, <2>1, <2>2, <3>3
      <4> QED BY <1>3, <1>6, <2>4, <3>1, <4>1 DEF EventsArrive
    <3> QED BY <3>2, <3>3
  <2>7. EndArrives'
    <3>1. Ends(all) => host'.stream = "over"
      BY <1>1, <1>6, <2>1, <2>2 DEF EndArrives
    <3>2. EndIsLast(all)
      BY <1>1, <1>6, <2>1, <2>2 DEF EndArrives
    <3>3. host.stream = "over" => host'.emitted = host.emitted
      BY <1>2, <1>6
    <3> QED BY <1>1, <1>3, <1>6, <2>4, <3>1, <3>2, <3>3 DEF EndArrives
  <2> QED BY <2>4, <2>6, <2>7
\* The host writes nothing.
<1>7. ASSUME pipes'.stdout = pipes.stdout, host'.emitted = host.emitted, host'.stream = host.stream
      PROVE  EventsArrive' /\ EndArrives'
  BY <1>1, <1>3, <1>7 DEF EventsArrive, EndArrives
<1>8. CASE StartProcess \/ ProcessDies \/ ProcessKilled \/ HostStops
  <2>1. PICK pc \in {"starting", "exited"} : host' = [host EXCEPT !.pc = pc] /\ pipes' = pipes
    BY <1>8 DEF StartProcess, ProcessDies, ProcessKilled, HostStops, Exits
  <2>2. host' \in Hosts /\ host'.pc # "serving" /\ host'.at = host.at /\ host'.stream = host.stream
        /\ host'.emitted = host.emitted
    BY <1>1, <2>1 DEF Hosts
  <2> QED BY <1>1, <1>4, <1>5, <1>7, <2>1, <2>2
<1>9. CASE HostStarts
  <2>1. /\ host' = [host EXCEPT !.pc = "reading"] /\ pipes' = [pipes EXCEPT !.stdout = pipes.stdout \o <<ReadyLine>>]
    BY <1>9 DEF HostStarts, Writes
  <2>2. host' \in Hosts /\ host'.pc # "serving" /\ host'.at = host.at /\ host'.stream = host.stream
        /\ host'.emitted = host.emitted + 0 /\ 0 \in Nat
    <3>1. host.emitted + 0 = host.emitted
      BY <1>2
    <3> QED BY <1>1, <2>1, <3>1 DEF Hosts
  <2>3. Output(<<ReadyLine>>, FALSE, FALSE)
    BY <2>2, HostWrites
  <2>4. /\ EventsArrive' /\ EndArrives' /\ pipes' \in [stdin : Seq(Nat), stdout : Seq(Lines)]
        /\ pipes'.stdin = pipes.stdin
    BY <1>6, <2>1, <2>2, <2>3
  <2> QED BY <1>4, <1>5, <2>2, <2>4
<1>10. CASE HostReads
  <2>1. /\ host.pc = "reading" /\ pipes.stdin # <<>>
        /\ host' = [host EXCEPT !.pc = "serving", !.at = Head(pipes.stdin)]
        /\ pipes' = [pipes EXCEPT !.stdin = Tail(pipes.stdin)]
    BY <1>10 DEF HostReads
  <2>2. /\ Head(pipes.stdin) = pipes.stdin[1] /\ Head(pipes.stdin) \in Nat
        /\ Tail(pipes.stdin) \in Seq(Nat) /\ Len(Tail(pipes.stdin)) = k - 1 /\ k >= 1
        /\ \A j \in 1..(k - 1) : Tail(pipes.stdin)[j] = pipes.stdin[j + 1]
    BY <1>1, <2>1
  <2>3. /\ pipes' \in [stdin : Seq(Nat), stdout : Seq(Lines)] /\ pipes'.stdin = Tail(pipes.stdin)
        /\ pipes'.stdout = pipes.stdout
    BY <1>1, <2>1, <2>2
  <2>4. Head(pipes.stdin) = n - k + 1
    BY <1>1, <1>2, <2>2 DEF ServedInOrder
  <2>5. host' \in Hosts /\ host'.at = n - k + 1 /\ host'.stream = host.stream /\ host'.emitted = host.emitted
    BY <1>1, <2>1, <2>2, <2>4 DEF Hosts
  <2>6. ServedInOrder'
    <3>1. \A j \in 1..(k - 1) : Tail(pipes.stdin)[j] = n - (k - 1) + j
      <4> SUFFICES ASSUME NEW j \in 1..(k - 1) PROVE Tail(pipes.stdin)[j] = n - (k - 1) + j
        OBVIOUS
      <4>1. j + 1 \in 1..k
        BY <1>2
      <4>2. pipes.stdin[j + 1] = n - k + (j + 1)
        BY <1>1, <4>1 DEF ServedInOrder
      <4>3. n - k + (j + 1) = n - (k - 1) + j
        BY <1>2
      <4>4. Tail(pipes.stdin)[j] = pipes.stdin[j + 1]
        BY <2>2
      <4> QED BY <4>2, <4>3, <4>4
    <3>2. n - k + 1 = n - (k - 1) /\ n - k + 1 # 0 /\ k - 1 <= n
      BY <1>2
    <3> HIDE DEF n, k
    <3> QED BY <1>3, <2>2, <2>3, <2>5, <3>1, <3>2 DEF ServedInOrder, n, k
  <2>7. OneSubscription'
    <3>1. ASSUME NEW i \in Ids, i <= n - k PROVE i <= n - (k - 1) /\ i # n - k + 1
      <4>1. i \in Nat
        BY <1>1 DEF Ids
      <4> QED BY <1>2, <3>1, <4>1
    <3> HIDE DEF n, k
    <3> QED BY <1>1, <1>3, <2>2, <2>3, <2>5, <3>1 DEF OneSubscription, Ids, Subscribes, n, k
  <2> QED BY <1>4, <1>7, <2>3, <2>5, <2>6, <2>7
<1>11. ASSUME NEW ok \in BOOLEAN, HostAnswers(ok) PROVE TransportInv'
  <2> DEFINE method == calls[host.at].method
             ends == method = "shutdown" /\ ok /\ host.stream = "pending"
             begins == method = "subscribeEvents" /\ ok
             r == Response(host.at, ok)
             out == (IF ends THEN <<StreamClosed>> ELSE <<>>) \o <<r>>
  <2>1. /\ host.pc = "serving" /\ host.at # 0 /\ host.at = n - k /\ host.at \in Ids
    <3>1. host.pc = "serving" /\ host.at # 0 /\ host.at = n - k
      BY <1>1, <1>11 DEF HostAnswers, ServedInOrder
    <3> QED BY <1>1, <1>2, <3>1 DEF Ids
  <2>2. /\ host' = [host EXCEPT !.pc = IF method = "shutdown" /\ ok THEN "stopping" ELSE "reading", !.at = 0,
                       !.stream = IF begins THEN "pending" ELSE IF ends THEN "over" ELSE host.stream]
        /\ pipes' = [pipes EXCEPT !.stdout = pipes.stdout \o out]
    BY <1>11 DEF HostAnswers, Writes, Streaming
  <2>3. Output(out, FALSE, ends)
    <3>1. host.at \in Nat
      BY <1>1 DEF Hosts
    <3>2. Output(<<StreamClosed>> \o <<r>>, FALSE, TRUE) /\ Output(<<>> \o <<r>>, FALSE, FALSE)
      BY <3>1, HostWrites
    <3> QED BY <3>2
  <2> HIDE DEF out
  <2>4. /\ host' \in Hosts /\ host'.pc # "serving" /\ host'.at = 0 /\ host'.emitted = host.emitted + 0
        /\ host'.stream = IF begins THEN "pending" ELSE IF ends THEN "over" ELSE host.stream
    <3>1. host.emitted + 0 = host.emitted /\ 0 \in Nat
      BY <1>2
    <3> HIDE DEF ends, begins
    <3> QED BY <1>1, <2>2, <3>1 DEF Hosts
  <2>5. begins => host.stream = "none" /\ inbox.queue # "none"
    BY <1>1, <2>1 DEF OneSubscription, Subscribes
  <2>6. ends \in BOOLEAN /\ (ends => host'.stream = "over") /\ (host'.stream = "none" => host.stream = "none")
        /\ (host.stream = "over" => host'.stream = "over")
    BY <2>4, <2>5
  <2>7. /\ EventsArrive' /\ EndArrives' /\ pipes' \in [stdin : Seq(Nat), stdout : Seq(Lines)]
        /\ pipes'.stdin = pipes.stdin
    <3> HIDE DEF ends, begins
    <3> QED BY <1>6, <2>2, <2>3, <2>4, <2>6
  <2>8. CASE ~begins
    <3>1. host.stream = "none" => host'.stream = "none"
      BY <2>4, <2>8
    <3> QED BY <1>4, <1>5, <2>4, <2>7, <3>1
  <2>9. CASE begins
    <3>1. ServedInOrder'
      BY <1>1, <1>3, <2>4, <2>7 DEF ServedInOrder
    <3>2. \A i \in Ids : Subscribes(i) => i = n - k /\ i # 0
      BY <1>1, <2>1, <2>9 DEF OneSubscription, Subscribes
    <3>3. OneSubscription'
      <4>1. n - k <= n - k
        BY <1>2
      <4> QED BY <1>1, <1>3, <2>4, <2>5, <2>7, <2>9, <3>2, <4>1 DEF OneSubscription, Ids, Subscribes
    <3> QED BY <1>4, <2>4, <2>7, <3>1, <3>3
  <2> QED BY <2>8, <2>9
<1>12. ASSUME NEW lines \in {<<>>, <<Event>>}, Pumps(lines) PROVE TransportInv'
  <2> DEFINE over == Returning \/ lines = <<>>
             e == lines # <<>>
             r == Response(host.at, TRUE)
             last == IF over THEN <<StreamClosed>> ELSE <<>>
  <2>1. /\ host.stream = "pending" /\ Len(lines) = IF e THEN 1 ELSE 0
        /\ host' = [host EXCEPT !.emitted = host.emitted + Len(lines),
                             !.stream = IF over THEN "over" ELSE host.stream,
                             !.pc = IF Returning THEN "reading" ELSE host.pc,
                             !.at = IF Returning THEN 0 ELSE host.at]
    BY <1>12 DEF Pumps, Streaming
  <2>2. PICK out : /\ pipes' = [pipes EXCEPT !.stdout = pipes.stdout \o out]
                   /\ Output(out, e, over)
    <3>1. host.at \in Nat
      BY <1>1 DEF Hosts
    <3>2. /\ Output(lines \o <<>>, e, FALSE) /\ Output(lines \o <<StreamClosed>>, e, TRUE)
          /\ Output(lines \o <<r>> \o <<StreamClosed>>, e, TRUE)
          /\ Output(lines \o <<StreamClosed>> \o <<r>>, e, TRUE)
      BY <3>1, HostWrites
    <3>3. \/ Returning /\ Writes(lines \o <<r>> \o last)
          \/ Returning /\ Writes(lines \o last \o <<r>>)
          \/ ~Returning /\ Writes(lines \o last)
      BY <1>12 DEF Pumps
    <3> QED BY <3>2, <3>3 DEF Writes
  <2>3. /\ host' \in Hosts /\ host'.emitted = host.emitted + (IF e THEN 1 ELSE 0)
        /\ host'.stream = IF over THEN "over" ELSE "pending"
        /\ host'.at \in {0, host.at} /\ (host'.pc = "serving" => host.pc = "serving" /\ host'.at = host.at)
    <3>1. host.emitted + Len(lines) \in Nat
      BY <1>2, <2>1
    <3> QED BY <1>1, <2>1, <3>1 DEF Hosts
  <2>4. over \in BOOLEAN /\ e \in BOOLEAN
    BY DEF Returning
  <2> HIDE DEF over, e
  <2>5. /\ EventsArrive' /\ EndArrives' /\ pipes' \in [stdin : Seq(Nat), stdout : Seq(Lines)]
        /\ pipes'.stdin = pipes.stdin
    <3>1. over => host'.stream = "over"
      BY <2>3
    <3>2. host'.stream # "none" /\ host.stream # "over" /\ host.stream = "pending"
      BY <2>1, <2>3
    <3>3. Output(out, e, over) /\ pipes' = [pipes EXCEPT !.stdout = pipes.stdout \o out]
          /\ host'.emitted = host.emitted + (IF e THEN 1 ELSE 0)
      BY <2>2, <2>3
    <3> QED BY <1>6, <2>4, <3>1, <3>2, <3>3
  <2> QED BY <1>4, <1>5, <2>1, <2>3, <2>5
<1> QED BY <1>8, <1>9, <1>10, <1>11, <1>12 DEF HostStep, DriverEmits, DriverStreamEnds

LEMMA TransportInductive == TransportInv /\ [TransportNext]_transportVars => TransportInv'
<1> SUFFICES ASSUME TransportInv, [TransportNext]_transportVars PROVE TransportInv'
  OBVIOUS
<1>1. CASE UNCHANGED transportVars
  BY <1>1 DEF transportVars, TransportInv, TransportTyped, ServedInOrder, OneSubscription, EventsArrive,
     EndArrives, Ids, Pending, Subscribes
<1>2. CASE TransportNext
  BY <1>2, CallersKeep, ClientHears, HostKeeps DEF TransportNext, TransportStep, Timers, ProcessTimesOut, HostStep
<1> QED BY <1>1, <1>2

\* A consumer that is told its subscription is over has had every event of the driver, for
\* any number of requests and events and wherever a process dies or a timer fires.
THEOREM AllEventsBeforeTheEnd == TransportSpec => []DoneMeansAll
<1>1. ASSUME TransportInv PROVE DoneMeansAll
  <2>1. /\ TransportTyped /\ EventsArrive /\ EndArrives
    BY <1>1 DEF TransportInv
  <2>2. EventsIn(pipes.stdout) \in Nat /\ inbox.got \in Nat /\ inbox.values \in Nat /\ host.emitted \in Nat
    BY <2>1, CountsAreNumbers DEF TransportTyped
  <2>3. inbox.got + inbox.values <= host.emitted
    BY <2>1, <2>2 DEF EventsArrive
  <2>4. client.closed => ~\E i \in Ids : Pending(i)
    BY <1>1 DEF TransportInv
  <2> QED BY <2>1, <2>3, <2>4 DEF DoneMeansAll, EndArrives
<1> QED BY <1>1, TransportStart, TransportInductive, PTL DEF TransportSpec
=============================================================================
