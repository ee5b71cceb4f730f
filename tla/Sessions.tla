------------------------------- MODULE Sessions -------------------------------
(***************************************************************************)
(* The sessions of the active runs: their bindings in the repository, the   *)
(* handle of each run in the ActiveRunRegistry, and the session its driver  *)
(* is in.  Requests roll a run over to a successor session (LocalRuntime.   *)
(* rollover), which waits for the driver and for the commit, while other    *)
(* requests do the same and the end of the run closes its binding.          *)
(*                                                                         *)
(* stableId makes the id of the successor from the idempotency key: the     *)
(* session has the name of the key, and a run's first session that of the   *)
(* run.  External sessions are numbered as the driver creates them.         *)
(***************************************************************************)
EXTENDS ContextPolicy

CONSTANTS SessionRuns, RolloverKeys, RolloverCalls, MaxExternal, NoSession,
          RolloverScenario   \* the scenario the runtime assembles a successor's context for

ASSUME SessionsAssumption == /\ MaxExternal \in Nat
                             /\ SessionRuns \cap RolloverKeys = {}
                             /\ NoSession \notin SessionRuns \cup RolloverKeys
                             /\ {"no", "closed", "lost"} \cap (SessionRuns \cup RolloverKeys) = {}

VARIABLES
  bindings,   \* session -> AgentSessionBinding
  handles,    \* run -> ActiveRunHandle
  drivers,    \* run -> the external session its driver is in
  rollovers,  \* request -> where it is
  ending,     \* run -> the binding its end has read
  strayed     \* runs whose driver moved for a rollover that then failed

sessionVars == <<bindings, handles, drivers, rollovers, ending, strayed>>

SessionIds == SessionRuns \cup RolloverKeys
NoBinding == [status |-> "none", run |-> NoSession, external |-> 0, predecessor |-> NoSession]
NoRollover == [at |-> "none", run |-> NoSession, key |-> NoSession, handle |-> NoSession, external |-> 0]
NoHandle == [session |-> NoSession, external |-> 0]

SessionsInit ==
  /\ bindings = [s \in SessionIds |->
       IF s \in SessionRuns THEN [status |-> "ACTIVE", run |-> s, external |-> 1, predecessor |-> NoSession]
       ELSE NoBinding]
  /\ handles = [r \in SessionRuns |-> [session |-> r, external |-> 1]]
  /\ drivers = [r \in SessionRuns |-> 1]
  /\ rollovers = [c \in RolloverCalls |-> NoRollover]
  /\ ending = [r \in SessionRuns |-> "no"]
  /\ strayed = {}

Active(r) == {s \in SessionIds : bindings[s].status = "ACTIVE" /\ bindings[s].run = r}
At(c, place) == rollovers[c].at = place
Goes(c, place) == rollovers' = [rollovers EXCEPT ![c].at = place]
Ends(c) == rollovers' = [rollovers EXCEPT ![c] = NoRollover]

(***************************************************************************)
(* rollover: requireRun, the reads and the replay of a known key.          *)
(***************************************************************************)
\* listContinuationSnapshots(run) holds one with this key.
SnapshotOf(r, k) == bindings[k].status # "none" /\ bindings[k].run = r

\* The context package of the successor: the snapshot of the session, and the handoffs
\* of its package (rebuildHandoffSelection), of which a version without any has none.
VersionOf(r) == [ref |-> <<r, 1>>, base |-> 0, relations |-> <<>>, selected |-> {},
                 baseline |-> 1, limits |-> "within", content |-> "plain"]
SuccessorContext(r, k) ==
  [AssemblyInput(RolloverScenario, VersionOf(r), r, k, {})
     EXCEPT !.snapshot = [ref |-> <<r, 1>>, run |-> r, session |-> handles[r].session],
            !.predecessor = handles[r].session]

\* assembleContextPackage throws, and the call is over, or the driver is asked.
Rollover(c, r, k) ==
  /\ At(c, "none") /\ handles[r] # NoHandle
  /\ ~SnapshotOf(r, k)
  /\ rollovers' = [rollovers EXCEPT ![c] =
                     [at |-> IF MayBeAssembled(SuccessorContext(r, k)) THEN "creating" ELSE "rejected",
                      run |-> r, key |-> k,
                      handle |-> handles[r].session, external |-> handles[r].external]]
  /\ UNCHANGED <<bindings, handles, drivers, ending, strayed>>

\* createSuccessorSession: the driver is in the session the handle names, or refuses.
InSession(r, external) == drivers[r] = external
DriverCreates(c) ==
  LET r == rollovers[c].run
  IN /\ At(c, "creating") /\ InSession(r, rollovers[c].external)
     /\ ending[r] = "no" /\ drivers[r] < MaxExternal
     /\ drivers' = [drivers EXCEPT ![r] = @ + 1]
     /\ rollovers' = [rollovers EXCEPT ![c].at = "committing", ![c].external = drivers[r] + 1]
     /\ UNCHANGED <<bindings, handles, ending, strayed>>
DriverRefuses(c) ==
  /\ At(c, "creating")
  /\ Ends(c)
  /\ UNCHANGED <<bindings, handles, drivers, ending, strayed>>

\* Mutant: the session to be succeeded need not listen any more.
RolloverOfAny(c) == bindings[rollovers[c].key].status = "none"

\* One commit: the binding of the handle superseded, at its first revision; the
\* successor, the first with this key, whatever run the key was used for.
RolloverPossible(c) == /\ bindings[rollovers[c].handle].status = "ACTIVE"
                       /\ bindings[rollovers[c].key].status = "none"
CommitRollover(c) ==
  LET w == rollovers[c]
  IN /\ At(c, "committing") /\ RolloverPossible(c)
     /\ bindings' = [bindings EXCEPT ![w.handle].status = "SUPERSEDED",
                       ![w.key] = [status |-> "ACTIVE", run |-> w.run, external |-> w.external,
                                   predecessor |-> w.handle]]
     /\ Goes(c, "replacing")
     /\ UNCHANGED <<handles, drivers, ending, strayed>>
\* A conflict, or the database fails.
RolloverNotCommitted(c) ==
  /\ At(c, "committing")
  /\ Ends(c)
  /\ strayed' = strayed \cup {rollovers[c].run}
  /\ UNCHANGED <<bindings, handles, drivers, ending>>

\* replaceBinding throws when the run is closed meanwhile.
ReplaceBinding(c) ==
  LET w == rollovers[c]
  IN /\ At(c, "replacing")
     /\ handles' = IF handles[w.run] = NoHandle THEN handles
                   ELSE [handles EXCEPT ![w.run] = [session |-> w.key, external |-> w.external]]
     /\ Ends(c)
     /\ UNCHANGED <<bindings, drivers, ending, strayed>>

(***************************************************************************)
(* The end of a run: recordTerminalDriverFailure and close.                *)
(***************************************************************************)
RunEnds(r) ==
  /\ ending[r] = "no" /\ handles[r] # NoHandle
  /\ \E s \in Active(r) : ending' = [ending EXCEPT ![r] = s]
  /\ UNCHANGED <<bindings, handles, drivers, rollovers, strayed>>
CommitEnd(r) ==
  /\ ending[r] \in SessionIds
  /\ LET s == ending[r]
     IN IF bindings[s].status = "ACTIVE"
        THEN /\ bindings' = [bindings EXCEPT ![s].status = "CLOSED"]
             /\ ending' = [ending EXCEPT ![r] = "closed"]
        ELSE /\ ending' = [ending EXCEPT ![r] = "lost"]
             /\ UNCHANGED bindings
  /\ UNCHANGED <<handles, drivers, rollovers, strayed>>
CloseRun(r) ==
  /\ ending[r] \in {"closed", "lost"} /\ handles[r] # NoHandle
  /\ handles' = [handles EXCEPT ![r] = NoHandle]
  /\ UNCHANGED <<bindings, drivers, rollovers, ending, strayed>>

SessionsNext ==
  \/ \E c \in RolloverCalls :
       \/ \E r \in SessionRuns, k \in RolloverKeys : Rollover(c, r, k)
       \/ DriverCreates(c) \/ DriverRefuses(c)
       \/ CommitRollover(c) \/ RolloverNotCommitted(c) \/ ReplaceBinding(c)
  \/ \E r \in SessionRuns : RunEnds(r) \/ CommitEnd(r) \/ CloseRun(r)

SessionsSpec == SessionsInit /\ [][SessionsNext]_sessionVars
-----------------------------------------------------------------------------
SessionsTypeOK ==
  /\ \A s \in SessionIds : bindings[s].status \in {"none", "ACTIVE", "SUPERSEDED", "CLOSED"}
  /\ \A r \in SessionRuns : drivers[r] \in 1..MaxExternal
  /\ strayed \subseteq SessionRuns

\* No rollover fails before the driver is even asked: the context of a successor is
\* always one the policy accepts (local-runtime.ts rollover, context-policy.ts
\* assembleContextPackage).
RolloversAreAssembled == \A c \in RolloverCalls : ~At(c, "rejected")

\* Whoever answers a run reaches it: the handle of a run names the session that listens
\* and the external session of its binding, and the driver is in that session, but for
\* the time a rollover takes, and but for a run whose rollover failed after the driver
\* had moved (local-runtime.ts rollover; active-run-registry.ts replaceBinding;
\* driver.ts assertActiveSession).
Rolling(r, places) == \E c \in RolloverCalls : rollovers[c].run = r /\ rollovers[c].at \in places
HandlesReachTheirSession ==
  \A r \in SessionRuns :
    /\ handles[r] # NoHandle =>
         \/ /\ bindings[handles[r].session].external = handles[r].external
            /\ ending[r] = "no" => bindings[handles[r].session].status = "ACTIVE"
         \/ Rolling(r, {"replacing"})
    /\ handles[r] # NoHandle => \/ drivers[r] = handles[r].external
                                \/ r \in strayed \/ Rolling(r, {"committing", "replacing"})

\* The bindings of the runs form chains of which one session listens (session-binding.ts,
\* local-runtime.ts rollover, bridge-control-service.ts recordTerminalDriverFailure).
TheOne(A) == CASE A = {} -> NoSession
               [] Cardinality(A) = 1 -> CHOOSE s \in A : TRUE
               [] OTHER -> "several"
Listening == [r \in SessionRuns |-> TheOne(Active(r))]
Successions == {<<bindings[s].predecessor, s>> :
                  s \in {t \in RolloverKeys : bindings[t].status # "none"}}
Chain == INSTANCE SessionChain
           WITH ChainRuns <- SessionRuns, ChainSessions <- SessionIds, Nobody <- NoSession,
                FirstOf <- [r \in SessionRuns |-> r],
                listens <- Listening, links <- Successions
SessionsFormChains ==   \* Chain!ChainSpec; TLC is spared the mapping where nothing changes
  Chain!ChainInit /\ [][UNCHANGED sessionVars \/ Chain!ChainNext]_(Chain!chainVars)
=============================================================================
