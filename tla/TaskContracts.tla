---------------------------- MODULE TaskContracts ----------------------------
(***************************************************************************)
(* The contracts of a task and what they lead to: its versions, the         *)
(* relations between versions, the validation of the latest one, the        *)
(* handoffs generated from finished runs, the context packages prepared for *)
(* runs, and the start and the retry of a run with one of them.  A call     *)
(* reads, checks, and commits at the revision of the task it read; only     *)
(* tasks and runs ever change, all the other records are written once, so   *)
(* what a call reads of them stays true.                                    *)
(*                                                                         *)
(* A package, its run and its session are named by the idempotency key they *)
(* are made from.  A version is [ref, base, relations, selected, baseline,  *)
(* limits, content].                                                        *)
(***************************************************************************)
EXTENDS ContextPolicy

CONSTANTS
  ContractTasks, ContractCalls, PackageKeys, RelationIds, HandoffIds,
  Contracts,     \* version number -> what its contract may say
  Baselines      \* the versions of the project baseline recorded

VersionRefs == ContractTasks \X DOMAIN Contracts
RelationTypes == {"depends_on", "related_to", "supersedes", "follow_up_of"}
ContractRecords ==
  [ref : VersionRefs, base : Nat, baseline : Nat, selected : SUBSET HandoffIds,
   relations : Seq([id : RelationIds, type : RelationTypes, target : VersionRefs]),
   limits : {"within", "over"}, content : {"plain", "secret"}]
HandoffPackages ==
  [id : HandoffIds, source : VersionRefs, run : PackageKeys, base : Nat, head : Nat,
   decidedBy : {"bridge", "agent"}, content : {"plain", "secret"}]
ContextPackages ==
  [scenario : Scenarios, ref : VersionRefs, run : PackageKeys, session : PackageKeys, baseline : Nat,
   handoffs : SUBSET HandoffPackages, warnings : SUBSET [handoff : HandoffIds, relation : RelationIds],
   snapshot : {Nothing}, findings : {{}}, failure : {Nothing} \cup [ref : VersionRefs, run : PackageKeys]]

ASSUME ContractsAssumption ==
  \A n \in DOMAIN Contracts : /\ n \in Nat \ {0}
                              /\ Contracts[n] \subseteq {v \in ContractRecords : v.ref[2] = n}
ASSUME NothingAssumption == Nothing \notin ContractRecords /\ Nothing \notin ContextPackages

VARIABLES
  taskRecords,      \* task -> [status, latest, revision]
  versionRecords,   \* <<task, n>> -> version
  relationRecords,  \* id -> relation
  handoffRecords,   \* id -> handoff package
  packages,         \* key -> context package
  runRecords,       \* key -> [status, ref, order]
  resultRecords,    \* key -> commit of the result, NoCommit without one
  contractCalls,    \* call -> where it is and what it read
  contractCursor    \* how many commits there were

recordVars == <<relationRecords, handoffRecords, runRecords, resultRecords>>
contractVars == <<taskRecords, versionRecords, packages, recordVars, contractCalls, contractCursor>>

NoTask == [status |-> "none", latest |-> 0, revision |-> 0]
NoRun == [status |-> "none", ref |-> Nothing, order |-> 0]
IdleCall == [at |-> "none", ref |-> Nothing, key |-> Nothing, revision |-> 0, cursor |-> 0, holds |-> Nothing]

ContractsInit ==
  /\ taskRecords = [t \in ContractTasks |-> NoTask]
  /\ versionRecords = [v \in VersionRefs |-> Nothing]
  /\ relationRecords = [i \in RelationIds |-> Nothing]
  /\ handoffRecords = [i \in HandoffIds |-> Nothing]
  /\ packages = [k \in PackageKeys |-> Nothing]
  /\ runRecords = [k \in PackageKeys |-> NoRun]
  /\ resultRecords = [k \in PackageKeys |-> NoCommit]
  /\ contractCalls = [c \in ContractCalls |-> IdleCall]
  /\ contractCursor = 0

CallAt(c, place) == contractCalls[c].at = place
CallHolds(c, call) == contractCalls' = [contractCalls EXCEPT ![c] = call]
CallEnds(c) == CallHolds(c, IdleCall)
Commits == contractCursor' = contractCursor + 1
TaskOf(c) == contractCalls[c].ref[1]
\* The commit states the revision the call read.
TaskAsRead(c) == taskRecords[TaskOf(c)].revision = contractCalls[c].revision
TaskBecomes(t, status) ==
  taskRecords' = [taskRecords EXCEPT ![t].status = status, ![t].revision = @ + 1]
\* The commit is refused: nothing is written, the call fails.
Conflicts(c, place) ==
  /\ CallAt(c, place) /\ ~TaskAsRead(c)
  /\ CallEnds(c)
  /\ UNCHANGED <<taskRecords, versionRecords, packages, recordVars, contractCursor>>

(***************************************************************************)
(* createTask, createTaskVersion, linkTaskVersions, validateTask           *)
(***************************************************************************)
\* Both records must be new at the commit, whatever the call read.
CreateTask(t, contract) ==
  /\ taskRecords[t] = NoTask
  /\ taskRecords' = [taskRecords EXCEPT ![t] = [status |-> "DRAFT", latest |-> 1, revision |-> 1]]
  /\ versionRecords' = [versionRecords EXCEPT ![<<t, 1>>] = contract]
  /\ Commits
  /\ UNCHANGED <<packages, recordVars, contractCalls>>

\* transitionTask START_NEW_VERSION
StartsNewVersion == {"VALIDATED", "FAILED", "REVIEW_REQUIRED"}
CreateTaskVersion(c, t, contract) ==
  /\ CallAt(c, "none")
  /\ taskRecords[t].status \in StartsNewVersion
  /\ contract.ref = <<t, taskRecords[t].latest + 1>>
  /\ CallHolds(c, [IdleCall EXCEPT !.at = "version", !.ref = contract.ref,
                                   !.revision = taskRecords[t].revision, !.holds = contract])
  /\ UNCHANGED <<taskRecords, versionRecords, packages, recordVars, contractCursor>>
CommitVersion(c) ==
  /\ CallAt(c, "version") /\ TaskAsRead(c)
  /\ LET contract == contractCalls[c].holds
     IN /\ taskRecords' = [taskRecords EXCEPT ![TaskOf(c)] =
                             [status |-> "DRAFT", latest |-> contract.ref[2], revision |-> @.revision + 1]]
        /\ versionRecords' = [versionRecords EXCEPT ![contract.ref] = contract]
  /\ Commits /\ CallEnds(c)
  /\ UNCHANGED <<packages, recordVars>>

\* The relation as its source version declares it; both versions exist.
LinkTaskVersions(source, i) ==
  /\ versionRecords[source] # Nothing
  /\ LET declared == versionRecords[source].relations[i]
     IN /\ versionRecords[declared.target] # Nothing
        /\ relationRecords[declared.id] = Nothing
        /\ relationRecords' = [relationRecords EXCEPT ![declared.id] =
             [id |-> declared.id, type |-> declared.type, source |-> source, target |-> declared.target]]
  /\ Commits
  /\ UNCHANGED <<taskRecords, versionRecords, packages, handoffRecords, runRecords, resultRecords,
                 contractCalls>>

WithinLimits(version) == version.limits = "within" /\ version.baseline \in Baselines
ValidateTask(c, ref) ==
  /\ CallAt(c, "none")
  /\ versionRecords[ref] # Nothing /\ taskRecords[ref[1]].latest = ref[2]
  /\ WithinLimits(versionRecords[ref])
  /\ taskRecords[ref[1]].status = "DRAFT"
  /\ CallHolds(c, [IdleCall EXCEPT !.at = "validate", !.ref = ref,
                                   !.revision = taskRecords[ref[1]].revision])
  /\ UNCHANGED <<taskRecords, versionRecords, packages, recordVars, contractCursor>>
CommitValidation(c) ==
  /\ CallAt(c, "validate") /\ TaskAsRead(c)
  /\ TaskBecomes(TaskOf(c), "VALIDATED")
  /\ Commits /\ CallEnds(c)
  /\ UNCHANGED <<versionRecords, packages, recordVars>>

(***************************************************************************)
(* ContextHandoffRuntime                                                   *)
(***************************************************************************)
\* generateHandoff: of a run that succeeded with a commit.
GenerateHandoff(id, run, decidedBy, content) ==
  LET handoff == [id |-> id, source |-> runRecords[run].ref, run |-> run,
                  base |-> versionRecords[runRecords[run].ref].base, head |-> resultRecords[run],
                  decidedBy |-> decidedBy, content |-> content]
  IN /\ runRecords[run].status = "succeeded" /\ resultRecords[run] # NoCommit
     /\ MayBeGenerated(handoff)
     /\ handoffRecords[id] = Nothing
     /\ handoffRecords' = [handoffRecords EXCEPT ![id] = handoff]
     /\ Commits
     /\ UNCHANGED <<taskRecords, versionRecords, packages, relationRecords, runRecords,
                    resultRecords, contractCalls>>

\* prepareContext takes the first relation the version declares to the handoff's source.
FirstRelationTo(version, source) ==
  {i \in DOMAIN version.relations :
     /\ version.relations[i].target = source
     /\ \A j \in 1..(i - 1) : version.relations[j].target # source}
HasCandidate(version, id) ==
  /\ handoffRecords[id] # Nothing
  /\ \E i \in FirstRelationTo(version, handoffRecords[id].source) :
       relationRecords[version.relations[i].id] # Nothing
  /\ resultRecords[handoffRecords[id].run] # NoCommit
Candidate(version, id) ==
  LET handoff == handoffRecords[id]
      first == CHOOSE i \in FirstRelationTo(version, handoff.source) : TRUE
  IN [handoff |-> handoff,
      relation |-> relationRecords[version.relations[first].id],
      authority |-> [source |-> handoff.source, base |-> versionRecords[handoff.source].base,
                     head |-> resultRecords[handoff.run]],
      contained |-> CommitContained(handoff.head, version.base)]
Candidates(version) == {Candidate(version, id) : id \in version.selected}

\* The package of a run for this version, made from what the selection holds.
MayBePrepared(version, input) ==
  /\ \A id \in version.selected : HasCandidate(version, id)
  /\ SelectionHolds(version, Candidates(version))
  /\ MayBeAssembled(input)

PrepareContext(c, key, ref) ==
  LET version == versionRecords[ref]
      scenario == IF ref[2] = 1 THEN "NEW_TASK" ELSE "NEW_TASK_VERSION"
      input == AssemblyInput(scenario, version, key, key, Candidates(version))
  IN /\ CallAt(c, "none")
     /\ version # Nothing /\ version.baseline \in Baselines
     /\ packages[key] = Nothing
     /\ MayBePrepared(version, input)
     /\ CallHolds(c, [IdleCall EXCEPT !.at = "prepare", !.ref = ref, !.key = key,
                                      !.holds = Assembled(input)])
     /\ UNCHANGED <<taskRecords, versionRecords, packages, recordVars, contractCursor>>
CommitContext(c) ==
  LET call == contractCalls[c]
  IN /\ CallAt(c, "prepare")
     /\ IF packages[call.key] = Nothing
        THEN packages' = [packages EXCEPT ![call.key] = call.holds] /\ Commits
        ELSE UNCHANGED <<packages, contractCursor>>
     /\ CallEnds(c)
     /\ UNCHANGED <<taskRecords, versionRecords, recordVars>>

(***************************************************************************)
(* startTask: the task VALIDATED, the package of the version named.        *)
(***************************************************************************)
StartTask(c, key, ref) ==
  /\ CallAt(c, "none")
  /\ versionRecords[ref] # Nothing
  /\ packages[key] # Nothing /\ packages[key].ref = ref
  /\ taskRecords[ref[1]].status = "VALIDATED"
  /\ CallHolds(c, [IdleCall EXCEPT !.at = "queue", !.ref = ref, !.key = key,
                                   !.revision = taskRecords[ref[1]].revision])
  /\ UNCHANGED <<taskRecords, versionRecords, packages, recordVars, contractCursor>>
\* The task is read again after each commit.
CommitQueued(c) ==
  /\ CallAt(c, "queue") /\ TaskAsRead(c)
  /\ TaskBecomes(TaskOf(c), "QUEUED")
  /\ CallHolds(c, [contractCalls[c] EXCEPT !.at = "run", !.revision = @ + 1])
  /\ Commits
  /\ UNCHANGED <<versionRecords, packages, recordVars>>
CommitRunning(c) ==
  /\ CallAt(c, "run") /\ TaskAsRead(c)
  /\ TaskBecomes(TaskOf(c), "RUNNING")
  /\ CallHolds(c, [contractCalls[c] EXCEPT !.at = "launch", !.revision = @ + 1])
  /\ Commits
  /\ UNCHANGED <<versionRecords, packages, recordVars>>
\* LocalRuntime.start: the run of the package, which must be new.
RunsLaunched(t) == {k \in PackageKeys : runRecords[k] # NoRun /\ runRecords[k].ref[1] = t}
Launch(c) ==
  LET call == contractCalls[c]
  IN /\ CallAt(c, "launch") /\ runRecords[call.key] = NoRun
     /\ runRecords' = [runRecords EXCEPT ![call.key] =
          [status |-> "running", ref |-> call.ref, order |-> Cardinality(RunsLaunched(TaskOf(c))) + 1]]
     /\ Commits /\ CallEnds(c)
     /\ UNCHANGED <<taskRecords, versionRecords, packages, relationRecords, handoffRecords, resultRecords>>
LaunchFails(c) ==
  /\ CallAt(c, "launch")
  /\ TaskBecomes(TaskOf(c), "FAILED")
  /\ Commits /\ CallEnds(c)
  /\ UNCHANGED <<versionRecords, packages, recordVars>>

\* The run ends; its result, and what verification makes of it (BridgeRun).
RunSucceeds(run, commit, status) ==
  /\ runRecords[run].status = "running"
  /\ runRecords' = [runRecords EXCEPT ![run].status = "succeeded"]
  /\ resultRecords' = [resultRecords EXCEPT ![run] = commit]
  /\ TaskBecomes(runRecords[run].ref[1], status)
  /\ Commits
  /\ UNCHANGED <<versionRecords, packages, relationRecords, handoffRecords, contractCalls>>
RunFails(run) ==
  /\ runRecords[run].status = "running"
  /\ runRecords' = [runRecords EXCEPT ![run].status = "failed"]
  /\ TaskBecomes(runRecords[run].ref[1], "FAILED")
  /\ Commits
  /\ UNCHANGED <<versionRecords, packages, relationRecords, handoffRecords, resultRecords, contractCalls>>

(***************************************************************************)
(* The retry of a failed run, with a package of its own.                   *)
(***************************************************************************)
\* assertRetryAllowed
RetryAllowed(run) ==
  LET ref == runRecords[run].ref
  IN /\ runRecords[run].status = "failed" /\ taskRecords[ref[1]].status = "FAILED"
     /\ taskRecords[ref[1]].latest = ref[2]
     /\ \A k \in RunsLaunched(ref[1]) : runRecords[k].order <= runRecords[run].order
RetryRun(c, key, run) ==
  LET ref == runRecords[run].ref
      version == versionRecords[ref]
      input == [AssemblyInput("MANUAL_RETRY", version, key, key, Candidates(version))
                  EXCEPT !.failure = [ref |-> ref, run |-> run]]
  IN /\ CallAt(c, "none") /\ runRecords[run] # NoRun
     /\ RetryAllowed(run)
     /\ CreatesSession("MANUAL_RETRY", [ref |-> ref, run |-> key], Nothing, run)
     /\ packages[key] = Nothing
     /\ MayBePrepared(version, input)
     /\ CallHolds(c, [IdleCall EXCEPT !.at = "retry", !.ref = ref, !.key = key,
                                      !.cursor = contractCursor, !.holds = Assembled(input)])
     /\ UNCHANGED <<taskRecords, versionRecords, packages, recordVars, contractCursor>>
\* The commit of the package states the event cursor the retry was confirmed at.
CommitRetryContext(c) ==
  LET call == contractCalls[c]
  IN /\ CallAt(c, "retry")
     /\ IF contractCursor = call.cursor
        THEN /\ packages' = [packages EXCEPT ![call.key] = call.holds]
             /\ CallHolds(c, [call EXCEPT !.at = "requeue", !.cursor = 0, !.holds = Nothing])
             /\ Commits
        ELSE CallEnds(c) /\ UNCHANGED <<packages, contractCursor>>
     /\ UNCHANGED <<taskRecords, versionRecords, recordVars>>
\* The cursor and the task are read again: RETRY must be legal for the task as it is now.
RequeueTask(c) ==
  /\ CallAt(c, "requeue")
  /\ IF taskRecords[TaskOf(c)].status = "FAILED"
     THEN /\ TaskBecomes(TaskOf(c), "QUEUED") /\ Commits
          /\ CallHolds(c, [contractCalls[c] EXCEPT !.at = "run",
                                                   !.revision = taskRecords[TaskOf(c)].revision + 1])
     ELSE CallEnds(c) /\ UNCHANGED <<taskRecords, contractCursor>>
  /\ UNCHANGED <<versionRecords, packages, recordVars>>

ContractsNext ==
  \/ \E t \in ContractTasks : \E n \in DOMAIN Contracts : \E contract \in Contracts[n] :
       \/ n = 1 /\ contract.ref[1] = t /\ CreateTask(t, contract)
       \/ n > 1 /\ \E c \in ContractCalls : CreateTaskVersion(c, t, contract)
  \/ \E ref \in VersionRefs :
       \/ versionRecords[ref] # Nothing
          /\ \E i \in DOMAIN versionRecords[ref].relations : LinkTaskVersions(ref, i)
       \/ \E c \in ContractCalls :
            ValidateTask(c, ref) \/ \E k \in PackageKeys : PrepareContext(c, k, ref) \/ StartTask(c, k, ref)
  \/ \E id \in HandoffIds, run \in PackageKeys, decidedBy \in {"bridge", "agent"},
       content \in {"plain", "secret"} : GenerateHandoff(id, run, decidedBy, content)
  \/ \E c \in ContractCalls :
       \/ CommitVersion(c) \/ CommitValidation(c) \/ CommitContext(c)
       \/ CommitQueued(c) \/ CommitRunning(c) \/ Launch(c) \/ LaunchFails(c)
       \/ CommitRetryContext(c) \/ RequeueTask(c)
       \/ \E place \in {"version", "validate", "queue", "run"} : Conflicts(c, place)
       \/ \E k, run \in PackageKeys : RetryRun(c, k, run)
  \/ \E run \in PackageKeys :
       \/ RunFails(run)
       \/ \E status \in {"REVIEW_REQUIRED", "FAILED"} :
            runRecords[run] # NoRun
            /\ \E commit \in {NoCommit, versionRecords[runRecords[run].ref].base + 1} :
                 RunSucceeds(run, commit, status)

ContractsSpec == ContractsInit /\ [][ContractsNext]_contractVars
-----------------------------------------------------------------------------
ContractsTypeOK ==
  /\ \A t \in ContractTasks : taskRecords[t].status \in {"none", "DRAFT", "VALIDATED", "QUEUED",
                                                         "RUNNING", "FAILED", "REVIEW_REQUIRED"}
  /\ \A k \in PackageKeys : runRecords[k].status \in {"none", "running", "succeeded", "failed"}

\* A context package vouches for what it hands over: its version selected every handoff in
\* it, each was made from the commit of a run that succeeded, by the version a declared
\* and linked relation leads to; work that is not in the version's base is there under no
\* depends_on relation, and under a related_to relation with its warning; nothing forbidden
\* is in it; a failure it tells of is that of another, failed run of the version
\* (context-handoff-runtime.ts, handoff-policy.ts, context-policy.ts).
HandedOver(package, handoff) ==
  LET contained == handoff.head <= versionRecords[package.ref].base
  IN /\ runRecords[handoff.run].status = "succeeded" /\ runRecords[handoff.run].ref = handoff.source
     /\ handoff.head = resultRecords[handoff.run] /\ handoff.head # NoCommit
     /\ handoff.decidedBy = "bridge" /\ handoff.content = "plain"
     /\ \E id \in RelationIds :
          /\ relationRecords[id] # Nothing
          /\ relationRecords[id].source = package.ref /\ relationRecords[id].target = handoff.source
          /\ relationRecords[id].type = "depends_on" => contained
          /\ relationRecords[id].type = "related_to" /\ ~contained =>
               [handoff |-> handoff.id, relation |-> id] \in package.warnings
Sound(package) ==
  /\ {h.id : h \in package.handoffs} = versionRecords[package.ref].selected
  /\ \A h \in package.handoffs : HandedOver(package, h)
  /\ versionRecords[package.ref].content = "plain"
  /\ package.failure # Nothing => /\ runRecords[package.failure.run].status = "failed"
                                  /\ runRecords[package.failure.run].ref = package.ref
                                  /\ package.failure.run # package.run
PackagesAreSound == \A k \in PackageKeys : packages[k] # Nothing => Sound(packages[k])

\* No run is of a version that did not pass validation, and a task stands validated only
\* by the validation of its latest version, whatever was called while the versions and
\* the runs of the task changed (bridge-control-service.ts validateTask, startTask).
OnlyValidatedRuns ==
  /\ \A k \in PackageKeys : runRecords[k] # NoRun => /\ WithinLimits(versionRecords[runRecords[k].ref])
                                                     /\ packages[k].ref = runRecords[k].ref
  /\ \A t \in ContractTasks : taskRecords[t].status = "VALIDATED"
                                => WithinLimits(versionRecords[<<t, taskRecords[t].latest>>])

\* What runs has been validated, and was given nothing it may not have.
RunsAreFounded == PackagesAreSound /\ OnlyValidatedRuns

\* What runs is the latest version of its task, as a retry asserts
\* (management-command-service.ts assertRetryAllowed).
LatestVersionRuns ==
  \A k \in PackageKeys : runRecords[k].status = "running"
                           => taskRecords[runRecords[k].ref[1]].latest = runRecords[k].ref[2]
=============================================================================
