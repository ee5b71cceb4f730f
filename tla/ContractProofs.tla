------------------------------ MODULE ContractProofs ------------------------------
(***************************************************************************)
(* Proofs about the contracts of a task, for any number of tasks,          *)
(* versions, relations, handoffs, packages, runs and calls: what runs was  *)
(* validated, and was given nothing it may not have.                       *)
(*                                                                         *)
(* A call reads, checks and commits later.  The invariant says of each     *)
(* call in progress what of the things it read is still so at its commit:  *)
(* the records written once stay as they are, the revision of the task     *)
(* shows whether the task does, and a task that is queued or running is    *)
(* the work of one call or of one run.                                     *)
(***************************************************************************)
EXTENDS TaskContracts, TLAPS

(***************************************************************************)
(* The invariant.                                                          *)
(***************************************************************************)
TaskRecordStatuses == {"none", "DRAFT", "VALIDATED", "QUEUED", "RUNNING", "FAILED", "REVIEW_REQUIRED"}
TaskValues == [status : TaskRecordStatuses, latest : Nat, revision : Nat]
RelationValues == [id : RelationIds, type : RelationTypes, source : VersionRefs, target : VersionRefs]
RunRecordStatuses == {"none", "running", "succeeded", "failed"}
Orders == {0} \cup {Cardinality(S) + 1 : S \in SUBSET PackageKeys}
RunValues == [status : RunRecordStatuses, ref : VersionRefs \cup {Nothing}, order : Orders]
Working == {"queue", "run", "launch", "requeue"}
CallPlaces == {"none", "version", "validate", "prepare", "retry"} \cup Working
CallValues == [at : CallPlaces, ref : VersionRefs \cup {Nothing}, key : PackageKeys \cup {Nothing},
               revision : Nat, cursor : Nat,
               holds : ContractRecords \cup ContextPackages \cup {Nothing}]

ContractsTyped ==
  /\ taskRecords \in [ContractTasks -> TaskValues]
  /\ versionRecords \in [VersionRefs -> ContractRecords \cup {Nothing}]
  /\ relationRecords \in [RelationIds -> RelationValues \cup {Nothing}]
  /\ handoffRecords \in [HandoffIds -> HandoffPackages \cup {Nothing}]
  /\ packages \in [PackageKeys -> ContextPackages \cup {Nothing}]
  /\ runRecords \in [PackageKeys -> RunValues]
  /\ resultRecords \in [PackageKeys -> Nat]
  /\ contractCalls \in [ContractCalls -> CallValues]
  /\ contractCursor \in Nat

\* A task has the versions up to its latest one, and all but a draft are within limits.
TaskFits(t, task) ==
  /\ task.status = "none" <=> task.latest = 0
  /\ task.status = "none" <=> task.revision = 0
  /\ task.latest # 0 => task.latest \in DOMAIN Contracts
VersionFits(v, version, task) ==
  /\ version # Nothing <=> v[2] <= task.latest
  /\ version # Nothing => version.ref = v
  /\ version # Nothing /\ (v[2] # task.latest \/ task.status # "DRAFT") => WithinLimits(version)
TasksFit == \A t \in ContractTasks : TaskFits(t, taskRecords[t])
VersionsFit == \A v \in VersionRefs : VersionFits(v, versionRecords[v], taskRecords[v[1]])

\* A relation and a handoff say who they are; a handoff is of a run that succeeded.
RelationsFit == \A i \in RelationIds : relationRecords[i] # Nothing =>
                  relationRecords[i] \in RelationValues /\ relationRecords[i].id = i
HandoffFits(i, handoff) ==
  handoff # Nothing =>
    /\ handoff \in HandoffPackages
    /\ handoff.id = i /\ handoff.decidedBy = "bridge" /\ handoff.content = "plain"
    /\ runRecords[handoff.run].status = "succeeded" /\ runRecords[handoff.run].ref = handoff.source
    /\ handoff.head = resultRecords[handoff.run] /\ handoff.head # NoCommit
HandoffsFit == \A i \in HandoffIds : HandoffFits(i, handoffRecords[i])

\* A package is of a version and sound; a run is of a version within limits, and of its package.
PackageFits(package) == versionRecords[package.ref] # Nothing /\ Sound(package)
PackagesFit == \A k \in PackageKeys : packages[k] # Nothing => PackageFits(packages[k])
MayRun(k, ref) ==
  /\ ref \in VersionRefs /\ versionRecords[ref] # Nothing /\ WithinLimits(versionRecords[ref])
  /\ packages[k] # Nothing /\ packages[k].ref = ref
RunFits(k, run) == IF run.status = "none" THEN run = NoRun ELSE MayRun(k, run.ref)
RunsFit == \A k \in PackageKeys : RunFits(k, runRecords[k])

\* What a call has read is still so, as far as its commit does not see for itself.
CallFits(call) ==
  /\ call.at # "none" => call.ref \in VersionRefs
  /\ call.at \in {"prepare", "retry"} \cup Working => call.key \in PackageKeys
  /\ call.at \in {"version", "validate", "queue"} =>
       call.revision # 0 /\ call.revision <= taskRecords[call.ref[1]].revision
  /\ call.at = "version" => call.holds \in ContractRecords /\ call.holds.ref = call.ref
  /\ call.at \in {"validate", "retry"} =>
       versionRecords[call.ref] # Nothing /\ WithinLimits(versionRecords[call.ref])
  /\ call.at \in Working => MayRun(call.key, call.ref)
  /\ call.at \in {"prepare", "retry"} =>
       call.holds \in ContextPackages /\ call.holds.ref = call.ref /\ PackageFits(call.holds)
  /\ call.at = "retry" =>
       call.cursor <= contractCursor
       /\ (call.cursor = contractCursor => packages[call.key] = Nothing)
  /\ (call.at \in {"version", "validate", "queue"}
      /\ call.revision = taskRecords[call.ref[1]].revision) =>
       /\ call.at = "version" => /\ call.ref[2] = taskRecords[call.ref[1]].latest + 1
                                 /\ taskRecords[call.ref[1]].status \in StartsNewVersion
       /\ call.at = "validate" => /\ call.ref[2] = taskRecords[call.ref[1]].latest
                                  /\ taskRecords[call.ref[1]].status = "DRAFT"
       /\ call.at = "queue" => taskRecords[call.ref[1]].status = "VALIDATED"
CallsFit == \A c \in ContractCalls : CallFits(contractCalls[c])

\* One call or one run at a time is at work on a task that is queued or running.
CallWorks(c, t) == contractCalls[c].at \in {"run", "launch"} /\ TaskOf(c) = t
RunWorks(k, t) == runRecords[k].status = "running" /\ runRecords[k].ref[1] = t
OneWorksOn(t) ==
  /\ \A c \in ContractCalls : CallWorks(c, t) =>
       taskRecords[t].status = IF contractCalls[c].at = "run" THEN "QUEUED" ELSE "RUNNING"
  /\ \A k \in PackageKeys : RunWorks(k, t) => taskRecords[t].status = "RUNNING"
  /\ \A c, d \in ContractCalls : CallWorks(c, t) /\ CallWorks(d, t) => c = d
  /\ \A j, k \in PackageKeys : RunWorks(j, t) /\ RunWorks(k, t) => j = k
  /\ \A c \in ContractCalls, k \in PackageKeys : ~(CallWorks(c, t) /\ RunWorks(k, t))
OneWorks == \A t \in ContractTasks : OneWorksOn(t)

ContractsInv ==
  /\ ContractsTyped /\ TasksFit /\ VersionsFit /\ RelationsFit /\ HandoffsFit
  /\ PackagesFit /\ RunsFit /\ CallsFit /\ OneWorks

\* What a package is assembled from is what its version selected and a relation led to.
LEMMA PreparedIsSound ==
  ASSUME ContractsTyped, RelationsFit, HandoffsFit,
         NEW ref \in VersionRefs, versionRecords[ref] # Nothing, versionRecords[ref].ref = ref,
         NEW key \in PackageKeys, NEW failure \in {Nothing} \cup [ref : VersionRefs, run : PackageKeys],
         NEW input, input.version = versionRecords[ref], input.run = key, input.session = key,
         input.baseline = versionRecords[ref].baseline,
         input.selection = Candidates(versionRecords[ref]),
         input.warnings = StaleWarnings(Candidates(versionRecords[ref])),
         input.snapshot = Nothing, input.findings = {}, input.failure = failure,
         failure # Nothing => /\ runRecords[failure.run].status = "failed"
                              /\ runRecords[failure.run].ref = ref,
         MayBePrepared(versionRecords[ref], input)
  PROVE  /\ Assembled(input) \in ContextPackages
         /\ Assembled(input).ref = ref /\ PackageFits(Assembled(input))
<1> DEFINE version == versionRecords[ref]
           cs == Candidates(version)
           pkg == Assembled(input)
<1>1. /\ version \in ContractRecords /\ version.selected \subseteq HandoffIds
      /\ version.relations \in Seq([id : RelationIds, type : RelationTypes, target : VersionRefs])
      /\ version.baseline \in Nat /\ version.content \in {"plain", "secret"} /\ version.ref = ref
  BY DEF ContractsTyped, ContractRecords
<1>2. /\ \A id \in version.selected : HasCandidate(version, id)
      /\ \A c \in cs : CandidateHolds(version, c)
      /\ {c.handoff.id : c \in cs} = version.selected
      /\ input.scenario \in Scenarios /\ FailureFits(input) /\ ~Forbidden(version.content)
  BY DEF MayBePrepared, SelectionHolds, MayBeAssembled, ComponentsFit
<1>3. ASSUME NEW id \in version.selected
      PROVE  LET c == Candidate(version, id)
             IN /\ c.handoff = handoffRecords[id] /\ handoffRecords[id] \in HandoffPackages
                /\ HandoffFits(id, handoffRecords[id]) /\ handoffRecords[id] # Nothing
                /\ c.relation.id \in RelationIds /\ relationRecords[c.relation.id] = c.relation
                /\ c.relation # Nothing /\ c.relation.source = ref
                /\ c.relation.target = handoffRecords[id].source
                /\ c.contained <=> handoffRecords[id].head <= version.base
                /\ c.relation.type = "depends_on" => c.contained
  <2> DEFINE h == handoffRecords[id]
             F == FirstRelationTo(version, h.source)
             first == CHOOSE i \in F : TRUE
             c == Candidate(version, id)
  <2>1. h # Nothing /\ HandoffFits(id, h) /\ h \in HandoffPackages
    BY <1>1, <1>2 DEF HasCandidate, HandoffsFit, HandoffFits
  <2>2. PICK i \in F : relationRecords[version.relations[i].id] # Nothing
    BY <1>2 DEF HasCandidate
  <2>3. DOMAIN version.relations = 1..Len(version.relations) /\ Len(version.relations) \in Nat
    BY <1>1
  <2>4. \A m, n \in F : m = n
    <3> SUFFICES ASSUME NEW m \in F, NEW n \in F, m # n PROVE FALSE
      OBVIOUS
    <3>1. /\ m \in 1..Len(version.relations) /\ n \in 1..Len(version.relations)
          /\ version.relations[m].target = h.source /\ version.relations[n].target = h.source
          /\ \A j \in 1..(m - 1) : version.relations[j].target # h.source
          /\ \A j \in 1..(n - 1) : version.relations[j].target # h.source
      BY <2>3 DEF FirstRelationTo
    <3>2. m \in 1..(n - 1) \/ n \in 1..(m - 1)
      BY <2>3, <3>1
    <3> QED BY <3>1, <3>2
  <2>5. first = i
    BY <2>2, <2>4
  <2>6. version.relations[i].id \in RelationIds
    <3>1. i \in DOMAIN version.relations
      BY <2>2 DEF FirstRelationTo
    <3> DEFINE declared == [id : RelationIds, type : RelationTypes, target : VersionRefs]
               rs == version.relations
    <3>2. rs \in Seq(declared) /\ i \in 1..Len(rs)
      BY <1>1, <2>3, <3>1
    <3>3. rs[i] \in declared => rs[i].id \in RelationIds
      OBVIOUS
    <3> HIDE DEF declared, rs
    <3>4. rs[i] \in declared
      BY <3>2
    <3> QED BY <3>3, <3>4 DEF rs
  <2>7. /\ c.handoff = h /\ c.relation = relationRecords[version.relations[first].id]
        /\ c.contained = CommitContained(h.head, version.base)
    BY DEF Candidate
  <2>8. /\ c.relation \in RelationValues /\ c.relation.id = version.relations[i].id
        /\ c.relation # Nothing
    <3> HIDE DEF c, first, F, h
    <3> QED BY <2>2, <2>5, <2>6, <2>7 DEF RelationsFit
  <2>9. c \in cs
    BY DEF Candidates
  <2>10. CandidateHolds(version, c)
    BY <1>2, <2>9
  <2>11. /\ c.relation.source = ref /\ c.relation.target = h.source
         /\ c.relation.type = "depends_on" => c.contained
    <3> HIDE DEF c, h
    <3> QED BY <1>1, <2>7, <2>10 DEF CandidateHolds
  <2> HIDE DEF c, first, F
  <2>12. relationRecords[c.relation.id] = c.relation
    BY <2>5, <2>7, <2>8
  <2> QED BY <2>1, <2>6, <2>7, <2>8, <2>11, <2>12 DEF CommitContained, c
<1>4. /\ pkg.scenario = input.scenario /\ pkg.ref = ref /\ pkg.run = key /\ pkg.session = key
      /\ pkg.baseline = version.baseline /\ pkg.handoffs = {c.handoff : c \in cs}
      /\ pkg.warnings = StaleWarnings(cs) /\ pkg.snapshot = Nothing /\ pkg.findings = {}
      /\ pkg.failure = failure
      /\ pkg = [scenario |-> input.scenario, ref |-> ref, run |-> key, session |-> key,
                baseline |-> version.baseline, handoffs |-> {c.handoff : c \in cs},
                warnings |-> StaleWarnings(cs), snapshot |-> Nothing, findings |-> {},
                failure |-> failure]
  BY <1>1 DEF Assembled
<1>5. cs = {Candidate(version, id) : id \in version.selected}
  BY DEF Candidates
<1> HIDE DEF pkg, cs, version
<1>6. {c.handoff : c \in cs} \subseteq HandoffPackages
  BY <1>3, <1>5
<1>7. StaleWarnings(cs) \subseteq [handoff : HandoffIds, relation : RelationIds]
  <2> SUFFICES ASSUME NEW c \in cs PROVE c.handoff.id \in HandoffIds /\ c.relation.id \in RelationIds
    BY DEF StaleWarnings
  <2>1. PICK id \in version.selected : c = Candidate(version, id)
    BY <1>5
  <2> QED BY <1>1, <1>3, <2>1 DEF HandoffFits
<1>8. pkg \in ContextPackages
  BY <1>1, <1>2, <1>4, <1>6, <1>7 DEF ContextPackages
<1>9. {h.id : h \in pkg.handoffs} = version.selected
  BY <1>2, <1>4
<1>10. ASSUME NEW h \in pkg.handoffs PROVE HandedOver(pkg, h)
  <2>1. PICK id \in version.selected : h = Candidate(version, id).handoff
    BY <1>4, <1>5
  <2> DEFINE c == Candidate(version, id)
             r == c.relation
  <2>2. /\ h = handoffRecords[id] /\ h # Nothing /\ HandoffFits(id, h) /\ r.id \in RelationIds
        /\ relationRecords[r.id] = r /\ r # Nothing /\ r.source = ref /\ r.target = h.source
        /\ c.contained <=> h.head <= version.base
        /\ r.type = "depends_on" => c.contained
        /\ c \in cs /\ c.handoff = h
    BY <1>3, <1>5, <2>1
  <2> HIDE DEF c
  <2>3. r.type = "related_to" /\ ~c.contained =>
          [handoff |-> h.id, relation |-> r.id] \in pkg.warnings
    BY <1>4, <2>2 DEF StaleWarnings
  <2> HIDE DEF r
  <2>4. /\ runRecords[h.run].status = "succeeded" /\ runRecords[h.run].ref = h.source
        /\ h.head = resultRecords[h.run] /\ h.head # NoCommit
        /\ h.decidedBy = "bridge" /\ h.content = "plain"
    BY <2>2 DEF HandoffFits
  <2>5. versionRecords[pkg.ref] = version
    BY <1>4 DEF version
  <2> QED BY <1>4, <2>2, <2>3, <2>4, <2>5 DEF HandedOver
<1>11. version.content = "plain"
  BY <1>1, <1>2 DEF Forbidden
<1>12. failure # Nothing => failure.run # key
  BY <1>2 DEF FailureFits
<1>13. Sound(pkg)
  BY <1>4, <1>9, <1>10, <1>11, <1>12 DEF Sound, version
<1> QED BY <1>4, <1>8, <1>13 DEF PackageFits, pkg

(***************************************************************************)
(* What every step keeps: records are written once, a task's revision      *)
(* grows with each change, an outcome is final, each package is committed  *)
(* at a cursor of its own.                                                 *)
(***************************************************************************)
Moves ==
  /\ \A t \in ContractTasks :
       taskRecords'[t] = taskRecords[t] \/ taskRecords'[t].revision > taskRecords[t].revision
  /\ \A v \in VersionRefs : versionRecords[v] # Nothing => versionRecords'[v] = versionRecords[v]
  /\ \A i \in RelationIds : relationRecords[i] # Nothing => relationRecords'[i] = relationRecords[i]
  /\ \A k \in PackageKeys : packages[k] # Nothing => packages'[k] = packages[k]
  /\ \A k \in PackageKeys : runRecords[k].status \in {"succeeded", "failed"} =>
       runRecords'[k] = runRecords[k] /\ resultRecords'[k] = resultRecords[k]
  /\ contractCursor' >= contractCursor /\ (contractCursor' = contractCursor => packages' = packages)

LEMMA MovesKeep ==
  ASSUME ContractsTyped, ContractsTyped', Moves
  PROVE  /\ \A x \in ContextPackages : PackageFits(x) => PackageFits(x)'
         /\ \A k \in PackageKeys, ref \in VersionRefs : MayRun(k, ref) => MayRun(k, ref)'
         /\ \A i \in HandoffIds, h \in HandoffPackages : HandoffFits(i, h) => HandoffFits(i, h)'
<1>1. ASSUME NEW x \in ContextPackages, PackageFits(x) PROVE PackageFits(x)'
  <2>1. /\ x.ref \in VersionRefs /\ x.handoffs \subseteq HandoffPackages
        /\ x.failure # Nothing => x.failure.run \in PackageKeys
    BY DEF ContextPackages
  <2>2. versionRecords[x.ref] # Nothing /\ versionRecords'[x.ref] = versionRecords[x.ref] /\ Sound(x)
    BY <1>1, <2>1 DEF PackageFits, Moves
  <2>3. ASSUME NEW h \in x.handoffs PROVE HandedOver(x, h)'
    <3>1. h.run \in PackageKeys
      BY <2>1 DEF HandoffPackages
    <3>2. /\ runRecords[h.run].status = "succeeded" /\ runRecords[h.run].ref = h.source
          /\ h.head = resultRecords[h.run] /\ h.head # NoCommit
          /\ h.decidedBy = "bridge" /\ h.content = "plain"
      BY <2>2 DEF Sound, HandedOver
    <3>3. runRecords'[h.run] = runRecords[h.run] /\ resultRecords'[h.run] = resultRecords[h.run]
      BY <3>1, <3>2 DEF Moves
    <3>4. PICK id \in RelationIds :
            /\ relationRecords[id] # Nothing
            /\ relationRecords[id].source = x.ref /\ relationRecords[id].target = h.source
            /\ relationRecords[id].type = "depends_on" => h.head <= versionRecords[x.ref].base
            /\ relationRecords[id].type = "related_to" /\ ~(h.head <= versionRecords[x.ref].base) =>
                 [handoff |-> h.id, relation |-> id] \in x.warnings
      BY <2>2 DEF Sound, HandedOver
    <3>5. relationRecords'[id] = relationRecords[id]
      BY <3>4 DEF Moves
    <3> QED BY <2>2, <3>2, <3>3, <3>4, <3>5 DEF HandedOver
  <2>4. x.failure # Nothing => /\ runRecords'[x.failure.run].status = "failed"
                               /\ runRecords'[x.failure.run].ref = x.ref /\ x.failure.run # x.run
    BY <2>1, <2>2 DEF Sound, Moves
  <2>5. {h.id : h \in x.handoffs} = versionRecords'[x.ref].selected
        /\ versionRecords'[x.ref].content = "plain"
    BY <2>2 DEF Sound
  <2> QED BY <2>2, <2>3, <2>4, <2>5 DEF PackageFits, Sound
<1>2. ASSUME NEW k \in PackageKeys, NEW ref \in VersionRefs, MayRun(k, ref) PROVE MayRun(k, ref)'
  BY <1>2 DEF MayRun, Moves, WithinLimits
<1>3. ASSUME NEW i \in HandoffIds, NEW h \in HandoffPackages, HandoffFits(i, h) PROVE HandoffFits(i, h)'
  <2>1. h.run \in PackageKeys
    BY DEF HandoffPackages
  <2> QED BY <1>3, <2>1 DEF HandoffFits, Moves
<1> QED BY <1>1, <1>2, <1>3

LEMMA MovesKeepCalls ==
  ASSUME ContractsTyped, ContractsTyped', Moves, NEW call \in CallValues, CallFits(call)
  PROVE  CallFits(call)'
<1>1. /\ call.revision \in Nat /\ call.cursor \in Nat
      /\ call.at # "none" => call.ref \in VersionRefs /\ call.ref[1] \in ContractTasks
      /\ call.at \in {"prepare", "retry"} \cup Working => call.key \in PackageKeys
  BY DEF CallValues, CallFits, VersionRefs
<1>2. ASSUME call.at \in {"version", "validate", "queue"}
      PROVE  /\ call.revision # 0 /\ call.revision <= taskRecords'[call.ref[1]].revision
             /\ call.revision = taskRecords'[call.ref[1]].revision =>
                  /\ taskRecords'[call.ref[1]] = taskRecords[call.ref[1]]
                  /\ call.revision = taskRecords[call.ref[1]].revision
  <2> DEFINE t == call.ref[1]
  <2>1. t \in ContractTasks /\ call.revision # 0 /\ call.revision <= taskRecords[t].revision
    BY <1>1, <1>2 DEF CallFits
  <2>2. taskRecords[t].revision \in Nat /\ taskRecords'[t].revision \in Nat
    BY <2>1 DEF ContractsTyped, TaskValues
  <2>3. taskRecords'[t] = taskRecords[t] \/ taskRecords'[t].revision > taskRecords[t].revision
    BY <2>1 DEF Moves
  <2> QED BY <1>1, <2>1, <2>2, <2>3
<1>3. call.at \in {"validate", "retry"} =>
        versionRecords'[call.ref] # Nothing /\ WithinLimits(versionRecords'[call.ref])
  BY <1>1 DEF CallFits, Moves
<1>4. call.at \in Working => MayRun(call.key, call.ref)'
  BY <1>1, MovesKeep DEF CallFits, Working
<1>5. call.at \in {"prepare", "retry"} =>
        call.holds \in ContextPackages /\ call.holds.ref = call.ref /\ PackageFits(call.holds)'
  BY MovesKeep DEF CallFits
<1>6. call.at = "retry" => /\ call.cursor <= contractCursor'
                           /\ call.cursor = contractCursor' => packages'[call.key] = Nothing
  <2>1. contractCursor \in Nat /\ contractCursor' \in Nat
    BY DEF ContractsTyped
  <2> QED BY <1>1, <2>1 DEF CallFits, Moves
<1>7. call.at = "version" => call.holds \in ContractRecords /\ call.holds.ref = call.ref
  BY DEF CallFits
<1>8. (call.at \in {"version", "validate", "queue"}
       /\ call.revision = taskRecords[call.ref[1]].revision) =>
         /\ call.at = "version" => /\ call.ref[2] = taskRecords[call.ref[1]].latest + 1
                                   /\ taskRecords[call.ref[1]].status \in StartsNewVersion
         /\ call.at = "validate" => /\ call.ref[2] = taskRecords[call.ref[1]].latest
                                    /\ taskRecords[call.ref[1]].status = "DRAFT"
         /\ call.at = "queue" => taskRecords[call.ref[1]].status = "VALIDATED"
  BY DEF CallFits
<1> QED BY <1>1, <1>2, <1>3, <1>4, <1>5, <1>6, <1>7, <1>8 DEF CallFits, WithinLimits

\* What a step does not write stays as it has to be.
LEMMA TheRestFits ==
  ASSUME ContractsInv, ContractsTyped', Moves
  PROVE  /\ relationRecords' = relationRecords => RelationsFit'
         /\ handoffRecords' = handoffRecords => HandoffsFit'
         /\ packages' = packages => PackagesFit'
         /\ runRecords' = runRecords => RunsFit'
         /\ contractCalls' = contractCalls => CallsFit'
         /\ taskRecords' = taskRecords /\ versionRecords' = versionRecords => TasksFit' /\ VersionsFit'
<1> USE DEF ContractsInv
<1>1. relationRecords' = relationRecords => RelationsFit'
  BY DEF RelationsFit
<1>2. ASSUME handoffRecords' = handoffRecords PROVE HandoffsFit'
  <2> SUFFICES ASSUME NEW i \in HandoffIds PROVE HandoffFits(i, handoffRecords[i])'
    BY DEF HandoffsFit
  <2>1. HandoffFits(i, handoffRecords[i])
    BY DEF HandoffsFit
  <2>2. CASE handoffRecords[i] = Nothing
    BY <1>2, <2>2 DEF HandoffFits
  <2>3. CASE handoffRecords[i] # Nothing
    <3>1. handoffRecords[i] \in HandoffPackages
      BY <2>1, <2>3 DEF HandoffFits
    <3> QED BY <1>2, <2>1, <3>1, MovesKeep
  <2> QED BY <2>2, <2>3
<1>3. ASSUME packages' = packages PROVE PackagesFit'
  <2> SUFFICES ASSUME NEW k \in PackageKeys, packages[k] # Nothing PROVE PackageFits(packages[k])'
    BY <1>3 DEF PackagesFit
  <2>1. packages[k] \in ContextPackages
    BY DEF ContractsTyped
  <2> QED BY <1>3, <2>1, MovesKeep DEF PackagesFit
<1>4. ASSUME runRecords' = runRecords PROVE RunsFit'
  <2> SUFFICES ASSUME NEW k \in PackageKeys PROVE RunFits(k, runRecords[k])'
    BY DEF RunsFit
  <2>1. RunFits(k, runRecords[k])
    BY DEF RunsFit
  <2>2. CASE runRecords[k].status = "none"
    BY <1>4, <2>1, <2>2 DEF RunFits
  <2>3. CASE runRecords[k].status # "none"
    <3>1. MayRun(k, runRecords[k].ref) /\ runRecords[k].ref \in VersionRefs
      BY <2>1, <2>3 DEF RunFits, MayRun
    <3>2. MayRun(k, runRecords[k].ref)'
      BY <1>4, <3>1, MovesKeep
    <3> QED BY <1>4, <2>3, <3>2 DEF RunFits
  <2> QED BY <2>2, <2>3
<1>5. ASSUME contractCalls' = contractCalls PROVE CallsFit'
  <2> SUFFICES ASSUME NEW c \in ContractCalls PROVE CallFits(contractCalls[c])'
    BY DEF CallsFit
  <2>1. contractCalls[c] \in CallValues /\ CallFits(contractCalls[c])
    BY DEF ContractsTyped, CallsFit
  <2>2. \A call \in CallValues : CallFits(call) => CallFits(call)'
    BY MovesKeepCalls
  <2> QED BY <1>5, <2>1, <2>2
<1>6. taskRecords' = taskRecords /\ versionRecords' = versionRecords => TasksFit' /\ VersionsFit'
  BY DEF TasksFit, VersionsFit, TaskFits, VersionFits
<1> QED BY <1>1, <1>2, <1>3, <1>4, <1>5, <1>6

LEMMA OneCallMoves ==
  ASSUME ContractsInv, ContractsTyped', Moves, NEW c \in ContractCalls, NEW call \in CallValues,
         contractCalls' = [contractCalls EXCEPT ![c] = call], CallFits(call)'
  PROVE  CallsFit'
<1> SUFFICES ASSUME NEW d \in ContractCalls PROVE CallFits(contractCalls[d])'
  BY DEF CallsFit
<1>1. contractCalls[d] \in CallValues /\ CallFits(contractCalls[d])
  BY DEF ContractsInv, ContractsTyped, CallsFit
<1>2. contractCalls'[d] = IF d = c THEN call ELSE contractCalls[d]
  BY DEF ContractsInv, ContractsTyped
<1>3. \A x \in CallValues : CallFits(x) => CallFits(x)'
  BY MovesKeepCalls DEF ContractsInv
<1>4. CASE d = c
  BY <1>2, <1>4
<1>5. CASE d # c
  BY <1>1, <1>2, <1>3, <1>5
<1> QED BY <1>4, <1>5

LEMMA IdleFits == IdleCall \in CallValues /\ CallFits(IdleCall) /\ IdleCall.at = "none"
  BY DEF IdleCall, CallValues, CallPlaces, CallFits, Working

\* A call begins, or ends without a commit.
LEMMA CallTurns ==
  ASSUME ContractsInv, NEW c \in ContractCalls, NEW call \in CallValues, CallFits(call),
         call.at \notin {"run", "launch"}, contractCalls' = [contractCalls EXCEPT ![c] = call],
         UNCHANGED <<taskRecords, versionRecords, packages, recordVars, contractCursor>>
  PROVE  ContractsInv'
<1> USE DEF ContractsInv, recordVars
<1>1. ContractsTyped'
  BY DEF ContractsTyped
<1>2. Moves
  BY DEF Moves, ContractsTyped
<1>3. CallsFit'
  <2>1. CallFits(call)'
    BY <1>1, <1>2, MovesKeepCalls
  <2> QED BY <1>1, <1>2, <2>1, OneCallMoves
<1>4. OneWorks'
  <2>1. \A d \in ContractCalls : \A t : CallWorks(d, t)' => CallWorks(d, t) /\ contractCalls'[d] = contractCalls[d]
    BY DEF CallWorks, ContractsTyped, TaskOf
  <2>2. \A k, t : RunWorks(k, t)' <=> RunWorks(k, t)
    BY DEF RunWorks
  <2> QED BY <2>1, <2>2 DEF OneWorks, OneWorksOn
<1> QED BY <1>1, <1>2, <1>3, <1>4, TheRestFits

(***************************************************************************)
(* The calls that read and check: they change nothing but themselves.      *)
(***************************************************************************)
LEMMA TaskKnown ==
  ASSUME ContractsInv, NEW v \in VersionRefs
  PROVE  /\ v[1] \in ContractTasks /\ v[2] \in Nat /\ v = <<v[1], v[2]>>
         /\ taskRecords[v[1]] \in TaskValues /\ TaskFits(v[1], taskRecords[v[1]])
         /\ versionRecords[v] \in ContractRecords \cup {Nothing}
         /\ VersionFits(v, versionRecords[v], taskRecords[v[1]])
  BY ContractsAssumption DEF ContractsInv, ContractsTyped, VersionRefs, TasksFit, VersionsFit

LEMMA CreateTaskVersionKeeps ==
  ASSUME ContractsInv, NEW c \in ContractCalls, NEW t \in ContractTasks,
         NEW n \in DOMAIN Contracts, NEW contract \in Contracts[n], CreateTaskVersion(c, t, contract)
  PROVE  ContractsInv'
<1> DEFINE call == [IdleCall EXCEPT !.at = "version", !.ref = contract.ref,
                                    !.revision = taskRecords[t].revision, !.holds = contract]
<1>1. contract \in ContractRecords /\ contract.ref \in VersionRefs
  BY ContractsAssumption DEF ContractRecords
<1>2. /\ taskRecords[t].status \in StartsNewVersion
      /\ contract.ref = <<t, taskRecords[t].latest + 1>>
      /\ contractCalls' = [contractCalls EXCEPT ![c] = call]
      /\ UNCHANGED <<taskRecords, versionRecords, packages, recordVars, contractCursor>>
  BY DEF CreateTaskVersion, CallHolds
<1>3. taskRecords[t] \in TaskValues /\ taskRecords[t].revision # 0 /\ contract.ref[1] = t
  BY <1>2 DEF ContractsInv, ContractsTyped, TasksFit, TaskFits, StartsNewVersion
<1>4. /\ call \in CallValues /\ call.at = "version" /\ call.ref = contract.ref
      /\ call.revision = taskRecords[t].revision /\ call.holds = contract
  BY <1>1, <1>3 DEF CallValues, IdleCall, CallPlaces, TaskValues
<1> HIDE DEF call
<1>5. CallFits(call)
  BY <1>1, <1>2, <1>3, <1>4 DEF CallFits, Working, TaskValues
<1> QED BY <1>2, <1>4, <1>5, CallTurns

LEMMA ValidateTaskKeeps ==
  ASSUME ContractsInv, NEW c \in ContractCalls, NEW ref \in VersionRefs, ValidateTask(c, ref)
  PROVE  ContractsInv'
<1> DEFINE task == taskRecords[ref[1]]
           call == [IdleCall EXCEPT !.at = "validate", !.ref = ref, !.revision = task.revision]
<1>1. /\ versionRecords[ref] # Nothing /\ task.latest = ref[2]
      /\ WithinLimits(versionRecords[ref]) /\ task.status = "DRAFT"
      /\ contractCalls' = [contractCalls EXCEPT ![c] = call]
      /\ UNCHANGED <<taskRecords, versionRecords, packages, recordVars, contractCursor>>
  BY DEF ValidateTask, CallHolds
<1>2. task \in TaskValues /\ task.revision # 0
  BY <1>1, TaskKnown DEF TaskFits
<1>3. /\ call \in CallValues /\ call.at = "validate" /\ call.ref = ref
      /\ call.revision = task.revision
  BY <1>2 DEF CallValues, IdleCall, CallPlaces, TaskValues
<1> HIDE DEF call
<1>4. CallFits(call)
  BY <1>1, <1>2, <1>3 DEF CallFits, Working, TaskValues
<1> QED BY <1>1, <1>3, <1>4, CallTurns

LEMMA PrepareContextKeeps ==
  ASSUME ContractsInv, NEW c \in ContractCalls, NEW key \in PackageKeys, NEW ref \in VersionRefs,
         PrepareContext(c, key, ref)
  PROVE  ContractsInv'
<1> DEFINE version == versionRecords[ref]
           scenario == IF ref[2] = 1 THEN "NEW_TASK" ELSE "NEW_TASK_VERSION"
           input == AssemblyInput(scenario, version, key, key, Candidates(version))
           call == [IdleCall EXCEPT !.at = "prepare", !.ref = ref, !.key = key,
                                    !.holds = Assembled(input)]
<1>1. /\ version # Nothing /\ MayBePrepared(version, input)
      /\ contractCalls' = [contractCalls EXCEPT ![c] = call]
      /\ UNCHANGED <<taskRecords, versionRecords, packages, recordVars, contractCursor>>
  BY DEF PrepareContext, CallHolds
<1>2. version.ref = ref
  BY <1>1, TaskKnown DEF VersionFits
<1>3. Assembled(input) \in ContextPackages /\ Assembled(input).ref = ref /\ PackageFits(Assembled(input))
  <2>1. /\ input.version = version /\ input.run = key /\ input.session = key
        /\ input.baseline = version.baseline /\ input.selection = Candidates(version)
        /\ input.warnings = StaleWarnings(Candidates(version))
        /\ input.snapshot = Nothing /\ input.findings = {} /\ input.failure = Nothing
    BY DEF AssemblyInput
  <2> HIDE DEF input
  <2> QED BY <1>1, <1>2, <2>1, PreparedIsSound DEF ContractsInv
<1> HIDE DEF input, scenario
<1>4. /\ call \in CallValues /\ call.at = "prepare" /\ call.ref = ref /\ call.key = key
      /\ call.holds = Assembled(input)
  BY <1>3 DEF CallValues, IdleCall, CallPlaces
<1> HIDE DEF call
<1>5. CallFits(call)
  BY <1>1, <1>3, <1>4 DEF CallFits, Working
<1> QED BY <1>1, <1>4, <1>5, CallTurns

LEMMA StartTaskKeeps ==
  ASSUME ContractsInv, NEW c \in ContractCalls, NEW key \in PackageKeys, NEW ref \in VersionRefs,
         StartTask(c, key, ref)
  PROVE  ContractsInv'
<1> DEFINE task == taskRecords[ref[1]]
           call == [IdleCall EXCEPT !.at = "queue", !.ref = ref, !.key = key,
                                    !.revision = task.revision]
<1>1. /\ versionRecords[ref] # Nothing /\ packages[key] # Nothing /\ packages[key].ref = ref
      /\ task.status = "VALIDATED"
      /\ contractCalls' = [contractCalls EXCEPT ![c] = call]
      /\ UNCHANGED <<taskRecords, versionRecords, packages, recordVars, contractCursor>>
  BY DEF StartTask, CallHolds
<1>2. task \in TaskValues /\ task.revision # 0 /\ WithinLimits(versionRecords[ref])
  BY <1>1, TaskKnown DEF TaskFits, VersionFits
<1>3. /\ call \in CallValues /\ call.at = "queue" /\ call.ref = ref /\ call.key = key
      /\ call.revision = task.revision
  BY <1>2 DEF CallValues, IdleCall, CallPlaces, TaskValues, Working
<1> HIDE DEF call
<1>4. CallFits(call)
  BY <1>1, <1>2, <1>3 DEF CallFits, Working, TaskValues, MayRun
<1> QED BY <1>1, <1>3, <1>4, CallTurns

LEMMA RetryRunKeeps ==
  ASSUME ContractsInv, NEW c \in ContractCalls, NEW key \in PackageKeys, NEW run \in PackageKeys,
         RetryRun(c, key, run)
  PROVE  ContractsInv'
<1> DEFINE ref == runRecords[run].ref
           version == versionRecords[ref]
           failure == [ref |-> ref, run |-> run]
           input == [AssemblyInput("MANUAL_RETRY", version, key, key, Candidates(version))
                       EXCEPT !.failure = failure]
           call == [IdleCall EXCEPT !.at = "retry", !.ref = ref, !.key = key,
                                    !.cursor = contractCursor, !.holds = Assembled(input)]
<1>1. /\ runRecords[run].status = "failed" /\ MayBePrepared(version, input)
      /\ packages[key] = Nothing
      /\ contractCalls' = [contractCalls EXCEPT ![c] = call]
      /\ UNCHANGED <<taskRecords, versionRecords, packages, recordVars, contractCursor>>
  BY DEF RetryRun, RetryAllowed, CallHolds
<1>2. ref \in VersionRefs /\ version # Nothing /\ WithinLimits(version)
  BY <1>1 DEF ContractsInv, RunsFit, RunFits, MayRun
<1>3. version.ref = ref /\ contractCursor \in Nat
  BY <1>2, TaskKnown DEF VersionFits, ContractsInv, ContractsTyped
<1>4. Assembled(input) \in ContextPackages /\ Assembled(input).ref = ref /\ PackageFits(Assembled(input))
  <2>1. /\ input.version = version /\ input.run = key /\ input.session = key
        /\ input.baseline = version.baseline /\ input.selection = Candidates(version)
        /\ input.warnings = StaleWarnings(Candidates(version))
        /\ input.snapshot = Nothing /\ input.findings = {} /\ input.failure = failure
    BY DEF AssemblyInput
  <2>2. failure \in [ref : VersionRefs, run : PackageKeys]
        /\ runRecords[failure.run].status = "failed" /\ runRecords[failure.run].ref = ref
    BY <1>1, <1>2
  <2> HIDE DEF input, failure, ref
  <2> QED BY <1>1, <1>2, <1>3, <2>1, <2>2, PreparedIsSound DEF ContractsInv
<1> HIDE DEF input, ref
<1>5. /\ call \in CallValues /\ call.at = "retry" /\ call.ref = ref /\ call.key = key
      /\ call.cursor = contractCursor /\ call.holds = Assembled(input)
  BY <1>2, <1>3, <1>4 DEF CallValues, IdleCall, CallPlaces
<1> HIDE DEF call
<1>6. CallFits(call)
  BY <1>1, <1>2, <1>3, <1>4, <1>5 DEF CallFits, Working
<1> QED BY <1>1, <1>5, <1>6, CallTurns

LEMMA ConflictsKeeps ==
  ASSUME ContractsInv, NEW c \in ContractCalls, NEW place, Conflicts(c, place)
  PROVE  ContractsInv'
  BY IdleFits, CallTurns DEF Conflicts, CallEnds, CallHolds

\* The commits that leave the tasks alone.
LEMMA WorkStays ==
  ASSUME ContractsInv, NEW t \in ContractTasks, taskRecords'[t] = taskRecords[t],
         \A d \in ContractCalls : CallWorks(d, t)' => CallWorks(d, t)
                                                      /\ contractCalls'[d].at = contractCalls[d].at,
         \A k \in PackageKeys : RunWorks(k, t)' => RunWorks(k, t)
  PROVE  OneWorksOn(t)'
  BY DEF ContractsInv, OneWorks, OneWorksOn

LEMMA LinkTaskVersionsKeeps ==
  ASSUME ContractsInv, NEW source \in VersionRefs, versionRecords[source] # Nothing,
         NEW i \in DOMAIN versionRecords[source].relations, LinkTaskVersions(source, i)
  PROVE  ContractsInv'
<1> USE DEF ContractsInv
<1> DEFINE rs == versionRecords[source].relations
           Declared == [id : RelationIds, type : RelationTypes, target : VersionRefs]
           declared == rs[i]
           relation == [id |-> declared.id, type |-> declared.type, source |-> source,
                        target |-> declared.target]
<1>1. declared \in Declared
  <2>1. rs \in Seq(Declared) /\ i \in DOMAIN rs
    BY TaskKnown DEF ContractRecords
  <2> HIDE DEF Declared, rs
  <2> QED BY <2>1
<1>2. /\ relationRecords[declared.id] = Nothing
      /\ relationRecords' = [relationRecords EXCEPT ![declared.id] = relation]
      /\ contractCursor' = contractCursor + 1
      /\ UNCHANGED <<taskRecords, versionRecords, packages, handoffRecords, runRecords,
                     resultRecords, contractCalls>>
  BY DEF LinkTaskVersions, Commits
<1>3. relation \in RelationValues /\ relation.id = declared.id /\ declared.id \in RelationIds
  BY <1>1 DEF RelationValues
<1> HIDE DEF relation, declared
<1>4. ContractsTyped'
  BY <1>2, <1>3 DEF ContractsTyped
<1>5. Moves
  BY <1>2, <1>3 DEF Moves, ContractsTyped
<1>6. RelationsFit'
  BY <1>2, <1>3 DEF RelationsFit, ContractsTyped
<1>7. OneWorks'
  BY <1>2 DEF OneWorks, OneWorksOn, CallWorks, RunWorks, TaskOf
<1> QED BY <1>2, <1>4, <1>5, <1>6, <1>7, TheRestFits

LEMMA GenerateHandoffKeeps ==
  ASSUME ContractsInv, NEW id \in HandoffIds, NEW run \in PackageKeys,
         NEW decidedBy \in {"bridge", "agent"}, NEW content \in {"plain", "secret"},
         GenerateHandoff(id, run, decidedBy, content)
  PROVE  ContractsInv'
<1> USE DEF ContractsInv
<1> DEFINE ref == runRecords[run].ref
           handoff == [id |-> id, source |-> ref, run |-> run, base |-> versionRecords[ref].base,
                       head |-> resultRecords[run], decidedBy |-> decidedBy, content |-> content]
<1>1. /\ runRecords[run].status = "succeeded" /\ resultRecords[run] # NoCommit
      /\ decidedBy = "bridge" /\ content = "plain"
      /\ handoffRecords[id] = Nothing
      /\ handoffRecords' = [handoffRecords EXCEPT ![id] = handoff]
      /\ contractCursor' = contractCursor + 1
      /\ UNCHANGED <<taskRecords, versionRecords, packages, relationRecords, runRecords,
                     resultRecords, contractCalls>>
  BY DEF GenerateHandoff, Commits, MayBeGenerated, Forbidden
<1>2. ref \in VersionRefs /\ versionRecords[ref] # Nothing
  BY <1>1 DEF RunsFit, RunFits, MayRun
<1>3. versionRecords[ref].base \in Nat /\ resultRecords[run] \in Nat
  BY <1>2 DEF ContractsTyped, ContractRecords
<1>4. /\ handoff \in HandoffPackages /\ handoff.id = id /\ handoff.source = ref /\ handoff.run = run
      /\ handoff.head = resultRecords[run] /\ handoff.decidedBy = decidedBy /\ handoff.content = content
  BY <1>2, <1>3 DEF HandoffPackages
<1> HIDE DEF handoff, ref
<1>5. ContractsTyped'
  BY <1>1, <1>4 DEF ContractsTyped
<1>6. Moves
  BY <1>1 DEF Moves, ContractsTyped
<1>7. HandoffsFit'
  <2> SUFFICES ASSUME NEW j \in HandoffIds PROVE HandoffFits(j, handoffRecords[j])'
    BY DEF HandoffsFit
  <2>1. CASE j = id
    <3>1. handoffRecords'[j] = handoff
      BY <1>1, <2>1 DEF ContractsTyped
    <3> QED BY <1>1, <1>4, <2>1, <3>1 DEF HandoffFits, ref
  <2>2. CASE j # id
    BY <1>1, <2>2 DEF HandoffsFit, HandoffFits, ContractsTyped
  <2> QED BY <2>1, <2>2
<1>8. OneWorks'
  BY <1>1 DEF OneWorks, OneWorksOn, CallWorks, RunWorks, TaskOf
<1> QED BY <1>1, <1>5, <1>6, <1>7, <1>8, TheRestFits

\* A package is committed for a call that goes on with it or ends.
LEMMA PackageCommitted ==
  ASSUME ContractsInv, NEW c \in ContractCalls, NEW key \in PackageKeys,
         NEW package \in ContextPackages, PackageFits(package), packages[key] = Nothing,
         packages' = [packages EXCEPT ![key] = package], contractCursor' = contractCursor + 1,
         NEW call \in CallValues, contractCalls' = [contractCalls EXCEPT ![c] = call],
         call.at \notin {"run", "launch"},
         packages'[key] = package => CallFits(call)',
         UNCHANGED <<taskRecords, versionRecords, recordVars>>
  PROVE  ContractsInv'
<1> USE DEF ContractsInv, recordVars
<1>1. ContractsTyped'
  BY DEF ContractsTyped
<1>2. Moves
  BY DEF Moves, ContractsTyped
<1>3. packages'[key] = package /\ \A k \in PackageKeys \ {key} : packages'[k] = packages[k]
  BY DEF ContractsTyped
<1>4. CallsFit'
  BY <1>1, <1>2, <1>3, OneCallMoves
<1>5. PackagesFit'
  <2> SUFFICES ASSUME NEW k \in PackageKeys, packages'[k] # Nothing PROVE PackageFits(packages[k])'
    BY DEF PackagesFit
  <2>1. PackageFits(package)'
    BY <1>1, <1>2, MovesKeep
  <2>2. CASE k = key
    BY <1>3, <2>1, <2>2
  <2>3. CASE k # key
    <3>1. packages'[k] = packages[k] /\ packages[k] \in ContextPackages /\ PackageFits(packages[k])
      BY <1>3, <2>3 DEF PackagesFit, ContractsTyped
    <3> QED BY <1>1, <1>2, <3>1, MovesKeep
  <2> QED BY <2>2, <2>3
<1>6. OneWorks'
  <2> SUFFICES ASSUME NEW t \in ContractTasks PROVE OneWorksOn(t)'
    BY DEF OneWorks
  <2>1. \A d \in ContractCalls : CallWorks(d, t)' =>
          CallWorks(d, t) /\ contractCalls'[d].at = contractCalls[d].at
    BY DEF CallWorks, ContractsTyped, TaskOf
  <2>2. \A k \in PackageKeys : RunWorks(k, t)' => RunWorks(k, t)
    BY DEF RunWorks
  <2> QED BY <2>1, <2>2, WorkStays
<1> QED BY <1>1, <1>2, <1>4, <1>5, <1>6, TheRestFits

LEMMA CommitContextKeeps ==
  ASSUME ContractsInv, NEW c \in ContractCalls, CommitContext(c)
  PROVE  ContractsInv'
<1> DEFINE old == contractCalls[c]
<1>1. /\ old.at = "prepare" /\ contractCalls' = [contractCalls EXCEPT ![c] = IdleCall]
      /\ UNCHANGED <<taskRecords, versionRecords, recordVars>>
      /\ \/ /\ packages[old.key] = Nothing /\ contractCursor' = contractCursor + 1
            /\ packages' = [packages EXCEPT ![old.key] = old.holds]
         \/ UNCHANGED <<packages, contractCursor>>
  BY DEF CommitContext, CallAt, CallEnds, CallHolds, Commits
<1>2. old.key \in PackageKeys /\ old.holds \in ContextPackages /\ PackageFits(old.holds)
  BY <1>1 DEF ContractsInv, CallsFit, CallFits
<1>3. IdleCall \in CallValues /\ IdleCall.at = "none" /\ CallFits(IdleCall) /\ CallFits(IdleCall)'
  BY IdleFits DEF CallFits, IdleCall, Working
<1> HIDE DEF old
<1> QED BY <1>1, <1>2, <1>3, PackageCommitted, CallTurns

LEMMA CommitRetryContextKeeps ==
  ASSUME ContractsInv, NEW c \in ContractCalls, CommitRetryContext(c)
  PROVE  ContractsInv'
<1> DEFINE old == contractCalls[c]
           call == [old EXCEPT !.at = "requeue", !.cursor = 0, !.holds = Nothing]
<1>1. old.at = "retry" /\ UNCHANGED <<taskRecords, versionRecords, recordVars>>
  BY DEF CommitRetryContext, CallAt
<1>2. /\ old \in CallValues /\ CallFits(old) /\ old.key \in PackageKeys /\ old.ref \in VersionRefs
      /\ versionRecords[old.ref] # Nothing /\ WithinLimits(versionRecords[old.ref])
      /\ old.holds \in ContextPackages /\ old.holds.ref = old.ref /\ PackageFits(old.holds)
      /\ contractCursor = old.cursor => packages[old.key] = Nothing
  BY <1>1 DEF ContractsInv, ContractsTyped, CallsFit, CallFits
<1>3. CASE contractCursor = old.cursor
  <2>1. /\ packages' = [packages EXCEPT ![old.key] = old.holds] /\ contractCursor' = contractCursor + 1
        /\ contractCalls' = [contractCalls EXCEPT ![c] = call]
    BY <1>3 DEF CommitRetryContext, CallHolds, Commits
  <2>2. call \in CallValues /\ call.at = "requeue" /\ call.key = old.key /\ call.ref = old.ref
    BY <1>2 DEF CallValues, CallPlaces, Working
  <2> HIDE DEF call
  <2>3. PICK x \in CallValues : x = call
    BY <2>2
  <2>4. ASSUME packages'[old.key] = old.holds PROVE CallFits(x)'
    <3>a. PICK key \in PackageKeys, ref \in VersionRefs : key = old.key /\ ref = old.ref
      BY <1>2
    <3>b. versionRecords' = versionRecords /\ packages'[key] \in ContextPackages
          /\ packages'[key].ref = ref
      BY <1>1, <1>2, <2>4, <3>a
    <3>1. MayRun(key, ref)'
      BY <1>2, <3>a, <3>b, NothingAssumption DEF MayRun, WithinLimits
    <3>2. x.at = "requeue" /\ x.key = key /\ x.ref = ref
      BY <2>2, <2>3, <3>a
    <3> HIDE DEF old
    <3>3. x.at # "none" /\ x.at \in Working
          /\ x.at \notin {"prepare", "retry", "version", "validate", "queue"}
      BY <3>2 DEF Working
    <3> QED BY <1>2, <3>1, <3>2, <3>3 DEF CallFits
  <2> HIDE DEF old
  <2> QED BY <1>1, <1>2, <1>3, <2>1, <2>2, <2>3, <2>4, PackageCommitted
<1>4. CASE contractCursor # old.cursor
  BY <1>1, <1>4, IdleFits, CallTurns DEF CommitRetryContext, CallEnds, CallHolds
<1> QED BY <1>3, <1>4

\* The commits that move a task on, and do not make a draft of it.
(***************************************************************************)
(* The commits that move a task.                                           *)
(***************************************************************************)
LEMMA TaskMovesOn ==
  ASSUME ContractsInv, NEW t \in ContractTasks, NEW status \in TaskRecordStatuses \ {"none", "DRAFT"},
         TaskBecomes(t, status), versionRecords' = versionRecords,
         \/ taskRecords[t].status \notin {"none", "DRAFT"}
         \/ /\ taskRecords[t].status # "none"
            /\ \A v \in VersionRefs : v[1] = t /\ v[2] = taskRecords[t].latest =>
                 WithinLimits(versionRecords[v])
  PROVE  /\ taskRecords' \in [ContractTasks -> TaskValues]
         /\ TasksFit' /\ VersionsFit'
         /\ taskRecords'[t].status = status
         /\ taskRecords'[t].revision = taskRecords[t].revision + 1
         /\ \A s \in ContractTasks \ {t} : taskRecords'[s] = taskRecords[s]
         /\ \A s \in ContractTasks :
              taskRecords'[s] = taskRecords[s] \/ taskRecords'[s].revision > taskRecords[s].revision
<1> DEFINE old == taskRecords[t]
           new == [old EXCEPT !.status = status, !.revision = @ + 1]
<1>1. /\ old \in TaskValues /\ taskRecords \in [ContractTasks -> TaskValues]
      /\ TaskFits(t, old) /\ old.status # "none"
  BY DEF ContractsInv, ContractsTyped, TasksFit
<1>2. taskRecords' = [taskRecords EXCEPT ![t] = new]
  BY <1>1 DEF TaskBecomes
<1>3. /\ new \in TaskValues /\ new.status = status /\ new.latest = old.latest
      /\ new.revision = old.revision + 1 /\ old.revision \in Nat
  <2>1. old.latest \in Nat /\ old.revision \in Nat /\ old.revision + 1 \in Nat
    BY <1>1 DEF TaskValues
  <2>2. status \in TaskRecordStatuses
    OBVIOUS
  <2> DEFINE n == old.revision + 1
  <2>3. n \in Nat /\ new = [old EXCEPT !.status = status, !.revision = n]
    BY <2>1
  <2> HIDE DEF n, new
  <2>4. /\ new \in TaskValues /\ new.status = status /\ new.latest = old.latest /\ new.revision = n
    BY <1>1, <2>2, <2>3 DEF TaskValues
  <2> QED BY <2>1, <2>4 DEF n
<1> HIDE DEF new
<1>4. taskRecords' \in [ContractTasks -> TaskValues] /\ taskRecords'[t] = new
      /\ \A s \in ContractTasks \ {t} : taskRecords'[s] = taskRecords[s]
  BY <1>1, <1>2, <1>3
<1>5. TasksFit'
  <2> SUFFICES ASSUME NEW s \in ContractTasks PROVE TaskFits(s, taskRecords[s])'
    BY DEF TasksFit
  <2>1. CASE s = t
    BY <1>1, <1>3, <1>4, <2>1 DEF TaskFits
  <2>2. CASE s # t
    BY <1>4, <2>2 DEF ContractsInv, TasksFit, TaskFits
  <2> QED BY <2>1, <2>2
<1>6. VersionsFit'
  <2> SUFFICES ASSUME NEW v \in VersionRefs
               PROVE  VersionFits(v, versionRecords[v], taskRecords[v[1]])'
    BY DEF VersionsFit
  <2>1. v[1] \in ContractTasks /\ VersionFits(v, versionRecords[v], taskRecords[v[1]])
    BY TaskKnown
  <2>2. CASE v[1] = t
    <3> DEFINE version == versionRecords[v]
    <3>1. /\ version # Nothing <=> v[2] <= old.latest
          /\ version # Nothing => version.ref = v
          /\ version # Nothing /\ (v[2] # old.latest \/ old.status # "DRAFT") => WithinLimits(version)
      BY <2>1, <2>2 DEF VersionFits
    <3>2. version # Nothing => WithinLimits(version)
      BY <2>2, <3>1
    <3> HIDE DEF version
    <3>3. versionRecords'[v] = version
      BY DEF version
    <3> QED BY <1>3, <1>4, <2>2, <3>1, <3>2, <3>3 DEF VersionFits, WithinLimits
  <2>3. CASE v[1] # t
    BY <1>4, <2>1, <2>3 DEF VersionFits, WithinLimits
  <2> QED BY <2>2, <2>3
<1>7. \A m, n \in Nat : m = n + 1 => m > n
  OBVIOUS
<1> QED BY <1>1, <1>3, <1>4, <1>5, <1>6, <1>7 DEF TaskValues

\* A call moves the task of its version on, and goes on itself.
LEMMA TaskMovedByCall ==
  ASSUME ContractsInv, NEW t \in ContractTasks, NEW status \in TaskRecordStatuses \ {"none", "DRAFT"},
         TaskBecomes(t, status),
         \/ taskRecords[t].status \notin {"none", "DRAFT"}
         \/ /\ taskRecords[t].status # "none"
            /\ \A v \in VersionRefs : v[1] = t /\ v[2] = taskRecords[t].latest =>
                 WithinLimits(versionRecords[v]),
         NEW c \in ContractCalls, NEW call \in CallValues,
         contractCalls' = [contractCalls EXCEPT ![c] = call], contractCursor' = contractCursor + 1,
         \/ call.at = "none"
         \/ /\ call.at \in {"run", "launch"} /\ call.ref \in VersionRefs /\ call.ref[1] = t
            /\ call.key \in PackageKeys /\ MayRun(call.key, call.ref)
            /\ status = IF call.at = "run" THEN "QUEUED" ELSE "RUNNING",
         \A d \in ContractCalls : CallWorks(d, t) => d = c,
         \A k \in PackageKeys : ~RunWorks(k, t),
         \A s \in ContractTasks : CallWorks(c, s) => s = t,
         UNCHANGED <<versionRecords, packages, recordVars>>
  PROVE  ContractsInv'
<1> USE DEF ContractsInv, recordVars
<1>1. /\ taskRecords' \in [ContractTasks -> TaskValues] /\ TasksFit' /\ VersionsFit'
      /\ taskRecords'[t].status = status
      /\ \A s \in ContractTasks \ {t} : taskRecords'[s] = taskRecords[s]
      /\ \A s \in ContractTasks :
           taskRecords'[s] = taskRecords[s] \/ taskRecords'[s].revision > taskRecords[s].revision
  BY TaskMovesOn
<1>2. ContractsTyped'
  BY <1>1 DEF ContractsTyped
<1>3. Moves
  <2>1. contractCursor \in Nat /\ contractCursor' > contractCursor
    BY DEF ContractsTyped
  <2> QED BY <1>1, <2>1 DEF Moves
<1>4. CallsFit'
  <2>1. CallFits(call)'
    <3>1. CASE call.at = "none"
      BY <3>1 DEF CallFits, Working
    <3>2. CASE call.at # "none"
      <4>1. MayRun(call.key, call.ref)'
        BY <1>2, <1>3, <3>2, MovesKeep
      <4> QED BY <3>2, <4>1 DEF CallFits, Working
    <3> QED BY <3>1, <3>2
  <2> QED BY <1>2, <1>3, <2>1, OneCallMoves
<1>5. \A d \in ContractCalls : contractCalls'[d] = IF d = c THEN call ELSE contractCalls[d]
  BY DEF ContractsTyped
<1>6. OneWorks'
  <2> SUFFICES ASSUME NEW s \in ContractTasks PROVE OneWorksOn(s)'
    BY DEF OneWorks
  <2>1. \A k \in PackageKeys : RunWorks(k, s)' <=> RunWorks(k, s)
    BY DEF RunWorks
  <2>2. CASE s = t
    <3>1. \A d \in ContractCalls : CallWorks(d, s)' => d = c
      BY <1>5, <2>2 DEF CallWorks, TaskOf
    <3>2. CallWorks(c, s)' => status = IF contractCalls'[c].at = "run" THEN "QUEUED" ELSE "RUNNING"
      BY <1>5 DEF CallWorks
    <3> QED BY <1>1, <2>1, <2>2, <3>1, <3>2 DEF OneWorksOn
  <2>3. CASE s # t
    <3>1. \A d \in ContractCalls : CallWorks(d, s)' =>
            CallWorks(d, s) /\ contractCalls'[d].at = contractCalls[d].at
      BY <1>5, <2>3 DEF CallWorks, TaskOf
    <3> QED BY <1>1, <2>1, <2>3, <3>1, WorkStays
  <2> QED BY <2>2, <2>3
<1> QED BY <1>1, <1>2, <1>3, <1>4, <1>6, TheRestFits

\* Nobody works on a task that is neither queued nor running.
LEMMA NobodyWorks ==
  ASSUME ContractsInv, NEW t \in ContractTasks, taskRecords[t].status \notin {"QUEUED", "RUNNING"}
  PROVE  /\ \A c \in ContractCalls : ~CallWorks(c, t)
         /\ \A k \in PackageKeys : ~RunWorks(k, t)
  BY DEF ContractsInv, OneWorks, OneWorksOn

LEMMA CallKnown ==
  ASSUME ContractsInv, NEW c \in ContractCalls
  PROVE  /\ contractCalls[c] \in CallValues /\ CallFits(contractCalls[c])
         /\ contractCalls[c].at # "none" =>
              /\ contractCalls[c].ref \in VersionRefs /\ TaskOf(c) \in ContractTasks
              /\ taskRecords[TaskOf(c)] \in TaskValues
  BY DEF ContractsInv, ContractsTyped, CallsFit, CallFits, TaskOf, VersionRefs

LEMMA CommitValidationKeeps ==
  ASSUME ContractsInv, NEW c \in ContractCalls, CommitValidation(c)
  PROVE  ContractsInv'
<1> DEFINE t == TaskOf(c)
<1>1. /\ contractCalls[c].at = "validate" /\ contractCalls[c].revision = taskRecords[t].revision
      /\ TaskBecomes(t, "VALIDATED") /\ contractCursor' = contractCursor + 1
      /\ contractCalls' = [contractCalls EXCEPT ![c] = IdleCall]
      /\ UNCHANGED <<versionRecords, packages, recordVars>>
  BY DEF CommitValidation, CallAt, TaskAsRead, Commits, CallEnds, CallHolds
<1>2. /\ t \in ContractTasks /\ taskRecords[t].status = "DRAFT"
      /\ contractCalls[c].ref \in VersionRefs /\ contractCalls[c].ref[1] = t
      /\ contractCalls[c].ref[2] = taskRecords[t].latest
      /\ WithinLimits(versionRecords[contractCalls[c].ref])
  BY <1>1, CallKnown DEF CallFits, TaskOf
<1>3. \A v \in VersionRefs : v[1] = t /\ v[2] = taskRecords[t].latest =>
        WithinLimits(versionRecords[v])
  <2> SUFFICES ASSUME NEW v \in VersionRefs, v[1] = t, v[2] = taskRecords[t].latest
               PROVE  v = contractCalls[c].ref
    BY <1>2
  <2> QED BY <1>2 DEF VersionRefs
<1>4. \A s : ~CallWorks(c, s)
  BY <1>1 DEF CallWorks
<1>5. /\ \A d \in ContractCalls : ~CallWorks(d, t)
      /\ \A k \in PackageKeys : ~RunWorks(k, t)
  BY <1>2, NobodyWorks
<1> HIDE DEF t
<1>6. "VALIDATED" \in TaskRecordStatuses \ {"none", "DRAFT"}
  BY DEF TaskRecordStatuses
<1> QED BY <1>1, <1>2, <1>3, <1>4, <1>5, <1>6, IdleFits, TaskMovedByCall

LEMMA CallGoesOn ==
  ASSUME NEW old \in CallValues, NEW place \in CallPlaces, NEW n \in Nat
  PROVE  LET call == [old EXCEPT !.at = place, !.revision = n]
         IN call \in CallValues /\ call.at = place /\ call.ref = old.ref /\ call.key = old.key
  BY DEF CallValues

LEMMA CommitQueuedKeeps ==
  ASSUME ContractsInv, NEW c \in ContractCalls, CommitQueued(c)
  PROVE  ContractsInv'
<1> DEFINE t == TaskOf(c)
           old == contractCalls[c]
           call == [old EXCEPT !.at = "run", !.revision = @ + 1]
<1>1. /\ old.at = "queue" /\ old.revision = taskRecords[t].revision
      /\ TaskBecomes(t, "QUEUED") /\ contractCursor' = contractCursor + 1
      /\ contractCalls' = [contractCalls EXCEPT ![c] = call]
      /\ UNCHANGED <<versionRecords, packages, recordVars>>
  BY DEF CommitQueued, CallAt, TaskAsRead, Commits, CallHolds
<1>2. /\ t \in ContractTasks /\ taskRecords[t].status = "VALIDATED" /\ old \in CallValues
      /\ old.ref \in VersionRefs /\ old.ref[1] = t /\ old.key \in PackageKeys
      /\ MayRun(old.key, old.ref) /\ old.revision \in Nat
  BY <1>1, CallKnown DEF CallFits, TaskOf, Working, CallValues
<1>3. /\ call \in CallValues /\ call.at = "run" /\ call.ref = old.ref /\ call.key = old.key
  <2>1. "run" \in CallPlaces /\ old.revision + 1 \in Nat
    BY <1>2 DEF CallPlaces, Working
  <2> HIDE DEF old
  <2> QED BY <1>2, <2>1, CallGoesOn
<1>4. \A s : ~CallWorks(c, s)
  BY <1>1 DEF CallWorks
<1>5. /\ \A d \in ContractCalls : ~CallWorks(d, t)
      /\ \A k \in PackageKeys : ~RunWorks(k, t)
  BY <1>2, NobodyWorks
<1> HIDE DEF t, call, old
<1>6. "QUEUED" \in TaskRecordStatuses \ {"none", "DRAFT"}
  BY DEF TaskRecordStatuses
<1>7. PICK x \in CallValues : x = call
  BY <1>3
<1> QED BY <1>1, <1>2, <1>3, <1>4, <1>5, <1>6, <1>7, TaskMovedByCall

\* A call at work on its task is the only one, and no run is.
LEMMA CallWorksAlone ==
  ASSUME ContractsInv, NEW c \in ContractCalls, contractCalls[c].at \in {"run", "launch"}
  PROVE  /\ TaskOf(c) \in ContractTasks /\ CallWorks(c, TaskOf(c))
         /\ taskRecords[TaskOf(c)].status = IF contractCalls[c].at = "run" THEN "QUEUED" ELSE "RUNNING"
         /\ \A d \in ContractCalls : CallWorks(d, TaskOf(c)) => d = c
         /\ \A k \in PackageKeys : ~RunWorks(k, TaskOf(c))
         /\ \A s : CallWorks(c, s) => s = TaskOf(c)
         /\ contractCalls[c] \in CallValues
         /\ contractCalls[c].ref \in VersionRefs /\ contractCalls[c].ref[1] = TaskOf(c)
         /\ contractCalls[c].key \in PackageKeys
         /\ MayRun(contractCalls[c].key, contractCalls[c].ref)
<1>1. TaskOf(c) \in ContractTasks /\ CallWorks(c, TaskOf(c)) /\ OneWorksOn(TaskOf(c))
  BY CallKnown DEF CallWorks, ContractsInv, OneWorks
<1>2. /\ contractCalls[c] \in CallValues
      /\ contractCalls[c].ref \in VersionRefs /\ contractCalls[c].ref[1] = TaskOf(c)
      /\ contractCalls[c].key \in PackageKeys
      /\ MayRun(contractCalls[c].key, contractCalls[c].ref)
  BY CallKnown DEF CallFits, Working, TaskOf
<1>3. \A s : CallWorks(c, s) => s = TaskOf(c)
  BY DEF CallWorks
<1> QED BY <1>1, <1>2, <1>3 DEF OneWorksOn

LEMMA CommitRunningKeeps ==
  ASSUME ContractsInv, NEW c \in ContractCalls, CommitRunning(c)
  PROVE  ContractsInv'
<1> DEFINE t == TaskOf(c)
           old == contractCalls[c]
           call == [old EXCEPT !.at = "launch", !.revision = @ + 1]
<1>1. /\ old.at = "run"
      /\ TaskBecomes(t, "RUNNING") /\ contractCursor' = contractCursor + 1
      /\ contractCalls' = [contractCalls EXCEPT ![c] = call]
      /\ UNCHANGED <<versionRecords, packages, recordVars>>
  BY DEF CommitRunning, CallAt, Commits, CallHolds
<1>2. /\ t \in ContractTasks /\ taskRecords[t].status = "QUEUED" /\ old \in CallValues
      /\ old.ref \in VersionRefs /\ old.ref[1] = t /\ old.key \in PackageKeys
      /\ MayRun(old.key, old.ref)
      /\ \A d \in ContractCalls : CallWorks(d, t) => d = c
      /\ \A k \in PackageKeys : ~RunWorks(k, t)
      /\ \A s : CallWorks(c, s) => s = t
  BY <1>1, CallWorksAlone
<1>3. /\ call \in CallValues /\ call.at = "launch" /\ call.ref = old.ref /\ call.key = old.key
  <2>1. old.revision \in Nat
    BY <1>2 DEF CallValues
  <2>2. "launch" \in CallPlaces /\ old.revision + 1 \in Nat
    BY <2>1 DEF CallPlaces, Working
  <2> HIDE DEF old
  <2> QED BY <1>2, <2>2, CallGoesOn
<1> HIDE DEF t, call, old
<1>4. "RUNNING" \in TaskRecordStatuses \ {"none", "DRAFT"}
  BY DEF TaskRecordStatuses
<1>5. PICK x \in CallValues : x = call
  BY <1>3
<1> QED BY <1>1, <1>2, <1>3, <1>4, <1>5, TaskMovedByCall

LEMMA LaunchFailsKeeps ==
  ASSUME ContractsInv, NEW c \in ContractCalls, LaunchFails(c)
  PROVE  ContractsInv'
<1> DEFINE t == TaskOf(c)
<1>1. /\ contractCalls[c].at = "launch"
      /\ TaskBecomes(t, "FAILED") /\ contractCursor' = contractCursor + 1
      /\ contractCalls' = [contractCalls EXCEPT ![c] = IdleCall]
      /\ UNCHANGED <<versionRecords, packages, recordVars>>
  BY DEF LaunchFails, CallAt, Commits, CallEnds, CallHolds
<1>2. /\ t \in ContractTasks /\ taskRecords[t].status = "RUNNING"
      /\ \A d \in ContractCalls : CallWorks(d, t) => d = c
      /\ \A k \in PackageKeys : ~RunWorks(k, t)
      /\ \A s : CallWorks(c, s) => s = t
  BY <1>1, CallWorksAlone
<1> HIDE DEF t
<1>3. "FAILED" \in TaskRecordStatuses \ {"none", "DRAFT"}
  BY DEF TaskRecordStatuses
<1> QED BY <1>1, <1>2, <1>3, IdleFits, TaskMovedByCall

LEMMA RequeueTaskKeeps ==
  ASSUME ContractsInv, NEW c \in ContractCalls, RequeueTask(c)
  PROVE  ContractsInv'
<1> DEFINE t == TaskOf(c)
           old == contractCalls[c]
           call == [old EXCEPT !.at = "run", !.revision = taskRecords[t].revision + 1]
<1>1. old.at = "requeue" /\ UNCHANGED <<versionRecords, packages, recordVars>>
  BY DEF RequeueTask, CallAt
<1>2. CASE taskRecords[t].status # "FAILED"
  <2>1. /\ contractCalls' = [contractCalls EXCEPT ![c] = IdleCall]
        /\ UNCHANGED <<taskRecords, contractCursor>>
    BY <1>2 DEF RequeueTask, CallEnds, CallHolds
  <2> QED BY <1>1, <2>1, IdleFits, CallTurns
<1>3. CASE taskRecords[t].status = "FAILED"
  <2>1. /\ TaskBecomes(t, "QUEUED") /\ contractCursor' = contractCursor + 1
        /\ contractCalls' = [contractCalls EXCEPT ![c] = call]
    BY <1>3 DEF RequeueTask, CallHolds, Commits
  <2>2. /\ t \in ContractTasks /\ old \in CallValues
        /\ old.ref \in VersionRefs /\ old.ref[1] = t /\ old.key \in PackageKeys
        /\ MayRun(old.key, old.ref) /\ taskRecords[t].revision \in Nat
    BY <1>1, CallKnown DEF CallFits, TaskOf, Working, TaskValues
  <2>3. /\ call \in CallValues /\ call.at = "run" /\ call.ref = old.ref /\ call.key = old.key
    <3> DEFINE n == taskRecords[t].revision + 1
    <3>1. "run" \in CallPlaces /\ n \in Nat
      BY <2>2 DEF CallPlaces, Working
    <3>2. call = [old EXCEPT !.at = "run", !.revision = n]
      OBVIOUS
    <3> HIDE DEF old, t, n
    <3>3. old \in CallValues
      BY <2>2
    <3>4. \A o \in CallValues, m \in Nat :
            LET x == [o EXCEPT !.at = "run", !.revision = m]
            IN x \in CallValues /\ x.at = "run" /\ x.ref = o.ref /\ x.key = o.key
      BY <3>1, CallGoesOn
    <3> HIDE DEF call
    <3> QED BY <3>1, <3>2, <3>3, <3>4
  <2>4. \A s : ~CallWorks(c, s)
    BY <1>1 DEF CallWorks
  <2>5. /\ \A d \in ContractCalls : ~CallWorks(d, t)
        /\ \A k \in PackageKeys : ~RunWorks(k, t)
    BY <1>3, <2>2, NobodyWorks
  <2> HIDE DEF t, call, old
  <2>6. "QUEUED" \in TaskRecordStatuses \ {"none", "DRAFT"}
    BY DEF TaskRecordStatuses
  <2>7. PICK x \in CallValues : x = call
    BY <2>3
  <2> QED BY <1>1, <1>3, <2>1, <2>2, <2>3, <2>4, <2>5, <2>6, <2>7, TaskMovedByCall
<1> QED BY <1>2, <1>3

LEMMA LaunchKeeps ==
  ASSUME ContractsInv, NEW c \in ContractCalls, Launch(c)
  PROVE  ContractsInv'
<1> USE DEF ContractsInv
<1> DEFINE t == TaskOf(c)
           key == contractCalls[c].key
           ref == contractCalls[c].ref
           order == Cardinality(RunsLaunched(t)) + 1
           run == [status |-> "running", ref |-> ref, order |-> order]
<1>1. /\ contractCalls[c].at = "launch" /\ runRecords[key] = NoRun
      /\ runRecords' = [runRecords EXCEPT ![key] = run] /\ contractCursor' = contractCursor + 1
      /\ contractCalls' = [contractCalls EXCEPT ![c] = IdleCall]
      /\ UNCHANGED <<taskRecords, versionRecords, packages, relationRecords, handoffRecords,
                     resultRecords>>
  BY DEF Launch, CallAt, Commits, CallEnds, CallHolds
<1>2. /\ t \in ContractTasks /\ taskRecords[t].status = "RUNNING" /\ ref \in VersionRefs /\ ref[1] = t
      /\ key \in PackageKeys /\ MayRun(key, ref)
      /\ \A d \in ContractCalls : CallWorks(d, t) => d = c
      /\ \A k \in PackageKeys : ~RunWorks(k, t)
  BY <1>1, CallWorksAlone
<1>3. order \in Orders
  BY DEF Orders, RunsLaunched
<1> HIDE DEF order
<1>4. run \in RunValues /\ run.status = "running" /\ run.ref = ref /\ runRecords[key].status = "none"
  BY <1>1, <1>2, <1>3 DEF RunValues, RunRecordStatuses, NoRun
<1> HIDE DEF run, t, key, ref
<1>5. ContractsTyped'
  BY <1>1, <1>2, <1>4, IdleFits DEF ContractsTyped
<1>6. Moves
  <2>1. contractCursor \in Nat /\ contractCursor' > contractCursor
    BY <1>1 DEF ContractsTyped
  <2>2. \A k \in PackageKeys : runRecords[k].status \in {"succeeded", "failed"} =>
          runRecords'[k] = runRecords[k]
    BY <1>1, <1>2, <1>4 DEF ContractsTyped
  <2> QED BY <1>1, <2>1, <2>2 DEF Moves
<1>7. CallsFit'
  <2>1. CallFits(IdleCall)'
    BY IdleFits DEF CallFits, IdleCall, Working
  <2> QED BY <1>1, <1>5, <1>6, <2>1, IdleFits, OneCallMoves
<1>8. RunsFit'
  <2> SUFFICES ASSUME NEW k \in PackageKeys PROVE RunFits(k, runRecords[k])'
    BY DEF RunsFit
  <2>1. CASE k = key
    <3>1. PICK v \in VersionRefs : v = ref
      BY <1>2
    <3>2. MayRun(k, v)'
      BY <1>2, <1>5, <1>6, <2>1, <3>1, MovesKeep
    <3>3. runRecords'[k].status = "running" /\ runRecords'[k].ref = v
      BY <1>1, <1>2, <1>4, <2>1, <3>1 DEF ContractsTyped
    <3> QED BY <3>2, <3>3 DEF RunFits
  <2>2. CASE k # key
    <3>1. runRecords'[k] = runRecords[k]
      BY <1>1, <2>2 DEF ContractsTyped
    <3>2. CASE runRecords[k].status = "none"
      BY <3>1, <3>2 DEF RunsFit, RunFits
    <3>3. CASE runRecords[k].status # "none"
      <4>1. MayRun(k, runRecords[k].ref) /\ runRecords[k].ref \in VersionRefs
        BY <3>3 DEF RunsFit, RunFits, MayRun
      <4>2. MayRun(k, runRecords[k].ref)'
        BY <1>5, <1>6, <3>1, <4>1, MovesKeep
      <4> QED BY <3>1, <3>3, <4>2 DEF RunFits
    <3> QED BY <3>2, <3>3
  <2> QED BY <2>1, <2>2
<1>9. OneWorks'
  <2> SUFFICES ASSUME NEW s \in ContractTasks PROVE OneWorksOn(s)'
    BY DEF OneWorks
  <2>1. \A d \in ContractCalls : CallWorks(d, s)' =>
          CallWorks(d, s) /\ contractCalls'[d].at = contractCalls[d].at /\ d # c
    BY <1>1, IdleFits DEF CallWorks, TaskOf, ContractsTyped
  <2>2. \A k \in PackageKeys : RunWorks(k, s)' => RunWorks(k, s) \/ (s = t /\ k = key)
    BY <1>1, <1>2, <1>4 DEF RunWorks, ContractsTyped
  <2>3. CASE s = t
    BY <1>1, <1>2, <2>1, <2>2, <2>3 DEF OneWorksOn
  <2>4. CASE s # t
    BY <1>1, <2>1, <2>2, <2>4, WorkStays
  <2> QED BY <2>3, <2>4
<1> QED BY <1>1, <1>5, <1>6, <1>7, <1>8, <1>9, TheRestFits

(***************************************************************************)
(* The end of a run, and new versions.                                     *)
(***************************************************************************)
\* A run ends, with a result or without.
LEMMA RunOver ==
  ASSUME ContractsInv, NEW r \in PackageKeys, runRecords[r].status = "running",
         NEW outcome \in {"succeeded", "failed"},
         runRecords' = [runRecords EXCEPT ![r].status = outcome],
         resultRecords' \in [PackageKeys -> Nat],
         \A k \in PackageKeys \ {r} : resultRecords'[k] = resultRecords[k],
         NEW status \in {"REVIEW_REQUIRED", "FAILED"}, TaskBecomes(runRecords[r].ref[1], status),
         contractCursor' = contractCursor + 1,
         UNCHANGED <<versionRecords, packages, relationRecords, handoffRecords, contractCalls>>
  PROVE  ContractsInv'
<1> USE DEF ContractsInv
<1> DEFINE old == runRecords[r]
           run == [old EXCEPT !.status = outcome]
           t == old.ref[1]
<1>1. MayRun(r, old.ref) /\ old.ref \in VersionRefs /\ t \in ContractTasks /\ old \in RunValues
  BY DEF RunsFit, RunFits, MayRun, ContractsTyped, VersionRefs
<1>2. /\ run \in RunValues /\ run.status = outcome /\ run.ref = old.ref
      /\ runRecords' = [runRecords EXCEPT ![r] = run]
  BY <1>1 DEF RunValues, RunRecordStatuses, ContractsTyped
<1>3. /\ RunWorks(r, t) /\ taskRecords[t].status = "RUNNING"
      /\ \A k \in PackageKeys : RunWorks(k, t) => k = r
      /\ \A c \in ContractCalls : ~CallWorks(c, t)
  BY <1>1 DEF RunWorks, OneWorks, OneWorksOn
<1> HIDE DEF run, t, old
<1>4. /\ taskRecords' \in [ContractTasks -> TaskValues] /\ TasksFit' /\ VersionsFit'
      /\ \A s \in ContractTasks \ {t} : taskRecords'[s] = taskRecords[s]
      /\ \A s \in ContractTasks :
           taskRecords'[s] = taskRecords[s] \/ taskRecords'[s].revision > taskRecords[s].revision
  <2>1. status \in TaskRecordStatuses \ {"none", "DRAFT"} /\ TaskBecomes(t, status)
    BY DEF TaskRecordStatuses, t, old
  <2> QED BY <1>1, <1>3, <2>1, TaskMovesOn
<1>5. ContractsTyped'
  <2>1. runRecords' \in [PackageKeys -> RunValues]
    BY <1>2 DEF ContractsTyped
  <2>2. contractCursor' \in Nat
    BY DEF ContractsTyped
  <2> QED BY <1>4, <2>1, <2>2 DEF ContractsTyped
<1>6. Moves
  <2>1. contractCursor \in Nat /\ contractCursor' > contractCursor
    BY DEF ContractsTyped
  <2>2. \A k \in PackageKeys : runRecords[k].status \in {"succeeded", "failed"} =>
          runRecords'[k] = runRecords[k] /\ resultRecords'[k] = resultRecords[k]
    BY <1>2 DEF ContractsTyped
  <2> QED BY <1>4, <2>1, <2>2 DEF Moves
<1>7. RunsFit'
  <2> SUFFICES ASSUME NEW k \in PackageKeys PROVE RunFits(k, runRecords[k])'
    BY DEF RunsFit
  <2>0. runRecords'[k].ref = runRecords[k].ref
        /\ (k # r => runRecords'[k] = runRecords[k]) /\ (k = r => runRecords'[k].status = outcome)
    BY <1>2 DEF ContractsTyped, old
  <2>1. CASE runRecords[k].status = "none"
    BY <2>0, <2>1 DEF RunsFit, RunFits
  <2>2. CASE runRecords[k].status # "none"
    <3>1. PICK v \in VersionRefs : v = runRecords[k].ref
      BY <2>2 DEF RunsFit, RunFits, MayRun
    <3>2. MayRun(k, v)
      BY <2>2, <3>1 DEF RunsFit, RunFits
    <3>3. MayRun(k, v)'
      BY <1>5, <1>6, <3>2, MovesKeep
    <3>4. runRecords'[k].status # "none"
      BY <2>0, <2>2
    <3> QED BY <2>0, <3>1, <3>3, <3>4 DEF RunFits
  <2> QED BY <2>1, <2>2
<1>8. OneWorks'
  <2> SUFFICES ASSUME NEW s \in ContractTasks PROVE OneWorksOn(s)'
    BY DEF OneWorks
  <2>1. \A d \in ContractCalls : CallWorks(d, s)' <=> CallWorks(d, s)
    BY DEF CallWorks, TaskOf
  <2>2. \A k \in PackageKeys : RunWorks(k, s)' => RunWorks(k, s) /\ k # r
    BY <1>2 DEF RunWorks, ContractsTyped
  <2>3. CASE s = t
    BY <1>3, <2>1, <2>2, <2>3 DEF OneWorksOn
  <2>4. CASE s # t
    BY <1>4, <2>1, <2>2, <2>4, WorkStays
  <2> QED BY <2>3, <2>4
<1> QED BY <1>4, <1>5, <1>6, <1>7, <1>8, TheRestFits

LEMMA RunEndsKeeps ==
  ASSUME ContractsInv, NEW r \in PackageKeys,
         \/ RunFails(r)
         \/ \E status \in {"REVIEW_REQUIRED", "FAILED"} :
              /\ runRecords[r] # NoRun
              /\ \E commit \in {NoCommit, versionRecords[runRecords[r].ref].base + 1} :
                   RunSucceeds(r, commit, status)
  PROVE  ContractsInv'
<1>1. CASE RunFails(r)
  <2>1. resultRecords \in [PackageKeys -> Nat]
    BY DEF ContractsInv, ContractsTyped
  <2> QED BY <1>1, <2>1, RunOver DEF RunFails, Commits
<1>2. ASSUME NEW status \in {"REVIEW_REQUIRED", "FAILED"},
             NEW commit \in {NoCommit, versionRecords[runRecords[r].ref].base + 1},
             RunSucceeds(r, commit, status)
      PROVE  ContractsInv'
  <2>1. runRecords[r].status = "running" /\ resultRecords' = [resultRecords EXCEPT ![r] = commit]
    BY <1>2 DEF RunSucceeds
  <2>2. MayRun(r, runRecords[r].ref)
    BY <2>1 DEF ContractsInv, RunsFit, RunFits
  <2>3. versionRecords[runRecords[r].ref].base \in Nat
    BY <2>2 DEF MayRun, ContractsInv, ContractsTyped, ContractRecords
  <2>4. commit \in Nat
    BY <2>3 DEF NoCommit
  <2>5. resultRecords' \in [PackageKeys -> Nat]
        /\ \A k \in PackageKeys \ {r} : resultRecords'[k] = resultRecords[k]
    BY <2>1, <2>4 DEF ContractsInv, ContractsTyped
  <2> QED BY <1>2, <2>1, <2>5, RunOver DEF RunSucceeds, Commits
<1> QED BY <1>1, <1>2

\* The commits that write a version.
LEMMA VersionWritten ==
  ASSUME ContractsInv, NEW t \in ContractTasks, NEW n \in DOMAIN Contracts, NEW v \in VersionRefs,
         v = <<t, n>>, NEW version \in ContractRecords, version.ref = v,
         n = taskRecords[t].latest + 1, taskRecords[t].status \in {"none"} \cup StartsNewVersion,
         taskRecords' = [taskRecords EXCEPT ![t] =
           [status |-> "DRAFT", latest |-> n, revision |-> taskRecords[t].revision + 1]],
         versionRecords' = [versionRecords EXCEPT ![v] = version],
         contractCursor' = contractCursor + 1,
         UNCHANGED <<packages, recordVars>>
  PROVE  /\ \A x : contractCalls' = x /\ x \in [ContractCalls -> CallValues] => ContractsTyped'
         /\ Moves /\ TasksFit' /\ VersionsFit'
         /\ \A s \in ContractTasks \ {t} : taskRecords'[s] = taskRecords[s]
<1> USE DEF ContractsInv, recordVars
<1> DEFINE old == taskRecords[t]
           new == [status |-> "DRAFT", latest |-> n, revision |-> old.revision + 1]
<1>1. old \in TaskValues /\ old.latest \in Nat /\ old.revision \in Nat /\ TaskFits(t, old) /\ n \in Nat \ {0}
  BY ContractsAssumption DEF ContractsTyped, TasksFit, TaskValues
<1>2. new \in TaskValues /\ new.status = "DRAFT" /\ new.latest = n /\ new.revision = old.revision + 1
  BY <1>1 DEF TaskValues, TaskRecordStatuses
<1>3. taskRecords' = [taskRecords EXCEPT ![t] = new]
  OBVIOUS
<1> HIDE DEF new
<1>4. /\ taskRecords' \in [ContractTasks -> TaskValues] /\ taskRecords'[t] = new
      /\ \A s \in ContractTasks \ {t} : taskRecords'[s] = taskRecords[s]
      /\ versionRecords' \in [VersionRefs -> ContractRecords \cup {Nothing}]
      /\ versionRecords'[v] = version
      /\ \A w \in VersionRefs \ {v} : versionRecords'[w] = versionRecords[w]
      /\ contractCursor \in Nat
  BY <1>2, <1>3 DEF ContractsTyped
<1>5. versionRecords[v] = Nothing
  <2>1. VersionFits(v, versionRecords[v], old) /\ v[2] = n
    BY TaskKnown
  <2> QED BY <1>1, <2>1 DEF VersionFits
<1>6. ASSUME NEW x, contractCalls' = x, x \in [ContractCalls -> CallValues] PROVE ContractsTyped'
  BY <1>4, <1>6 DEF ContractsTyped
<1>7. Moves
  <2>1. contractCursor' > contractCursor /\ old.revision + 1 > old.revision
    BY <1>1, <1>4
  <2> QED BY <1>2, <1>4, <1>5, <2>1 DEF Moves
<1>8. TasksFit'
  <2> SUFFICES ASSUME NEW s \in ContractTasks PROVE TaskFits(s, taskRecords[s])'
    BY DEF TasksFit
  <2>1. CASE s = t
    BY <1>1, <1>2, <1>4, <2>1 DEF TaskFits
  <2>2. CASE s # t
    BY <1>4, <2>2 DEF TasksFit, TaskFits
  <2> QED BY <2>1, <2>2
<1>9. VersionsFit'
  <2> SUFFICES ASSUME NEW w \in VersionRefs PROVE VersionFits(w, versionRecords[w], taskRecords[w[1]])'
    BY DEF VersionsFit
  <2>1. /\ w[1] \in ContractTasks /\ w[2] \in Nat /\ w = <<w[1], w[2]>>
        /\ VersionFits(w, versionRecords[w], taskRecords[w[1]])
    BY TaskKnown
  <2>2. CASE w = v
    <3>1. w[1] = t /\ w[2] = n /\ versionRecords'[w] = version /\ taskRecords'[w[1]] = new
      BY <1>4, <2>2
    <3>2. version # Nothing /\ version.ref = w /\ n <= n
      BY <1>1, <2>2, NothingAssumption
    <3> QED BY <1>2, <3>1, <3>2 DEF VersionFits
  <2>3. CASE w # v /\ w[1] = t
    <3>1. w[2] # n /\ versionRecords'[w] = versionRecords[w] /\ taskRecords'[w[1]] = new
      BY <1>4, <2>1, <2>3
    <3>2. w[2] <= n <=> w[2] <= old.latest
      BY <1>1, <2>1, <3>1
    <3>3. versionRecords[w] # Nothing => WithinLimits(versionRecords[w])
      BY <1>1, <2>1, <2>3 DEF VersionFits, TaskFits, StartsNewVersion
    <3> QED BY <1>2, <2>1, <2>3, <3>1, <3>2, <3>3 DEF VersionFits, WithinLimits
  <2>4. CASE w[1] # t
    BY <1>4, <2>1, <2>4 DEF VersionFits, WithinLimits
  <2> QED BY <2>2, <2>3, <2>4
<1> QED BY <1>4, <1>6, <1>7, <1>8, <1>9

LEMMA CreateTaskKeeps ==
  ASSUME ContractsInv, NEW t \in ContractTasks, 1 \in DOMAIN Contracts, NEW contract \in Contracts[1],
         contract.ref[1] = t, CreateTask(t, contract)
  PROVE  ContractsInv'
<1> USE DEF ContractsInv
<1> DEFINE v == <<t, 1>>
<1>1. /\ contract \in ContractRecords /\ v \in VersionRefs /\ contract.ref = v
  <2>1. contract \in ContractRecords /\ contract.ref[2] = 1
    BY ContractsAssumption
  <2>2. contract.ref \in VersionRefs
    BY <2>1 DEF ContractRecords
  <2>3. \A w \in VersionRefs : w[2] = 1 /\ w[1] = t => w = v
    BY DEF VersionRefs
  <2> QED BY <2>1, <2>2, <2>3
<1>2. /\ taskRecords[t].status = "none" /\ taskRecords[t].latest = 0 /\ taskRecords[t].revision = 0
      /\ taskRecords' = [taskRecords EXCEPT ![t] = [status |-> "DRAFT", latest |-> 1, revision |-> 1]]
      /\ versionRecords' = [versionRecords EXCEPT ![v] = contract]
      /\ contractCursor' = contractCursor + 1
      /\ UNCHANGED <<packages, recordVars, contractCalls>>
  BY DEF CreateTask, NoTask, Commits
<1>3. /\ ContractsTyped' /\ Moves /\ TasksFit' /\ VersionsFit'
      /\ \A s \in ContractTasks \ {t} : taskRecords'[s] = taskRecords[s]
  <2>1. contractCalls' \in [ContractCalls -> CallValues]
    BY <1>2 DEF ContractsTyped
  <2>2. 1 = taskRecords[t].latest + 1 /\ 1 = taskRecords[t].revision + 1
    BY <1>2
  <2> QED BY <1>1, <1>2, <2>1, <2>2, VersionWritten
<1>4. OneWorks'
  <2> SUFFICES ASSUME NEW s \in ContractTasks PROVE OneWorksOn(s)'
    BY DEF OneWorks
  <2>1. \A d \in ContractCalls : CallWorks(d, s)' <=> CallWorks(d, s)
    BY <1>2 DEF CallWorks, TaskOf
  <2>2. \A k \in PackageKeys : RunWorks(k, s)' <=> RunWorks(k, s)
    BY <1>2 DEF RunWorks, recordVars
  <2>3. CASE s = t
    BY <1>2, <2>1, <2>2, <2>3, NobodyWorks DEF OneWorksOn
  <2>4. CASE s # t
    BY <1>2, <1>3, <2>1, <2>2, <2>4, WorkStays
  <2> QED BY <2>3, <2>4
<1> QED BY <1>2, <1>3, <1>4, TheRestFits DEF recordVars

LEMMA CommitVersionKeeps ==
  ASSUME ContractsInv, NEW c \in ContractCalls, CommitVersion(c)
  PROVE  ContractsInv'
<1> USE DEF ContractsInv
<1> DEFINE old == contractCalls[c]
           t == TaskOf(c)
           v == old.ref
           n == v[2]
<1>1. /\ old.at = "version" /\ old.revision = taskRecords[t].revision
      /\ contractCalls' = [contractCalls EXCEPT ![c] = IdleCall]
      /\ contractCursor' = contractCursor + 1 /\ UNCHANGED <<packages, recordVars>>
  BY DEF CommitVersion, CallAt, TaskAsRead, Commits, CallEnds, CallHolds
<1>2. /\ t \in ContractTasks /\ v \in VersionRefs /\ v = <<t, n>> /\ n \in DOMAIN Contracts
      /\ old.holds \in ContractRecords /\ old.holds.ref = v
      /\ n = taskRecords[t].latest + 1 /\ taskRecords[t].status \in StartsNewVersion
      /\ taskRecords[t] \in TaskValues
  BY <1>1, CallKnown DEF CallFits, TaskOf, VersionRefs
<1>3. /\ taskRecords' = [taskRecords EXCEPT ![t] =
           [status |-> "DRAFT", latest |-> n, revision |-> taskRecords[t].revision + 1]]
      /\ versionRecords' = [versionRecords EXCEPT ![v] = old.holds]
  BY <1>2 DEF CommitVersion, ContractsTyped
<1> HIDE DEF old, t, v, n
<1>4. /\ ContractsTyped' /\ Moves /\ TasksFit' /\ VersionsFit'
      /\ \A s \in ContractTasks \ {t} : taskRecords'[s] = taskRecords[s]
  <2>1. contractCalls' \in [ContractCalls -> CallValues]
    BY <1>1, IdleFits DEF ContractsTyped
  <2> QED BY <1>1, <1>2, <1>3, <2>1, VersionWritten
<1>5. CallsFit'
  <2>1. CallFits(IdleCall)'
    BY IdleFits DEF CallFits, IdleCall, Working
  <2> QED BY <1>1, <1>4, <2>1, IdleFits, OneCallMoves
<1>6. OneWorks'
  <2> SUFFICES ASSUME NEW s \in ContractTasks PROVE OneWorksOn(s)'
    BY DEF OneWorks
  <2>1. \A d \in ContractCalls : CallWorks(d, s)' =>
          CallWorks(d, s) /\ contractCalls'[d].at = contractCalls[d].at
    BY <1>1, IdleFits DEF CallWorks, TaskOf, ContractsTyped
  <2>2. \A k \in PackageKeys : RunWorks(k, s)' <=> RunWorks(k, s)
    BY <1>1 DEF RunWorks, recordVars
  <2>3. CASE s = t
    BY <1>2, <2>1, <2>2, <2>3, NobodyWorks DEF OneWorksOn, StartsNewVersion
  <2>4. CASE s # t
    BY <1>4, <2>1, <2>2, <2>4, WorkStays
  <2> QED BY <2>3, <2>4
<1> QED BY <1>1, <1>4, <1>5, <1>6, TheRestFits DEF recordVars

(***************************************************************************)
(* Every step, and the theorem.                                            *)
(***************************************************************************)
LEMMA ContractsInitFits == ContractsInit => ContractsInv
<1> SUFFICES ASSUME ContractsInit PROVE ContractsInv
  OBVIOUS
<1> USE DEF ContractsInit
<1>1. ContractsTyped
  <2>1. NoTask \in TaskValues
    BY DEF NoTask, TaskValues, TaskRecordStatuses
  <2>2. NoRun \in RunValues
    BY DEF NoRun, RunValues, RunRecordStatuses, Orders
  <2>3. NoCommit \in Nat
    BY DEF NoCommit
  <2> QED BY <2>1, <2>2, <2>3, IdleFits DEF ContractsTyped
<1>2. TasksFit
  BY DEF TasksFit, TaskFits, NoTask
<1>3. VersionsFit
  <2> SUFFICES ASSUME NEW v \in VersionRefs
               PROVE  VersionFits(v, versionRecords[v], taskRecords[v[1]])
    BY DEF VersionsFit
  <2>1. v[1] \in ContractTasks /\ v[2] \in Nat \ {0}
    BY ContractsAssumption DEF VersionRefs
  <2>2. versionRecords[v] = Nothing /\ taskRecords[v[1]] = NoTask /\ ~(v[2] <= NoTask.latest)
    BY <2>1 DEF NoTask
  <2> QED BY <2>2 DEF VersionFits
<1>4. RelationsFit /\ HandoffsFit /\ PackagesFit
  BY DEF RelationsFit, HandoffsFit, HandoffFits, PackagesFit
<1>5. RunsFit
  BY DEF RunsFit, RunFits, NoRun
<1>6. CallsFit
  BY IdleFits DEF CallsFit
<1>7. OneWorks
  BY DEF OneWorks, OneWorksOn, CallWorks, RunWorks, IdleCall, NoRun
<1> QED BY <1>1, <1>2, <1>3, <1>4, <1>5, <1>6, <1>7 DEF ContractsInv

LEMMA ContractsStutter ==
  ASSUME ContractsInv, UNCHANGED contractVars
  PROVE  ContractsInv'
<1> USE DEF ContractsInv, contractVars, recordVars
<1>1. ContractsTyped'
  BY DEF ContractsTyped
<1>2. Moves
  BY DEF Moves, ContractsTyped
<1>3. OneWorks'
  BY DEF OneWorks, OneWorksOn, CallWorks, RunWorks, TaskOf
<1> QED BY <1>1, <1>2, <1>3, TheRestFits

LEMMA ContractsStepKeeps ==
  ASSUME ContractsInv, [ContractsNext]_contractVars
  PROVE  ContractsInv'
<1>1. ASSUME NEW t \in ContractTasks, NEW n \in DOMAIN Contracts, NEW contract \in Contracts[n],
             \/ n = 1 /\ contract.ref[1] = t /\ CreateTask(t, contract)
             \/ n > 1 /\ \E c \in ContractCalls : CreateTaskVersion(c, t, contract)
      PROVE  ContractsInv'
  BY <1>1, CreateTaskKeeps, CreateTaskVersionKeeps
<1>2. ASSUME NEW ref \in VersionRefs, versionRecords[ref] # Nothing,
             NEW i \in DOMAIN versionRecords[ref].relations, LinkTaskVersions(ref, i)
      PROVE  ContractsInv'
  BY <1>2, LinkTaskVersionsKeeps
<1>3. ASSUME NEW ref \in VersionRefs, NEW c \in ContractCalls,
             ValidateTask(c, ref) \/ \E k \in PackageKeys : PrepareContext(c, k, ref) \/ StartTask(c, k, ref)
      PROVE  ContractsInv'
  BY <1>3, ValidateTaskKeeps, PrepareContextKeeps, StartTaskKeeps
<1>4. ASSUME NEW id \in HandoffIds, NEW run \in PackageKeys, NEW decidedBy \in {"bridge", "agent"},
             NEW content \in {"plain", "secret"}, GenerateHandoff(id, run, decidedBy, content)
      PROVE  ContractsInv'
  BY <1>4, GenerateHandoffKeeps
<1>5. ASSUME NEW c \in ContractCalls,
             \/ CommitVersion(c) \/ CommitValidation(c) \/ CommitContext(c)
             \/ CommitQueued(c) \/ CommitRunning(c) \/ Launch(c) \/ LaunchFails(c)
             \/ CommitRetryContext(c) \/ RequeueTask(c)
             \/ \E place \in {"version", "validate", "queue", "run"} : Conflicts(c, place)
             \/ \E k, run \in PackageKeys : RetryRun(c, k, run)
      PROVE  ContractsInv'
  BY <1>5, CommitVersionKeeps, CommitValidationKeeps, CommitContextKeeps, CommitQueuedKeeps,
     CommitRunningKeeps, LaunchKeeps, LaunchFailsKeeps, CommitRetryContextKeeps, RequeueTaskKeeps,
     ConflictsKeeps, RetryRunKeeps
<1>6. ASSUME NEW run \in PackageKeys,
             \/ RunFails(run)
             \/ \E status \in {"REVIEW_REQUIRED", "FAILED"} :
                  runRecords[run] # NoRun
                  /\ \E commit \in {NoCommit, versionRecords[runRecords[run].ref].base + 1} :
                       RunSucceeds(run, commit, status)
      PROVE  ContractsInv'
  BY <1>6, RunEndsKeeps
<1>7. CASE UNCHANGED contractVars
  BY <1>7, ContractsStutter
<1>8. CASE ContractsNext
  BY <1>1, <1>2, <1>3, <1>4, <1>5, <1>6, <1>8 DEF ContractsNext
<1> QED BY <1>7, <1>8

LEMMA InvariantIsFounded == ContractsInv => RunsAreFounded
<1> SUFFICES ASSUME ContractsInv PROVE PackagesAreSound /\ OnlyValidatedRuns
  BY DEF RunsAreFounded
<1> USE DEF ContractsInv
<1>1. PackagesAreSound
  BY DEF PackagesFit, PackageFits, PackagesAreSound
<1>2. ASSUME NEW k \in PackageKeys, runRecords[k] # NoRun
      PROVE  /\ WithinLimits(versionRecords[runRecords[k].ref])
             /\ packages[k].ref = runRecords[k].ref
  BY <1>2 DEF RunsFit, RunFits, MayRun
<1>3. ASSUME NEW t \in ContractTasks, taskRecords[t].status = "VALIDATED"
      PROVE  WithinLimits(versionRecords[<<t, taskRecords[t].latest>>])
  <2> DEFINE n == taskRecords[t].latest
             v == <<t, n>>
  <2>1. n \in DOMAIN Contracts /\ n \in Nat
    BY <1>3, ContractsAssumption DEF TasksFit, TaskFits
  <2>2. v \in VersionRefs /\ v[1] = t /\ v[2] = n
    BY <2>1 DEF VersionRefs
  <2>3. VersionFits(v, versionRecords[v], taskRecords[t])
    BY <2>2 DEF VersionsFit
  <2> QED BY <1>3, <2>1, <2>2, <2>3 DEF VersionFits
<1> QED BY <1>1, <1>2, <1>3 DEF OnlyValidatedRuns

\* What runs has been validated and was given nothing it may not have, in every state,
\* however many tasks, versions, runs and calls there are
\* (bridge-control-service.ts, context-handoff-runtime.ts, context-policy.ts).
THEOREM WhatRunsIsFounded == ContractsSpec => []RunsAreFounded
<1>1. ContractsInit => ContractsInv
  BY ContractsInitFits
<1>2. ContractsInv /\ [ContractsNext]_contractVars => ContractsInv'
  BY ContractsStepKeeps
<1>3. ContractsInv => RunsAreFounded
  BY InvariantIsFounded
<1> QED BY <1>1, <1>2, <1>3, PTL DEF ContractsSpec
=============================================================================
