---------------------------- MODULE ContextPolicy ----------------------------
(***************************************************************************)
(* The context policy and the handoff policy of the core: which handoffs a  *)
(* version of a task may be given, with which warnings, and what a context  *)
(* package may hold in which scenario.  A policy that throws is a predicate *)
(* that is false here.  Commits are numbered along the main branch: each    *)
(* contains those before it.                                                *)
(***************************************************************************)
EXTENDS Naturals, Sequences, FiniteSets

CONSTANT Nothing   \* what is absent

NoCommit == 0

\* CONTEXT_ASSEMBLY_SCENARIOS
Scenarios == {"NEW_TASK", "NEW_TASK_VERSION", "SAME_VERSION_REWORK", "ROLLOVER", "MANUAL_RETRY"}

\* scanSensitiveContent
Forbidden(content) == content = "secret"

(***************************************************************************)
(* generateHandoffPackage, selectExplicitHandoffs                          *)
(***************************************************************************)
\* The fields only people or the Bridge may vouch for; what it says is fit to pass on.
MayBeGenerated(handoff) == handoff.decidedBy # "agent" /\ ~Forbidden(handoff.content)

\* The relation the version declares under the id of a relation record.
SameRelation(version, relation) ==
  LET declared == SelectSeq(version.relations, LAMBDA r : r.id = relation.id)
  IN declared # <<>> /\ declared[1].type = relation.type /\ declared[1].target = relation.target

\* Whether the target's base contains the work handed over.
CommitContained(head, base) == head <= base

\* Mutant: what is handed over need not be in the base of the version.
CandidateHoldsAnyBase(version, candidate) ==
  LET handoff == candidate.handoff  relation == candidate.relation
  IN /\ SameRelation(version, relation)
     /\ relation.source = version.ref
     /\ relation.target = handoff.source
     /\ candidate.authority = [source |-> handoff.source, base |-> handoff.base, head |-> handoff.head]
     /\ ~Forbidden(handoff.content)

\* validateCandidate
CandidateHolds(version, candidate) ==
  LET handoff == candidate.handoff  relation == candidate.relation
  IN /\ SameRelation(version, relation)
     /\ relation.source = version.ref
     /\ relation.target = handoff.source
     /\ candidate.authority = [source |-> handoff.source, base |-> handoff.base, head |-> handoff.head]
     /\ ~Forbidden(handoff.content)
     /\ relation.type = "depends_on" => candidate.contained

SelectionHolds(version, candidates) ==
  /\ \A c \in candidates : CandidateHolds(version, c)
  /\ {c.handoff.id : c \in candidates} = version.selected
StaleWarnings(candidates) ==
  {[handoff |-> c.handoff.id, relation |-> c.relation.id] :
     c \in {d \in candidates : d.relation.type = "related_to" /\ ~d.contained}}

(***************************************************************************)
(* assembleContextPackage                                                  *)
(***************************************************************************)
\* What a scenario is given: the version, the baseline and the handoffs selected always,
\* and of the rest what it names.
AssemblyInput(scenario, version, run, session, selection) ==
  [scenario |-> scenario, version |-> version, run |-> run, session |-> session,
   baseline |-> version.baseline, selection |-> selection, warnings |-> StaleWarnings(selection),
   snapshot |-> Nothing, predecessor |-> Nothing, findings |-> {}, failure |-> Nothing]

NothingElse(input) == /\ input.snapshot = Nothing /\ input.predecessor = Nothing
                      /\ input.failure = Nothing /\ input.findings = {}
\* validateScenario
ScenarioFits(input) ==
  \/ input.scenario = "NEW_TASK" /\ input.version.ref[2] = 1 /\ NothingElse(input)
  \/ input.scenario = "NEW_TASK_VERSION" /\ input.version.ref[2] > 1 /\ NothingElse(input)
  \/ /\ input.scenario = "SAME_VERSION_REWORK" /\ input.findings # {}
     /\ input.snapshot = Nothing /\ input.failure = Nothing /\ input.predecessor = Nothing
  \/ /\ input.scenario = "ROLLOVER" /\ input.snapshot # Nothing /\ input.predecessor # Nothing
     /\ input.findings = {} /\ input.failure = Nothing
     /\ input.predecessor # input.session
  \/ /\ input.scenario = "MANUAL_RETRY" /\ input.failure # Nothing
     /\ input.snapshot = Nothing /\ input.predecessor = Nothing /\ input.findings = {}

\* validateBaseline
BaselineFits(input) == input.baseline = input.version.baseline
\* validateHandoffSelection
SelectionFits(input) ==
  LET version == input.version
  IN /\ {c.handoff.id : c \in input.selection} = version.selected
     /\ \A c \in input.selection : /\ SameRelation(version, c.relation)
                                   /\ c.relation.source = version.ref
                                   /\ c.relation.target = c.handoff.source
     /\ \A w \in input.warnings :
          \E c \in input.selection : /\ c.handoff.id = w.handoff /\ c.relation.id = w.relation
                                     /\ c.relation.type = "related_to"
\* readAndValidateSnapshot, validateScopedItem, validateFailureSummary
SnapshotFits(input) ==
  input.snapshot # Nothing =>
    input.snapshot = [ref |-> input.version.ref, run |-> input.run, session |-> input.predecessor]
FindingsFit(input) ==
  \A f \in input.findings : f = [ref |-> input.version.ref, run |-> input.run, session |-> input.session]
FailureFits(input) ==
  input.failure # Nothing => input.failure.ref = input.version.ref /\ input.failure.run # input.run
\* validateComponents
ComponentsFit(input) == ~Forbidden(input.version.content)
                        /\ \A c \in input.selection : ~Forbidden(c.handoff.content)

MayBeAssembled(input) ==
  /\ input.scenario \in Scenarios
  /\ ScenarioFits(input) /\ BaselineFits(input) /\ SelectionFits(input)
  /\ SnapshotFits(input) /\ FindingsFit(input) /\ FailureFits(input) /\ ComponentsFit(input)

Assembled(input) ==
  [scenario |-> input.scenario, ref |-> input.version.ref, run |-> input.run,
   session |-> input.session, baseline |-> input.baseline,
   handoffs |-> {c.handoff : c \in input.selection}, warnings |-> input.warnings,
   snapshot |-> input.snapshot, findings |-> input.findings, failure |-> input.failure]

(***************************************************************************)
(* selectAgentSession: when a run is given a session of its own.  Only the *)
(* rework of the same version continues one, and nothing asks for that.    *)
(***************************************************************************)
CreatesSession(reason, target, current, previous) ==
  /\ reason \in {"NEW_TASK", "NEW_TASK_VERSION", "MANUAL_RETRY"}
  /\ current = Nothing
  /\ reason = "MANUAL_RETRY" => previous # Nothing /\ previous # target.run
=============================================================================
