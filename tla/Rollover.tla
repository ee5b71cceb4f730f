------------------------------- MODULE Rollover -------------------------------
(***************************************************************************)
(* The rollover policy of the core: when a session must be rolled over,     *)
(* from its context usage, the configured ratios and the boundary it is at; *)
(* the plan of a rollover, which leaves the session ROLLOVER_PENDING and    *)
(* its successor CREATED; and its two ends.  Ratios and usage are in tenths *)
(* of the context.  A successor session is used once.                       *)
(***************************************************************************)
EXTENDS Naturals, FiniteSets

CONSTANTS PolicySessions,  \* how many sessions the run may have
          ContextTenths,   \* the usages of the context tried
          RatioConfigs     \* the ratios configured (task, project, driver), as sets

ASSUME RolloverAssumption == PolicySessions \in Nat \ {0}

VARIABLES
  policySessions,  \* session -> status of its binding
  predecessors,    \* session -> predecessor_session_id
  plan,            \* the session planned to follow, or 0
  providerErrors,  \* attempts after a provider's context error
  policyRun        \* "running" or "failed"

policyVars == <<policySessions, predecessors, plan, providerErrors, policyRun>>

PolicyIds == 1..PolicySessions
RolloverInit ==
  /\ policySessions = [s \in PolicyIds |-> IF s = 1 THEN "ACTIVE" ELSE "absent"]
  /\ predecessors = [s \in PolicyIds |-> 0]
  /\ plan = 0 /\ providerErrors = 0 /\ policyRun = "running"

\* transitionAgentSessionStatus
SessionTransitions ==
  {<<"CREATED", "ACTIVATE", "ACTIVE">>, <<"CREATED", "FAIL", "FAILED">>,
   <<"ACTIVE", "REQUEST_ROLLOVER", "ROLLOVER_PENDING">>, <<"ACTIVE", "CLOSE", "CLOSED">>,
   <<"ACTIVE", "FAIL", "FAILED">>, <<"ROLLOVER_PENDING", "SUPERSEDE", "SUPERSEDED">>,
   <<"ROLLOVER_PENDING", "FAIL", "FAILED">>}
Allows(status, event) == \E t \in SessionTransitions : t[1] = status /\ t[2] = event
After(status, event) == (CHOOSE t \in SessionTransitions : t[1] = status /\ t[2] = event)[3]
\* transitionAgentSessionBinding: no second ACTIVE one beside its peers.
CanTransit(status, event, peers) ==
  /\ Allows(status, event)
  /\ After(status, event) = "ACTIVE" => \A p \in peers : policySessions[p] # "ACTIVE"

(***************************************************************************)
(* evaluateSessionRollover, evaluateProviderContextErrorRollover           *)
(***************************************************************************)
DefaultRatio == 7
EffectiveRatio(ratios) == CHOOSE m \in ratios \cup {DefaultRatio} :
                            \A x \in ratios \cup {DefaultRatio} : m <= x
Boundaries == [atInput : BOOLEAN, tools : {0, 1}, permissions : {0, 1}, atomic : BOOLEAN]
UnsafeReasons(b) == {reason \in {"input", "tools", "permissions", "atomic"} :
                       \/ reason = "input" /\ ~b.atInput
                       \/ reason = "tools" /\ b.tools > 0
                       \/ reason = "permissions" /\ b.permissions > 0
                       \/ reason = "atomic" /\ b.atomic}
Evaluate(used, ratios, b) ==
  CASE used < EffectiveRatio(ratios) -> "NOT_REQUIRED"
    [] UnsafeReasons(b) # {} -> "WAIT_FOR_SAFE_BOUNDARY"
    [] OTHER -> "PLAN_ROLLOVER"
EvaluateProviderError(prior, b) ==
  CASE prior >= 1 -> "FAIL_RUN"
    [] UnsafeReasons(b) # {} -> "WAIT_FOR_SAFE_BOUNDARY"
    [] OTHER -> "PLAN_ROLLOVER"

(***************************************************************************)
(* createSessionRolloverPlan, completeSessionRollover, failSessionRollover *)
(***************************************************************************)
\* What a caller offers beside a decision: the successor's binding, its context package,
\* the snapshot the package embeds and the one it was written from.
Offers(current, s) ==
  [session : {s, current}, after : {current, 0}, status : {"CREATED", "ACTIVE"},
   snapshotOf : {current, s}, target : {s, current}, scenario : {"ROLLOVER", "RETRY"},
   embeds : {current, s}, secret : {"nowhere", "snapshot", "package"}, inOrder : BOOLEAN]
PlanInput(o, current) == o.session # current
SnapshotHolds(o, current) == o.snapshotOf = current /\ o.secret # "snapshot"
SuccessorHolds(o, current) ==
  /\ o.status = "CREATED" /\ o.after = current
  /\ policySessions[o.session] = "absent"
  /\ o.target = o.session /\ o.scenario = "ROLLOVER"
  /\ o.secret # "package" /\ o.embeds = o.snapshotOf
TimesInOrder(o) == o.inOrder

PlanFor(decision, current, s) ==
  /\ plan = 0 /\ policyRun = "running"
  /\ decision = "PLAN_ROLLOVER"
  /\ policySessions[current] = "ACTIVE"
  /\ CanTransit("ACTIVE", "REQUEST_ROLLOVER", PolicyIds \ {current})
  /\ \E o \in Offers(current, s) :
       /\ PlanInput(o, current) /\ SnapshotHolds(o, current)
       /\ SuccessorHolds(o, current) /\ TimesInOrder(o)
       /\ policySessions' = [policySessions EXCEPT ![current] = After("ACTIVE", "REQUEST_ROLLOVER"),
                                                   ![o.session] = o.status]
       /\ predecessors' = [predecessors EXCEPT ![o.session] = o.after]
       /\ plan' = o.session

PlanAtThreshold(current, s) ==
  \E used \in ContextTenths, ratios \in RatioConfigs, b \in Boundaries :
    /\ PlanFor(Evaluate(used, ratios, b), current, s)
    /\ UNCHANGED <<providerErrors, policyRun>>
PlanAfterProviderError(current, s) ==
  \E b \in Boundaries : /\ PlanFor(EvaluateProviderError(providerErrors, b), current, s)
                        /\ providerErrors' = providerErrors + 1
                        /\ UNCHANGED policyRun
FailAfterProviderError(s) ==
  /\ plan = 0 /\ policySessions[s] = "ACTIVE" /\ policyRun = "running"
  /\ \E b \in Boundaries : EvaluateProviderError(providerErrors, b) = "FAIL_RUN"
  /\ policySessions' = [policySessions EXCEPT ![s] = After("ACTIVE", "FAIL")]
  /\ policyRun' = "failed"
  /\ UNCHANGED <<predecessors, plan, providerErrors>>

\* The bindings beside the two of the plan.
Peers == PolicyIds \ {plan, predecessors[plan]}
CompleteRollover ==
  /\ plan # 0
  /\ CanTransit("CREATED", "ACTIVATE", Peers \cup {predecessors[plan]})
  /\ CanTransit("ROLLOVER_PENDING", "SUPERSEDE", Peers \cup {plan})
  /\ policySessions' = [policySessions EXCEPT ![plan] = "ACTIVE", ![predecessors[plan]] = "SUPERSEDED"]
  /\ plan' = 0
  /\ UNCHANGED <<predecessors, providerErrors, policyRun>>
FailRollover ==
  /\ plan # 0
  /\ CanTransit("ROLLOVER_PENDING", "FAIL", Peers) /\ CanTransit("CREATED", "FAIL", Peers)
  /\ policySessions' = [policySessions EXCEPT ![plan] = "FAILED", ![predecessors[plan]] = "FAILED"]
  /\ plan' = 0
  /\ policyRun' = "failed"
  /\ UNCHANGED <<predecessors, providerErrors>>

RolloverNext ==
  \/ \E current, s \in PolicyIds : PlanAtThreshold(current, s) \/ PlanAfterProviderError(current, s)
  \/ \E s \in PolicyIds : FailAfterProviderError(s)
  \/ CompleteRollover \/ FailRollover

RolloverSpec == RolloverInit /\ [][RolloverNext]_policyVars

-----------------------------------------------------------------------------
RolloverTypeOK ==
  /\ \A s \in PolicyIds : policySessions[s] \in {"absent", "CREATED", "ACTIVE", "ROLLOVER_PENDING",
                                                 "SUPERSEDED", "CLOSED", "FAILED"}
  /\ plan \in PolicyIds \cup {0} /\ providerErrors \in 0..1

\* Planned, completed or failed, the rollovers of a run make a chain of its sessions:
\* the session that is planned away still stands for the run until its successor does,
\* and a rollover that fails leaves none (rollover-policy.ts).
Standing == {s \in PolicyIds : policySessions[s] \in {"ACTIVE", "ROLLOVER_PENDING"}}
Stands == CASE Standing = {} -> 0
            [] Cardinality(Standing) = 1 -> CHOOSE s \in Standing : TRUE
            [] OTHER -> PolicySessions + 1
PolicyLinks == {<<predecessors[s], s>> :
                  s \in {t \in PolicyIds : predecessors[t] # 0
                                           /\ policySessions[predecessors[t]] = "SUPERSEDED"}}
PolicyChain == INSTANCE SessionChain
  WITH ChainRuns <- {1}, ChainSessions <- PolicyIds, FirstOf <- <<1>>, Nobody <- 0,
       listens <- <<Stands>>, links <- PolicyLinks
PolicyFormsChain ==   \* PolicyChain!ChainSpec; TLC is spared the mapping where nothing changes
  PolicyChain!ChainInit /\ [][UNCHANGED policyVars \/ PolicyChain!ChainNext]_(PolicyChain!chainVars)
=============================================================================
