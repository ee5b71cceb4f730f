------------------------------ MODULE RunSessions ------------------------------
(***************************************************************************)
(* The sessions of a run, twice: as the runtime rolls them over, and as    *)
(* the policy of the core has it.  The two share no state and one promise. *)
(***************************************************************************)
EXTENDS Sessions, Rollover

\* One session of a run listens until the run has ended: handles reach it, and the
\* sessions before it form a chain, in the runtime and under the policy, whatever
\* rollovers overlap or fail (local-runtime.ts rollover, active-run-registry.ts
\* replaceBinding, session-binding.ts, rollover-policy.ts).
OneSessionListens == []HandlesReachTheirSession /\ SessionsFormChains /\ PolicyFormsChain
=============================================================================
