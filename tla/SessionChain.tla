----------------------------- MODULE SessionChain -----------------------------
(***************************************************************************)
(* What the sessions of a run promise: they form a chain, each one the      *)
(* successor of the one that listened before it; one of them listens, the   *)
(* last of the chain, until the run has ended, and then none ever again.    *)
(***************************************************************************)
CONSTANTS ChainRuns, ChainSessions, FirstOf, Nobody

VARIABLES
  listens,  \* run -> its session that listens, or Nobody
  links     \* the pairs <<session, successor>>

chainVars == <<listens, links>>

ChainInit == listens = [r \in ChainRuns |-> FirstOf[r]] /\ links = {}

Linked(s) == \E p \in links : s \in {p[1], p[2]}

Succeed(r, s) == /\ listens[r] # Nobody
                 /\ ~Linked(s) /\ \A q \in ChainRuns : FirstOf[q] # s
                 /\ listens' = [listens EXCEPT ![r] = s]
                 /\ links' = links \cup {<<listens[r], s>>}
EndChain(r) == /\ listens[r] # Nobody
               /\ listens' = [listens EXCEPT ![r] = Nobody]
               /\ UNCHANGED links

ChainNext == \E r \in ChainRuns : EndChain(r) \/ \E s \in ChainSessions : Succeed(r, s)
ChainSpec == ChainInit /\ [][ChainNext]_chainVars
=============================================================================
