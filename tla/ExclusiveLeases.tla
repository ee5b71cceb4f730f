---------------------------- MODULE ExclusiveLeases ----------------------------
(***************************************************************************)
(* What leases promise: at every moment a resource has at most one holder, *)
(* known until when, and only its holder or the clock ends a holding.      *)
(***************************************************************************)
EXTENDS Naturals

CONSTANTS Owners, Resources, NoLease

VARIABLES holder,   \* resource -> [owner, until] or NoLease
          now

Init == /\ holder = [x \in Resources |-> NoLease]
        /\ now = 0

\* An owner takes what is free, and keeps, prolongs or gives back what it has.
Acts(o) == /\ now' = now
           /\ \A x \in Resources : holder'[x] # holder[x] =>
                /\ holder[x] = NoLease \/ holder[x].owner = o
                /\ holder'[x] = NoLease \/ (holder'[x].owner = o /\ holder'[x].until > now)

\* Time goes on, and what has run out is free.
Passes == /\ now' > now
          /\ holder' = [x \in Resources |-> IF holder[x] # NoLease /\ holder[x].until <= now'
                                            THEN NoLease ELSE holder[x]]

Next == Passes \/ \E o \in Owners : Acts(o)

holdings == <<holder, now>>
Spec == Init /\ [][Next]_holdings
=============================================================================
