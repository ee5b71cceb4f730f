----------------------------- MODULE LeaseManager -----------------------------
(***************************************************************************)
(* Leases on named resources.  Two tables: the leases, and the resources   *)
(* with the lease each belongs to; every operation first prunes what has   *)
(* expired.  The in-memory manager keeps the tables in two maps, the       *)
(* SQLite manager in two tables, in one transaction per operation.         *)
(***************************************************************************)
EXTENDS Naturals, FiniteSets

CONSTANTS LeaseIds, Owners, Resources, NoLease,
          Ttls,       \* ttlMs of the requests
          MaxClock    \* bound: the clock

\* What stands for no lease is not one, neither in the tables nor to a client.
ASSUME LeaseAssumption ==
  /\ NoLease \notin LeaseIds
  /\ NoLease \notin [owner : Owners, resources : SUBSET Resources, expires : Nat]
  /\ NoLease \notin [owner : Owners, until : Nat]
  /\ Ttls \subseteq Nat

VARIABLES leases,   \* lease id -> [owner, resources, expires] or NoLease
          index,    \* resource -> lease id or NoLease
          clock

leaseVars == <<leases, index, clock>>

LeaseInit == /\ leases = [l \in LeaseIds |-> NoLease]
             /\ index = [x \in Resources |-> NoLease]
             /\ clock = 0

Tick == /\ clock < MaxClock
        /\ clock' = clock + 1
        /\ UNCHANGED <<leases, index>>

\* pruneExpired; the rows of a lease's resources go with it.
Alive(l) == leases[l] # NoLease /\ leases[l].expires > clock
Kept == [l \in LeaseIds |-> IF Alive(l) THEN leases[l] ELSE NoLease]
KeptIndex == [x \in Resources |-> IF index[x] # NoLease /\ Alive(index[x]) THEN index[x] ELSE NoLease]

Lease(o, R, ttl) == [owner |-> o, resources |-> R, expires |-> clock + ttl]

\* Mutant: a lease that does not exist yet may have what another one holds.
CanAcquireHeld(l, o, R) == Kept[l] # NoLease => Kept[l].owner = o /\ Kept[l].resources = R

\* acquire: repeating one's own request returns the lease as it is.
CanAcquire(l, o, R) == \/ Kept[l] = NoLease /\ \A x \in R : KeptIndex[x] = NoLease
                       \/ Kept[l] # NoLease /\ Kept[l].owner = o /\ Kept[l].resources = R

Acquire(l, o, R, ttl) ==
  /\ CanAcquire(l, o, R)
  /\ leases' = IF Kept[l] # NoLease THEN Kept ELSE [Kept EXCEPT ![l] = Lease(o, R, ttl)]
  /\ index' = [x \in Resources |-> IF x \in R THEN l ELSE KeptIndex[x]]
  /\ UNCHANGED clock

Holds(l, o) == Kept[l] # NoLease /\ Kept[l].owner = o

Renew(l, o, ttl) ==
  /\ Holds(l, o)
  /\ leases' = [Kept EXCEPT ![l].expires = clock + ttl]
  /\ index' = KeptIndex
  /\ UNCHANGED clock

\* release: nothing to do when the lease is gone; somebody else's is refused.
Release(l, o) ==
  /\ Holds(l, o)
  /\ leases' = [Kept EXCEPT ![l] = NoLease]
  /\ index' = [x \in Resources |-> IF KeptIndex[x] = l THEN NoLease ELSE KeptIndex[x]]
  /\ UNCHANGED clock

\* A refused request, getByResource and snapshot; a refusal rolls the pruning back.
Prune == /\ leases' = Kept /\ index' = KeptIndex
         /\ UNCHANGED clock

LeaseNext ==
  \/ Tick \/ Prune
  \/ \E l \in LeaseIds, o \in Owners :
       \/ \E R \in (SUBSET Resources) \ {{}}, ttl \in Ttls : Acquire(l, o, R, ttl)
       \/ \E ttl \in Ttls : Renew(l, o, ttl)
       \/ Release(l, o)

LeaseSpec == LeaseInit /\ [][LeaseNext]_leaseVars

-----------------------------------------------------------------------------
LeaseTypeOK ==
  /\ leases \in [LeaseIds -> [owner : Owners, resources : SUBSET Resources, expires : Nat]
                               \cup {NoLease}]
  /\ index \in [Resources -> LeaseIds \cup {NoLease}]
  /\ clock \in Nat

\* The two tables agree: a resource is listed under a lease exactly when the lease names
\* it, so that no two leases hold one resource (lease-manager.ts acquire, delete;
\* sqlite-lease-manager.ts acquire; the foreign key of runtime_lease_resources).
TablesAgree ==
  \A x \in Resources, l \in LeaseIds :
    index[x] = l <=> leases[l] # NoLease /\ x \in leases[l].resources

\* What a client sees of the leases: who holds a resource now, and until when.
Holder(x) == IF \E l \in LeaseIds : Alive(l) /\ x \in leases[l].resources
             THEN LET l == CHOOSE l \in LeaseIds : Alive(l) /\ x \in leases[l].resources
                  IN [owner |-> leases[l].owner, until |-> leases[l].expires]
             ELSE NoLease

Promise == INSTANCE ExclusiveLeases WITH holder <- [x \in Resources |-> Holder(x)], now <- clock

\* The managers keep the promise: nobody is given what another still holds, no holding
\* changes hands, and none outlives its expiry, although the tables are pruned only when
\* somebody calls (lease-manager.ts acquire, renew, pruneExpired; ExclusiveLeases).
LeasesAreExclusive ==   \* Promise!Spec; TLC is spared the mapping where nothing changes
  Promise!Init /\ [][UNCHANGED leaseVars \/ Promise!Next]_(Promise!holdings)
=============================================================================
