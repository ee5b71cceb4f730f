------------------------------- MODULE Worktrees -------------------------------
(***************************************************************************)
(* The worktree manager on top of the leases: runs of one task version     *)
(* ensure their worktree, concurrently and with every git command awaited, *)
(* work in it and release it.  The maps of owners are the process's and    *)
(* are lost with it; directories, the branch and SQLite's leases stay.     *)
(*                                                                         *)
(* A run is its own lease.  The task version has one branch, so a          *)
(* directory found at a path is a worktree of it.                          *)
(***************************************************************************)
EXTENDS LeaseManager

CONSTANTS Paths, TaskResource

ASSUME WorktreesAssumption == /\ Owners = LeaseIds
                              /\ Resources = Paths \cup {TaskResource}
                              /\ Paths # {} /\ NoLease \notin Paths

VARIABLES
  disk,      \* paths with a worktree
  branch,    \* the branch exists
  ownPath,   \* ownershipByPath: path -> run or NoLease
  ownBranch, \* ownershipByBranch: path of the branch or NoLease
  ens        \* run -> where its ensure is, and for which path

worktreeVars == <<leases, index, clock, disk, branch, ownPath, ownBranch, ens>>
gitVars == <<disk, branch>>
ownVars == <<ownPath, ownBranch>>

WorktreesInit ==
  /\ LeaseInit
  /\ disk = {} /\ branch = FALSE
  /\ ownPath = [p \in Paths |-> NoLease] /\ ownBranch = NoLease
  /\ ens = [r \in Owners |-> [pc |-> "idle", path |-> CHOOSE p \in Paths : TRUE]]

Ensuring(r, pc) == ens[r].pc = pc
EnsureGoes(r, pc) == ens' = [ens EXCEPT ![r].pc = pc]
Unleased == UNCHANGED leaseVars
\* Mutant: a run leases its path only.
NeedsPath(r) == {ens[r].path}

Needs(r) == {TaskResource, ens[r].path}
Owns(r) == /\ ownPath' = [ownPath EXCEPT ![ens[r].path] = r]
           /\ ownBranch' = ens[r].path
           /\ EnsureGoes(r, "owns")

\* ensure: a run's own path, or that of the run it retries.
Ensure(r, p) == /\ Ensuring(r, "idle")
                /\ ens' = [ens EXCEPT ![r] = [pc |-> IF p \in disk THEN "adopt" ELSE "create", path |-> p]]
                /\ Unleased /\ UNCHANGED <<gitVars, ownVars>>

\* create, up to its last look at the branch, and then at the path.
CheckBranch(r) == /\ Ensuring(r, "create")
                  /\ EnsureGoes(r, IF branch \/ ownBranch # NoLease THEN "idle" ELSE "checked")
                  /\ Unleased /\ UNCHANGED <<gitVars, ownVars>>

ClaimNew(r, ttl) ==
  LET p == ens[r].path
      free == p \notin disk /\ ownPath[p] = NoLease /\ CanAcquire(r, r, Needs(r))
  IN /\ Ensuring(r, "checked")
     /\ \/ /\ free
           /\ Acquire(r, r, Needs(r), ttl)
           /\ EnsureGoes(r, "add")
        \/ /\ ~free
           /\ EnsureGoes(r, "idle") /\ Unleased
     /\ UNCHANGED <<gitVars, ownVars>>

\* git worktree add -b: it refuses what exists, and may fail with the branch made.
GitAdds(r) == /\ Ensuring(r, "add")
              /\ \/ /\ ~branch /\ ens[r].path \notin disk
                    /\ branch' = TRUE /\ disk' = disk \cup {ens[r].path}
                    /\ EnsureGoes(r, "added")
                 \/ /\ EnsureGoes(r, "failed")
                    /\ branch' \in {branch, TRUE}
                    /\ UNCHANGED disk
              /\ Unleased /\ UNCHANGED ownVars

Created(r) == /\ Ensuring(r, "added") /\ Owns(r)
              /\ Unleased /\ UNCHANGED gitVars

GivesBack(r) == IF Holds(r, r) THEN Release(r, r) ELSE Prune
AddFailed(r) == /\ Ensuring(r, "failed")
                /\ GivesBack(r)
                /\ EnsureGoes(r, "idle") /\ UNCHANGED <<gitVars, ownVars>>

\* adopt: the owner is looked up, then git is asked, then the lease decides.
LookUpOwner(r) ==
  LET existing == ownPath[ens[r].path]
  IN /\ Ensuring(r, "adopt")
     /\ EnsureGoes(r, CASE existing = r       -> "owns"
                  [] existing = NoLease -> "inspect"
                  [] OTHER              -> "idle")
     /\ Unleased /\ UNCHANGED <<gitVars, ownVars>>

Adopt(r, ttl) ==
  /\ Ensuring(r, "inspect")
  /\ \/ /\ CanAcquire(r, r, Needs(r))
        /\ leases' = [Kept EXCEPT ![r] = Lease(r, Needs(r), ttl)]
        /\ index' = [x \in Resources |-> IF x \in Needs(r) THEN r ELSE KeptIndex[x]]
        /\ UNCHANGED clock
        /\ Owns(r)
     \/ /\ ~CanAcquire(r, r, Needs(r))
        /\ EnsureGoes(r, "idle") /\ Unleased /\ UNCHANGED ownVars
  /\ UNCHANGED gitVars

\* release; the lease may have expired meanwhile.
ReleaseWorktree(r) ==
  /\ Ensuring(r, "owns")
  /\ ownPath[ens[r].path] = r
  /\ GivesBack(r)
  /\ ownPath' = [ownPath EXCEPT ![ens[r].path] = NoLease]
  /\ ownBranch' = NoLease
  /\ EnsureGoes(r, "idle") /\ UNCHANGED gitVars

\* The Bridge restarts.
LosesOwners == /\ ownPath' = [p \in Paths |-> NoLease] /\ ownBranch' = NoLease
               /\ ens' = [r \in Owners |-> [ens[r] EXCEPT !.pc = "idle"]]
               /\ Unleased /\ UNCHANGED gitVars

WorktreesNext ==
  \/ \E r \in Owners :
       \/ \E p \in Paths : Ensure(r, p)
       \/ CheckBranch(r) \/ GitAdds(r) \/ Created(r) \/ AddFailed(r)
       \/ LookUpOwner(r) \/ ReleaseWorktree(r)
       \/ \E ttl \in Ttls : ClaimNew(r, ttl) \/ Adopt(r, ttl)
  \/ LosesOwners
  \/ Tick /\ UNCHANGED <<gitVars, ownVars, ens>>

WorktreesSpec == WorktreesInit /\ [][WorktreesNext]_worktreeVars

-----------------------------------------------------------------------------
WorktreesTypeOK ==
  /\ LeaseTypeOK
  /\ disk \subseteq Paths /\ branch \in BOOLEAN
  /\ ownPath \in [Paths -> Owners \cup {NoLease}] /\ ownBranch \in Paths \cup {NoLease}
  /\ \A r \in Owners : ens[r].pc \in {"idle", "adopt", "create", "checked", "add", "added",
                                      "failed", "inspect", "owns"}

\* Two runs never own worktrees of the task version while both their leases last, an
\* owner whose lease lasts holds the task and its path, and what is owned exists: the
\* checks before the awaits are not repeated after them, the leases are what decides
\* (git-worktree-manager.ts create, adopt).
WorktreeIsOwnedOnce ==
  /\ TablesAgree
  /\ \A p, q \in Paths :
       ownPath[p] # NoLease /\ ownPath[q] # NoLease /\ Alive(ownPath[p]) /\ Alive(ownPath[q])
         => ownPath[p] = ownPath[q]
  /\ \A p \in Paths : ownPath[p] # NoLease =>
       /\ p \in disk /\ branch
       /\ Alive(ownPath[p]) => index[p] = ownPath[p] /\ index[TaskResource] = ownPath[p]
  /\ ownBranch # NoLease => ownPath[ownBranch] # NoLease
=============================================================================
