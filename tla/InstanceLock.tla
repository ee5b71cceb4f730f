----------------------------- MODULE InstanceLock -----------------------------
(***************************************************************************)
(* The lock file that keeps a runtime root to one Bridge.  Every step is   *)
(* one call of the file system, and the steps of several processes may     *)
(* come in any order.  A process dies whenever it likes and leaves what it *)
(* wrote; its pid is not used again.                                       *)
(***************************************************************************)
EXTENDS Naturals

CONSTANTS Processes,     \* Bridge processes, each with its own pid and instance id
          LockAttempts,  \* 3
          StaleLock      \* whether a Bridge that is gone may have left its lock

ASSUME LockAssumption == /\ LockAttempts \in Nat \ {0} /\ StaleLock \in BOOLEAN
                         /\ Processes \cap {"nobody", "gone"} = {}

NoFile == [id |-> "none", of |-> "nobody", written |-> FALSE]
FileOf(p) == [id |-> "lock", of |-> p, written |-> TRUE]

VARIABLES
  file,   \* what is at lockPath
  lock    \* process -> where it is, and the record it read last

LockInit == /\ \/ file = NoFile
               \/ StaleLock /\ file = [id |-> "lock", of |-> "gone", written |-> TRUE]
            /\ lock = [p \in Processes |-> [pc |-> "off", attempt |-> 1, read |-> NoFile]]

At(p, pc) == lock[p].pc = pc
To(p, pc) == lock' = [lock EXCEPT ![p].pc = pc]
Exists(pid) == pid \in Processes /\ lock[pid].pc \notin {"off", "dead", "refused"}

Asks(p) == At(p, "off") /\ To(p, "open") /\ UNCHANGED file

\* open with "wx": creates the file, or EEXIST.
OpenExclusive(p) ==
  /\ At(p, "open")
  /\ \/ /\ file = NoFile
        /\ file' = [FileOf(p) EXCEPT !.written = FALSE]
        /\ To(p, "write")
     \/ /\ file # NoFile
        /\ To(p, "read")
        /\ UNCHANGED file

\* writeFile goes to the file that was opened, wherever it has been moved to.
WriteRecord(p) == /\ At(p, "write")
                  /\ file' = IF file.of = p THEN FileOf(p) ELSE file
                  /\ To(p, "held")

\* readLockRecord; a record that cannot be read is one that may be being written.
ReadRecord(p) ==
  /\ At(p, "read")
  /\ IF file # NoFile /\ file.written /\ ~Exists(file.of)
     THEN lock' = [lock EXCEPT ![p].pc = "rename", ![p].read = file]
     ELSE To(p, "refused")
  /\ UNCHANGED file

\* The stale lock is moved aside, and the attempt begins again.
RenameStale(p) ==
  /\ At(p, "rename")
  /\ file' = NoFile
  /\ lock' = [lock EXCEPT ![p].attempt = @ + 1,
                          ![p].pc = IF lock[p].attempt < LockAttempts THEN "open" ELSE "refused"]

\* release: unlink only what is one's own.
ReleaseLock(p) == /\ At(p, "held")
                  /\ file' = IF file = FileOf(p) THEN NoFile ELSE file
                  /\ To(p, "dead")
ProcessCrashes(p) == /\ lock[p].pc \notin {"off", "dead", "refused"}
                     /\ To(p, "dead") /\ UNCHANGED file

-----------------------------------------------------------------------------
LockTypeOK ==
  /\ file.of \in Processes \cup {"nobody", "gone"}
  /\ \A p \in Processes :
       /\ lock[p].pc \in {"off", "open", "write", "read", "rename", "held", "refused", "dead"}
       /\ lock[p].attempt \in 1..(LockAttempts + 1)
=============================================================================
