----------------------------- MODULE ShadowLock -----------------------------
(***************************************************************************)
(* The advisory lock that makes one process own .squeezy/checkpoints/:     *)
(* acquire_shadow_lock opens (or creates) the lock file by name and locks  *)
(* the inode it got; dropping a CheckpointStore closes that handle first   *)
(* and then removes the file by name.  An inode is a number; the system    *)
(* drops a dead process's lock.                                            *)
(***************************************************************************)
EXTENDS Naturals

CONSTANTS Process,   \* squeezy processes opened on one workspace
          MaxInodes  \* bound: lock files created

VARIABLES pc,      \* where each process is
          handle,  \* handle[p]: the inode p has open, 0 if none
          entry,   \* the inode the name `lock` leads to, 0 if there is none
          created  \* the lock files created so far

vars == <<pc, handle, entry, created>>

Init ==
    /\ pc = [p \in Process |-> "out"]
    /\ handle = [p \in Process |-> 0]
    /\ entry = 0
    /\ created = 0

\* OpenOptions::create(true).open(lock_path)
OpenFile(p) ==
    /\ pc[p] = "out"
    /\ \/ entry # 0 /\ UNCHANGED <<entry, created>>
       \/ entry = 0 /\ created < MaxInodes /\ created' = created + 1 /\ entry' = created'
    /\ handle' = [handle EXCEPT ![p] = entry']
    /\ pc' = [pc EXCEPT ![p] = "opened"]

Locked(i) == \E q \in Process : pc[q] = "held" /\ handle[q] = i

\* try_lock succeeds: the store is open.
TryLock(p) ==
    /\ pc[p] = "opened"
    /\ ~Locked(handle[p])
    /\ pc' = [pc EXCEPT ![p] = "held"]
    /\ UNCHANGED <<handle, entry, created>>

\* Drop, first half: the handle is closed and its lock released.
DropHandle(p) ==
    /\ pc[p] = "held"
    /\ pc' = [pc EXCEPT ![p] = "closed"]
    /\ handle' = [handle EXCEPT ![p] = 0]
    /\ UNCHANGED <<entry, created>>

\* Drop, second half: remove_file(lock_path), whatever the name leads to by now.
Unlink(p) ==
    /\ pc[p] = "closed"
    /\ pc' = [pc EXCEPT ![p] = "out"]
    /\ entry' = 0
    /\ UNCHANGED <<handle, created>>

\* try_lock fails and open_with_options returns the error, or the process dies.
Leave(p) ==
    /\ pc[p] # "out"
    /\ pc' = [pc EXCEPT ![p] = "out"]
    /\ handle' = [handle EXCEPT ![p] = 0]
    /\ UNCHANGED <<entry, created>>

Next == \E p \in Process :
            OpenFile(p) \/ TryLock(p) \/ DropHandle(p) \/ Unlink(p) \/ Leave(p)

Spec == Init /\ [][Next]_vars

\* Two processes never own the shadow repository together (comment in
\* CheckpointStore::open_with_options: they "must not race").
OneOwner ==
    \A p, q \in Process : p # q => ~(pc[p] = "held" /\ pc[q] = "held")

=============================================================================
