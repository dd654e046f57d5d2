----------------------------- MODULE ExclusiveLock -----------------------------
(***************************************************************************)
(* What both lock types of the crate promise their callers: "the lock's    *)
(* entire job is to ensure only one &T exists at a time".  A client is     *)
(* whatever can stand behind a guard: a thread for Spinlock, a queue node  *)
(* for McsSpinlock.  holders[l] is the set of clients that the lock l      *)
(* currently counts as holding it; nothing is said about the order in      *)
(* which clients are admitted.                                             *)
(***************************************************************************)

CONSTANTS
    Locks,    \* the locks
    Clients   \* what can hold a lock

VARIABLE holders   \* [Locks -> SUBSET Clients]

Init == holders = [l \in Locks |-> {}]

(* lock() or try_lock() produces a guard: only while nobody holds one.     *)
Acquire(l, c) ==
    /\ holders[l] = {}
    /\ holders' = [holders EXCEPT ![l] = {c}]

(* The guard's Drop has given the lock up, or the lock was dismantled.     *)
Release(l, c) ==
    /\ c \in holders[l]
    /\ holders' = [holders EXCEPT ![l] = @ \ {c}]

Next == \E l \in Locks, c \in Clients : Acquire(l, c) \/ Release(l, c)

Spec == Init /\ [][Next]_holders

--------------------------------------------------------------------------------

(* At most one client holds each lock.                                     *)
Exclusion == \A l \in Locks : \A c, d \in holders[l] : c = d

TypeOK == holders \in [Locks -> SUBSET Clients]

================================================================================
