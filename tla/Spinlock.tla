-------------------------------- MODULE Spinlock --------------------------------
(***************************************************************************)
(* The test-and-test-and-set lock of src/spinlock/mod.rs, one action per   *)
(* atomic operation on its flag.  Whichever waiter's compare_exchange comes *)
(* first gets the lock; the weak one in lock() may also fail for no reason.*)
(***************************************************************************)

CONSTANTS
    Threads,
    Locks,     \* the Spinlock values of the program
    None,      \* no lock: the calling thread is in no call
    Nests,     \* <<k, l>> \in Nests: the program calls l.lock() holding k
    Leaks      \* whether the program calls mem::forget on guards

ASSUME NoneAssumption == None \notin Locks
ASSUME NestsAssumption == Nests \subseteq Locks \X Locks
ASSUME LeaksAssumption == Leaks \in BOOLEAN

VARIABLES
    locked,    \* Spinlock.locked
    pc,        \* where each thread is
    lk,        \* `self` of the call a thread is in
    guards,    \* the locks each thread has a guard of
    forgotten  \* the locks whose guard each thread has forgotten

vars == <<locked, pc, lk, guards, forgotten>>

Init ==
    /\ locked = [l \in Locks |-> FALSE]
    /\ pc = [t \in Threads |-> "idle"]
    /\ lk = [t \in Threads |-> None]
    /\ guards = [t \in Threads |-> {}]
    /\ forgotten = [t \in Threads |-> {}]

Goto(t, label) == pc' = [pc EXCEPT ![t] = label]

Leave(t) ==
    /\ Goto(t, "idle")
    /\ lk' = [lk EXCEPT ![t] = None]

(* The compare_exchange succeeds and its caller returns with a guard.      *)
Win(t) ==
    /\ ~locked[lk[t]]
    /\ locked' = [locked EXCEPT ![lk[t]] = TRUE]
    /\ guards' = [guards EXCEPT ![t] = @ \cup {lk[t]}]
    /\ Leave(t)

--------------------------------------------------------------------------------
(* Spinlock::lock.                                                         *)

LockBegin(t, l) ==
    /\ pc[t] = "idle"
    /\ \A k \in guards[t] : <<k, l>> \in Nests
    /\ Goto(t, "load")
    /\ lk' = [lk EXCEPT ![t] = l]
    /\ UNCHANGED <<locked, guards, forgotten>>

(* The relaxed load that ends the inner loop.                              *)
LoadFree(t) ==
    /\ pc[t] = "load"
    /\ ~locked[lk[t]]
    /\ Goto(t, "cas")
    /\ UNCHANGED <<locked, lk, guards, forgotten>>

(* Slip: the flag is set without comparing.                                *)
CasWins_Store(t) ==
    /\ pc[t] = "cas"
    /\ locked' = [locked EXCEPT ![lk[t]] = TRUE]
    /\ guards' = [guards EXCEPT ![t] = @ \cup {lk[t]}]
    /\ Leave(t)
    /\ UNCHANGED forgotten

CasWins(t) ==
    /\ pc[t] = "cas"
    /\ Win(t)
    /\ UNCHANGED forgotten

(* Another thread was first, or compare_exchange_weak failed spuriously.   *)
CasLoses(t) ==
    /\ pc[t] = "cas"
    /\ Goto(t, "load")
    /\ UNCHANGED <<locked, lk, guards, forgotten>>

--------------------------------------------------------------------------------
(* Spinlock::try_lock.                                                     *)

TryLockBegin(t, l) ==
    /\ pc[t] = "idle"
    /\ Goto(t, "trycas")
    /\ lk' = [lk EXCEPT ![t] = l]
    /\ UNCHANGED <<locked, guards, forgotten>>

(* Slip: a weak compare_exchange, which may fail on a free lock too.       *)
TryCas_Weak(t) ==
    /\ pc[t] = "trycas"
    /\ \/ Win(t)
       \/ Leave(t) /\ UNCHANGED <<locked, guards>>
    /\ UNCHANGED forgotten

(* The strong compare_exchange fails only on a lock that is held.          *)
TryCas(t) ==
    /\ pc[t] = "trycas"
    /\ \/ Win(t)
       \/ locked[lk[t]] /\ Leave(t) /\ UNCHANGED <<locked, guards>>
    /\ UNCHANGED forgotten

--------------------------------------------------------------------------------
(* The ends of guards and locks.                                           *)

(* Slip: the guard goes away without its store.                            *)
Drop_NoStore(t, l) ==
    /\ pc[t] = "idle"
    /\ l \in guards[t]
    /\ guards' = [guards EXCEPT ![t] = @ \ {l}]
    /\ UNCHANGED <<locked, pc, lk, forgotten>>

(* Drop for SpinlockGuard, in any order and also when a panic unwinds.     *)
Drop(t, l) ==
    /\ pc[t] = "idle"
    /\ l \in guards[t]
    /\ locked' = [locked EXCEPT ![l] = FALSE]
    /\ guards' = [guards EXCEPT ![t] = @ \ {l}]
    /\ UNCHANGED <<pc, lk, forgotten>>

(* mem::forget(guard): the lock stays held.                                *)
Forget(t, l) ==
    /\ Leaks
    /\ pc[t] = "idle"
    /\ l \in guards[t]
    /\ guards' = [guards EXCEPT ![t] = @ \ {l}]
    /\ forgotten' = [forgotten EXCEPT ![t] = @ \cup {l}]
    /\ UNCHANGED <<locked, pc, lk>>

(* into_inner, or a plain drop, and a `new` lock in the same place; no call *)
(* or guard borrows the old one.                                           *)
IntoInner(l) ==
    /\ \A t \in Threads : lk[t] # l /\ l \notin guards[t]
    /\ locked' = [locked EXCEPT ![l] = FALSE]
    /\ forgotten' = [t \in Threads |-> forgotten[t] \ {l}]
    /\ UNCHANGED <<pc, lk, guards>>

--------------------------------------------------------------------------------

Step(t) == LoadFree(t) \/ CasWins(t) \/ CasLoses(t) \/ TryCas(t)

Program(t) ==
    \E l \in Locks :
        LockBegin(t, l) \/ TryLockBegin(t, l) \/ Drop(t, l) \/ Forget(t, l)

Next ==
    \/ \E t \in Threads : Step(t) \/ Program(t)
    \/ \E l \in Locks : IntoInner(l)

Spec == Init /\ [][Next]_vars

(* A thread inside a call is runnable.  Of the threads that go on trying   *)
(* for a free lock some one's compare_exchange succeeds in the end: that is *)
(* all that LL/SC machines promise, and it favours no thread in particular.*)
FairSpec ==
    /\ Spec
    /\ \A t \in Threads : WF_vars(Step(t))
    /\ \A l \in Locks :
          SF_vars(\E t \in Threads : lk[t] = l /\ CasWins(t))

--------------------------------------------------------------------------------
(* Safety.                                                                 *)

TypeOK ==
    /\ locked \in [Locks -> BOOLEAN]
    /\ pc \in [Threads -> {"idle", "load", "cas", "trycas"}]
    /\ lk \in [Threads -> Locks \cup {None}]
    /\ guards \in [Threads -> SUBSET Locks]
    /\ forgotten \in [Threads -> SUBSET Locks]
    /\ \A t \in Threads : (pc[t] = "idle") <=> (lk[t] = None)

(* The threads that a lock counts as holding it.                           *)
HeldBy(l) == {t \in Threads : l \in guards[t] \/ l \in forgotten[t]}

(* One guard per lock at a time: what Deref, DerefMut and Sync rest on.    *)
MutualExclusion ==
    \A l \in Locks : \A t, u \in Threads :
        l \in guards[t] /\ l \in guards[u] => t = u

(* The flag is set exactly while a guard is out or was forgotten: no guard *)
(* is dropped without freeing the lock, and none is dropped twice.         *)
FlagSetIffHeld == \A l \in Locks : locked[l] <=> HeldBy(l) # {}

(* try_lock returns a guard if the lock was free, and none only if it was  *)
(* held.                                                                   *)
TryLockIsHonest ==
    [][\A t \in Threads :
          pc[t] = "trycas" /\ pc'[t] # "trycas" =>
              (lk[t] \in guards'[t] \ guards[t] <=> HeldBy(lk[t]) = {})]_vars

(* lock() on a lock the thread has a guard of never returns.               *)
RelockNeverReturns ==
    [][\A t \in Threads :
          pc[t] \in {"load", "cas"} /\ lk[t] \in guards[t] =>
              pc'[t] \in {"load", "cas"} /\ lk'[t] = lk[t]]_vars

(* The lock is an exclusive lock whose clients are the threads.            *)
Exclusive == INSTANCE ExclusiveLock WITH
                Clients <- Threads,
                holders <- [l \in Locks |-> HeldBy(l)]
ImplementsExclusiveLock == Exclusive!Spec

--------------------------------------------------------------------------------
(* Liveness.                                                               *)

(* A free lock that some lock() call wants is taken: the waiters may keep  *)
(* beating each other to it, but they do not all stay outside.             *)
FreeLockIsTaken ==
    \A l \in Locks :
        (HeldBy(l) = {} /\ \E t \in Threads : pc[t] \in {"load", "cas"} /\ lk[t] = l)
            ~> HeldBy(l) # {}

================================================================================
