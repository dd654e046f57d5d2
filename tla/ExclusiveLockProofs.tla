-------------------------- MODULE ExclusiveLockProofs --------------------------
(***************************************************************************)
(* Spinlock and FifoLock implement ExclusiveLock.                          *)
(*                                                                         *)
(* First Spinlock, for every set of threads and locks, every nesting of    *)
(* guards and with guards forgotten at will.  MutualExclusion alone is not *)
(* inductive: that a successful compare_exchange finds no guard out needs  *)
(* the flag to say so (FlagSetIffHeld), and that a Drop's store frees a    *)
(* lock nobody else counts as held needs guards and forgotten guards to    *)
(* exclude each other                                                      *)
(* (OneHolder), also within one thread.                                    *)
(*                                                                         *)
(* Then FifoLock, for every set of tickets: that a grant is of a lock      *)
(* nobody holds follows from who holds it being first in line.             *)
(***************************************************************************)
EXTENDS Spinlock, Sequences, TLAPS

OneHolder ==
    \A l \in Locks :
        /\ \A t, u \in HeldBy(l) : t = u
        /\ \A t \in Threads : ~(l \in guards[t] /\ l \in forgotten[t])

IInv == TypeOK /\ FlagSetIffHeld /\ OneHolder

LEMMA TypeCorrect ==
    TypeOK /\ [Next]_vars => TypeOK'
<1> SUFFICES ASSUME TypeOK, [Next]_vars PROVE TypeOK'
  OBVIOUS
<1> USE NoneAssumption
<1>1. ASSUME NEW t \in Threads, Step(t) PROVE TypeOK'
  <2>1. CASE LoadFree(t)  BY <2>1 DEF TypeOK, LoadFree, Goto
  <2>2. CASE CasWins(t)   BY <2>2 DEF TypeOK, CasWins, Win, Leave, Goto
  <2>3. CASE CasLoses(t)  BY <2>3 DEF TypeOK, CasLoses, Goto
  <2>4. CASE TryCas(t)
    <3>1. CASE Win(t)   BY <2>4, <3>1 DEF TypeOK, TryCas, Win, Leave, Goto
    <3>2. CASE ~Win(t)  BY <2>4, <3>2 DEF TypeOK, TryCas, Leave, Goto
    <3> QED BY <3>1, <3>2
  <2> QED BY <1>1, <2>1, <2>2, <2>3, <2>4 DEF Step
<1>2. ASSUME NEW t \in Threads, NEW l \in Locks,
             LockBegin(t, l) \/ TryLockBegin(t, l) \/ Drop(t, l) \/ Forget(t, l)
      PROVE  TypeOK'
  <2>1. CASE LockBegin(t, l)     BY <2>1 DEF TypeOK, LockBegin, Goto
  <2>2. CASE TryLockBegin(t, l)  BY <2>2 DEF TypeOK, TryLockBegin, Goto
  <2>3. CASE Drop(t, l)          BY <2>3 DEF TypeOK, Drop
  <2>4. CASE Forget(t, l)        BY <2>4 DEF TypeOK, Forget
  <2> QED BY <1>2, <2>1, <2>2, <2>3, <2>4
<1>3. ASSUME NEW l \in Locks, IntoInner(l) PROVE TypeOK'
  BY <1>3 DEF TypeOK, IntoInner
<1>4. CASE UNCHANGED vars
  BY <1>4 DEF TypeOK, vars
<1> QED BY <1>1, <1>2, <1>3, <1>4 DEF Next, Program

(* Every step keeps the flag in step with the holders, and them unique.    *)
LEMMA HoldersCorrect ==
    IInv /\ [Next]_vars => (FlagSetIffHeld /\ OneHolder)'
<1> SUFFICES ASSUME IInv, [Next]_vars PROVE (FlagSetIffHeld /\ OneHolder)'
  OBVIOUS
<1> DEFINE Inner == FlagSetIffHeld /\ OneHolder
<1> USE NoneAssumption DEF IInv
<1>1. ASSUME NEW t \in Threads, Win(t), UNCHANGED forgotten, lk[t] \in Locks
      PROVE  Inner'
  BY <1>1 DEF TypeOK, FlagSetIffHeld, OneHolder, HeldBy, Win, Leave, Goto
<1>2. ASSUME UNCHANGED <<locked, guards, forgotten>> PROVE Inner'
  BY <1>2 DEF FlagSetIffHeld, OneHolder, HeldBy
<1>3. ASSUME NEW t \in Threads, Step(t) PROVE Inner'
  <2>1. CASE LoadFree(t)  BY <1>2, <2>1 DEF LoadFree
  <2>2. CASE CasWins(t)
    <3>1. lk[t] \in Locks  BY <2>2 DEF TypeOK, CasWins
    <3> QED BY <1>1, <2>2, <3>1 DEF CasWins
  <2>3. CASE CasLoses(t)  BY <1>2, <2>3 DEF CasLoses
  <2>4. CASE TryCas(t)
    <3>1. lk[t] \in Locks  BY <2>4 DEF TypeOK, TryCas
    <3> QED BY <1>1, <1>2, <2>4, <3>1 DEF TryCas
  <2> QED BY <1>3, <2>1, <2>2, <2>3, <2>4 DEF Step
<1>4. ASSUME NEW t \in Threads, NEW l \in Locks,
             LockBegin(t, l) \/ TryLockBegin(t, l) \/ Drop(t, l) \/ Forget(t, l)
      PROVE  Inner'
  <2>1. CASE LockBegin(t, l)     BY <1>2, <2>1 DEF LockBegin
  <2>2. CASE TryLockBegin(t, l)  BY <1>2, <2>2 DEF TryLockBegin
  <2>3. CASE Drop(t, l)
    BY <2>3 DEF TypeOK, FlagSetIffHeld, OneHolder, HeldBy, Drop
  <2>4. CASE Forget(t, l)
    BY <2>4 DEF TypeOK, FlagSetIffHeld, OneHolder, HeldBy, Forget
  <2> QED BY <1>4, <2>1, <2>2, <2>3, <2>4
<1>5. ASSUME NEW l \in Locks, IntoInner(l) PROVE Inner'
  <2>1. forgotten' = [t \in Threads |-> forgotten[t] \ {l}] /\ UNCHANGED guards
    BY <1>5 DEF IntoInner
  <2>2. HeldBy(l)' = {} /\ locked'[l] = FALSE
    BY <1>5, <2>1 DEF TypeOK, HeldBy, IntoInner
  <2>3. \A k \in Locks \ {l} : HeldBy(k)' = HeldBy(k) /\ locked'[k] = locked[k]
    BY <1>5, <2>1 DEF TypeOK, HeldBy, IntoInner
  <2>4. FlagSetIffHeld'
    BY <2>2, <2>3 DEF FlagSetIffHeld
  <2>5. \A t \in Threads, k \in Locks : ~(k \in guards'[t] /\ k \in forgotten'[t])
    BY <2>1 DEF OneHolder
  <2> QED BY <2>2, <2>3, <2>4, <2>5 DEF OneHolder
<1>6. CASE UNCHANGED vars
  BY <1>2, <1>6 DEF vars
<1> QED BY <1>3, <1>4, <1>5, <1>6 DEF Next, Program

LEMMA InvariantHolds == Spec => []IInv
<1>1. Init => IInv
  BY NoneAssumption
  DEF Init, IInv, TypeOK, FlagSetIffHeld, OneHolder, HeldBy
<1>2. IInv /\ [Next]_vars => IInv'
  BY TypeCorrect, HoldersCorrect DEF IInv
<1> QED BY <1>1, <1>2, PTL DEF Spec

--------------------------------------------------------------------------------

(* The variables keep their types, and a thread has a lock in `self`       *)
(* exactly while it is in a call: Spinlock::lock and try_lock.             *)
THEOREM SpinlockTypeCorrect == Spec => []TypeOK
  BY InvariantHolds, PTL DEF IInv

(* No two threads have a guard of the same Spinlock.                       *)
THEOREM SpinlockMutualExclusion == Spec => []MutualExclusion
<1>1. IInv => MutualExclusion
  BY DEF IInv, OneHolder, HeldBy, MutualExclusion
<1> QED BY InvariantHolds, <1>1, PTL

(* The flag of a Spinlock is set exactly while it is held.                 *)
THEOREM SpinlockFlag == Spec => []FlagSetIffHeld
  BY InvariantHolds, PTL DEF IInv

--------------------------------------------------------------------------------

Holders == [l \in Locks |-> HeldBy(l)]

(* A winning compare_exchange is an Acquire.                               *)
LEMMA WinAcquires ==
    ASSUME IInv, NEW t \in Threads, NEW l \in Locks, lk[t] = l,
           Win(t), UNCHANGED forgotten
    PROVE  Exclusive!Next
<1>1. HeldBy(l) = {}
  BY DEF IInv, FlagSetIffHeld, Win
<1>2. \A u \in Threads, k \in Locks :
         k \in guards'[u] <=> k \in guards[u] \/ (u = t /\ k = l)
  BY DEF IInv, TypeOK, Win
<1>3. HeldBy(l)' = {t}
  BY <1>1, <1>2 DEF HeldBy
<1>4. \A k \in Locks \ {l} : HeldBy(k)' = HeldBy(k)
  BY <1>2 DEF HeldBy
<1>5. Exclusive!Acquire(l, t)
  BY <1>1, <1>3, <1>4 DEF Exclusive!Acquire
<1> QED BY <1>5 DEF Exclusive!Next

(* Steps that move no guard are invisible.                                 *)
LEMMA OtherStepsStutter ==
    UNCHANGED <<guards, forgotten>> => UNCHANGED Holders
  BY DEF Holders, HeldBy

LEMMA StepRefines ==
    IInv /\ [Next]_vars => [Exclusive!Next]_Holders
<1> SUFFICES ASSUME IInv, [Next]_vars PROVE Exclusive!Next \/ UNCHANGED Holders
  OBVIOUS
<1>1. ASSUME NEW t \in Threads, Step(t)
      PROVE  Exclusive!Next \/ UNCHANGED Holders
  <2>1. CASE LoadFree(t)  BY <2>1, OtherStepsStutter DEF LoadFree
  <2>2. CASE CasWins(t)
    <3>1. lk[t] \in Locks  BY <2>2 DEF IInv, TypeOK, CasWins
    <3> QED BY <2>2, <3>1, WinAcquires DEF CasWins
  <2>3. CASE CasLoses(t)  BY <2>3, OtherStepsStutter DEF CasLoses
  <2>4. CASE TryCas(t)
    <3>1. lk[t] \in Locks  BY <2>4 DEF IInv, TypeOK, TryCas
    <3> QED BY <2>4, <3>1, WinAcquires, OtherStepsStutter DEF TryCas
  <2> QED BY <1>1, <2>1, <2>2, <2>3, <2>4 DEF Step
<1>2. ASSUME NEW t \in Threads, NEW l \in Locks,
             LockBegin(t, l) \/ TryLockBegin(t, l) \/ Drop(t, l) \/ Forget(t, l)
      PROVE  Exclusive!Next \/ UNCHANGED Holders
  <2>1. CASE LockBegin(t, l)     BY <2>1, OtherStepsStutter DEF LockBegin
  <2>2. CASE TryLockBegin(t, l)  BY <2>2, OtherStepsStutter DEF TryLockBegin
  <2>3. CASE Drop(t, l)
    <3>1. t \in HeldBy(l) /\ HeldBy(l)' = HeldBy(l) \ {t}
      BY <2>3 DEF IInv, TypeOK, OneHolder, HeldBy, Drop
    <3>2. \A k \in Locks \ {l} : HeldBy(k)' = HeldBy(k)
      BY <2>3 DEF IInv, TypeOK, HeldBy, Drop
    <3>3. Exclusive!Release(l, t)
      BY <3>1, <3>2 DEF Exclusive!Release
    <3> QED BY <3>3 DEF Exclusive!Next
  <2>4. CASE Forget(t, l)
    <3>1. \A k \in Locks : HeldBy(k)' = HeldBy(k)
      BY <2>4 DEF IInv, TypeOK, HeldBy, Forget
    <3> QED BY <3>1 DEF Holders
  <2> QED BY <1>2, <2>1, <2>2, <2>3, <2>4
<1>3. ASSUME NEW l \in Locks, IntoInner(l)
      PROVE  Exclusive!Next \/ UNCHANGED Holders
  <2>1. HeldBy(l)' = {}
    BY <1>3 DEF IInv, TypeOK, HeldBy, IntoInner
  <2>2. \A k \in Locks \ {l} : HeldBy(k)' = HeldBy(k)
    BY <1>3 DEF IInv, TypeOK, HeldBy, IntoInner
  <2>3. CASE HeldBy(l) = {}
    BY <2>1, <2>2, <2>3 DEF Holders
  <2>4. ASSUME NEW t \in HeldBy(l) PROVE Exclusive!Next
    <3>1. HeldBy(l)' = HeldBy(l) \ {t} /\ t \in Threads
      BY <2>1 DEF IInv, OneHolder, HeldBy
    <3>2. Exclusive!Release(l, t)
      BY <2>2, <3>1 DEF Exclusive!Release
    <3> QED BY <3>1, <3>2 DEF Exclusive!Next
  <2> QED BY <2>3, <2>4
<1>4. CASE UNCHANGED vars
  BY <1>4, OtherStepsStutter DEF vars
<1> QED BY <1>1, <1>2, <1>3, <1>4 DEF Next, Program

(* Spinlock implements the exclusive lock: its steps are acquisitions of a *)
(* lock nobody holds, releases by the one that holds it, or invisible.     *)
THEOREM SpinlockIsExclusiveLock == Spec => ImplementsExclusiveLock
<1>1. Init => Exclusive!Init
  BY DEF Init, Exclusive!Init, HeldBy
<1>2. IInv /\ [Next]_vars => [Exclusive!Next]_[l \in Locks |-> HeldBy(l)]
  BY StepRefines DEF Holders
<1> QED
  BY <1>1, <1>2, InvariantHolds, PTL DEF Spec, Exclusive!Spec, ImplementsExclusiveLock

--------------------------------------------------------------------------------

(* try_lock gives a guard exactly when nobody holds the lock.              *)
THEOREM SpinlockTryLockIsHonest == Spec => TryLockIsHonest
<1> DEFINE Honest(t) ==
      pc[t] = "trycas" /\ pc'[t] # "trycas" =>
          (lk[t] \in guards'[t] \ guards[t] <=> HeldBy(lk[t]) = {})
<1>1. ASSUME IInv, [Next]_vars, NEW t \in Threads PROVE Honest(t)
  <2> SUFFICES ASSUME pc[t] = "trycas", pc'[t] # "trycas"
               PROVE  lk[t] \in guards'[t] \ guards[t] <=> HeldBy(lk[t]) = {}
    OBVIOUS
  <2>1. lk[t] \in Locks
    BY <1>1 DEF IInv, TypeOK
  <2>2. TryCas(t)
    BY <1>1 DEF IInv, TypeOK, Next, Step, Program, vars, LoadFree, CasWins,
                CasLoses, TryCas, Win, LockBegin, TryLockBegin, Drop, Forget,
                IntoInner, Leave, Goto
  <2>3. CASE Win(t)
    <3>1. ~locked[lk[t]] /\ lk[t] \in guards'[t]
      BY <1>1, <2>1, <2>3 DEF IInv, TypeOK, Win
    <3>2. HeldBy(lk[t]) = {}
      BY <1>1, <2>1, <3>1 DEF IInv, FlagSetIffHeld
    <3>3. lk[t] \notin guards[t]
      BY <3>2 DEF HeldBy
    <3> QED BY <3>1, <3>2, <3>3
  <2>4. CASE locked[lk[t]] /\ UNCHANGED guards
    BY <1>1, <2>1, <2>4 DEF IInv, FlagSetIffHeld
  <2> QED BY <2>2, <2>3, <2>4 DEF TryCas
<1>2. IInv /\ [Next]_vars => [\A t \in Threads : Honest(t)]_vars
  BY <1>1
<1> QED BY <1>2, InvariantHolds, PTL DEF Spec, TryLockIsHonest

(* lock() called with a guard of the same lock in hand never returns: the  *)
(* documented self-deadlock, whatever the other threads do.                *)
THEOREM SpinlockRelockNeverReturns == Spec => RelockNeverReturns
<1> DEFINE Stuck(t) ==
      pc[t] \in {"load", "cas"} /\ lk[t] \in guards[t] =>
          pc'[t] \in {"load", "cas"} /\ lk'[t] = lk[t]
<1>1. ASSUME IInv, [Next]_vars, NEW t \in Threads PROVE Stuck(t)
  <2> SUFFICES ASSUME pc[t] \in {"load", "cas"}, lk[t] \in guards[t]
               PROVE  pc'[t] \in {"load", "cas"} /\ lk'[t] = lk[t]
    OBVIOUS
  <2>1. lk[t] \in Locks
    BY <1>1 DEF IInv, TypeOK
  <2>2. locked[lk[t]]
    BY <1>1, <2>1 DEF IInv, FlagSetIffHeld, HeldBy
  <2> QED
    BY <1>1, <2>2 DEF IInv, TypeOK, Next, Step, Program, vars, LoadFree,
                      CasWins, CasLoses, TryCas, Win, LockBegin, TryLockBegin,
                      Drop, Forget, IntoInner, Leave, Goto
<1>2. IInv /\ [Next]_vars => [\A t \in Threads : Stuck(t)]_vars
  BY <1>1
<1> QED BY <1>2, InvariantHolds, PTL DEF Spec, RelockNeverReturns

--------------------------------------------------------------------------------
(* FifoLock, whatever its tickets are.                                     *)

CONSTANT Tickets
VARIABLES line, holders

Fifo == INSTANCE FifoLock

LEMMA AppendKeepsHead ==
    ASSUME NEW S, NEW s \in Seq(S), s # <<>>, NEW k \in S
    PROVE  Append(s, k) # <<>> /\ Head(Append(s, k)) = Head(s)
  OBVIOUS

LEMMA FifoInvariant == Fifo!Spec => [](Fifo!TypeOK /\ Fifo!HolderIsFirst)
<1>1. Fifo!Init => Fifo!TypeOK /\ Fifo!HolderIsFirst
  BY DEF Fifo!Init, Fifo!TypeOK, Fifo!HolderIsFirst
<1>2. ASSUME Fifo!TypeOK, Fifo!HolderIsFirst, [Fifo!Next]_(Fifo!vars)
      PROVE  Fifo!TypeOK' /\ Fifo!HolderIsFirst'
  <2>1. ASSUME NEW l \in Locks, NEW k \in Tickets, Fifo!Enqueue(l, k)
        PROVE  Fifo!TypeOK' /\ Fifo!HolderIsFirst'
    <3>1. line[l] \in Seq(Tickets) /\ line[l] # <<>>
      BY <1>2, <2>1 DEF Fifo!TypeOK, Fifo!Enqueue
    <3>2. line' = [line EXCEPT ![l] = Append(line[l], k)] /\ holders' = holders
      BY <2>1 DEF Fifo!Enqueue
    <3>3. Fifo!TypeOK'
      BY <1>2, <3>1, <3>2 DEF Fifo!TypeOK
    <3>4. \A j \in Locks : line'[j] = IF j = l THEN Append(line[l], k) ELSE line[j]
      BY <1>2, <3>2 DEF Fifo!TypeOK
    <3>5. Append(line[l], k) # <<>> /\ Head(Append(line[l], k)) = Head(line[l])
      BY <3>1, AppendKeepsHead
    <3>6. Fifo!HolderIsFirst'
      BY <1>2, <3>2, <3>4, <3>5 DEF Fifo!HolderIsFirst
    <3> QED BY <3>3, <3>6
  <2>2. ASSUME NEW l \in Locks, NEW k \in Tickets, Fifo!Enter(l, k)
        PROVE  Fifo!TypeOK' /\ Fifo!HolderIsFirst'
    <3>1. <<k>> \in Seq(Tickets) /\ <<k>> # <<>> /\ Head(<<k>>) = k
      OBVIOUS
    <3> QED BY <1>2, <2>2, <3>1 DEF Fifo!TypeOK, Fifo!HolderIsFirst, Fifo!Enter
  <2>3. ASSUME NEW l \in Locks, Fifo!Grant(l)
        PROVE  Fifo!TypeOK' /\ Fifo!HolderIsFirst'
    <3>1. Head(line[l]) \in Tickets
      BY <1>2, <2>3 DEF Fifo!TypeOK, Fifo!Grant
    <3> QED BY <1>2, <2>3, <3>1 DEF Fifo!TypeOK, Fifo!HolderIsFirst, Fifo!Grant
  <2>4. ASSUME NEW l \in Locks, Fifo!Release(l)
        PROVE  Fifo!TypeOK' /\ Fifo!HolderIsFirst'
    <3>1. Tail(line[l]) \in Seq(Tickets)
      BY <1>2, <2>4 DEF Fifo!TypeOK, Fifo!Release
    <3> QED BY <1>2, <2>4, <3>1 DEF Fifo!TypeOK, Fifo!HolderIsFirst, Fifo!Release
  <2>5. CASE UNCHANGED Fifo!vars
    BY <1>2, <2>5 DEF Fifo!TypeOK, Fifo!HolderIsFirst, Fifo!vars
  <2> QED BY <1>2, <2>1, <2>2, <2>3, <2>4, <2>5 DEF Fifo!Next
<1> QED BY <1>1, <1>2, PTL DEF Fifo!Spec

(* Only the request that has waited longest ever holds the lock.           *)
THEOREM FifoHolderIsFirst == Fifo!Spec => []Fifo!HolderIsFirst
  BY FifoInvariant, PTL

(* A FIFO lock excludes: granting needs that nobody holds the lock, and    *)
(* releasing it that the releaser does.                                    *)
THEOREM FifoLockIsExclusiveLock == Fifo!Spec => Fifo!Exclusive!Spec
<1>1. Fifo!Init => Fifo!Exclusive!Init
  BY DEF Fifo!Init, Fifo!Exclusive!Init
<1>2. ASSUME Fifo!TypeOK, Fifo!HolderIsFirst, [Fifo!Next]_(Fifo!vars)
      PROVE  [Fifo!Exclusive!Next]_holders
  <2>1. ASSUME NEW l \in Locks, NEW k \in Tickets, Fifo!Enter(l, k)
        PROVE  Fifo!Exclusive!Next
    BY <1>2, <2>1 DEF Fifo!HolderIsFirst, Fifo!Enter, Fifo!Exclusive!Next, Fifo!Exclusive!Acquire
  <2>2. ASSUME NEW l \in Locks, Fifo!Grant(l) PROVE Fifo!Exclusive!Next
    <3>1. Head(line[l]) \in Tickets
      BY <1>2, <2>2 DEF Fifo!TypeOK, Fifo!Grant
    <3> QED BY <2>2, <3>1 DEF Fifo!Grant, Fifo!Exclusive!Next, Fifo!Exclusive!Acquire
  <2>3. ASSUME NEW l \in Locks, Fifo!Release(l) PROVE Fifo!Exclusive!Next
    <3>1. Head(line[l]) \in Tickets
      BY <1>2, <2>3 DEF Fifo!TypeOK, Fifo!Release
    <3> QED BY <2>3, <3>1 DEF Fifo!Release, Fifo!Exclusive!Next, Fifo!Exclusive!Release
  <2> QED BY <1>2, <2>1, <2>2, <2>3 DEF Fifo!Next, Fifo!Enqueue, Fifo!vars
<1> QED BY <1>1, <1>2, FifoInvariant, PTL DEF Fifo!Spec, Fifo!Exclusive!Spec

================================================================================
