--------------------------- MODULE McsSpinlockProofs ---------------------------
(***************************************************************************)
(* Proofs about McsSpinlock, for every set of threads, locks and nodes,    *)
(* every nesting discipline, with guards forgotten and threads ending at   *)
(* will: the invariant of McsInvariant is inductive, and the safety        *)
(* properties follow from it.                                              *)
(*                                                                         *)
(* In three parts, the first two with a lemma per kind of step: types and  *)
(* Ownership, then QueueMembers and QueueLinks, then the rest and what     *)
(* follows from the whole.                                                 *)
(***************************************************************************)
EXTENDS McsInvariant, TLAPS

--------------------------------------------------------------------------------
(* PART ONE: types, and one owner for every node.                          *)

(* Types.                                                                  *)

LEMMA TypeInit == Init => TypeOK
  BY NullAssumption DEF Init, TypeOK, Types, LocalsSet, Labels

LEMMA TypeBegin ==
    ASSUME TypeOK, NEW t \in Threads, NEW l \in Locks, NEW n \in Nodes,
           LockBegin(t, l, n) \/ TryLockBegin(t, l, n)
    PROVE  TypeOK'
<1>1. pc' \in [Threads -> Labels]
  BY DEF TypeOK, Types, Labels, LockBegin, TryLockBegin, Goto
<1>2. take_node(t, n) /\ UNCHANGED <<tail, poolAlive, pr, nx, guard, leaked, queue>>
  BY DEF LockBegin, TryLockBegin
<1>3. lk' = [lk EXCEPT ![t] = l] /\ nd' = [nd EXCEPT ![t] = n]
  BY DEF LockBegin, TryLockBegin
<1>4. Types'
  BY <1>1, <1>2, <1>3 DEF TypeOK, Types, take_node
<1>5. LocalsSet'
  BY NullAssumption
  DEF TypeOK, Types, LocalsSet, LockBegin, TryLockBegin, Goto
<1> QED BY <1>4, <1>5 DEF TypeOK

LEMMA TypeSwap ==
    ASSUME TypeOK, NEW t \in Threads, Swap(t)
    PROVE  TypeOK'
<1>1. lk[t] \in Locks /\ nd[t] \in Nodes
  BY DEF TypeOK, Types, LocalsSet, Swap
<1>2. Append(queue[lk[t]], nd[t]) \in Seq(Nodes)
  BY <1>1 DEF TypeOK, Types
<1>3. CASE tail[lk[t]] = Null
  <2>1. LeaveWithGuard(t)
    BY <1>3 DEF Swap
  <2>2. Types'
    BY <1>1, <1>2, <2>1 DEF TypeOK, Types, Labels, Swap, LeaveWithGuard, Leave, Goto
  <2>3. LocalsSet'
    BY <2>1, NullAssumption DEF TypeOK, Types, LocalsSet, Swap, LeaveWithGuard, Leave, Goto
  <2> QED BY <2>2, <2>3 DEF TypeOK
<1>4. CASE tail[lk[t]] # Null
  <2>1. Types'
    BY <1>1, <1>2, <1>4 DEF TypeOK, Types, Labels, Swap, Goto
  <2>2. LocalsSet'
    BY <1>1, <1>4, NullAssumption DEF TypeOK, Types, LocalsSet, Swap, Goto
  <2> QED BY <2>1, <2>2 DEF TypeOK
<1> QED BY <1>3, <1>4

LEMMA TypeLink ==
    ASSUME TypeOK, NEW t \in Threads, Link(t)
    PROVE  TypeOK'
  BY NullAssumption DEF TypeOK, Types, LocalsSet, Labels, Link, Goto

LEMMA TypeSpinEnd ==
    ASSUME TypeOK, NEW t \in Threads, SpinEnd(t)
    PROVE  TypeOK'
<1>1. Types'
  BY NullAssumption DEF TypeOK, Types, LocalsSet, Labels, SpinEnd, LeaveWithGuard, Leave, Goto, memory
<1>2. LocalsSet'
  BY NullAssumption DEF TypeOK, Types, LocalsSet, SpinEnd, LeaveWithGuard, Leave, Goto, memory
<1> QED BY <1>1, <1>2 DEF TypeOK

LEMMA TypeTryCas ==
    ASSUME TypeOK, NEW t \in Threads, TryCas(t)
    PROVE  TypeOK'
<1>1. lk[t] \in Locks /\ nd[t] \in Nodes
  BY DEF TypeOK, Types, LocalsSet, TryCas
<1>2. Append(queue[lk[t]], nd[t]) \in Seq(Nodes)
  BY <1>1 DEF TypeOK, Types
<1>3. CASE tail[lk[t]] = Null
  <2>1. LeaveWithGuard(t)
    BY <1>3 DEF TryCas
  <2>2. /\ tail' = [tail EXCEPT ![lk[t]] = nd[t]]
        /\ queue' = [queue EXCEPT ![lk[t]] = Append(@, nd[t])]
        /\ UNCHANGED <<locked, next, heap, pool, poolAlive, leaked>>
    BY <1>3 DEF TryCas
  <2>3. Types'
    BY <1>1, <1>2, <2>1, <2>2 DEF TypeOK, Types, Labels, LeaveWithGuard, Leave, Goto
  <2>4. LocalsSet'
    BY <1>3, <2>1, NullAssumption DEF TypeOK, Types, LocalsSet, TryCas, LeaveWithGuard, Leave, Goto
  <2> QED BY <2>3, <2>4 DEF TypeOK
<1>4. CASE tail[lk[t]] # Null
  <2>1. Types'
    BY <1>1, <1>4 DEF TypeOK, Types, Labels, TryCas, Goto
  <2>2. LocalsSet'
    BY <1>1, <1>4, NullAssumption DEF TypeOK, Types, LocalsSet, TryCas, Goto
  <2> QED BY <2>1, <2>2 DEF TypeOK
<1> QED BY <1>3, <1>4

LEMMA TypeDropBegin ==
    ASSUME TypeOK, NEW t \in Threads, NEW n \in Nodes, DropBegin(t, n)
    PROVE  TypeOK'
<1>1. Types'
  BY NullAssumption DEF TypeOK, Types, LocalsSet, Labels, DropBegin, Goto, memory
<1>2. LocalsSet'
  BY NullAssumption DEF TypeOK, Types, LocalsSet, DropBegin, Goto, memory
<1> QED BY <1>1, <1>2 DEF TypeOK

LEMMA TypeRelLoad ==
    ASSUME TypeOK, NEW t \in Threads, RelLoad(t) \/ RelWait(t)
    PROVE  TypeOK'
<1>1. pc' \in [Threads -> Labels]
  BY DEF TypeOK, Types, Labels, RelLoad, RelWait, Goto
<1>2. nd[t] \in Nodes /\ next[nd[t]] \in Nodes \cup {Null}
  BY DEF TypeOK, Types, LocalsSet, RelLoad, RelWait
<1>3. Types'
  BY <1>1, <1>2 DEF TypeOK, Types, RelLoad, RelWait, memory
<1>4. LocalsSet'
  BY NullAssumption DEF TypeOK, Types, LocalsSet, RelLoad, RelWait, Goto, memory
<1> QED BY <1>3, <1>4 DEF TypeOK

LEMMA TypeRelCas ==
    ASSUME TypeOK, NEW t \in Threads, RelCas(t)
    PROVE  TypeOK'
<1>1. pc' \in [Threads -> Labels]
  BY DEF TypeOK, Types, Labels, RelCas, Goto
<1>2. tail' \in [Locks -> Nodes \cup {Null}]
  BY DEF TypeOK, Types, RelCas
<1>3. queue' \in [Locks -> Seq(Nodes)]
  <2>1. <<>> \in Seq(Nodes)
    OBVIOUS
  <2> QED BY <2>1 DEF TypeOK, Types, RelCas
<1>4. Types'
  BY <1>1, <1>2, <1>3 DEF TypeOK, Types, RelCas
<1>5. LocalsSet'
  BY NullAssumption DEF TypeOK, Types, LocalsSet, RelCas, Goto
<1> QED BY <1>4, <1>5 DEF TypeOK

LEMMA TypeHandoff ==
    ASSUME TypeOK, NEW t \in Threads, Handoff(t), Size(lk[t]) > 0
    PROVE  TypeOK'
<1>1. Tail(queue[lk[t]]) \in Seq(Nodes)
  BY DEF TypeOK, Types, LocalsSet, Size, Handoff
<1> QED BY <1>1, NullAssumption DEF TypeOK, Types, LocalsSet, Labels, Handoff, Goto

LEMMA TypeReturnNode ==
    ASSUME TypeOK, NEW t \in Threads, ReturnNode(t)
    PROVE  TypeOK'
<1>1. pc' \in [Threads -> Labels]
  BY DEF TypeOK, Types, Labels, ReturnNode, Leave, Goto
<1>2. nd[t] \in Nodes
  BY DEF TypeOK, Types, LocalsSet, ReturnNode
<1>3. /\ locked' \in [Nodes -> BOOLEAN]
      /\ next' \in [Nodes -> Nodes \cup {Null}]
      /\ heap' \in SUBSET Nodes
      /\ pool' \in [Threads -> SUBSET Nodes]
  <2>1. return_node(t, nd[t])
    BY DEF ReturnNode
  <2>2. CASE poolAlive[t]
    BY <1>2, <2>1, <2>2 DEF TypeOK, Types, return_node
  <2>3. CASE ~poolAlive[t]
    BY <1>2, <2>1, <2>3 DEF TypeOK, Types, return_node, Free
  <2> QED BY <2>2, <2>3
<1>4. Types'
  BY <1>1, <1>3 DEF TypeOK, Types, ReturnNode, Leave
<1>5. LocalsSet'
  BY NullAssumption DEF TypeOK, Types, LocalsSet, ReturnNode, Leave, Goto
<1> QED BY <1>4, <1>5 DEF TypeOK

LEMMA TypeForget ==
    ASSUME TypeOK, NEW t \in Threads, NEW n \in Nodes, Forget(t, n)
    PROVE  TypeOK'
  BY NullAssumption DEF TypeOK, Types, LocalsSet, Labels, Forget, memory, locals

LEMMA TypeEnd ==
    ASSUME TypeOK, NEW t \in Threads, PoolDrop(t) \/ ThreadExit(t)
    PROVE  TypeOK'
<1>1. LocalsSet'
  BY DEF TypeOK, LocalsSet, PoolDrop, ThreadExit, locals
<1>2. CASE PoolDrop(t)
  <2>1. /\ locked' \in [Nodes -> BOOLEAN]
        /\ next' \in [Nodes -> Nodes \cup {Null}]
        /\ heap' \in SUBSET Nodes
    BY <1>2 DEF TypeOK, Types, PoolDrop, Free
  <2>2. Types'
    BY <1>2, <2>1 DEF TypeOK, Types, PoolDrop, locals
  <2> QED BY <1>1, <2>2 DEF TypeOK
<1>3. CASE ThreadExit(t)
  BY <1>1, <1>3 DEF TypeOK, Types, ThreadExit, locals
<1> QED BY <1>2, <1>3

LEMMA TypeIntoInner ==
    ASSUME TypeOK, NEW l \in Locks, IntoInner(l)
    PROVE  TypeOK'
<1>1. <<>> \in Seq(Nodes)
  OBVIOUS
<1> QED BY <1>1, NullAssumption DEF TypeOK, Types, LocalsSet, Labels, IntoInner, locals

--------------------------------------------------------------------------------
(* Ownership.                                                              *)

(* The effect of a call's return with a guard, pointwise.                  *)
LEMMA GuardGained ==
    ASSUME TypeOK, NEW t \in Threads, LeaveWithGuard(t)
    PROVE  /\ \A u \in Threads, m \in Nodes :
                 guard'[u][m] = IF u = t /\ m = nd[t] THEN lk[t] ELSE guard[u][m]
           /\ \A u \in Threads :
                 /\ nd'[u] = IF u = t THEN Null ELSE nd[u]
                 /\ lk'[u] = IF u = t THEN Null ELSE lk[u]
                 /\ pr'[u] = IF u = t THEN Null ELSE pr[u]
                 /\ nx'[u] = IF u = t THEN Null ELSE nx[u]
                 /\ pc'[u] = IF u = t THEN "idle" ELSE pc[u]
  BY DEF TypeOK, Types, LeaveWithGuard, Leave, Goto

(* Steps that give no thread a node.                                       *)
LEMMA OwnershipKept ==
    ASSUME Ownership, UNCHANGED <<heap, pool, leaked>>,
           \A u \in Threads, m \in Nodes : Owns(u, m)' => Owns(u, m),
           \A u \in Threads : nd'[u] # Null => guard'[u][nd'[u]] = Null
    PROVE  Ownership'
  BY DEF Ownership

LEMMA OwnershipBegin ==
    ASSUME TypeOK, Ownership, NEW t \in Threads, NEW l \in Locks, NEW n \in Nodes,
           LockBegin(t, l, n) \/ TryLockBegin(t, l, n)
    PROVE  Ownership'
<1>1. pc[t] = "idle" /\ nd[t] = Null
  BY DEF TypeOK, LocalsSet, LockBegin, TryLockBegin
<1>2. take_node(t, n) /\ UNCHANGED <<guard, leaked>> /\ nd' = [nd EXCEPT ![t] = n]
  BY DEF LockBegin, TryLockBegin
<1>3. /\ heap' = heap \cup {n}
      /\ \A u \in Threads, m \in Nodes :
            m \in pool'[u] <=> m \in pool[u] /\ ~(u = t /\ m = n)
      /\ \A u \in Threads : nd'[u] = IF u = t THEN n ELSE nd[u]
  BY <1>2 DEF TypeOK, Types, take_node
<1>4. n \in pool[t] \/ n \notin heap
  BY <1>2 DEF take_node, Takeable
<1>5. n \notin leaked /\ \A u \in Threads : ~Owns(u, n) /\ n \notin pool'[u]
  BY <1>3, <1>4 DEF Ownership
<1>6. \A u \in Threads, m \in Nodes : Owns(u, m)' <=> Owns(u, m) \/ (u = t /\ m = n)
  BY <1>1, <1>2, <1>3, NullAssumption DEF Owns
<1>7. \A u \in Threads : nd'[u] # Null => guard'[u][nd'[u]] = Null
  BY <1>2, <1>3, <1>5 DEF Ownership, Owns
<1>8. \A u, v \in Threads, m \in Nodes : Owns(u, m)' /\ Owns(v, m)' => u = v
  BY <1>5, <1>6 DEF Ownership
<1>9. \A u \in Threads, m \in Nodes :
        Owns(u, m)' => m \in heap' /\ m \notin leaked' /\ \A v \in Threads : m \notin pool'[v]
  BY <1>2, <1>3, <1>5, <1>6 DEF Ownership
<1>10. \A u \in Threads : \A m \in pool'[u] :
        m \in heap' /\ m \notin leaked' /\ \A v \in Threads : m \in pool'[v] => u = v
  <2>1. \A u \in Threads : \A m \in pool'[u] : m \in Nodes
    BY TypeBegin DEF TypeOK, Types
  <2> QED BY <1>2, <1>3, <2>1 DEF Ownership
<1>11. leaked' \subseteq heap'
  BY <1>2, <1>3 DEF Ownership
<1> QED BY <1>7, <1>8, <1>9, <1>10, <1>11 DEF Ownership

LEMMA OwnershipGuardGained ==
    ASSUME TypeOK, Ownership, NEW t \in Threads, pc[t] # "idle",
           LeaveWithGuard(t), UNCHANGED <<heap, pool, leaked>>
    PROVE  Ownership'
<1>1. nd[t] \in Nodes /\ lk[t] \in Locks
  BY DEF TypeOK, Types, LocalsSet
<1>2. \A u \in Threads, m \in Nodes : Owns(u, m)' => Owns(u, m)
  BY <1>1, GuardGained, NullAssumption DEF Owns
<1>3. \A u \in Threads : nd'[u] # Null => guard'[u][nd'[u]] = Null
  <2>1. \A u \in Threads : nd'[u] # Null => u # t /\ nd'[u] = nd[u] /\ nd[u] \in Nodes
    BY GuardGained DEF TypeOK, Types
  <2> QED BY <2>1, GuardGained DEF Ownership
<1> QED BY <1>2, <1>3, OwnershipKept

(* Steps inside a call that change neither guards nor `node`.              *)
LEMMA OwnershipUntouched ==
    ASSUME Ownership, UNCHANGED <<heap, pool, leaked, guard, nd>>
    PROVE  Ownership'
  BY DEF Ownership, Owns

LEMMA OwnershipDropBegin ==
    ASSUME TypeOK, Ownership, NEW t \in Threads, NEW n \in Nodes, DropBegin(t, n)
    PROVE  Ownership'
<1>1. /\ \A u \in Threads, m \in Nodes :
            guard'[u][m] = IF u = t /\ m = n THEN Null ELSE guard[u][m]
      /\ \A u \in Threads : nd'[u] = IF u = t THEN n ELSE nd[u]
      /\ guard[t][n] # Null
      /\ UNCHANGED <<heap, pool, leaked>>
  BY DEF TypeOK, Types, DropBegin, memory
<1>2. \A u \in Threads, m \in Nodes : Owns(u, m)' => Owns(u, m)
  BY <1>1 DEF Owns
<1>3. \A u \in Threads : nd'[u] # Null => guard'[u][nd'[u]] = Null
  <2>1. \A u \in Threads \ {t} : nd'[u] # Null => nd[u] \in Nodes /\ nd'[u] = nd[u]
    BY <1>1 DEF TypeOK, Types
  <2> QED BY <1>1, <2>1 DEF Ownership
<1> QED BY <1>1, <1>2, <1>3, OwnershipKept

LEMMA OwnershipReturnNode ==
    ASSUME TypeOK, Ownership, NEW t \in Threads, ReturnNode(t)
    PROVE  Ownership'
<1> DEFINE n == nd[t]
<1>1. n \in Nodes /\ n # Null
  BY NullAssumption DEF TypeOK, Types, LocalsSet, ReturnNode
<1>2. /\ \A u \in Threads : nd'[u] = IF u = t THEN Null ELSE nd[u]
      /\ UNCHANGED <<guard, leaked>>
  BY DEF TypeOK, Types, ReturnNode, Leave
<1>3. \A u \in Threads, m \in Nodes : Owns(u, m)' => Owns(u, m) /\ m # n
  BY <1>1, <1>2, NullAssumption DEF Owns, Ownership
<1>4. Owns(t, n) /\ n \in heap /\ n \notin leaked /\ \A u \in Threads : n \notin pool[u]
  BY <1>1 DEF Owns, Ownership
<1>5. \A u \in Threads : nd'[u] # Null => guard'[u][nd'[u]] = Null
  BY <1>2 DEF Ownership
<1>6. CASE poolAlive[t]
  <2>1. /\ UNCHANGED heap
        /\ \A u \in Threads, m \in Nodes :
              m \in pool'[u] <=> m \in pool[u] \/ (u = t /\ m = n)
    BY <1>6 DEF ReturnNode, return_node, TypeOK, Types
  <2> HIDE DEF n
  <2>2. \A u, v \in Threads, m \in Nodes : Owns(u, m)' /\ Owns(v, m)' => u = v
    BY <1>3 DEF Ownership
  <2>3. \A u \in Threads, m \in Nodes :
          Owns(u, m)' => m \in heap' /\ m \notin leaked' /\ \A v \in Threads : m \notin pool'[v]
    BY <1>2, <1>3, <2>1 DEF Ownership
  <2>4. \A u \in Threads : \A m \in pool'[u] :
          m \in heap' /\ m \notin leaked' /\ \A v \in Threads : m \in pool'[v] => u = v
    <3>1. \A u \in Threads : \A m \in pool'[u] : m \in Nodes
      BY TypeReturnNode DEF TypeOK, Types
    <3> QED BY <1>2, <1>4, <2>1, <3>1 DEF Ownership
  <2>5. leaked' \subseteq heap'
    BY <1>2, <2>1 DEF Ownership
  <2> QED BY <1>5, <2>2, <2>3, <2>4, <2>5 DEF Ownership
<1>7. CASE ~poolAlive[t]
  <2>1. heap' = heap \ {n} /\ UNCHANGED pool
    BY <1>7 DEF ReturnNode, return_node, Free
  <2> HIDE DEF n
  <2>2. \A u, v \in Threads, m \in Nodes : Owns(u, m)' /\ Owns(v, m)' => u = v
    BY <1>3 DEF Ownership
  <2>3. \A u \in Threads, m \in Nodes :
          Owns(u, m)' => m \in heap' /\ m \notin leaked' /\ \A v \in Threads : m \notin pool'[v]
    BY <1>2, <1>3, <2>1 DEF Ownership
  <2>4. \A u \in Threads : \A m \in pool'[u] :
          m \in heap' /\ m \notin leaked' /\ \A v \in Threads : m \in pool'[v] => u = v
    BY <1>2, <1>4, <2>1 DEF Ownership
  <2>5. leaked' \subseteq heap'
    BY <1>2, <1>4, <2>1 DEF Ownership
  <2> QED BY <1>5, <2>2, <2>3, <2>4, <2>5 DEF Ownership
<1> QED BY <1>6, <1>7

LEMMA OwnershipForget ==
    ASSUME TypeOK, Ownership, NEW t \in Threads, NEW n \in Nodes, Forget(t, n)
    PROVE  Ownership'
<1>1. /\ \A u \in Threads, m \in Nodes :
            guard'[u][m] = IF u = t /\ m = n THEN Null ELSE guard[u][m]
      /\ leaked' = leaked \cup {n}
      /\ Owns(t, n)
      /\ UNCHANGED <<heap, pool, nd>>
  BY DEF TypeOK, Types, Forget, memory, locals, Owns
<1>2. nd[t] = Null
  BY DEF TypeOK, LocalsSet, Forget
<1>3. \A u \in Threads, m \in Nodes : Owns(u, m)' => Owns(u, m) /\ m # n
  BY <1>1, <1>2, NullAssumption DEF Owns, Ownership
<1>4. \A u \in Threads : nd'[u] # Null => guard'[u][nd'[u]] = Null
  <2>1. \A u \in Threads : nd'[u] = nd[u] /\ (nd[u] # Null => nd[u] \in Nodes)
    BY <1>1 DEF TypeOK, Types
  <2> QED BY <1>1, <2>1 DEF Ownership
<1>5. \A u \in Threads : \A m \in pool'[u] :
        m \in heap' /\ m \notin leaked' /\ \A v \in Threads : m \in pool'[v] => u = v
  BY <1>1 DEF Ownership
<1>6. leaked' \subseteq heap'
  BY <1>1 DEF Ownership
<1>7. \A u \in Threads, m \in Nodes :
        Owns(u, m)' => m \in heap' /\ m \notin leaked' /\ \A v \in Threads : m \notin pool'[v]
  BY <1>1, <1>3 DEF Ownership
<1>8. \A u, v \in Threads, m \in Nodes : Owns(u, m)' /\ Owns(v, m)' => u = v
  BY <1>3 DEF Ownership
<1> QED BY <1>4, <1>5, <1>6, <1>7, <1>8 DEF Ownership

LEMMA OwnershipEnd ==
    ASSUME TypeOK, Ownership, NEW t \in Threads, PoolDrop(t) \/ ThreadExit(t)
    PROVE  Ownership'
<1>1. CASE ThreadExit(t)
  BY <1>1, OwnershipUntouched DEF ThreadExit, locals
<1>2. CASE PoolDrop(t)
  <2>1. /\ heap' = heap \ pool[t]
        /\ \A u \in Threads : pool'[u] = IF u = t THEN {} ELSE pool[u]
        /\ UNCHANGED <<guard, nd, leaked>>
    BY <1>2 DEF TypeOK, Types, PoolDrop, Free, locals
  <2>2. \A u \in Threads, m \in Nodes : Owns(u, m)' <=> Owns(u, m)
    BY <2>1 DEF Owns
  <2>3. \A u \in Threads : nd'[u] # Null => guard'[u][nd'[u]] = Null
    BY <2>1 DEF Ownership
  <2>4. \A u, v \in Threads, m \in Nodes : Owns(u, m)' /\ Owns(v, m)' => u = v
    BY <2>2 DEF Ownership
  <2>5. \A u \in Threads, m \in Nodes :
          Owns(u, m)' => m \in heap' /\ m \notin leaked' /\ \A v \in Threads : m \notin pool'[v]
    BY <2>1, <2>2 DEF Ownership
  <2>6. \A u \in Threads : \A m \in pool'[u] :
          m \in heap' /\ m \notin leaked' /\ \A v \in Threads : m \in pool'[v] => u = v
    BY <2>1 DEF Ownership
  <2>7. leaked' \subseteq heap'
    BY <2>1 DEF Ownership
  <2> QED BY <2>3, <2>4, <2>5, <2>6, <2>7 DEF Ownership
<1> QED BY <1>1, <1>2

--------------------------------------------------------------------------------
(* PART TWO: the queues stay in order.                                     *)

(* The queue.                                                              *)

LEMMA QueueElements ==
    ASSUME TypeOK, NEW l \in Locks
    PROVE  /\ Size(l) \in Nat
           /\ \A i \in 1..Size(l) : queue[l][i] \in Nodes
           /\ Size(l) = 0 <=> queue[l] = <<>>
  BY DEF TypeOK, Types, Size

(* Appending a node, pointwise.                                            *)
LEMMA QueueAppend ==
    ASSUME TypeOK, NEW l \in Locks, NEW n \in Nodes,
           queue' = [queue EXCEPT ![l] = Append(@, n)]
    PROVE  /\ Size(l)' = Size(l) + 1
           /\ queue'[l][Size(l) + 1] = n
           /\ \A k \in Locks \ {l} : Size(k)' = Size(k)
           /\ \A k \in Locks : \A i \in 1..Size(k) : queue'[k][i] = queue[k][i]
<1>1. queue'[l] = Append(queue[l], n) /\ \A k \in Locks \ {l} : queue'[k] = queue[k]
  BY DEF TypeOK, Types
<1>2. queue[l] \in Seq(Nodes)
  BY DEF TypeOK, Types
<1> QED BY <1>1, <1>2 DEF Size

LEMMA TailElements ==
    ASSUME NEW S, NEW s \in Seq(S), s # <<>>
    PROVE  /\ Len(Tail(s)) = Len(s) - 1
           /\ \A i \in 1..(Len(s) - 1) : Tail(s)[i] = s[i + 1]
  OBVIOUS

(* Removing the head, pointwise.                                           *)
LEMMA QueueTail ==
    ASSUME TypeOK, NEW l \in Locks, Size(l) > 0,
           queue' = [queue EXCEPT ![l] = Tail(@)]
    PROVE  /\ Size(l)' = Size(l) - 1
           /\ \A i \in 1..(Size(l) - 1) : queue'[l][i] = queue[l][i + 1]
           /\ \A k \in Locks \ {l} : queue'[k] = queue[k] /\ Size(k)' = Size(k)
<1>1. queue'[l] = Tail(queue[l]) /\ \A k \in Locks \ {l} : queue'[k] = queue[k]
  BY DEF TypeOK, Types
<1>2. queue[l] \in Seq(Nodes) /\ queue[l] # <<>>
  BY DEF TypeOK, Types, Size
<1>3. Len(Tail(queue[l])) = Len(queue[l]) - 1
      /\ \A i \in 1..(Len(queue[l]) - 1) : Tail(queue[l])[i] = queue[l][i + 1]
  BY <1>2, TailElements
<1> QED BY <1>1, <1>3 DEF Size

(* A queued node has one user, in one queue.                               *)
LEMMA OneUser ==
    ASSUME TypeOK, Ownership,
           NEW t \in Threads, NEW u \in Threads, NEW l \in Locks, NEW k \in Locks,
           NEW n \in Nodes, Queues(t, l, n), Queues(u, k, n)
    PROVE  t = u /\ l = k /\ (guard[t][n] # Null <=> nd[t] # n)
<1>1. Owns(t, n) /\ Owns(u, n)
  BY NullAssumption DEF Queues, Owns
<1>2. t = u
  BY <1>1 DEF Ownership
<1> QED BY <1>2, NullAssumption DEF Queues, Ownership

(* Steps that neither move a queue nor a thread within one.                *)
LEMMA QueueUntouched ==
    ASSUME TypeOK, QueueMembers, QueueLinks,
           UNCHANGED <<tail, queue, guard, leaked>>,
           \A l \in Locks : \A i \in 1..Size(l) :
               /\ locked'[queue[l][i]] = locked[queue[l][i]]
               /\ next'[queue[l][i]] = next[queue[l][i]],
           \A u \in Threads :
               Waiting(u) \/ Releasing(u) \/ Waiting(u)' \/ Releasing(u)' =>
                   /\ pc'[u] = pc[u] /\ nd'[u] = nd[u] /\ lk'[u] = lk[u]
                   /\ pr'[u] = pr[u] /\ nx'[u] = nx[u],
           \A u \in Threads :
               pc'[u] \in {"swap", "trycas"} => locked'[nd'[u]] /\ next'[nd'[u]] = Null
    PROVE  QueueMembers' /\ QueueLinks'
<1>1. \A l \in Locks : Size(l)' = Size(l)
  BY DEF Size
<1>2. \A u \in Threads : (Waiting(u)' <=> Waiting(u)) /\ (Releasing(u)' <=> Releasing(u))
  BY DEF Waiting, Releasing
<1>3. \A u \in Threads, l \in Locks, n \in Nodes : Queues(u, l, n)' <=> Queues(u, l, n)
  BY <1>2 DEF Queues
<1>4. \A u \in Threads : Waiting(u) \/ Releasing(u) => lk[u] \in Locks
  BY DEF TypeOK, Types, LocalsSet, Waiting, Releasing
<1>5. QueuedOnce'
  BY <1>1 DEF QueueMembers, QueuedOnce
<1>6. QueuedForSomeone'
  BY <1>1, <1>3, QueueElements DEF QueueMembers, QueuedForSomeone
<1>7. GuardsAreFirst'
  BY <1>1 DEF QueueMembers, GuardsAreFirst
<1>8. ReleasersAreFirst'
  BY <1>1, <1>2, <1>4 DEF QueueMembers, ReleasersAreFirst
<1>9. WaitersAreQueued'
  <2> SUFFICES ASSUME NEW u \in Threads, Waiting(u)
               PROVE  \E i \in 1..Size(lk[u]) :
                         /\ queue[lk[u]][i] = nd[u]
                         /\ locked'[nd[u]] <=> i > 1
                         /\ pc[u] = "link" => i > 1 /\ queue[lk[u]][i - 1] = pr[u]
    BY <1>1, <1>2, <1>4 DEF WaitersAreQueued
  <2>1. PICK i \in 1..Size(lk[u]) :
               /\ queue[lk[u]][i] = nd[u]
               /\ locked[nd[u]] <=> i > 1
               /\ pc[u] = "link" => i > 1 /\ queue[lk[u]][i - 1] = pr[u]
    BY DEF QueueMembers, WaitersAreQueued
  <2>2. locked'[nd[u]] = locked[nd[u]]
    BY <1>4, <2>1
  <2> QED BY <2>1, <2>2
<1>10. TailIsLast'
  BY <1>1 DEF QueueLinks, TailIsLast
<1>11. \A n : Unlinked(n)' <=> Unlinked(n)
  BY <1>2 DEF Unlinked, Waiting
<1>12. NextIsBehind'
  BY <1>1, <1>11 DEF QueueLinks, NextIsBehind
<1>13. UnpublishedIsFresh'
  BY DEF UnpublishedIsFresh
<1>14. ReleaserSeesNext'
  <2> SUFFICES ASSUME NEW u \in Threads, Releasing(u)
               PROVE  /\ pc[u] = "relwait" => Size(lk[u]) > 1
                      /\ pc[u] = "handoff" => nx[u] = next'[nd[u]]
    BY <1>1, <1>2, <1>4 DEF ReleaserSeesNext, Releasing
  <2>1. lk[u] \in Locks /\ 1 \in 1..Size(lk[u]) /\ queue[lk[u]][1] = nd[u]
    BY <1>4, QueueElements DEF QueueMembers, ReleasersAreFirst
  <2>2. next'[nd[u]] = next[nd[u]]
    BY <2>1
  <2> QED BY <2>2 DEF QueueLinks, ReleaserSeesNext
<1> QED BY <1>5, <1>6, <1>7, <1>8, <1>9, <1>10, <1>12, <1>13, <1>14
        DEF QueueMembers, QueueLinks

LEMMA QueuedNodes ==
    ASSUME TypeOK, Ownership, QueueMembers,
           NEW l \in Locks, NEW i \in 1..Size(l)
    PROVE  /\ queue[l][i] \in heap
           /\ \A u \in Threads : queue[l][i] \notin pool[u]
           /\ \A u \in Threads :
                 pc[u] \in {"swap", "trycas", "return", "tryreturn"} => nd[u] # queue[l][i]
<1> DEFINE n == queue[l][i]
<1>1. n \in Nodes
  BY QueueElements
<1>2. (\E t \in Threads : Queues(t, l, n)) \/ n \in leaked
  BY DEF QueueMembers, QueuedForSomeone
<1> HIDE DEF n
<1>3. CASE n \in leaked
  BY <1>1, <1>3 DEF Ownership, Owns, n
<1>4. ASSUME NEW t \in Threads, Queues(t, l, n)
      PROVE  /\ n \in heap
             /\ \A u \in Threads : n \notin pool[u]
             /\ \A u \in Threads :
                   pc[u] \in {"swap", "trycas", "return", "tryreturn"} => nd[u] # n
  <2>1. Owns(t, n)
    BY <1>4, NullAssumption DEF Queues, Owns
  <2>2. ASSUME NEW u \in Threads, nd[u] = n,
               pc[u] \in {"swap", "trycas", "return", "tryreturn"}
        PROVE  FALSE
    <3>1. u = t
      BY <1>1, <2>1, <2>2 DEF Ownership, Owns
    <3>2. guard[t][n] = Null
      BY <1>1, <2>2, <3>1, NullAssumption DEF Ownership
    <3> QED BY <1>4, <2>2, <3>1, <3>2, NullAssumption DEF Queues, Waiting, Releasing
  <2> QED BY <1>1, <2>1, <2>2 DEF Ownership
<1> QED BY <1>2, <1>3, <1>4 DEF n

LEMMA QueueBegin ==
    ASSUME IInv, NEW t \in Threads, NEW l \in Locks, NEW n \in Nodes,
           LockBegin(t, l, n) \/ TryLockBegin(t, l, n)
    PROVE  QueueMembers' /\ QueueLinks'
<1>1. /\ pc[t] = "idle" /\ take_node(t, n)
      /\ pc' \in {[pc EXCEPT ![t] = "swap"], [pc EXCEPT ![t] = "trycas"]}
      /\ lk' = [lk EXCEPT ![t] = l] /\ nd' = [nd EXCEPT ![t] = n]
      /\ UNCHANGED <<tail, pr, nx, guard, leaked, queue>>
  BY DEF LockBegin, TryLockBegin, Goto
<1>2. n \in pool[t] \/ n \notin heap
  BY <1>1 DEF take_node, Takeable
<1>3. \A m \in Nodes : m # n => locked'[m] = locked[m] /\ next'[m] = next[m]
  BY <1>1 DEF IInv, TypeOK, Types, take_node
<1>4. locked'[n] /\ next'[n] = Null
  BY <1>1 DEF IInv, TypeOK, Types, take_node
<1>5. \A k \in Locks : \A i \in 1..Size(k) :
         /\ locked'[queue[k][i]] = locked[queue[k][i]]
         /\ next'[queue[k][i]] = next[queue[k][i]]
  BY <1>2, <1>3, QueueElements, QueuedNodes DEF IInv
<1>6. \A u \in Threads \ {t} : /\ pc'[u] = pc[u] /\ nd'[u] = nd[u] /\ lk'[u] = lk[u]
                               /\ pr'[u] = pr[u] /\ nx'[u] = nx[u]
  BY <1>1 DEF IInv, TypeOK, Types
<1>7. pc'[t] \in {"swap", "trycas"} /\ nd'[t] = n
  BY <1>1 DEF IInv, TypeOK, Types
<1>8. ASSUME NEW u \in Threads, pc'[u] \in {"swap", "trycas"}
      PROVE  locked'[nd'[u]] /\ next'[nd'[u]] = Null
  <2>1. CASE u = t
    BY <1>4, <1>7, <2>1
  <2>2. CASE u # t
    <3>1. pc[u] \in {"swap", "trycas"} /\ nd'[u] = nd[u] /\ nd[u] \in Nodes
      BY <1>6, <1>8, <2>2 DEF IInv, TypeOK, Types, LocalsSet
    <3>2. Owns(u, nd[u])
      BY <3>1 DEF Owns
    <3>3. nd[u] # n
      BY <1>2, <3>1, <3>2 DEF IInv, Ownership
    <3> QED BY <1>3, <3>1, <3>3 DEF IInv, QueueLinks, UnpublishedIsFresh
  <2> QED BY <2>1, <2>2
<1>9. \A u \in Threads :
        Waiting(u) \/ Releasing(u) \/ Waiting(u)' \/ Releasing(u)' => u # t
  BY <1>1, <1>7 DEF Waiting, Releasing
<1> QED BY <1>1, <1>5, <1>6, <1>8, <1>9, QueueUntouched DEF IInv

LEMMA QueueReturnNode ==
    ASSUME IInv, NEW t \in Threads, ReturnNode(t)
    PROVE  QueueMembers' /\ QueueLinks'
<1>1. /\ pc[t] \in {"return", "tryreturn"} /\ pc'[t] = "idle"
      /\ UNCHANGED <<tail, guard, leaked, queue>>
      /\ nd[t] \in Nodes
  BY DEF IInv, TypeOK, Types, LocalsSet, ReturnNode, Leave, Goto
<1>2. \A u \in Threads \ {t} : /\ pc'[u] = pc[u] /\ nd'[u] = nd[u] /\ lk'[u] = lk[u]
                               /\ pr'[u] = pr[u] /\ nx'[u] = nx[u]
  BY DEF IInv, TypeOK, Types, ReturnNode, Leave, Goto
<1>3. \A m \in Nodes : m # nd[t] => locked'[m] = locked[m] /\ next'[m] = next[m]
  BY DEF IInv, TypeOK, Types, ReturnNode, return_node, Free
<1>4. \A k \in Locks : \A i \in 1..Size(k) :
         /\ locked'[queue[k][i]] = locked[queue[k][i]]
         /\ next'[queue[k][i]] = next[queue[k][i]]
  BY <1>1, <1>3, QueueElements, QueuedNodes DEF IInv
<1>5. ASSUME NEW u \in Threads, pc'[u] \in {"swap", "trycas"}
      PROVE  locked'[nd'[u]] /\ next'[nd'[u]] = Null
  <2>1. u # t /\ pc[u] \in {"swap", "trycas"} /\ nd'[u] = nd[u] /\ nd[u] \in Nodes
    BY <1>1, <1>2, <1>5 DEF IInv, TypeOK, Types, LocalsSet
  <2>2. nd[u] # nd[t]
    BY <1>1, <2>1 DEF IInv, Ownership, Owns
  <2> QED BY <1>3, <2>1, <2>2 DEF IInv, QueueLinks, UnpublishedIsFresh
<1>6. \A u \in Threads :
        Waiting(u) \/ Releasing(u) \/ Waiting(u)' \/ Releasing(u)' => u # t
  BY <1>1 DEF Waiting, Releasing
<1> QED BY <1>1, <1>2, <1>4, <1>5, <1>6, QueueUntouched DEF IInv

LEMMA QueueEnd ==
    ASSUME IInv, NEW t \in Threads, PoolDrop(t) \/ ThreadExit(t)
    PROVE  QueueMembers' /\ QueueLinks'
<1>1. UNCHANGED <<tail, locals, guard, leaked, queue>>
  BY DEF PoolDrop, ThreadExit
<1>2. \A m \in Nodes : m \notin pool[t] => locked'[m] = locked[m] /\ next'[m] = next[m]
  BY DEF IInv, TypeOK, Types, PoolDrop, ThreadExit, Free
<1>3. \A k \in Locks : \A i \in 1..Size(k) :
         /\ locked'[queue[k][i]] = locked[queue[k][i]]
         /\ next'[queue[k][i]] = next[queue[k][i]]
  BY <1>2, QueueElements, QueuedNodes DEF IInv
<1>4. ASSUME NEW u \in Threads, pc'[u] \in {"swap", "trycas"}
      PROVE  locked'[nd'[u]] /\ next'[nd'[u]] = Null
  <2>1. pc[u] \in {"swap", "trycas"} /\ nd'[u] = nd[u] /\ nd[u] \in Nodes
    BY <1>1, <1>4 DEF IInv, TypeOK, Types, LocalsSet, locals
  <2>2. nd[u] \notin pool[t]
    BY <2>1 DEF IInv, Ownership, Owns
  <2> QED BY <1>2, <2>1, <2>2 DEF IInv, QueueLinks, UnpublishedIsFresh
<1> QED BY <1>1, <1>3, <1>4, QueueUntouched DEF IInv, locals

(* A thread that finds tail null is alone in the queue and has the lock.   *)
LEMMA QueueEnter ==
    ASSUME IInv, NEW t \in Threads, NEW l \in Locks, NEW n \in Nodes,
           pc[t] \in {"swap", "trycas"}, lk[t] = l, nd[t] = n, tail[l] = Null,
           tail' = [tail EXCEPT ![l] = n],
           queue' = [queue EXCEPT ![l] = Append(@, n)],
           LeaveWithGuard(t), UNCHANGED <<locked, next, leaked>>
    PROVE  QueueMembers' /\ QueueLinks'
<1>1. Size(l) = 0
  <2>1. Size(l) # 0 => queue[l][Size(l)] \in Nodes
    BY QueueElements DEF IInv
  <2> QED BY <2>1, NullAssumption DEF IInv, QueueLinks, TailIsLast
<1>2. /\ Size(l)' = 1
      /\ queue'[l][1] = n
      /\ \A k \in Locks \ {l} : Size(k)' = Size(k)
      /\ \A k \in Locks \ {l} : \A i \in 1..Size(k) : queue'[k][i] = queue[k][i]
  <2>1. /\ Size(l)' = Size(l) + 1
        /\ queue'[l][Size(l) + 1] = n
        /\ \A k \in Locks \ {l} : Size(k)' = Size(k)
        /\ \A k \in Locks : \A i \in 1..Size(k) : queue'[k][i] = queue[k][i]
    BY QueueAppend DEF IInv
  <2> QED BY <1>1, <2>1
<1>3. \A k \in Locks : \A i \in 1..Size(k) : queue[k][i] # n
  BY QueuedNodes DEF IInv
<1>4. /\ \A u \in Threads, m \in Nodes :
            guard'[u][m] = IF u = t /\ m = n THEN l ELSE guard[u][m]
      /\ nd'[t] = Null /\ pc'[t] = "idle"
      /\ \A u \in Threads \ {t} : /\ nd'[u] = nd[u] /\ lk'[u] = lk[u] /\ pr'[u] = pr[u]
                                  /\ nx'[u] = nx[u] /\ pc'[u] = pc[u]
  BY GuardGained DEF IInv
<1>5. \A u \in Threads : Waiting(u)' \/ Releasing(u)' => u # t
  BY <1>4 DEF Waiting, Releasing
<1>6. \A u \in Threads \ {t} : (Waiting(u)' <=> Waiting(u)) /\ (Releasing(u)' <=> Releasing(u))
  BY <1>4 DEF Waiting, Releasing
<1>7. ~Waiting(t) /\ ~Releasing(t)
  BY DEF Waiting, Releasing
<1>8. \A u \in Threads : Waiting(u) \/ Releasing(u) => lk[u] \in Locks \ {l}
  <2>1. \A u \in Threads : Waiting(u) \/ Releasing(u) => lk[u] \in Locks
    BY DEF IInv, TypeOK, Types, LocalsSet, Waiting, Releasing
  <2>2. \A u \in Threads : Releasing(u) => lk[u] # l
    BY <1>1 DEF IInv, QueueMembers, ReleasersAreFirst
  <2>3. \A u \in Threads : Waiting(u) => lk[u] # l
    BY <1>1 DEF IInv, QueueMembers, WaitersAreQueued
  <2> QED BY <2>1, <2>2, <2>3
<1>9. QueuedOnce'
  BY <1>1, <1>2, <1>3 DEF IInv, QueueMembers, QueuedOnce
<1>10. QueuedForSomeone'
  <2>1. Queues(t, l, n)'
    BY <1>4 DEF Queues
  <2>2. ASSUME NEW k \in Locks \ {l}, NEW i \in 1..Size(k)
        PROVE  (\E u \in Threads : Queues(u, k, queue[k][i])') \/ (i = 1 /\ queue[k][i] \in leaked')
    <3>1. queue[k][i] \in Nodes /\ queue[k][i] # n
      BY <1>3, QueueElements DEF IInv
    <3>2. \A u \in Threads : Queues(u, k, queue[k][i]) => Queues(u, k, queue[k][i])'
      BY <1>4, <1>6, <1>7, <3>1 DEF Queues
    <3> QED BY <3>2 DEF IInv, QueueMembers, QueuedForSomeone
  <2> QED BY <1>2, <2>1, <2>2 DEF QueuedForSomeone
<1>11. GuardsAreFirst'
  <2>1. \A u \in Threads, m \in Nodes, k \in Locks :
          guard[u][m] = k => k # l /\ Size(k) > 0 /\ queue[k][1] = m
    BY <1>1 DEF IInv, QueueMembers, GuardsAreFirst
  <2>2. \A k \in Locks : 1 \in 1..Size(k) <=> Size(k) > 0
    BY QueueElements DEF IInv
  <2> QED BY <1>2, <1>4, <2>1, <2>2 DEF GuardsAreFirst
<1>12. ReleasersAreFirst'
  <2>1. \A k \in Locks : Size(k) > 0 => 1 \in 1..Size(k)
    BY QueueElements DEF IInv
  <2> QED BY <1>2, <1>4, <1>5, <1>6, <1>8, <2>1 DEF IInv, QueueMembers, ReleasersAreFirst
<1>13. WaitersAreQueued'
  <2> SUFFICES ASSUME NEW u \in Threads, Waiting(u), u # t
               PROVE  \E i \in 1..Size(lk[u]) :
                         /\ queue'[lk[u]][i] = nd[u]
                         /\ locked[nd[u]] <=> i > 1
                         /\ pc[u] = "link" => i > 1 /\ queue'[lk[u]][i - 1] = pr[u]
    BY <1>2, <1>4, <1>5, <1>6, <1>8 DEF WaitersAreQueued
  <2>1. PICK i \in 1..Size(lk[u]) :
               /\ queue[lk[u]][i] = nd[u]
               /\ locked[nd[u]] <=> i > 1
               /\ pc[u] = "link" => i > 1 /\ queue[lk[u]][i - 1] = pr[u]
    BY DEF IInv, QueueMembers, WaitersAreQueued
  <2>2. i > 1 => i - 1 \in 1..Size(lk[u])
    BY <1>8, QueueElements DEF IInv
  <2> QED BY <1>2, <1>8, <2>1, <2>2
<1>14. TailIsLast'
  <2>1. \A k \in Locks \ {l} : tail'[k] = tail[k] /\ tail'[l] = n
    BY DEF IInv, TypeOK, Types
  <2>2. \A k \in Locks : Size(k) # 0 => Size(k) \in 1..Size(k)
    BY QueueElements DEF IInv
  <2>3. tail'[l] = queue'[l][Size(l)'] /\ Size(l)' # 0
    BY <1>2, <2>1 DEF IInv, TypeOK, Types
  <2>4. \A k \in Locks \ {l} :
          tail'[k] = IF Size(k)' = 0 THEN Null ELSE queue'[k][Size(k)']
    BY <1>2, <2>1, <2>2 DEF IInv, QueueLinks, TailIsLast
  <2> QED BY <2>3, <2>4 DEF TailIsLast
<1>15. \A m : Unlinked(m)' <=> Unlinked(m)
  BY <1>4 DEF Unlinked
<1>16. NextIsBehind'
  <2>1. next[n] = Null
    BY DEF IInv, QueueLinks, UnpublishedIsFresh
  <2>2. \A k \in Locks : \A i \in 1..Size(k) : i # Size(k) => i + 1 \in 1..Size(k)
    BY QueueElements DEF IInv
  <2> QED BY <1>2, <1>15, <2>1, <2>2 DEF IInv, QueueLinks, NextIsBehind
<1>17. UnpublishedIsFresh'
  BY <1>4 DEF IInv, QueueLinks, UnpublishedIsFresh
<1>18. ReleaserSeesNext'
  BY <1>2, <1>4, <1>8 DEF IInv, QueueLinks, ReleaserSeesNext, Releasing
<1> QED BY <1>9, <1>10, <1>11, <1>12, <1>13, <1>14, <1>16, <1>17, <1>18
        DEF QueueMembers, QueueLinks

(* A thread that finds a predecessor queues behind it, not linked yet.     *)
LEMMA QueueSwapBehind ==
    ASSUME IInv, NEW t \in Threads, NEW l \in Locks, NEW n \in Nodes,
           Swap(t), lk[t] = l, nd[t] = n, tail[l] # Null
    PROVE  QueueMembers' /\ QueueLinks'
<1>1. Size(l) > 0 /\ Size(l) \in 1..Size(l) /\ tail[l] = queue[l][Size(l)]
  BY QueueElements DEF IInv, QueueLinks, TailIsLast
<1>2. /\ Size(l)' = Size(l) + 1
      /\ queue'[l][Size(l) + 1] = n
      /\ \A k \in Locks \ {l} : Size(k)' = Size(k)
      /\ \A k \in Locks : \A i \in 1..Size(k) : queue'[k][i] = queue[k][i]
  BY QueueAppend DEF IInv, Swap
<1>3. \A k \in Locks : \A i \in 1..Size(k) : queue[k][i] # n
  BY QueuedNodes DEF IInv, Swap
<1>4. /\ pc[t] = "swap" /\ pc'[t] = "link" /\ pr'[t] = tail[l]
      /\ UNCHANGED <<lk, nd, nx, guard, locked, next, leaked>>
      /\ \A u \in Threads \ {t} : pr'[u] = pr[u] /\ pc'[u] = pc[u]
  BY DEF IInv, TypeOK, Types, Swap, LeaveWithGuard, Goto
<1>5. /\ \A u \in Threads : Waiting(u)' <=> Waiting(u) \/ u = t
      /\ \A u \in Threads : Releasing(u)' <=> Releasing(u)
      /\ ~Waiting(t) /\ ~Releasing(t)
  BY <1>4 DEF Waiting, Releasing
<1>6. \A k \in Locks : Size(k) \in Nat /\ Size(k)' \in Nat /\ Size(k)' >= Size(k)
  BY <1>2, QueueElements DEF IInv
<1>7. \A u \in Threads : Waiting(u) \/ Releasing(u) => lk[u] \in Locks
  BY DEF IInv, TypeOK, Types, LocalsSet, Waiting, Releasing
<1>8. \A k \in Locks : \A i \in 1..Size(k)' :
         (i \in 1..Size(k) /\ queue'[k][i] = queue[k][i])
         \/ (k = l /\ i = Size(l) + 1 /\ queue'[k][i] = n)
  BY <1>2, <1>6
<1>9. QueuedOnce'
  BY <1>3, <1>8 DEF IInv, QueueMembers, QueuedOnce
<1>10. QueuedForSomeone'
  <2>1. Queues(t, l, n)'
    BY <1>4, <1>5 DEF Queues
  <2>2. \A u \in Threads, k \in Locks, m \in Nodes : Queues(u, k, m) => Queues(u, k, m)'
    BY <1>4, <1>5 DEF Queues
  <2>3. \A k \in Locks : \A i \in 1..Size(k) : queue[k][i] \in Nodes
    BY QueueElements DEF IInv
  <2> QED BY <1>4, <1>8, <2>1, <2>2, <2>3 DEF IInv, QueueMembers, QueuedForSomeone
<1>11. GuardsAreFirst'
  BY <1>2, <1>4, <1>6 DEF IInv, QueueMembers, GuardsAreFirst
<1>12. ReleasersAreFirst'
  BY <1>2, <1>4, <1>5, <1>6, <1>7 DEF IInv, QueueMembers, ReleasersAreFirst
<1>13. WaitersAreQueued'
  <2>1. \E i \in 1..Size(l)' : /\ queue'[l][i] = n
                               /\ locked[n] <=> i > 1
                               /\ i > 1 /\ queue'[l][i - 1] = pr'[t]
    <3>1. locked[n]
      BY <1>4 DEF IInv, QueueLinks, UnpublishedIsFresh
    <3>2. Size(l) + 1 \in 1..Size(l)' /\ Size(l) + 1 > 1 /\ (Size(l) + 1) - 1 = Size(l)
      BY <1>1, <1>2, <1>6
    <3> QED BY <1>1, <1>2, <1>4, <3>1, <3>2
  <2>2. ASSUME NEW u \in Threads \ {t}, Waiting(u)
        PROVE  \E i \in 1..Size(lk[u])' :
                  /\ queue'[lk[u]][i] = nd[u]
                  /\ locked[nd[u]] <=> i > 1
                  /\ pc[u] = "link" => i > 1 /\ queue'[lk[u]][i - 1] = pr[u]
    <3>1. PICK k \in Locks : k = lk[u] /\ k = lk'[u]
      BY <1>4, <1>7, <2>2
    <3>2. PICK i \in 1..Size(k) :
                 /\ queue[k][i] = nd[u]
                 /\ locked[nd[u]] <=> i > 1
                 /\ pc[u] = "link" => i > 1 /\ queue[k][i - 1] = pr[u]
      <4>1. \E i \in 1..Size(lk[u]) :
                 /\ queue[lk[u]][i] = nd[u]
                 /\ locked[nd[u]] <=> i > 1
                 /\ pc[u] = "link" => i > 1 /\ queue[lk[u]][i - 1] = pr[u]
        BY <2>2 DEF IInv, QueueMembers, WaitersAreQueued
      <4> QED BY <3>1, <4>1
    <3>3. (i > 1 => i - 1 \in 1..Size(k)) /\ i \in 1..Size(k)'
      BY <1>6, <3>1, <3>2
    <3>4. \E j \in 1..Size(k)' :
             /\ queue'[k][j] = nd[u]
             /\ locked[nd[u]] <=> j > 1
             /\ pc[u] = "link" => j > 1 /\ queue'[k][j - 1] = pr[u]
      BY <1>2, <3>2, <3>3
    <3> QED BY <3>1, <3>4
  <2> QED BY <1>4, <1>5, <2>1, <2>2 DEF WaitersAreQueued
<1>14. TailIsLast'
  <2>1. tail'[l] = n /\ \A k \in Locks \ {l} : tail'[k] = tail[k]
    BY DEF IInv, TypeOK, Types, Swap
  <2>2. tail'[l] = queue'[l][Size(l)'] /\ Size(l)' # 0
    BY <1>2, <1>6, <2>1
  <2>3. \A k \in Locks \ {l} :
          tail'[k] = IF Size(k)' = 0 THEN Null ELSE queue'[k][Size(k)']
    BY <1>2, <1>6, <2>1 DEF IInv, QueueLinks, TailIsLast
  <2> QED BY <2>2, <2>3 DEF TailIsLast
<1>15. \A m : Unlinked(m)' <=> Unlinked(m) \/ m = n
  BY <1>4 DEF Unlinked
<1>16. NextIsBehind'
  <2>1. next[n] = Null
    BY <1>4 DEF IInv, QueueLinks, UnpublishedIsFresh
  <2>2. ASSUME NEW k \in Locks, NEW i \in 1..Size(k)'
        PROVE  (next[queue[k][i]] =
                  IF i = Size(k) \/ Unlinked(queue[k][i + 1]) THEN Null
                                                            ELSE queue[k][i + 1])'
    <3>0. Size(k) \in Nat /\ Size(k)' \in Nat /\ Size(k)' >= Size(k) /\ i \in Nat
      BY <1>6
    <3>1. CASE k = l /\ i = Size(l) + 1
      BY <1>2, <1>4, <2>1, <3>1
    <3>2. CASE k = l /\ i = Size(l)
      <4>1. queue'[l][Size(l)] = queue[l][Size(l)] /\ next[queue[l][Size(l)]] = Null
        BY <1>1, <1>2 DEF IInv, QueueLinks, NextIsBehind
      <4>2. Unlinked(queue[k][i + 1])'
        BY <1>2, <1>4, <3>2 DEF Unlinked
      <4> QED BY <1>4, <3>2, <4>1, <4>2
    <3>3. CASE i \in 1..Size(k) /\ i # Size(k)
      <4>1. i + 1 \in 1..Size(k) /\ i # Size(k)'
        BY <3>0, <3>3
      <4>2. queue'[k][i] = queue[k][i] /\ queue'[k][i + 1] = queue[k][i + 1]
        BY <1>2, <3>3, <4>1
      <4>3. queue[k][i + 1] # n
        BY <1>3, <4>1
      <4>4. Unlinked(queue[k][i + 1])' <=> Unlinked(queue[k][i + 1])
        BY <1>4, <4>2, <4>3 DEF Unlinked
      <4> QED BY <1>4, <3>3, <4>1, <4>2, <4>4 DEF IInv, QueueLinks, NextIsBehind
    <3>4. CASE k # l /\ i = Size(k)
      BY <1>2, <1>4, <3>0, <3>4 DEF IInv, QueueLinks, NextIsBehind
    <3> QED BY <1>8, <3>1, <3>2, <3>3, <3>4
  <2> QED BY <1>4, <2>2 DEF NextIsBehind
<1>17. UnpublishedIsFresh'
  BY <1>4 DEF IInv, QueueLinks, UnpublishedIsFresh
<1>18. ReleaserSeesNext'
  BY <1>2, <1>4, <1>6, <1>7 DEF IInv, QueueLinks, ReleaserSeesNext, Releasing
<1> QED BY <1>9, <1>10, <1>11, <1>12, <1>13, <1>14, <1>16, <1>17, <1>18
        DEF QueueMembers, QueueLinks

LEMMA QueueSwap ==
    ASSUME IInv, NEW t \in Threads, Swap(t)
    PROVE  QueueMembers' /\ QueueLinks'
<1>1. PICK l \in Locks, n \in Nodes : l = lk[t] /\ n = nd[t]
  BY DEF IInv, TypeOK, Types, LocalsSet, Swap
<1>2. CASE tail[l] = Null
  BY <1>1, <1>2, QueueEnter DEF Swap
<1>3. CASE tail[l] # Null
  BY <1>1, <1>3, QueueSwapBehind
<1> QED BY <1>2, <1>3

LEMMA QueueTryCas ==
    ASSUME IInv, NEW t \in Threads, TryCas(t)
    PROVE  QueueMembers' /\ QueueLinks'
<1>1. PICK l \in Locks, n \in Nodes : l = lk[t] /\ n = nd[t]
  BY DEF IInv, TypeOK, Types, LocalsSet, TryCas
<1>2. CASE tail[l] = Null
  BY <1>1, <1>2, QueueEnter DEF TryCas
<1>3. CASE tail[l] # Null
  <2>1. /\ UNCHANGED <<tail, queue, guard, leaked, locked, next, lk, nd, pr, nx>>
        /\ pc[t] = "trycas" /\ pc'[t] = "tryreturn"
        /\ \A u \in Threads \ {t} : pc'[u] = pc[u]
    BY <1>1, <1>3 DEF IInv, TypeOK, Types, TryCas, Goto
  <2>2. \A u \in Threads :
          Waiting(u) \/ Releasing(u) \/ Waiting(u)' \/ Releasing(u)' => u # t
    BY <2>1 DEF Waiting, Releasing
  <2>3. \A u \in Threads :
          pc'[u] \in {"swap", "trycas"} => locked'[nd'[u]] /\ next'[nd'[u]] = Null
    BY <2>1 DEF IInv, QueueLinks, UnpublishedIsFresh
  <2> QED BY <2>1, <2>2, <2>3, QueueUntouched DEF IInv
<1> QED BY <1>2, <1>3

(* Where a waiting thread is.                                              *)
LEMMA WaiterPlace ==
    ASSUME IInv, NEW t \in Threads, Waiting(t)
    PROVE  \E l \in Locks, n \in Nodes : \E i \in 1..Size(l) :
              /\ l = lk[t] /\ n = nd[t] /\ queue[l][i] = n
              /\ locked[n] <=> i > 1
              /\ pc[t] = "link" => i > 1 /\ queue[l][i - 1] = pr[t]
<1>1. lk[t] \in Locks /\ nd[t] \in Nodes
  BY DEF IInv, TypeOK, Types, LocalsSet, Waiting
<1>2. \E i \in 1..Size(lk[t]) :
         /\ queue[lk[t]][i] = nd[t]
         /\ locked[nd[t]] <=> i > 1
         /\ pc[t] = "link" => i > 1 /\ queue[lk[t]][i - 1] = pr[t]
  BY DEF IInv, QueueMembers, WaitersAreQueued
<1> QED BY <1>1, <1>2

LEMMA QueueLink ==
    ASSUME IInv, NEW t \in Threads, Link(t)
    PROVE  QueueMembers' /\ QueueLinks'
<1>1. PICK l \in Locks, n \in Nodes : \E i \in 1..Size(l) :
             /\ l = lk[t] /\ n = nd[t] /\ queue[l][i] = n
             /\ locked[n] <=> i > 1
             /\ i > 1 /\ queue[l][i - 1] = pr[t]
  BY WaiterPlace DEF Waiting, Link
<1>2. PICK i \in 1..Size(l) :
             /\ l = lk[t] /\ n = nd[t] /\ queue[l][i] = n
             /\ locked[n] <=> i > 1
             /\ i > 1 /\ queue[l][i - 1] = pr[t]
  BY <1>1
<1>3. PICK p \in Nodes : p = pr[t]
  BY DEF IInv, TypeOK, Types, LocalsSet, Link
<1>4. i - 1 \in 1..Size(l) /\ i - 1 # Size(l) /\ (i - 1) + 1 = i
  BY <1>2, QueueElements DEF IInv
<1>5. /\ pc[t] = "link" /\ pc'[t] = "spin"
      /\ UNCHANGED <<tail, locked, lk, nd, nx, guard, leaked, queue>>
      /\ \A u \in Threads \ {t} : pr'[u] = pr[u] /\ pc'[u] = pc[u]
      /\ next'[p] = n /\ \A m \in Nodes \ {p} : next'[m] = next[m]
  BY <1>2, <1>3 DEF IInv, TypeOK, Types, Link, Goto
<1>6. /\ \A u \in Threads : Waiting(u)' <=> Waiting(u)
      /\ \A u \in Threads : Releasing(u)' <=> Releasing(u)
      /\ \A k \in Locks : Size(k)' = Size(k)
  BY <1>5 DEF Waiting, Releasing, Size
<1>7. \A u \in Threads, k \in Locks, m \in Nodes : Queues(u, k, m)' <=> Queues(u, k, m)
  BY <1>5, <1>6 DEF Queues
<1>8. next[p] = Null
  <2>1. Unlinked(queue[l][i])
    BY <1>2, <1>5 DEF Unlinked
  <2> QED BY <1>2, <1>3, <1>4, <2>1 DEF IInv, QueueLinks, NextIsBehind
<1>9. \A u \in Threads : Waiting(u) \/ Releasing(u) => lk[u] \in Locks
  BY DEF IInv, TypeOK, Types, LocalsSet, Waiting, Releasing
<1>10. QueuedOnce'
  BY <1>5, <1>6 DEF IInv, QueueMembers, QueuedOnce
<1>11. QueuedForSomeone'
  BY <1>5, <1>6, <1>7, QueueElements DEF IInv, QueueMembers, QueuedForSomeone
<1>12. GuardsAreFirst'
  BY <1>5, <1>6 DEF IInv, QueueMembers, GuardsAreFirst
<1>13. ReleasersAreFirst'
  BY <1>5, <1>6, <1>9 DEF IInv, QueueMembers, ReleasersAreFirst
<1>14. WaitersAreQueued'
  <2>1. ASSUME NEW u \in Threads, Waiting(u)
        PROVE  \E k \in Locks : k = lk[u] /\ \E j \in 1..Size(k) :
                  /\ queue[k][j] = nd[u]
                  /\ locked[nd[u]] <=> j > 1
                  /\ pc'[u] = "link" => j > 1 /\ queue[k][j - 1] = pr'[u]
    <3>1. PICK k \in Locks, m \in Nodes : \E j \in 1..Size(k) :
              /\ k = lk[u] /\ m = nd[u] /\ queue[k][j] = m
              /\ locked[m] <=> j > 1
              /\ pc[u] = "link" => j > 1 /\ queue[k][j - 1] = pr[u]
      BY <2>1, WaiterPlace
    <3> QED BY <1>5, <3>1
  <2> QED BY <1>5, <1>6, <2>1 DEF WaitersAreQueued
<1>15. TailIsLast'
  BY <1>5, <1>6 DEF IInv, QueueLinks, TailIsLast
<1>16. \A m \in Nodes : Unlinked(m)' <=> Unlinked(m) /\ m # n
  <2>1. \A u \in Threads : nd[u] = n => u = t
    BY <1>2 DEF IInv, Ownership, Owns
  <2> QED BY <1>2, <1>5, <2>1 DEF Unlinked
<1>17. NextIsBehind'
  <2>1. ASSUME NEW k \in Locks, NEW j \in 1..Size(k)
        PROVE  next'[queue[k][j]] =
                 IF j = Size(k) \/ Unlinked(queue[k][j + 1])' THEN Null ELSE queue[k][j + 1]
    <3>1. CASE queue[k][j] = p
      <4>1. k = l /\ j = i - 1
        BY <1>2, <1>3, <1>4, <3>1 DEF IInv, QueueMembers, QueuedOnce
      <4>2. queue[k][j + 1] = n /\ queue'[k][j + 1] = n
        BY <1>2, <1>4, <1>5, <4>1
      <4>3. ~Unlinked(queue[k][j + 1])'
        BY <1>16, <4>2 DEF Unlinked
      <4> QED BY <1>4, <1>5, <3>1, <4>1, <4>2, <4>3
    <3>2. CASE queue[k][j] # p
      <4>1. next'[queue[k][j]] = next[queue[k][j]]
        BY <1>5, <3>2, QueueElements DEF IInv
      <4>2. CASE j = Size(k)
        BY <4>1, <4>2 DEF IInv, QueueLinks, NextIsBehind
      <4>3. CASE j # Size(k)
        <5>1. j + 1 \in 1..Size(k) /\ queue[k][j + 1] \in Nodes
          BY <4>3, QueueElements DEF IInv
        <5>2. queue[k][j + 1] # n
          <6>1. queue[k][j + 1] = n => k = l /\ j + 1 = i
            BY <1>2, <5>1 DEF IInv, QueueMembers, QueuedOnce
          <6>2. k = l /\ j + 1 = i => queue[k][j] = p
            BY <1>2, <1>3
          <6> QED BY <3>2, <6>1, <6>2
        <5>3. Unlinked(queue[k][j + 1])' <=> Unlinked(queue[k][j + 1])
          BY <1>5, <1>16, <5>1, <5>2 DEF Unlinked
        <5> QED BY <4>1, <4>3, <5>3 DEF IInv, QueueLinks, NextIsBehind
      <4> QED BY <4>2, <4>3
    <3> QED BY <3>1, <3>2
  <2> QED BY <1>5, <1>6, <2>1 DEF NextIsBehind
<1>18. UnpublishedIsFresh'
  <2>1. \A u \in Threads : pc[u] \in {"swap", "trycas"} => nd[u] # p /\ nd[u] \in Nodes
    BY <1>2, <1>3, <1>4, QueuedNodes DEF IInv, TypeOK, Types, LocalsSet
  <2> QED BY <1>5, <2>1 DEF IInv, QueueLinks, UnpublishedIsFresh
<1>19. ReleaserSeesNext'
  <2>1. \A u \in Threads : pc[u] = "handoff" => nd[u] # p /\ nd[u] \in Nodes
    BY <1>8 DEF IInv, QueueLinks, ReleaserSeesNext, TypeOK, Types, LocalsSet
  <2> QED BY <1>5, <1>6, <1>9, <2>1 DEF IInv, QueueLinks, ReleaserSeesNext, Releasing
<1> QED BY <1>10, <1>11, <1>12, <1>13, <1>14, <1>15, <1>17, <1>18, <1>19
        DEF QueueMembers, QueueLinks

(* Steps that leave the queues alone, and every thread but t, which does   *)
(* not wait afterwards.                                                    *)
LEMMA QueueStays ==
    ASSUME TypeOK, QueueMembers, QueueLinks, NEW t \in Threads,
           UNCHANGED <<tail, queue, locked, next>>, leaked \subseteq leaked',
           \A u \in Threads \ {t} :
               /\ pc'[u] = pc[u] /\ nd'[u] = nd[u] /\ lk'[u] = lk[u]
               /\ pr'[u] = pr[u] /\ nx'[u] = nx[u] /\ guard'[u] = guard[u],
           pc[t] # "link", ~Waiting(t)', pc'[t] \notin {"swap", "trycas"},
           \A l \in Locks, n \in Nodes :
               Queues(t, l, n) =>
                   Queues(t, l, n)' \/ (n \in leaked' /\ queue[l][1] = n),
           \A l \in Locks, n \in Nodes :
               guard'[t][n] = l => Size(l) > 0 /\ queue[l][1] = n,
           Releasing(t)' =>
               lk'[t] \in Locks /\ Size(lk'[t]) > 0 /\ queue[lk'[t]][1] = nd'[t],
           pc'[t] = "relwait" => Size(lk'[t]) > 1,
           pc'[t] = "handoff" => nx'[t] = next[nd'[t]]
    PROVE  QueueMembers' /\ QueueLinks'
<1>1. \A l \in Locks : Size(l)' = Size(l)
  BY DEF Size
<1>2. \A u \in Threads \ {t} :
         (Waiting(u)' <=> Waiting(u)) /\ (Releasing(u)' <=> Releasing(u))
  BY DEF Waiting, Releasing
<1>3. \A u \in Threads \ {t}, l \in Locks, n \in Nodes : Queues(u, l, n)' <=> Queues(u, l, n)
  BY <1>2 DEF Queues
<1>4. \A u \in Threads : Waiting(u) \/ Releasing(u) => lk[u] \in Locks
  BY DEF TypeOK, Types, LocalsSet, Waiting, Releasing
<1>5. QueuedOnce'
  BY <1>1 DEF QueueMembers, QueuedOnce
<1>6. QueuedForSomeone'
  <2>1. ASSUME NEW l \in Locks, NEW i \in 1..Size(l)
        PROVE  (\E u \in Threads : Queues(u, l, queue[l][i])') \/ (i = 1 /\ queue[l][i] \in leaked')
    <3>1. queue[l][i] \in Nodes /\ 1 \in 1..Size(l)
      BY QueueElements
    <3>2. (\E u \in Threads : Queues(u, l, queue[l][i])) \/ (i = 1 /\ queue[l][i] \in leaked)
      BY DEF QueueMembers, QueuedForSomeone
    <3>3. queue[l][1] = queue[l][i] => i = 1
      BY <3>1 DEF QueueMembers, QueuedOnce
    <3>4. Queues(t, l, queue[l][i]) =>
             Queues(t, l, queue[l][i])' \/ (i = 1 /\ queue[l][i] \in leaked')
      <4>1. PICK n \in Nodes : n = queue[l][i]
        BY <3>1
      <4>2. Queues(t, l, n) => Queues(t, l, n)' \/ (n \in leaked' /\ queue[l][1] = n)
        OBVIOUS
      <4>3. n' = n /\ queue'[l][i] = n
        BY <4>1
      <4> QED BY <3>3, <4>1, <4>2, <4>3 DEF Queues
    <3>5. \A u \in Threads \ {t} : Queues(u, l, queue[l][i]) => Queues(u, l, queue[l][i])'
      BY <1>2, <3>1 DEF Queues
    <3> QED BY <3>2, <3>4, <3>5
  <2> QED BY <1>1, <2>1 DEF QueuedForSomeone
<1>7. GuardsAreFirst'
  BY <1>1 DEF QueueMembers, GuardsAreFirst
<1>8. ReleasersAreFirst'
  BY <1>1, <1>2, <1>4 DEF QueueMembers, ReleasersAreFirst
<1>9. WaitersAreQueued'
  <2> SUFFICES ASSUME NEW u \in Threads \ {t}, Waiting(u)
               PROVE  \E i \in 1..Size(lk[u]) :
                         /\ queue[lk[u]][i] = nd[u]
                         /\ locked[nd[u]] <=> i > 1
                         /\ pc[u] = "link" => i > 1 /\ queue[lk[u]][i - 1] = pr[u]
    BY <1>1, <1>2, <1>4 DEF WaitersAreQueued
  <2> QED BY DEF QueueMembers, WaitersAreQueued
<1>10. TailIsLast'
  BY <1>1 DEF QueueLinks, TailIsLast
<1>11. \A n : Unlinked(n)' <=> Unlinked(n)
  BY DEF Unlinked, Waiting
<1>12. NextIsBehind'
  BY <1>1, <1>11 DEF QueueLinks, NextIsBehind
<1>13. UnpublishedIsFresh'
  BY DEF QueueLinks, UnpublishedIsFresh
<1>14. ReleaserSeesNext'
  <2>1. \A u \in Threads : /\ pc'[u] = "relwait" => lk'[u] \in Locks /\ Size(lk'[u]) > 1
                           /\ pc'[u] = "handoff" => nx'[u] = next[nd'[u]]
    BY <1>4 DEF QueueLinks, ReleaserSeesNext, Releasing
  <2> QED BY <1>1, <2>1 DEF ReleaserSeesNext
<1> QED BY <1>5, <1>6, <1>7, <1>8, <1>9, <1>10, <1>12, <1>13, <1>14
        DEF QueueMembers, QueueLinks


LEMMA QueueSpinEnd ==
    ASSUME IInv, NEW t \in Threads, SpinEnd(t)
    PROVE  QueueMembers' /\ QueueLinks'
<1>1. PICK l \in Locks, n \in Nodes : \E i \in 1..Size(l) :
             /\ l = lk[t] /\ n = nd[t] /\ queue[l][i] = n
             /\ locked[n] <=> i > 1
  BY WaiterPlace DEF Waiting, SpinEnd
<1>2. l = lk[t] /\ n = nd[t] /\ Size(l) > 0 /\ queue[l][1] = n
  <2>1. PICK i \in 1..Size(l) : queue[l][i] = n /\ ~locked[n] /\ (locked[n] <=> i > 1)
    BY <1>1 DEF SpinEnd
  <2>2. Size(l) \in Nat /\ i \in Nat /\ i >= 1 /\ Size(l) >= i
    BY QueueElements DEF IInv
  <2>3. i = 1
    BY <2>1, <2>2
  <2> QED BY <1>1, <2>1, <2>2, <2>3
<1>3. /\ pc[t] = "spin" /\ pc'[t] = "idle"
      /\ LeaveWithGuard(t)
      /\ UNCHANGED <<tail, queue, locked, next, leaked>>
  BY DEF IInv, TypeOK, Types, SpinEnd, LeaveWithGuard, Leave, Goto, memory
<1>4. /\ \A u \in Threads, m \in Nodes :
            guard'[u][m] = IF u = t /\ m = n THEN l ELSE guard[u][m]
      /\ \A u \in Threads \ {t} : /\ nd'[u] = nd[u] /\ lk'[u] = lk[u] /\ pr'[u] = pr[u]
                                  /\ nx'[u] = nx[u] /\ pc'[u] = pc[u]
  BY <1>2, <1>3, GuardGained DEF IInv
<1>5. \A u \in Threads \ {t} : guard'[u] = guard[u]
  BY <1>3 DEF IInv, TypeOK, Types, LeaveWithGuard
<1>6. ~Waiting(t)' /\ ~Releasing(t)'
  BY <1>3 DEF Waiting, Releasing
<1>7. \A k \in Locks, m \in Nodes : Queues(t, k, m) => Queues(t, k, m)'
  <2>1. guard[t][n] = Null
    BY <1>2, NullAssumption DEF IInv, Ownership
  <2> QED BY <1>2, <1>3, <1>4, <2>1, NullAssumption DEF Queues
<1>8. \A k \in Locks, m \in Nodes :
         guard'[t][m] = k => Size(k) > 0 /\ queue[k][1] = m
  BY <1>2, <1>4 DEF IInv, QueueMembers, GuardsAreFirst
<1>9. \A u \in Threads \ {t} : /\ pc'[u] = pc[u] /\ nd'[u] = nd[u] /\ lk'[u] = lk[u]
         /\ pr'[u] = pr[u] /\ nx'[u] = nx[u] /\ guard'[u] = guard[u]
  BY <1>4, <1>5
<1> QED BY <1>3, <1>6, <1>7, <1>8, <1>9, QueueStays DEF IInv

LEMMA QueueDropBegin ==
    ASSUME IInv, NEW t \in Threads, NEW n \in Nodes, DropBegin(t, n)
    PROVE  QueueMembers' /\ QueueLinks'
<1>1. PICK l \in Locks : l = guard[t][n]
  BY DEF IInv, TypeOK, Types, DropBegin
<1>2. /\ pc[t] = "idle" /\ pc'[t] = "relload" /\ lk'[t] = l /\ nd'[t] = n
      /\ UNCHANGED <<tail, queue, locked, next, leaked, pr, nx>>
      /\ \A u \in Threads \ {t} : /\ pc'[u] = pc[u] /\ nd'[u] = nd[u] /\ lk'[u] = lk[u]
                                  /\ guard'[u] = guard[u]
  BY <1>1 DEF IInv, TypeOK, Types, DropBegin, Goto, memory
<1>3. \A m \in Nodes : guard'[t][m] = IF m = n THEN Null ELSE guard[t][m]
  BY DEF IInv, TypeOK, Types, DropBegin
<1>4. ~Waiting(t) /\ ~Waiting(t)' /\ ~Releasing(t) /\ Releasing(t)'
  BY <1>2 DEF Waiting, Releasing
<1>5. Size(l) > 0 /\ queue[l][1] = n
  BY <1>1 DEF IInv, QueueMembers, GuardsAreFirst
<1>6. \A k \in Locks, m \in Nodes : Queues(t, k, m) => Queues(t, k, m)'
  BY <1>1, <1>2, <1>3, <1>4 DEF Queues
<1>7. \A k \in Locks, m \in Nodes :
         guard'[t][m] = k => Size(k) > 0 /\ queue[k][1] = m
  BY <1>3, NullAssumption DEF IInv, QueueMembers, GuardsAreFirst
<1>8. \A u \in Threads \ {t} : /\ pc'[u] = pc[u] /\ nd'[u] = nd[u] /\ lk'[u] = lk[u]
         /\ pr'[u] = pr[u] /\ nx'[u] = nx[u] /\ guard'[u] = guard[u]
  BY <1>2
<1> QED BY <1>2, <1>4, <1>5, <1>6, <1>7, <1>8, QueueStays DEF IInv

LEMMA QueueRelLoad ==
    ASSUME IInv, NEW t \in Threads, RelLoad(t) \/ RelWait(t)
    PROVE  QueueMembers' /\ QueueLinks'
<1>1. /\ pc[t] \in {"relload", "relwait"} /\ pc'[t] \in {"relcas", "handoff"}
      /\ nx'[t] = next[nd[t]]
      /\ UNCHANGED <<tail, queue, locked, next, leaked, lk, nd, pr, guard>>
      /\ \A u \in Threads \ {t} : pc'[u] = pc[u] /\ nx'[u] = nx[u]
  BY DEF IInv, TypeOK, Types, RelLoad, RelWait, Goto, memory
<1>2. ~Waiting(t)' /\ Releasing(t) /\ Releasing(t)'
  BY <1>1 DEF Waiting, Releasing
<1>3. lk[t] \in Locks /\ Size(lk[t]) > 0 /\ queue[lk[t]][1] = nd[t]
  BY <1>2 DEF IInv, TypeOK, Types, LocalsSet, Releasing, QueueMembers, ReleasersAreFirst
<1>4. \A k \in Locks, m \in Nodes : Queues(t, k, m) => Queues(t, k, m)'
  BY <1>1, <1>2 DEF Queues
<1>5. \A k \in Locks, m \in Nodes :
         guard'[t][m] = k => Size(k) > 0 /\ queue[k][1] = m
  BY <1>1 DEF IInv, QueueMembers, GuardsAreFirst
<1>6. \A u \in Threads \ {t} : /\ pc'[u] = pc[u] /\ nd'[u] = nd[u] /\ lk'[u] = lk[u]
         /\ pr'[u] = pr[u] /\ nx'[u] = nx[u] /\ guard'[u] = guard[u]
  BY <1>1
<1>7. lk'[t] \in Locks /\ Size(lk'[t]) > 0 /\ queue[lk'[t]][1] = nd'[t]
  BY <1>1, <1>3
<1>8. nx'[t] = next[nd'[t]]
  BY <1>1
<1>9. pc[t] # "link" /\ pc'[t] \notin {"swap", "trycas", "relwait"} /\ leaked \subseteq leaked'
  BY <1>1
<1> QED BY <1>1, <1>2, <1>4, <1>5, <1>6, <1>7, <1>8, <1>9, QueueStays DEF IInv

LEMMA QueueForget ==
    ASSUME IInv, NEW t \in Threads, NEW n \in Nodes, Forget(t, n)
    PROVE  QueueMembers' /\ QueueLinks'
<1>1. /\ pc[t] = "idle" /\ leaked' = leaked \cup {n}
      /\ UNCHANGED <<tail, queue, locked, next, pc, lk, nd, pr, nx>>
      /\ \A u \in Threads \ {t} : guard'[u] = guard[u]
      /\ \A m \in Nodes : guard'[t][m] = IF m = n THEN Null ELSE guard[t][m]
  BY DEF IInv, TypeOK, Types, Forget, memory, locals
<1>2. ~Waiting(t)' /\ ~Releasing(t) /\ ~Releasing(t)'
  BY <1>1 DEF Waiting, Releasing
<1>3. \A k \in Locks, m \in Nodes :
         Queues(t, k, m) => Queues(t, k, m)' \/ (m \in leaked' /\ queue[k][1] = m)
  <2> SUFFICES ASSUME NEW k \in Locks, NEW m \in Nodes, Queues(t, k, m)
               PROVE  Queues(t, k, m)' \/ (m \in leaked' /\ queue[k][1] = m)
    OBVIOUS
  <2>1. guard[t][m] = k
    BY <1>1, <1>2, Z3 DEF Queues, Waiting
  <2>2. queue[k][1] = m
    BY <2>1 DEF IInv, QueueMembers, GuardsAreFirst
  <2>3. m # n => guard'[t][m] = k
    BY <1>1, <2>1
  <2> QED BY <1>1, <2>2, <2>3 DEF Queues
<1>4. \A k \in Locks, m \in Nodes :
         guard'[t][m] = k => Size(k) > 0 /\ queue[k][1] = m
  BY <1>1, NullAssumption DEF IInv, QueueMembers, GuardsAreFirst
<1>5. \A u \in Threads \ {t} : /\ pc'[u] = pc[u] /\ nd'[u] = nd[u] /\ lk'[u] = lk[u]
         /\ pr'[u] = pr[u] /\ nx'[u] = nx[u] /\ guard'[u] = guard[u]
  BY <1>1
<1> QED BY <1>1, <1>2, <1>3, <1>4, <1>5, QueueStays DEF IInv


(* Steps after which a queue nobody else is in is empty.                   *)
LEMMA QueueEmptied ==
    ASSUME TypeOK, QueueMembers, QueueLinks, NEW l \in Locks,
           tail' = [tail EXCEPT ![l] = Null],
           queue' = [queue EXCEPT ![l] = <<>>],
           UNCHANGED <<guard, locked, next, leaked, nd, lk, pr, nx>>,
           \A u \in Threads :
               pc'[u] = pc[u] \/ (pc[u] = "relcas" /\ pc'[u] = "return" /\ lk[u] = l),
           \A u \in Threads : Waiting(u)' \/ Releasing(u)' => lk[u] # l,
           \A u \in Threads, n \in Nodes : guard[u][n] # l
    PROVE  QueueMembers' /\ QueueLinks'
<1>1. /\ tail'[l] = Null /\ \A k \in Locks \ {l} : tail'[k] = tail[k]
      /\ queue'[l] = <<>> /\ \A k \in Locks \ {l} : queue'[k] = queue[k]
  BY DEF TypeOK, Types
<1>2. Size(l)' = 0 /\ \A k \in Locks \ {l} : Size(k)' = Size(k)
  BY <1>1 DEF Size
<1>3. \A i \in 1..Size(l)' : FALSE
  BY <1>2
<1>4. \A u \in Threads :
         /\ Waiting(u)' => Waiting(u) /\ lk[u] \in Locks \ {l} /\ pc'[u] = pc[u]
         /\ Releasing(u)' => Releasing(u) /\ lk[u] \in Locks \ {l} /\ pc'[u] = pc[u]
         /\ (Waiting(u) \/ Releasing(u)) /\ lk[u] # l => pc'[u] = pc[u]
  BY DEF TypeOK, Types, LocalsSet, Waiting, Releasing
<1>5. \A u \in Threads, n \in Nodes : \A k \in Locks \ {l} :
         Queues(u, k, n) => Queues(u, k, n)'
  BY <1>4 DEF Queues, Waiting, Releasing
<1>6. QueuedOnce'
  BY <1>1, <1>2, <1>3 DEF QueueMembers, QueuedOnce
<1>7. QueuedForSomeone'
  <2>1. ASSUME NEW k \in Locks \ {l}, NEW i \in 1..Size(k)
        PROVE  (\E u \in Threads : Queues(u, k, queue[k][i])') \/ (i = 1 /\ queue[k][i] \in leaked')
    <3>1. PICK n \in Nodes : n = queue[k][i] /\ n = queue'[k][i]
      BY <1>1, QueueElements
    <3>2. (\E u \in Threads : Queues(u, k, n)) \/ (i = 1 /\ n \in leaked)
      BY <3>1 DEF QueueMembers, QueuedForSomeone
    <3>3. (\E u \in Threads : Queues(u, k, n)') \/ (i = 1 /\ n \in leaked')
      BY <1>5, <3>2
    <3> QED BY <3>1, <3>3 DEF Queues
  <2> QED BY <1>2, <1>3, <2>1 DEF QueuedForSomeone
<1>8. GuardsAreFirst'
  BY <1>1, <1>2 DEF QueueMembers, GuardsAreFirst
<1>9. ReleasersAreFirst'
  BY <1>1, <1>2, <1>4 DEF QueueMembers, ReleasersAreFirst
<1>10. WaitersAreQueued'
  BY <1>1, <1>2, <1>4 DEF QueueMembers, WaitersAreQueued
<1>11. TailIsLast'
  BY <1>1, <1>2 DEF QueueLinks, TailIsLast
<1>12. \A n : Unlinked(n)' <=> Unlinked(n)
  BY DEF Unlinked
<1>13. NextIsBehind'
  BY <1>1, <1>2, <1>3, <1>12 DEF QueueLinks, NextIsBehind
<1>14. UnpublishedIsFresh'
  BY DEF QueueLinks, UnpublishedIsFresh
<1>15. ReleaserSeesNext'
  BY <1>2, <1>4 DEF QueueLinks, ReleaserSeesNext, Releasing
<1> QED BY <1>6, <1>7, <1>8, <1>9, <1>10, <1>11, <1>13, <1>14, <1>15
        DEF QueueMembers, QueueLinks

LEMMA QueueIntoInner ==
    ASSUME IInv, NEW l \in Locks, IntoInner(l)
    PROVE  QueueMembers' /\ QueueLinks'
<1>1. /\ tail' = [tail EXCEPT ![l] = Null]
      /\ queue' = [queue EXCEPT ![l] = <<>>]
      /\ UNCHANGED <<guard, locked, next, leaked, nd, lk, pr, nx, pc>>
  BY DEF IntoInner, locals
<1>2. \A u \in Threads : lk[u] # l /\ \A n \in Nodes : guard[u][n] # l
  BY DEF IntoInner, Unborrowed, Holds
<1> QED BY <1>1, <1>2, QueueEmptied DEF IInv

(* A releaser is alone at the head of its lock's queue.                    *)
LEMMA ReleaserAlone ==
    ASSUME IInv, NEW t \in Threads, Releasing(t)
    PROVE  \E l \in Locks, n \in Nodes :
              /\ l = lk[t] /\ n = nd[t]
              /\ Size(l) > 0 /\ 1 \in 1..Size(l) /\ queue[l][1] = n
              /\ \A u \in Threads, m \in Nodes : guard[u][m] # l
              /\ \A u \in Threads \ {t} : Releasing(u) => lk[u] # l
              /\ \A u \in Threads \ {t} : nd[u] # n
<1>1. PICK l \in Locks, n \in Nodes : l = lk[t] /\ n = nd[t]
  BY DEF IInv, TypeOK, Types, LocalsSet, Releasing
<1>2. Size(l) > 0 /\ 1 \in 1..Size(l) /\ queue[l][1] = n
  BY <1>1, QueueElements DEF IInv, QueueMembers, ReleasersAreFirst
<1>3. guard[t][n] = Null /\ Owns(t, n)
  BY <1>1, NullAssumption DEF IInv, Ownership, Owns
<1>4. \A u \in Threads : Owns(u, n) => u = t
  BY <1>3 DEF IInv, Ownership
<1>5. \A u \in Threads, m \in Nodes : guard[u][m] # l
  <2>1. ASSUME NEW u \in Threads, NEW m \in Nodes, guard[u][m] = l PROVE FALSE
    <3>1. m = n
      BY <1>2, <2>1 DEF IInv, QueueMembers, GuardsAreFirst
    <3>2. u = t
      BY <1>4, <2>1, <3>1, NullAssumption DEF Owns
    <3> QED BY <1>3, <2>1, <3>1, <3>2, NullAssumption
  <2> QED BY <2>1
<1>6. \A u \in Threads \ {t} : nd[u] # n
  BY <1>4 DEF Owns
<1>7. \A u \in Threads \ {t} : Releasing(u) => lk[u] # l
  BY <1>2, <1>6 DEF IInv, QueueMembers, ReleasersAreFirst
<1> QED BY <1>1, <1>2, <1>5, <1>6, <1>7

LEMMA QueueRelCas ==
    ASSUME IInv, NEW t \in Threads, RelCas(t)
    PROVE  QueueMembers' /\ QueueLinks'
<1>1. PICK l \in Locks, n \in Nodes :
              /\ l = lk[t] /\ n = nd[t]
              /\ Size(l) > 0 /\ 1 \in 1..Size(l) /\ queue[l][1] = n
              /\ \A u \in Threads, m \in Nodes : guard[u][m] # l
              /\ \A u \in Threads \ {t} : Releasing(u) => lk[u] # l
              /\ \A u \in Threads \ {t} : nd[u] # n
  BY ReleaserAlone DEF Releasing, RelCas
<1>2. Size(l) \in Nat /\ Size(l) \in 1..Size(l) /\ tail[l] = queue[l][Size(l)]
  BY <1>1, QueueElements DEF IInv, QueueLinks, TailIsLast
<1>3. pc[t] = "relcas" /\ UNCHANGED <<guard, locked, next, leaked, nd, lk, pr, nx>>
  BY DEF RelCas
<1>4. CASE tail[l] = n
  <2>1. /\ tail' = [tail EXCEPT ![l] = Null]
        /\ queue' = [queue EXCEPT ![l] = <<>>]
        /\ pc'[t] = "return" /\ \A u \in Threads \ {t} : pc'[u] = pc[u]
    BY <1>1, <1>4 DEF IInv, TypeOK, Types, RelCas, Goto
  <2>2. Size(l) = 1
    <3>1. \A i, j \in 1..Size(l) : queue[l][i] = queue[l][j] => i = j
      BY DEF IInv, QueueMembers, QueuedOnce
    <3> QED BY <1>1, <1>2, <1>4, <3>1
  <2>3. \A u \in Threads : Waiting(u) => lk[u] # l
    <3>1. ASSUME NEW u \in Threads, Waiting(u), lk[u] = l PROVE FALSE
      <4>1. PICK i \in 1..Size(l) : queue[l][i] = nd[u]
        BY <3>1 DEF IInv, QueueMembers, WaitersAreQueued
      <4>2. i = 1
        BY <2>2
      <4>3. u # t
        BY <1>3, <3>1 DEF Waiting
      <4> QED BY <1>1, <4>1, <4>2, <4>3
    <3> QED BY <3>1
  <2>4. \A u \in Threads : Waiting(u)' \/ Releasing(u)' => lk[u] # l
    <3>1. ~Waiting(t)' /\ ~Releasing(t)'
      BY <2>1 DEF Waiting, Releasing
    <3>2. \A u \in Threads \ {t} : Waiting(u)' \/ Releasing(u)' => Waiting(u) \/ Releasing(u)
      BY <2>1 DEF Waiting, Releasing
    <3> QED BY <1>1, <2>3, <3>1, <3>2
  <2>5. \A u \in Threads :
           pc'[u] = pc[u] \/ (pc[u] = "relcas" /\ pc'[u] = "return" /\ lk[u] = l)
    BY <1>1, <1>3, <2>1
  <2> QED BY <1>1, <1>3, <2>1, <2>4, <2>5, QueueEmptied DEF IInv
<1>5. CASE tail[l] # n
  <2>1. /\ UNCHANGED <<tail, queue>>
        /\ pc'[t] = "relwait" /\ \A u \in Threads \ {t} : pc'[u] = pc[u]
    BY <1>1, <1>5 DEF IInv, TypeOK, Types, RelCas, Goto
  <2>2. Size(l) > 1
    BY <1>1, <1>2, <1>5
  <2>3. ~Waiting(t)' /\ Releasing(t) /\ Releasing(t)'
    BY <1>3, <2>1 DEF Waiting, Releasing
  <2>4. \A k \in Locks, m \in Nodes : Queues(t, k, m) => Queues(t, k, m)'
    BY <1>3, <2>3 DEF Queues
  <2>5. \A k \in Locks, m \in Nodes :
           guard'[t][m] = k => Size(k) > 0 /\ queue[k][1] = m
    BY <1>3 DEF IInv, QueueMembers, GuardsAreFirst
  <2>6. lk'[t] \in Locks /\ Size(lk'[t]) > 1 /\ Size(lk'[t]) > 0 /\ queue[lk'[t]][1] = nd'[t]
    BY <1>1, <1>3, <2>2
  <2>7. \A u \in Threads \ {t} : /\ pc'[u] = pc[u] /\ nd'[u] = nd[u] /\ lk'[u] = lk[u]
           /\ pr'[u] = pr[u] /\ nx'[u] = nx[u] /\ guard'[u] = guard[u]
    BY <1>3, <2>1
  <2> QED BY <1>3, <2>1, <2>3, <2>4, <2>5, <2>6, <2>7, QueueStays DEF IInv
<1> QED BY <1>4, <1>5


(* The successor a handoff wakes: second in the queue, and spinning.       *)
LEMMA HandoffPlace ==
    ASSUME IInv, NEW t \in Threads, pc[t] = "handoff"
    PROVE  \E l \in Locks, n, s \in Nodes :
              /\ l = lk[t] /\ n = nd[t] /\ s = nx[t]
              /\ Size(l) > 1 /\ queue[l][1] = n /\ queue[l][2] = s
              /\ \A u \in Threads, m \in Nodes : guard[u][m] # l
              /\ \A u \in Threads \ {t} : Releasing(u) => lk[u] # l
              /\ \A u \in Threads \ {t} : nd[u] # n
              /\ ~Unlinked(s)
              /\ \E w \in Threads : pc[w] = "spin" /\ nd[w] = s
<1>1. PICK l \in Locks, n \in Nodes :
              /\ l = lk[t] /\ n = nd[t]
              /\ Size(l) > 0 /\ 1 \in 1..Size(l) /\ queue[l][1] = n
              /\ \A u \in Threads, m \in Nodes : guard[u][m] # l
              /\ \A u \in Threads \ {t} : Releasing(u) => lk[u] # l
              /\ \A u \in Threads \ {t} : nd[u] # n
  BY ReleaserAlone DEF Releasing
<1>2. PICK s \in Nodes : s = nx[t]
  BY DEF IInv, TypeOK, Types, LocalsSet
<1>3. next[n] = s
  BY <1>1, <1>2 DEF IInv, QueueLinks, ReleaserSeesNext
<1>4. next[queue[l][1]] = IF 1 = Size(l) \/ Unlinked(queue[l][1 + 1]) THEN Null
                                                                     ELSE queue[l][1 + 1]
  BY <1>1 DEF IInv, QueueLinks, NextIsBehind
<1>5. Size(l) # 1 /\ queue[l][2] = s /\ ~Unlinked(queue[l][2])
  BY <1>1, <1>3, <1>4, NullAssumption
<1>6. Size(l) > 1 /\ 2 \in 1..Size(l)
  BY <1>1, <1>5, QueueElements DEF IInv
<1>7. s # n
  <2>1. \A i, j \in 1..Size(l) : queue[l][i] = queue[l][j] => i = j
    BY DEF IInv, QueueMembers, QueuedOnce
  <2> QED BY <1>1, <1>5, <1>6, <2>1
<1>8. ~Unlinked(s)
  BY <1>5 DEF Unlinked
<1>9. \E w \in Threads : pc[w] = "spin" /\ nd[w] = s
  <2>1. \E w \in Threads : Queues(w, l, queue[l][2])
    BY <1>6 DEF IInv, QueueMembers, QueuedForSomeone
  <2>2. PICK w \in Threads : Queues(w, l, s)
    BY <1>5, <2>1 DEF Queues
  <2>3. nd[w] = s /\ lk[w] = l /\ (Waiting(w) \/ Releasing(w))
    BY <1>1, <2>2 DEF Queues
  <2>4. w # t
    BY <1>1, <1>7, <2>3
  <2>5. Waiting(w) /\ pc[w] # "link"
    BY <1>1, <1>8, <2>3, <2>4 DEF Unlinked
  <2> QED BY <2>3, <2>5 DEF Waiting
<1> QED BY <1>1, <1>2, <1>5, <1>6, <1>8, <1>9

LEMMA QueueHandoff ==
    ASSUME IInv, NEW t \in Threads, Handoff(t)
    PROVE  QueueMembers' /\ QueueLinks'
<1>1. PICK l \in Locks, n \in Nodes, s \in Nodes :
              /\ l = lk[t] /\ n = nd[t] /\ s = nx[t]
              /\ Size(l) > 1 /\ queue[l][1] = n /\ queue[l][2] = s
              /\ \A u \in Threads, m \in Nodes : guard[u][m] # l
              /\ \A u \in Threads \ {t} : Releasing(u) => lk[u] # l
              /\ \A u \in Threads \ {t} : nd[u] # n
              /\ ~Unlinked(s)
  BY HandoffPlace DEF Handoff
<1>2. /\ Size(l)' = Size(l) - 1
      /\ \A i \in 1..(Size(l) - 1) : queue'[l][i] = queue[l][i + 1]
      /\ \A k \in Locks \ {l} : queue'[k] = queue[k] /\ Size(k)' = Size(k)
  <2>1. Size(l) > 0 /\ queue' = [queue EXCEPT ![l] = Tail(@)]
    <3>1. Size(l) \in Nat
      BY QueueElements DEF IInv
    <3> QED BY <1>1, <3>1 DEF Handoff
  <2> QED BY <2>1, QueueTail DEF IInv
<1>3. /\ pc[t] = "handoff" /\ pc'[t] = "return"
      /\ UNCHANGED <<tail, next, lk, nd, pr, guard, leaked>>
      /\ \A u \in Threads \ {t} : pc'[u] = pc[u] /\ nx'[u] = nx[u]
      /\ ~locked'[s] /\ \A m \in Nodes \ {s} : locked'[m] = locked[m]
  BY <1>1 DEF IInv, TypeOK, Types, Handoff, Goto
<1>4. /\ ~Waiting(t) /\ ~Waiting(t)' /\ ~Releasing(t)'
      /\ \A u \in Threads \ {t} :
            (Waiting(u)' <=> Waiting(u)) /\ (Releasing(u)' <=> Releasing(u))
  BY <1>3 DEF Waiting, Releasing
<1>5. \A u \in Threads : Waiting(u) \/ Releasing(u) => lk[u] \in Locks
  BY DEF IInv, TypeOK, Types, LocalsSet, Waiting, Releasing
<1>6. \A k \in Locks : Size(k) \in Nat
  BY QueueElements DEF IInv
<1>7. \A i \in 1..Size(l)' : i + 1 \in 1..Size(l) /\ queue'[l][i] = queue[l][i + 1]
  BY <1>2, <1>6
<1>8. \A i, j \in 1..Size(l) : queue[l][i] = queue[l][j] => i = j
  BY DEF IInv, QueueMembers, QueuedOnce
<1>9. 1 \in 1..Size(l) /\ 2 \in 1..Size(l)
  BY <1>1, <1>6
<1>10. QueuedOnce'
  <2> SUFFICES ASSUME NEW j \in Locks, NEW k \in Locks,
                      NEW h \in 1..Size(j)', NEW i \in 1..Size(k)',
                      queue'[j][h] = queue'[k][i]
               PROVE  j = k /\ h = i
    BY DEF QueuedOnce
  <2>1. CASE j = l /\ k = l
    BY <1>7, <1>8, <2>1
  <2>2. CASE j = l /\ k # l
    BY <1>2, <1>7, <2>2 DEF IInv, QueueMembers, QueuedOnce
  <2>3. CASE j # l /\ k = l
    BY <1>2, <1>7, <2>3 DEF IInv, QueueMembers, QueuedOnce
  <2>4. CASE j # l /\ k # l
    BY <1>2, <2>4 DEF IInv, QueueMembers, QueuedOnce
  <2> QED BY <2>1, <2>2, <2>3, <2>4
<1>11. QueuedForSomeone'
  <2>1. ASSUME NEW k \in Locks \ {l}, NEW i \in 1..Size(k)
        PROVE  (\E u \in Threads : Queues(u, k, queue[k][i])') \/ (i = 1 /\ queue'[k][i] \in leaked')
    <3>1. PICK m \in Nodes : m = queue[k][i] /\ m = queue'[k][i]
      BY <1>2, QueueElements DEF IInv
    <3>2. (\E u \in Threads : Queues(u, k, m)) \/ (i = 1 /\ m \in leaked)
      BY <3>1 DEF IInv, QueueMembers, QueuedForSomeone
    <3>3. \A u \in Threads : Queues(u, k, m) => Queues(u, k, m)'
      BY <1>1, <1>3, <1>4 DEF Queues
    <3> QED BY <1>3, <3>1, <3>2, <3>3 DEF Queues
  <2>2. ASSUME NEW i \in 1..Size(l)'
        PROVE  \E u \in Threads : Queues(u, l, queue[l][i])'
    <3>1. PICK m \in Nodes : m = queue[l][i + 1] /\ m = queue'[l][i]
      BY <1>7, QueueElements DEF IInv
    <3>2. i + 1 \in 1..Size(l) /\ i + 1 # 1
      BY <1>7
    <3>3. PICK u \in Threads : Queues(u, l, m)
      BY <3>1, <3>2 DEF IInv, QueueMembers, QueuedForSomeone
    <3>4. m # n
      BY <1>1, <1>8, <1>9, <3>1, <3>2
    <3>5. Queues(u, l, m)'
      BY <1>1, <1>3, <1>4, <3>3, <3>4 DEF Queues
    <3> QED BY <3>1, <3>5 DEF Queues
  <2> QED BY <1>2, <2>1, <2>2 DEF QueuedForSomeone
<1>12. GuardsAreFirst'
  BY <1>1, <1>2, <1>3 DEF IInv, QueueMembers, GuardsAreFirst
<1>13. ReleasersAreFirst'
  BY <1>1, <1>2, <1>3, <1>4, <1>5 DEF IInv, QueueMembers, ReleasersAreFirst
<1>14. WaitersAreQueued'
  <2>1. ASSUME NEW u \in Threads, Waiting(u)
        PROVE  \E k \in Locks : k = lk[u] /\ \E i \in 1..Size(k)' :
                  /\ queue'[k][i] = nd[u]
                  /\ locked'[nd[u]] <=> i > 1
                  /\ pc[u] = "link" => i > 1 /\ queue'[k][i - 1] = pr[u]
    <3>1. PICK k \in Locks, m \in Nodes : \E i \in 1..Size(k) :
              /\ k = lk[u] /\ m = nd[u] /\ queue[k][i] = m
              /\ locked[m] <=> i > 1
              /\ pc[u] = "link" => i > 1 /\ queue[k][i - 1] = pr[u]
      BY <2>1, WaiterPlace
    <3>2. PICK i \in 1..Size(k) :
              /\ k = lk[u] /\ m = nd[u] /\ queue[k][i] = m
              /\ locked[m] <=> i > 1
              /\ pc[u] = "link" => i > 1 /\ queue[k][i - 1] = pr[u]
      BY <3>1
    <3>3. CASE k # l
      <4>1. m # s
        BY <1>1, <1>9, <3>2, <3>3 DEF IInv, QueueMembers, QueuedOnce
      <4> QED BY <1>2, <1>3, <3>2, <3>3, <4>1
    <3>4. CASE k = l
      <4>1. u # t /\ m # n
        BY <1>1, <1>4, <2>1, <3>2
      <4>2. i # 1
        BY <1>1, <3>2, <3>4, <4>1
      <4>3. /\ i - 1 \in 1..Size(l)' /\ queue'[l][i - 1] = m
            /\ i > 1 /\ (i - 1 > 1 <=> i # 2)
        <5>1. i - 1 \in 1..(Size(l) - 1) /\ (i - 1) + 1 = i /\ i > 1
          BY <1>6, <3>4, <4>2
        <5> QED BY <1>2, <3>2, <3>4, <5>1
      <4>4. locked'[m] <=> i # 2
        BY <1>1, <1>3, <1>8, <1>9, <3>2, <3>4, <4>3
      <4>5. pc[u] = "link" => i - 1 > 1 /\ queue'[l][(i - 1) - 1] = pr[u]
        <5> SUFFICES ASSUME pc[u] = "link"
                     PROVE  i - 1 > 1 /\ queue'[l][(i - 1) - 1] = pr[u]
          OBVIOUS
        <5>1. i # 2
          BY <1>1, <3>2, <3>4 DEF Unlinked
        <5>2. (i - 1) - 1 \in 1..Size(l)' /\ ((i - 1) - 1) + 1 = i - 1
          BY <1>2, <1>6, <3>4, <4>3, <5>1
        <5> QED BY <1>7, <3>2, <3>4, <4>3, <5>1, <5>2
      <4> QED BY <3>2, <3>4, <4>3, <4>4, <4>5
    <3> QED BY <3>3, <3>4
  <2> QED BY <1>3, <1>4, <2>1 DEF WaitersAreQueued
<1>15. TailIsLast'
  <2>1. tail'[l] = queue'[l][Size(l)'] /\ Size(l)' # 0
    <3>1. Size(l)' \in 1..Size(l)' /\ Size(l)' + 1 = Size(l)
      BY <1>1, <1>2, <1>6
    <3>2. tail[l] = queue[l][Size(l)]
      BY <1>1 DEF IInv, QueueLinks, TailIsLast
    <3> QED BY <1>1, <1>2, <1>3, <1>6, <1>7, <3>1, <3>2
  <2>2. \A k \in Locks \ {l} :
          tail'[k] = IF Size(k)' = 0 THEN Null ELSE queue'[k][Size(k)']
    BY <1>2, <1>3 DEF IInv, QueueLinks, TailIsLast
  <2> QED BY <2>1, <2>2 DEF TailIsLast
<1>16. \A m : Unlinked(m)' <=> Unlinked(m)
  BY <1>3 DEF Unlinked
<1>17. NextIsBehind'
  <2>1. ASSUME NEW i \in 1..Size(l)'
        PROVE  next'[queue'[l][i]] =
                 IF i = Size(l)' \/ Unlinked(queue[l][i + 1])' THEN Null ELSE queue'[l][i + 1]
    <3>1. /\ i + 1 \in 1..Size(l) /\ queue'[l][i] = queue[l][i + 1]
          /\ (i = Size(l)' <=> i + 1 = Size(l))
      BY <1>2, <1>6, <1>7
    <3>2. next[queue[l][i + 1]] =
             IF i + 1 = Size(l) \/ Unlinked(queue[l][(i + 1) + 1]) THEN Null
                                                                 ELSE queue[l][(i + 1) + 1]
      BY <3>1 DEF IInv, QueueLinks, NextIsBehind
    <3>3. i # Size(l)' => queue'[l][i + 1] = queue[l][(i + 1) + 1]
      <4>1. i # Size(l)' => i + 1 \in 1..Size(l)'
        BY <1>2, <1>6
      <4> QED BY <1>7, <4>1
    <3>4. i # Size(l)' => (Unlinked(queue[l][i + 1])' <=> Unlinked(queue[l][(i + 1) + 1]))
      BY <1>3, <3>3 DEF Unlinked
    <3> QED BY <1>3, <3>1, <3>2, <3>3, <3>4
  <2>2. ASSUME NEW k \in Locks \ {l}, NEW i \in 1..Size(k)
        PROVE  next'[queue'[k][i]] =
                 IF i = Size(k) \/ Unlinked(queue[k][i + 1])' THEN Null ELSE queue'[k][i + 1]
    <3>1. /\ queue'[k][i] = queue[k][i] /\ queue'[k][i + 1] = queue[k][i + 1]
          /\ (Unlinked(queue[k][i + 1])' <=> Unlinked(queue[k][i + 1]))
          /\ next' = next
      BY <1>2, <1>3 DEF Unlinked
    <3>2. next[queue[k][i]] =
             IF i = Size(k) \/ Unlinked(queue[k][i + 1]) THEN Null ELSE queue[k][i + 1]
      BY DEF IInv, QueueLinks, NextIsBehind
    <3> QED BY <3>1, <3>2
  <2> QED BY <1>2, <2>1, <2>2 DEF NextIsBehind
<1>18. UnpublishedIsFresh'
  <2>1. \A u \in Threads : pc[u] \in {"swap", "trycas"} => nd[u] # s /\ nd[u] \in Nodes
    <3>1. \A u \in Threads : pc[u] \in {"swap", "trycas"} => nd[u] # queue[l][2]
      BY <1>9, QueuedNodes DEF IInv
    <3>2. \A u \in Threads : pc[u] \in {"swap", "trycas"} => nd[u] \in Nodes
      BY DEF IInv, TypeOK, Types, LocalsSet
    <3> QED BY <1>1, <3>1, <3>2
  <2> QED BY <1>3, <2>1 DEF IInv, QueueLinks, UnpublishedIsFresh
<1>19. ReleaserSeesNext'
  BY <1>1, <1>2, <1>3, <1>5 DEF IInv, QueueLinks, ReleaserSeesNext, Releasing
<1> QED BY <1>10, <1>11, <1>12, <1>13, <1>14, <1>15, <1>17, <1>18, <1>19
        DEF QueueMembers, QueueLinks

--------------------------------------------------------------------------------
(* PART THREE: the invariant, and what follows.                            *)

(* The invariant is inductive.                                             *)

LEMMA InitInv == Init => IInv
<1> SUFFICES ASSUME Init PROVE IInv
  OBVIOUS
<1>1. TypeOK
  BY TypeInit
<1>2. \A l \in Locks : Size(l) = 0 /\ ~\E i \in 1..Size(l) : TRUE
  BY DEF Init, Size
<1>3. \A t \in Threads : /\ pc[t] = "idle" /\ nd[t] = Null /\ pool[t] = {}
                         /\ \A n \in Nodes : guard[t][n] = Null
  BY DEF Init
<1>4. Ownership
  BY <1>3, NullAssumption DEF Ownership, Owns, Init
<1>5. QueueMembers
  BY <1>2, <1>3, NullAssumption
  DEF QueueMembers, QueuedOnce, QueuedForSomeone, GuardsAreFirst,
      ReleasersAreFirst, WaitersAreQueued, Waiting, Releasing
<1>6. QueueLinks
  BY <1>2, <1>3 DEF QueueLinks, TailIsLast, NextIsBehind, UnpublishedIsFresh,
                    ReleaserSeesNext, Init
<1>7. Accounts
  BY DEF Accounts, NoOrphans, ForgottenAreFirst, Init
<1> QED BY <1>1, <1>4, <1>5, <1>6, <1>7 DEF IInv

LEMMA StepTypes == IInv /\ [Next]_vars => TypeOK'
<1> SUFFICES ASSUME IInv, [Next]_vars PROVE TypeOK'
  OBVIOUS
<1>1. ASSUME NEW t \in Threads, Handoff(t) PROVE TypeOK'
  <2>1. Size(lk[t]) > 0
    BY <1>1 DEF IInv, QueueMembers, ReleasersAreFirst, Releasing, Handoff
  <2> QED BY <1>1, <2>1, TypeHandoff DEF IInv
<1>2. CASE UNCHANGED vars
  BY <1>2 DEF IInv, TypeOK, Types, LocalsSet, vars, memory, locals
<1>3. ASSUME NEW t \in Threads, ReturnNode(t) \/ PoolDrop(t) \/ ThreadExit(t) PROVE TypeOK'
  BY <1>3, TypeReturnNode, TypeEnd DEF IInv
<1>4. ASSUME NEW t \in Threads, NEW l \in Locks, NEW n \in Nodes,
             LockBegin(t, l, n) \/ TryLockBegin(t, l, n)
      PROVE  TypeOK'
  BY <1>4, TypeBegin DEF IInv
<1>5. ASSUME NEW t \in Threads, NEW n \in Nodes, DropBegin(t, n) \/ Forget(t, n)
      PROVE  TypeOK'
  BY <1>5, TypeDropBegin, TypeForget DEF IInv
<1>6. ASSUME NEW t \in Threads, Swap(t) \/ Link(t) \/ SpinEnd(t) \/ TryCas(t) PROVE TypeOK'
  BY <1>6, TypeSwap, TypeLink, TypeSpinEnd, TypeTryCas DEF IInv
<1>7. ASSUME NEW t \in Threads, RelLoad(t) \/ RelWait(t) \/ RelCas(t) PROVE TypeOK'
  BY <1>7, TypeRelLoad, TypeRelCas DEF IInv
<1>8. ASSUME NEW l \in Locks, IntoInner(l) PROVE TypeOK'
  BY <1>8, TypeIntoInner DEF IInv
<1> QED BY <1>1, <1>2, <1>3, <1>4, <1>5, <1>6, <1>7, <1>8 DEF Next, Step, Program

LEMMA StepOwnership == IInv /\ [Next]_vars => Ownership'
<1> SUFFICES ASSUME IInv, [Next]_vars PROVE Ownership'
  OBVIOUS
<1>1. ASSUME NEW t \in Threads, NEW l \in Locks, NEW n \in Nodes,
             LockBegin(t, l, n) \/ TryLockBegin(t, l, n)
      PROVE  Ownership'
  BY <1>1, OwnershipBegin DEF IInv
<1>2. ASSUME NEW t \in Threads, Swap(t) \/ SpinEnd(t) \/ TryCas(t) PROVE Ownership'
  <2>1. pc[t] # "idle" /\ UNCHANGED <<heap, pool, leaked>>
    BY <1>2 DEF Swap, SpinEnd, TryCas, memory
  <2>2. LeaveWithGuard(t) \/ UNCHANGED <<guard, nd>>
    BY <1>2 DEF Swap, SpinEnd, TryCas
  <2> QED BY <2>1, <2>2, OwnershipGuardGained, OwnershipUntouched DEF IInv
<1>3. ASSUME NEW t \in Threads, Link(t) \/ RelLoad(t) \/ RelWait(t) \/ RelCas(t) \/ Handoff(t)
      PROVE  Ownership'
  BY <1>3, OwnershipUntouched DEF IInv, Link, RelLoad, RelWait, RelCas, Handoff, memory
<1>4. ASSUME NEW t \in Threads, NEW n \in Nodes, DropBegin(t, n) \/ Forget(t, n)
      PROVE  Ownership'
  BY <1>4, OwnershipDropBegin, OwnershipForget DEF IInv
<1>5. ASSUME NEW t \in Threads, ReturnNode(t) \/ PoolDrop(t) \/ ThreadExit(t)
      PROVE  Ownership'
  BY <1>5, OwnershipReturnNode, OwnershipEnd DEF IInv
<1>6. ASSUME NEW l \in Locks, IntoInner(l) PROVE Ownership'
  BY <1>6, OwnershipUntouched DEF IInv, IntoInner, locals
<1>7. CASE UNCHANGED vars
  BY <1>7, OwnershipUntouched DEF IInv, vars, memory, locals
<1> QED BY <1>1, <1>2, <1>3, <1>4, <1>5, <1>6, <1>7 DEF Next, Step, Program

LEMMA StepQueue == IInv /\ [Next]_vars => QueueMembers' /\ QueueLinks'
<1> SUFFICES ASSUME IInv, [Next]_vars PROVE QueueMembers' /\ QueueLinks'
  OBVIOUS
<1>1. ASSUME NEW t \in Threads, NEW l \in Locks, NEW n \in Nodes,
             LockBegin(t, l, n) \/ TryLockBegin(t, l, n)
      PROVE  QueueMembers' /\ QueueLinks'
  BY <1>1, QueueBegin
<1>2. ASSUME NEW t \in Threads, Swap(t) \/ Link(t) \/ SpinEnd(t) \/ TryCas(t)
      PROVE  QueueMembers' /\ QueueLinks'
  BY <1>2, QueueSwap, QueueLink, QueueSpinEnd, QueueTryCas
<1>3. ASSUME NEW t \in Threads, RelLoad(t) \/ RelWait(t) \/ RelCas(t) \/ Handoff(t)
      PROVE  QueueMembers' /\ QueueLinks'
  BY <1>3, QueueRelLoad, QueueRelCas, QueueHandoff
<1>4. ASSUME NEW t \in Threads, NEW n \in Nodes, DropBegin(t, n) \/ Forget(t, n)
      PROVE  QueueMembers' /\ QueueLinks'
  BY <1>4, QueueDropBegin, QueueForget
<1>5. ASSUME NEW t \in Threads, ReturnNode(t) \/ PoolDrop(t) \/ ThreadExit(t)
      PROVE  QueueMembers' /\ QueueLinks'
  BY <1>5, QueueReturnNode, QueueEnd
<1>6. ASSUME NEW l \in Locks, IntoInner(l) PROVE QueueMembers' /\ QueueLinks'
  BY <1>6, QueueIntoInner
<1>7. CASE UNCHANGED vars
  <2>1. UNCHANGED <<tail, queue, guard, leaked, locked, next, pc, nd, lk, pr, nx>>
    BY <1>7 DEF vars, memory, locals
  <2>2. \A u \in Threads :
          pc'[u] \in {"swap", "trycas"} => locked'[nd'[u]] /\ next'[nd'[u]] = Null
    BY <2>1 DEF IInv, QueueLinks, UnpublishedIsFresh
  <2> QED BY <2>1, <2>2, QueueUntouched DEF IInv
<1> QED BY <1>1, <1>2, <1>3, <1>4, <1>5, <1>6, <1>7 DEF Next, Step, Program

(* What a node is in somebody's hands for.                                 *)
Kept(n) == n \in leaked \/ \E t \in Threads : Owns(t, n) \/ n \in pool[t]

LEMMA StepOrphans == IInv /\ [Next]_vars => NoOrphans'
<1> SUFFICES ASSUME IInv, [Next]_vars PROVE NoOrphans'
  OBVIOUS
<1>1. \A n \in heap : Kept(n)
  BY DEF IInv, Accounts, NoOrphans, Kept
<1>2. ASSUME NEW t \in Threads, NEW l \in Locks, NEW n \in Nodes,
             LockBegin(t, l, n) \/ TryLockBegin(t, l, n)
      PROVE  NoOrphans'
  <2>1. /\ pc[t] = "idle" /\ nd[t] = Null
        /\ \A u \in Threads : nd'[u] = IF u = t THEN n ELSE nd[u]
        /\ UNCHANGED <<guard, leaked>>
        /\ heap' = heap \cup {n}
        /\ \A u \in Threads, m \in Nodes \ {n} : m \in pool[u] => m \in pool'[u]
    <3>1. /\ pc[t] = "idle" /\ take_node(t, n) /\ nd' = [nd EXCEPT ![t] = n]
          /\ UNCHANGED <<guard, leaked>>
      BY <1>2 DEF LockBegin, TryLockBegin
    <3>2. nd[t] = Null /\ \A u \in Threads : nd'[u] = IF u = t THEN n ELSE nd[u]
      BY <3>1 DEF IInv, TypeOK, Types, LocalsSet
    <3>3. heap' = heap \cup {n} /\ pool' = [pool EXCEPT ![t] = @ \ {n}]
      BY <3>1 DEF take_node
    <3>4. pool \in [Threads -> SUBSET Nodes]
      BY DEF IInv, TypeOK, Types
    <3>5. \A u \in Threads, m \in Nodes \ {n} : m \in pool[u] => m \in pool'[u]
      BY <3>3, <3>4
    <3> QED BY <3>1, <3>2, <3>3, <3>5
  <2>2. \A m \in Nodes : Kept(m) => Kept(m)' \/ m = n
    BY <2>1, NullAssumption DEF Kept, Owns
  <2>3. Kept(n)'
    BY <2>1 DEF Kept, Owns
  <2>4. heap \subseteq Nodes
    BY DEF IInv, TypeOK, Types
  <2> QED BY <1>1, <2>1, <2>2, <2>3, <2>4 DEF NoOrphans, Kept
<1>3. ASSUME NEW t \in Threads, pc[t] # "idle", LeaveWithGuard(t),
             UNCHANGED <<heap, pool, leaked>>
      PROVE  NoOrphans'
  <2>1. nd[t] \in Nodes /\ lk[t] \in Locks
    BY <1>3 DEF IInv, TypeOK, Types, LocalsSet
  <2>2. \A u \in Threads, m \in Nodes : Owns(u, m) => Owns(u, m)'
    BY <1>3, <2>1, GuardGained, NullAssumption DEF IInv, Owns
  <2> QED BY <1>3, <2>2 DEF IInv, Accounts, NoOrphans, TypeOK, Types
<1>4. ASSUME UNCHANGED <<heap, pool, leaked, guard, nd>> PROVE NoOrphans'
  BY <1>4 DEF IInv, Accounts, NoOrphans, Owns
<1>5. ASSUME NEW t \in Threads, NEW n \in Nodes, DropBegin(t, n) \/ Forget(t, n)
      PROVE  NoOrphans'
  <2>1. /\ pc[t] = "idle" /\ nd[t] = Null /\ UNCHANGED <<heap, pool>>
        /\ \A u \in Threads, m \in Nodes :
              guard'[u][m] = IF u = t /\ m = n THEN Null ELSE guard[u][m]
        /\ (nd'[t] = n /\ leaked' = leaked) \/ (nd' = nd /\ leaked' = leaked \cup {n})
        /\ \A u \in Threads \ {t} : nd'[u] = nd[u]
    BY <1>5 DEF IInv, TypeOK, Types, LocalsSet, DropBegin, Forget, memory, locals
  <2>2. \A m \in Nodes : Kept(m) => Kept(m)'
    <3>1. Kept(n)'
      BY <2>1 DEF Kept, Owns
    <3>2. ASSUME NEW m \in Nodes \ {n}, Kept(m) PROVE Kept(m)'
      BY <2>1, <3>2, NullAssumption DEF Kept, Owns
    <3> QED BY <3>1, <3>2
  <2>3. heap \subseteq Nodes
    BY DEF IInv, TypeOK, Types
  <2> QED BY <1>1, <2>1, <2>2, <2>3 DEF NoOrphans, Kept
<1>6. ASSUME NEW t \in Threads, ReturnNode(t) PROVE NoOrphans'
  <2>1. /\ \A u \in Threads \ {t} : nd'[u] = nd[u]
        /\ UNCHANGED <<guard, leaked>>
        /\ \/ heap' = heap /\ \A u \in Threads : pool'[u] = IF u = t THEN pool[t] \cup {nd[t]}
                                                                     ELSE pool[u]
           \/ heap' = heap \ {nd[t]} /\ pool' = pool
    BY <1>6 DEF IInv, TypeOK, Types, ReturnNode, return_node, Leave, Free
  <2>2. \A m \in Nodes : Kept(m) /\ m # nd[t] => Kept(m)'
    BY <2>1 DEF Kept, Owns
  <2>3. nd[t] \in heap' => Kept(nd[t])' \/ nd[t] \in pool'[t]
    BY <2>1
  <2>4. heap \subseteq Nodes
    BY DEF IInv, TypeOK, Types
  <2> QED BY <1>1, <2>1, <2>2, <2>3, <2>4 DEF NoOrphans, Kept
<1>7. ASSUME NEW t \in Threads, PoolDrop(t) PROVE NoOrphans'
  <2>1. /\ heap' = heap \ pool[t] /\ UNCHANGED <<guard, nd, leaked>>
        /\ \A u \in Threads \ {t} : pool'[u] = pool[u]
    BY <1>7 DEF IInv, TypeOK, Types, PoolDrop, Free, locals
  <2> QED BY <1>1, <2>1 DEF NoOrphans, Kept, Owns
<1>8. ASSUME NEW t \in Threads, Swap(t) \/ SpinEnd(t) \/ TryCas(t) PROVE NoOrphans'
  <2>1. pc[t] # "idle" /\ UNCHANGED <<heap, pool, leaked>>
    BY <1>8 DEF Swap, SpinEnd, TryCas, memory
  <2>2. LeaveWithGuard(t) \/ UNCHANGED <<guard, nd>>
    BY <1>8 DEF Swap, SpinEnd, TryCas
  <2> QED BY <1>3, <1>4, <2>1, <2>2
<1>9. ASSUME NEW t \in Threads,
             Link(t) \/ RelLoad(t) \/ RelWait(t) \/ RelCas(t) \/ Handoff(t) \/ ThreadExit(t)
      PROVE  NoOrphans'
  BY <1>4, <1>9 DEF Link, RelLoad, RelWait, RelCas, Handoff, ThreadExit, memory, locals
<1>10. ASSUME NEW l \in Locks, IntoInner(l) PROVE NoOrphans'
  BY <1>4, <1>10 DEF IntoInner, locals
<1>11. CASE UNCHANGED vars
  BY <1>4, <1>11 DEF vars, memory, locals
<1> QED BY <1>2, <1>5, <1>6, <1>7, <1>8, <1>9, <1>10, <1>11 DEF Next, Step, Program

(* A predecessor that has not been linked to yet.                          *)
LEMMA LinkPlace ==
    ASSUME IInv, NEW t \in Threads, pc[t] = "link"
    PROVE  \E l \in Locks : \E i \in 1..Size(l) :
              /\ l = lk[t] /\ i + 1 \in 1..Size(l)
              /\ queue[l][i] = pr[t] /\ queue[l][i + 1] = nd[t]
              /\ next[pr[t]] = Null
<1>1. PICK l \in Locks, n \in Nodes : \E i \in 1..Size(l) :
             /\ l = lk[t] /\ n = nd[t] /\ queue[l][i] = n
             /\ i > 1 /\ queue[l][i - 1] = pr[t]
  BY WaiterPlace DEF Waiting
<1>2. PICK i \in 1..Size(l) :
             /\ l = lk[t] /\ n = nd[t] /\ queue[l][i] = n
             /\ i > 1 /\ queue[l][i - 1] = pr[t]
  BY <1>1
<1>3. i - 1 \in 1..Size(l) /\ (i - 1) + 1 = i /\ i - 1 # Size(l)
  BY <1>2, QueueElements DEF IInv
<1>4. Unlinked(queue[l][i])
  BY <1>2 DEF Unlinked
<1>5. next[queue[l][i - 1]] = Null
  BY <1>3, <1>4 DEF IInv, QueueLinks, NextIsBehind
<1> QED BY <1>2, <1>3, <1>5

LEMMA StepForgotten == IInv /\ [Next]_vars => ForgottenAreFirst'
<1> SUFFICES ASSUME IInv, [Next]_vars PROVE ForgottenAreFirst'
  OBVIOUS
<1>1. \A n \in leaked : n \in Nodes /\ \A u \in Threads : ~Owns(u, n) /\ n \notin pool[u]
  BY DEF IInv, TypeOK, Types, Ownership
<1>2. \A n \in leaked :
         next[n] # Null => \E l \in Locks : Size(l) > 0 /\ queue[l][1] = n
  BY DEF IInv, Accounts, ForgottenAreFirst
<1>3. \A k \in Locks : Size(k) \in Nat /\ (Size(k) > 0 => 1 \in 1..Size(k))
  BY QueueElements DEF IInv
(* Steps that keep the heads of the queues and the links of leaked nodes.  *)
<1>4. ASSUME leaked' = leaked,
             \A n \in leaked : next'[n] = next[n],
             \A n \in leaked, k \in Locks :
                Size(k) > 0 /\ queue[k][1] = n => Size(k)' > 0 /\ queue'[k][1] = n
      PROVE  ForgottenAreFirst'
  BY <1>2, <1>4 DEF ForgottenAreFirst
<1>5. ASSUME leaked' = leaked, queue' = queue, \A n \in leaked : next'[n] = next[n]
      PROVE  ForgottenAreFirst'
  BY <1>4, <1>5 DEF Size
<1>6. ASSUME NEW t \in Threads, NEW l \in Locks, NEW n \in Nodes,
             LockBegin(t, l, n) \/ TryLockBegin(t, l, n)
      PROVE  ForgottenAreFirst'
  <2>1. take_node(t, n) /\ UNCHANGED <<queue, leaked>>
    BY <1>6 DEF LockBegin, TryLockBegin
  <2>2. n \notin leaked
    BY <1>1, <2>1 DEF take_node, Takeable, IInv, Ownership
  <2>3. \A m \in leaked : next'[m] = next[m]
    BY <1>1, <2>1, <2>2 DEF take_node, IInv, TypeOK, Types
  <2> QED BY <1>5, <2>1, <2>3
<1>7. ASSUME NEW t \in Threads, Swap(t) \/ TryCas(t) PROVE ForgottenAreFirst'
  <2>1. PICK l \in Locks, n \in Nodes : l = lk[t] /\ n = nd[t]
    BY <1>7 DEF IInv, TypeOK, Types, LocalsSet, Swap, TryCas
  <2>2. next' = next /\ leaked' = leaked
    BY <1>7 DEF Swap, TryCas
  <2>3. queue' = queue \/ queue' = [queue EXCEPT ![l] = Append(@, n)]
    BY <1>7, <2>1 DEF Swap, TryCas
  <2>4. CASE queue' = queue
    BY <1>5, <2>2, <2>4
  <2>5. CASE queue' = [queue EXCEPT ![l] = Append(@, n)]
    <3>1. /\ Size(l)' = Size(l) + 1
          /\ \A k \in Locks \ {l} : Size(k)' = Size(k)
          /\ \A k \in Locks : \A i \in 1..Size(k) : queue'[k][i] = queue[k][i]
      BY <2>5, QueueAppend DEF IInv
    <3>2. \A k \in Locks : Size(k) > 0 => Size(k)' > 0 /\ queue'[k][1] = queue[k][1]
      BY <1>3, <3>1
    <3> QED BY <1>4, <2>2, <3>2
  <2> QED BY <2>3, <2>4, <2>5
<1>8. ASSUME NEW t \in Threads, Link(t) PROVE ForgottenAreFirst'
  <2>1. PICK l \in Locks : \E i \in 1..Size(l) : queue[l][i] = pr[t]
    BY <1>8, LinkPlace DEF Link
  <2>2. PICK i \in 1..Size(l) : queue[l][i] = pr[t]
    BY <2>1
  <2>3. queue' = queue /\ leaked' = leaked
        /\ \A m \in Nodes : m # pr[t] => next'[m] = next[m]
    BY <1>8 DEF Link, IInv, TypeOK, Types
  <2>4. pr[t] \in leaked => Size(l) > 0 /\ queue[l][1] = pr[t]
    <3>1. \A u \in Threads : Queues(u, l, queue[l][i]) => Owns(u, queue[l][i])
      BY NullAssumption DEF Queues, Owns
    <3>2. pr[t] \in leaked => i = 1
      BY <1>1, <2>2, <3>1 DEF IInv, QueueMembers, QueuedForSomeone
    <3> QED BY <1>3, <2>2, <3>2
  <2>5. \A n \in leaked :
           next'[n] # Null => \E k \in Locks : Size(k) > 0 /\ queue[k][1] = n
    BY <1>1, <1>2, <2>3, <2>4
  <2> QED BY <2>3, <2>5 DEF ForgottenAreFirst, Size
<1>9. ASSUME NEW t \in Threads,
             SpinEnd(t) \/ RelLoad(t) \/ RelWait(t) \/ ThreadExit(t)
             \/ \E n \in Nodes : DropBegin(t, n)
      PROVE  ForgottenAreFirst'
  <2>1. leaked' = leaked /\ queue' = queue /\ next' = next
    BY <1>9 DEF SpinEnd, RelLoad, RelWait, ThreadExit, DropBegin, memory
  <2> QED BY <1>5, <2>1
<1>10. ASSUME NEW t \in Threads, RelCas(t) \/ Handoff(t) PROVE ForgottenAreFirst'
  <2>1. PICK l \in Locks, n \in Nodes :
              /\ l = lk[t] /\ n = nd[t]
              /\ Size(l) > 0 /\ 1 \in 1..Size(l) /\ queue[l][1] = n
    BY <1>10, ReleaserAlone DEF Releasing, RelCas, Handoff
  <2>2. n \notin leaked
    BY <1>1, <2>1 DEF Owns
  <2>3. next' = next /\ leaked' = leaked /\ \A k \in Locks \ {l} : queue'[k] = queue[k]
    BY <1>10, <2>1 DEF RelCas, Handoff, IInv, TypeOK, Types
  <2>4. \A m \in leaked, k \in Locks :
                Size(k) > 0 /\ queue[k][1] = m => Size(k)' > 0 /\ queue'[k][1] = m
    BY <2>1, <2>2, <2>3 DEF Size
  <2> QED BY <1>4, <2>3, <2>4
<1>11. ASSUME NEW t \in Threads, ReturnNode(t) PROVE ForgottenAreFirst'
  <2>1. nd[t] \notin leaked
    BY <1>1 DEF Owns
  <2>2. queue' = queue /\ leaked' = leaked
        /\ \A m \in Nodes : m # nd[t] => next'[m] = next[m]
    BY <1>11 DEF ReturnNode, return_node, Free, IInv, TypeOK, Types
  <2> QED BY <1>1, <1>5, <2>1, <2>2
<1>12. ASSUME NEW t \in Threads, PoolDrop(t) PROVE ForgottenAreFirst'
  <2>1. queue' = queue /\ leaked' = leaked
        /\ \A m \in Nodes : m \notin pool[t] => next'[m] = next[m]
    BY <1>12 DEF PoolDrop, Free, IInv, TypeOK, Types
  <2> QED BY <1>1, <1>5, <2>1
<1>13. ASSUME NEW t \in Threads, NEW n \in Nodes, Forget(t, n) PROVE ForgottenAreFirst'
  <2>1. leaked' = leaked \cup {n} /\ queue' = queue /\ next' = next /\ guard[t][n] # Null
    BY <1>13 DEF Forget, memory
  <2>2. PICK l \in Locks : guard[t][n] = l
    BY <2>1 DEF IInv, TypeOK, Types
  <2>3. Size(l) > 0 /\ queue[l][1] = n
    BY <2>2 DEF IInv, QueueMembers, GuardsAreFirst
  <2> QED BY <1>2, <2>1, <2>3 DEF ForgottenAreFirst, Size
<1>14. ASSUME NEW l \in Locks, IntoInner(l) PROVE ForgottenAreFirst'
  <2>1. /\ leaked' = leaked /\ next' = next
        /\ \A k \in Locks \ {l} : queue'[k] = queue[k]
    BY <1>14 DEF IntoInner, locals, IInv, TypeOK, Types
  <2>2. \A u \in Threads, m \in Nodes : ~Queues(u, l, m)
    BY <1>14 DEF IntoInner, Unborrowed, Holds, Queues
  <2>3. \A i \in 1..Size(l) : i = 1
    <3>1. ASSUME NEW i \in 1..Size(l) PROVE i = 1
      <4>1. PICK m \in Nodes : m = queue[l][i]
        BY QueueElements DEF IInv
      <4> QED BY <2>2, <4>1 DEF IInv, QueueMembers, QueuedForSomeone, Queues
    <3> QED BY <3>1
  <2>4. Size(l) > 0 => next[queue[l][1]] = Null
    <3>1. Size(l) > 0 => Size(l) = 1 /\ 1 \in 1..Size(l)
      BY <1>3, <2>3
    <3> QED BY <3>1 DEF IInv, QueueLinks, NextIsBehind
  <2>5. \A k \in Locks \ {l} : Size(k)' = Size(k) /\ queue'[k] = queue[k]
    BY <2>1 DEF Size
  <2> QED BY <1>2, <2>1, <2>4, <2>5 DEF ForgottenAreFirst
<1>15. CASE UNCHANGED vars
  BY <1>5, <1>15 DEF vars, memory
<1> QED BY <1>6, <1>7, <1>8, <1>9, <1>10, <1>11, <1>12, <1>13, <1>14, <1>15
        DEF Next, Step, Program

LEMMA StepInv == IInv /\ [Next]_vars => IInv'
  BY StepTypes, StepOwnership, StepQueue, StepOrphans, StepForgotten DEF IInv, Accounts

(* The queue invariant holds of every execution: what tail, next, locked,  *)
(* the guards and the calls in progress have to do with one another.       *)
THEOREM McsQueueInvariant == Spec => []IInv
  BY InitInv, StepInv, PTL DEF Spec

--------------------------------------------------------------------------------
(* What follows from it.                                                   *)

(* The variables keep their types, and the locals of a call are set exactly*)
(* while the code of McsSpinlock they belong to runs.                      *)
THEOREM McsTypeCorrect == Spec => []TypeOK
  BY McsQueueInvariant, PTL DEF IInv

(* What holds a lock is at the head of its queue.                          *)
LEMMA HoldersAreFirst ==
    ASSUME IInv, NEW l \in Locks, NEW n \in HeldBy(l)
    PROVE  n \in Nodes /\ Size(l) > 0 /\ 1 \in 1..Size(l) /\ queue[l][1] = n
<1>1. n \in Nodes
  BY DEF HeldBy
<1>2. Size(l) > 0 /\ queue[l][1] = n
  <2>1. CASE \E t \in Threads : guard[t][n] = l
    BY <1>1, <2>1 DEF IInv, QueueMembers, GuardsAreFirst
  <2>2. CASE \E t \in Threads : Releasing(t) /\ lk[t] = l /\ nd[t] = n
    BY <2>2 DEF IInv, QueueMembers, ReleasersAreFirst
  <2>3. CASE n \in leaked /\ InLine(n, l)
    <3>1. PICK i \in 1..Size(l) : queue[l][i] = n
      BY <2>3 DEF InLine, Size, IInv, TypeOK, Types
    <3>2. \A t \in Threads : ~Owns(t, n)
      BY <1>1, <2>3 DEF IInv, Ownership
    <3>3. \A t \in Threads : ~Queues(t, l, n)
      BY <3>2, NullAssumption DEF Queues, Owns
    <3>4. i = 1
      BY <3>1, <3>3 DEF IInv, QueueMembers, QueuedForSomeone, Queues
    <3>5. Size(l) \in Nat
      BY QueueElements DEF IInv
    <3> QED BY <3>1, <3>4, <3>5
  <2> QED BY <2>1, <2>2, <2>3 DEF HeldBy
<1> QED BY <1>1, <1>2, QueueElements DEF IInv

(* Two guards of a McsSpinlock never exist at once, counting those still   *)
(* in release and those forgotten.                                         *)
THEOREM McsMutualExclusion == Spec => []MutualExclusion
<1>1. IInv => MutualExclusion
  <2> SUFFICES ASSUME IInv PROVE MutualExclusion
    OBVIOUS
  <2>1. \A l \in Locks : \A m, n \in HeldBy(l) : m = n
    BY HoldersAreFirst
  <2>2. \A n \in Nodes : \A t, u \in Threads :
           guard[t][n] # Null /\ guard[u][n] # Null => t = u
    BY DEF IInv, Ownership, Owns
  <2> QED BY <2>1, <2>2 DEF MutualExclusion
<1> QED BY <1>1, McsQueueInvariant, PTL


(* The queue of a lock is empty exactly when its tail is null.             *)
LEMMA EmptyIffTailNull ==
    ASSUME IInv, NEW l \in Locks
    PROVE  (tail[l] = Null <=> Size(l) = 0) /\ (tail[l] = Null <=> queue[l] = <<>>)
<1>1. Size(l) \in Nat /\ (Size(l) # 0 => queue[l][Size(l)] \in Nodes)
  BY QueueElements DEF IInv
<1> QED BY <1>1, NullAssumption, QueueElements DEF IInv, QueueLinks, TailIsLast

LEMMA BusyIffQueued ==
    ASSUME IInv, NEW l \in Locks
    PROVE  tail[l] = Null <=> ~Busy(l)
<1>1. CASE Size(l) = 0
  <2>1. HeldBy(l) = {}
    BY <1>1, HoldersAreFirst
  <2>2. ASSUME NEW t \in Threads, Waiting(t), lk[t] = l PROVE FALSE
    <3>1. \E k \in Locks : k = l /\ \E i \in 1..Size(k) : TRUE
      BY <2>2, WaiterPlace
    <3> QED BY <1>1, <3>1
  <2> QED BY <1>1, <2>1, <2>2, EmptyIffTailNull DEF Busy
<1>2. CASE Size(l) # 0
  <2>1. 1 \in 1..Size(l) /\ 1 \in DOMAIN queue[l]
    <3>1. queue[l] \in Seq(Nodes) /\ Len(queue[l]) \in Nat
      BY DEF IInv, TypeOK, Types
    <3> QED BY <1>2, <3>1 DEF Size
  <2>2. PICK n \in Nodes : n = queue[l][1]
    BY <2>1, QueueElements DEF IInv
  <2>3. (\E t \in Threads : Queues(t, l, n)) \/ n \in leaked
    BY <2>1, <2>2 DEF IInv, QueueMembers, QueuedForSomeone, Queues
  <2>4. InLine(n, l)
    BY <2>1, <2>2 DEF InLine
  <2>5. n \in HeldBy(l) \/ \E t \in Threads : Waiting(t) /\ lk[t] = l
    BY <2>3, <2>4 DEF HeldBy, Queues
  <2> QED BY <1>2, <2>5, EmptyIffTailNull DEF Busy
<1> QED BY <1>1, <1>2

(* tail is null exactly when no thread holds the lock or is in lock() past *)
(* its swap: the doc comment of McsSpinlock.tail.                          *)
THEOREM McsTailNull == Spec => []TailNullIffNotBusy
<1>1. IInv => TailNullIffNotBusy
  BY BusyIffQueued DEF TailNullIffNotBusy
<1> QED BY <1>1, McsQueueInvariant, PTL

(* try_lock fails exactly on a lock that is held or waited for.            *)
THEOREM McsTryLockIsHonest == Spec => TryLockIsHonest
<1> DEFINE Honest(t) == pc[t] = "trycas" /\ pc'[t] # pc[t] =>
                            (pc'[t] = "tryreturn" <=> Busy(lk[t]))
<1>1. ASSUME IInv, [Next]_vars, NEW t \in Threads PROVE Honest(t)
  <2> SUFFICES ASSUME pc[t] = "trycas", pc'[t] # pc[t]
               PROVE  pc'[t] = "tryreturn" <=> Busy(lk[t])
    OBVIOUS
  <2>1. lk[t] \in Locks
    BY <1>1 DEF IInv, TypeOK, Types, LocalsSet
  <2>2. TryCas(t)
    <3>1. ASSUME NEW u \in Threads, Step(u) PROVE pc[u] # "idle" /\ (u = t => TryCas(t))
      BY <3>1 DEF Step, Swap, Link, SpinEnd, TryCas, RelLoad, RelCas, RelWait, Handoff,
                  ReturnNode
    <3>2. ASSUME NEW u \in Threads, Step(u) PROVE \A v \in Threads \ {u} : pc'[v] = pc[v]
      BY <1>1, <3>2 DEF IInv, TypeOK, Types, Step, Swap, Link, SpinEnd, TryCas, RelLoad,
                  RelCas, RelWait, Handoff, ReturnNode, LeaveWithGuard, Leave, Goto
    <3>3. ASSUME NEW u \in Threads, Program(u)
          PROVE  pc[u] = "idle" /\ \A v \in Threads \ {u} : pc'[v] = pc[v]
      BY <1>1, <3>3 DEF IInv, TypeOK, Types, Program, LockBegin, TryLockBegin, DropBegin,
                  Forget, PoolDrop, ThreadExit, Goto, locals
    <3>4. ASSUME NEW l \in Locks, IntoInner(l) PROVE pc' = pc
      BY <3>4 DEF IntoInner, locals
    <3> QED BY <1>1, <3>1, <3>2, <3>3, <3>4 DEF Next, vars, locals
  <2>3. pc'[t] = "tryreturn" <=> tail[lk[t]] # Null
    BY <1>1, <2>2 DEF IInv, TypeOK, Types, TryCas, LeaveWithGuard, Leave, Goto
  <2> QED BY <1>1, <2>1, <2>3, BusyIffQueued
<1>2. IInv /\ [Next]_vars => [\A t \in Threads : Honest(t)]_vars
  BY <1>1
<1> QED BY <1>2, McsQueueInvariant, PTL DEF Spec, TryLockIsHonest


(* A node in a queue is allocated, and its owner has not released it.      *)
LEMMA QueuedUnreleased ==
    ASSUME IInv, NEW l \in Locks, NEW i \in 1..Size(l)
    PROVE  queue[l][i] \in Nodes /\ queue[l][i] \in heap /\ Unreleased(queue[l][i])
<1>1. PICK n \in Nodes : n = queue[l][i]
  BY QueueElements DEF IInv
<1>2. (\E t \in Threads : Queues(t, l, n)) \/ n \in leaked
  BY <1>1 DEF IInv, QueueMembers, QueuedForSomeone, Queues
<1>3. Unreleased(n)
  BY <1>2, NullAssumption DEF Unreleased, Queues
<1>4. n \in heap
  BY <1>1, QueuedNodes DEF IInv
<1> QED BY <1>1, <1>3, <1>4

(* A thread about to write through a pointer to another thread's node      *)
(* finds it allocated, and its owner waiting for that very write.          *)
THEOREM McsNoDanglingWrite == Spec => []NoDanglingWrite
<1>1. ASSUME IInv, NEW t \in Threads, pc[t] = "link"
      PROVE  pr[t] \in heap /\ Unreleased(pr[t]) /\ next[pr[t]] = Null
  <2>1. PICK l \in Locks : \E i \in 1..Size(l) : queue[l][i] = pr[t] /\ next[pr[t]] = Null
    BY <1>1, LinkPlace
  <2>2. PICK i \in 1..Size(l) : queue[l][i] = pr[t] /\ next[pr[t]] = Null
    BY <2>1
  <2>3. queue[l][i] \in heap /\ Unreleased(queue[l][i])
    BY <1>1, QueuedUnreleased
  <2> QED BY <2>2, <2>3 DEF Unreleased
<1>2. ASSUME IInv, NEW t \in Threads, pc[t] = "handoff"
      PROVE  /\ nx[t] \in heap /\ locked[nx[t]]
             /\ \E u \in Threads : pc[u] = "spin" /\ nd[u] = nx[t]
  <2>1. PICK l \in Locks, s \in Nodes :
           /\ s = nx[t] /\ Size(l) > 1 /\ queue[l][2] = s
           /\ \E w \in Threads : pc[w] = "spin" /\ nd[w] = s
    BY <1>2, HandoffPlace
  <2>2. PICK w \in Threads : pc[w] = "spin" /\ nd[w] = s
    BY <2>1
  <2>3. PICK k \in Locks : \E i \in 1..Size(k) : queue[k][i] = s /\ (locked[s] <=> i > 1)
    BY <1>2, <2>2, WaiterPlace DEF Waiting
  <2>4. PICK i \in 1..Size(k) : queue[k][i] = s /\ (locked[s] <=> i > 1)
    BY <2>3
  <2>5. 2 \in 1..Size(l)
    BY <1>2, <2>1, QueueElements DEF IInv
  <2>6. k = l /\ i = 2
    BY <1>2, <2>1, <2>4, <2>5 DEF IInv, QueueMembers, QueuedOnce
  <2>7. s \in heap
    BY <1>2, <2>1, <2>5, QueuedUnreleased
  <2> QED BY <2>1, <2>4, <2>6, <2>7
<1>3. IInv => NoDanglingWrite
  BY <1>1, <1>2 DEF NoDanglingWrite
<1> QED BY <1>3, McsQueueInvariant, PTL

(* Whoever is at the head of a queue can go on, unless the program has its *)
(* guard or it waits for a link that the thread behind it is about to make.*)
THEOREM McsNobodyStranded == Spec => []NobodyStranded
<1>1. ASSUME IInv, NEW t \in Threads, Blocked(t)
      PROVE  \/ \E n \in Nodes : /\ InLine(n, lk[t])
                                 /\ n \in leaked \/ \E u \in Threads : guard[u][n] = lk[t]
             \/ \E u \in Threads : /\ lk[u] = lk[t]
                                   /\ Waiting(u) \/ Releasing(u)
                                   /\ ~Blocked(u)
  <2>1. PICK l \in Locks : lk[t] = l
    BY <1>1 DEF IInv, TypeOK, Types, LocalsSet, Blocked
  <2>2. Size(l) \in Nat /\ \A i \in 1..Size(l) : queue[l][i] \in Nodes
    BY <1>1, QueueElements DEF IInv
  <2>3. Size(l) > 0 /\ 1 \in 1..Size(l)
    <3>1. CASE pc[t] = "spin"
      BY <1>1, <2>1, <2>2, <3>1 DEF IInv, QueueMembers, WaitersAreQueued, Waiting
    <3>2. CASE pc[t] = "relwait"
      BY <1>1, <2>1, <2>2, <3>2 DEF IInv, QueueMembers, ReleasersAreFirst, Releasing
    <3> QED BY <1>1, <3>1, <3>2 DEF Blocked
  <2>4. PICK n \in Nodes : n = queue[l][1]
    BY <2>2, <2>3
  <2>5. InLine(n, l)
    BY <1>1, <2>3, <2>4 DEF InLine, Size, IInv, TypeOK, Types
  <2>6. CASE n \in leaked \/ \E u \in Threads : guard[u][n] = l
    BY <2>1, <2>5, <2>6
  <2>7. ASSUME NEW u \in Threads, nd[u] = n, lk[u] = l, Waiting(u)
        PROVE  ~Blocked(u)
    <3>1. PICK i \in 1..Size(l) : /\ queue[l][i] = n
                                  /\ locked[n] <=> i > 1
                                  /\ pc[u] = "link" => i > 1
      BY <1>1, <2>7 DEF IInv, QueueMembers, WaitersAreQueued
    <3>2. i = 1
      BY <1>1, <2>3, <2>4, <3>1 DEF IInv, QueueMembers, QueuedOnce
    <3> QED BY <2>7, <3>1, <3>2 DEF Waiting, Blocked
  <2>8. ASSUME NEW u \in Threads, nd[u] = n, lk[u] = l, Releasing(u), Blocked(u)
        PROVE  \E v \in Threads : lk[v] = l /\ Waiting(v) /\ ~Blocked(v)
    <3>1. pc[u] = "relwait" /\ next[n] = Null
      BY <2>8 DEF Releasing, Blocked
    <3>2. Size(l) > 1 /\ 2 \in 1..Size(l) /\ queue[l][2] # Null
      BY <1>1, <2>2, <2>8, <3>1, NullAssumption DEF IInv, QueueLinks, ReleaserSeesNext
    <3>3. Unlinked(queue[l][2])
      BY <1>1, <2>3, <2>4, <3>1, <3>2 DEF IInv, QueueLinks, NextIsBehind
    <3>4. PICK v \in Threads : pc[v] = "link" /\ nd[v] = queue[l][2]
      BY <3>3 DEF Unlinked
    <3>5. Waiting(v) /\ ~Blocked(v) /\ lk[v] \in Locks
      BY <1>1, <3>4 DEF Waiting, Blocked, IInv, TypeOK, Types, LocalsSet
    <3>6. PICK j \in 1..Size(lk[v]) : queue[lk[v]][j] = nd[v]
      BY <1>1, <3>5 DEF IInv, QueueMembers, WaitersAreQueued
    <3>7. lk[v] = l
      BY <1>1, <3>2, <3>4, <3>5, <3>6 DEF IInv, QueueMembers, QueuedOnce
    <3> QED BY <3>5, <3>7
  <2>9. n \in leaked \/ \E u \in Threads : Queues(u, l, n)
    BY <1>1, <2>3, <2>4 DEF IInv, QueueMembers, QueuedForSomeone
  <2>10. ASSUME NEW u \in Threads, nd[u] = n, lk[u] = l, Waiting(u) \/ Releasing(u)
         PROVE  \E v \in Threads : lk[v] = l /\ (Waiting(v) \/ Releasing(v)) /\ ~Blocked(v)
    BY <2>7, <2>8, <2>10
  <2> QED BY <2>1, <2>6, <2>9, <2>10 DEF Queues
<1>2. IInv => NobodyStranded
  BY <1>1 DEF NobodyStranded
<1> QED BY <1>2, McsQueueInvariant, PTL

(* lock() of a thread that already has the lock's guard never returns.     *)
THEOREM McsRelockNeverReturns == Spec => RelockNeverReturns
<1> DEFINE Stuck(t) == Waiting(t) /\ Holds(t, lk[t]) => Waiting(t)' /\ lk'[t] = lk[t]
<1>1. ASSUME IInv, [Next]_vars, NEW t \in Threads PROVE Stuck(t)
  <2> SUFFICES ASSUME Waiting(t), Holds(t, lk[t])
               PROVE  Waiting(t)' /\ lk'[t] = lk[t]
    OBVIOUS
  <2>1. ~SpinEnd(t)
    <3>1. PICK l \in Locks, n \in Nodes : \E i \in 1..Size(l) :
              l = lk[t] /\ n = nd[t] /\ queue[l][i] = n /\ (locked[n] <=> i > 1)
      BY <1>1, WaiterPlace
    <3>2. PICK i \in 1..Size(l) :
              l = lk[t] /\ n = nd[t] /\ queue[l][i] = n /\ (locked[n] <=> i > 1)
      BY <3>1
    <3>3. PICK m \in Nodes : guard[t][m] = l
      BY <3>2 DEF Holds
    <3>4. queue[l][1] = m /\ m # n
      BY <1>1, <3>2, <3>3, NullAssumption
      DEF IInv, QueueMembers, GuardsAreFirst, Ownership
    <3>5. i \in Nat /\ i # 1 /\ i >= 1
      BY <1>1, <3>2, <3>4, QueueElements DEF IInv
    <3>6. locked[nd[t]]
      BY <3>2, <3>5
    <3> QED BY <3>6 DEF SpinEnd
  <2>2. ASSUME NEW u \in Threads, Step(u) PROVE Waiting(t)' /\ lk'[t] = lk[t]
    <3>1. CASE u = t
      <4>1. Link(t)
        BY <2>1, <2>2, <3>1 DEF Waiting, Step, Swap, TryCas, RelLoad, RelCas, RelWait,
                                Handoff, ReturnNode
      <4> QED BY <1>1, <4>1 DEF IInv, TypeOK, Types, Waiting, Link, Goto
    <3>2. CASE u # t
      BY <1>1, <2>2, <3>2 DEF IInv, TypeOK, Types, Waiting, Step, Swap, Link, SpinEnd, TryCas,
            RelLoad, RelCas, RelWait, Handoff, ReturnNode, LeaveWithGuard, Leave, Goto
    <3> QED BY <3>1, <3>2
  <2>3. ASSUME NEW u \in Threads, Program(u) PROVE Waiting(t)' /\ lk'[t] = lk[t]
    <3>1. u # t
      BY <2>3 DEF Waiting, Program, LockBegin, TryLockBegin, DropBegin, Forget, PoolDrop,
                  ThreadExit
    <3> QED BY <1>1, <2>3, <3>1 DEF IInv, TypeOK, Types, Waiting, Program, LockBegin,
            TryLockBegin, DropBegin, Forget, PoolDrop, ThreadExit, Goto, locals
  <2>4. ASSUME NEW l \in Locks, IntoInner(l) PROVE Waiting(t)' /\ lk'[t] = lk[t]
    BY <2>4 DEF Waiting, IntoInner, locals
  <2>5. CASE UNCHANGED vars
    BY <2>5 DEF Waiting, vars, locals
  <2> QED BY <1>1, <2>2, <2>3, <2>4, <2>5 DEF Next
<1>2. IInv /\ [Next]_vars => [\A t \in Threads : Stuck(t)]_vars
  BY <1>1
<1> QED BY <1>2, McsQueueInvariant, PTL DEF Spec, RelockNeverReturns


--------------------------------------------------------------------------------
(* The lock is granted first come, first served.                           *)

Holders == [l \in Locks |-> HeldBy(l)]

(* n holds l for t.                                                        *)
HoldsFor(t, l, n) == guard[t][n] = l \/ (Releasing(t) /\ lk[t] = l /\ nd[t] = n)

LEMMA HeldByMembers ==
    ASSUME NEW l \in Locks, NEW n \in Nodes
    PROVE  /\ n \in HeldBy(l) <=> (\E t \in Threads : HoldsFor(t, l, n))
                                  \/ (n \in leaked /\ InLine(n, l))
  BY DEF HeldBy, HoldsFor

(* A queue that keeps its place and its users keeps its holder.            *)
LEMMA HeldByKept ==
    ASSUME NEW l \in Locks, queue'[l] = queue[l],
           \A n \in Nodes :
              (\E t \in Threads : HoldsFor(t, l, n))' \/ (n \in leaked' /\ InLine(n, l)) <=>
              (\E t \in Threads : HoldsFor(t, l, n)) \/ (n \in leaked /\ InLine(n, l))
    PROVE  HeldBy(l)' = HeldBy(l)
<1>1. \A n \in Nodes : InLine(n, l)' <=> InLine(n, l)
  BY DEF InLine
<1> QED BY <1>1 DEF HeldBy, HoldsFor

(* Steps that the FIFO lock does not see.                                  *)
LEMMA HeldByUnseen ==
    ASSUME queue' = queue, leaked' = leaked,
           \A t \in Threads, l \in Locks, n \in Nodes :
               HoldsFor(t, l, n)' <=> HoldsFor(t, l, n)
    PROVE  UNCHANGED <<queue, Holders>>
<1>1. \A l \in Locks : HeldBy(l)' = HeldBy(l)
  BY HeldByKept
<1> QED BY <1>1 DEF Holders

(* Every holder is a node that is queued on behalf of its holder.          *)
LEMMA QueuedIsFresh ==
    ASSUME IInv, NEW n \in Nodes,
           \A k \in Locks : \A i \in 1..Size(k) : queue[k][i] # n
    PROVE  ~Fifo!InLine(n)
  BY DEF Fifo!InLine, IInv, TypeOK, Types, Size


LEMMA UnseenSteps ==
    ASSUME IInv, NEW t \in Threads, NEW n \in Nodes, NEW l \in Locks,
           \/ LockBegin(t, l, n) \/ TryLockBegin(t, l, n) \/ Link(t)
           \/ RelLoad(t) \/ RelWait(t) \/ ReturnNode(t)
           \/ PoolDrop(t) \/ ThreadExit(t) \/ DropBegin(t, n)
    PROVE  UNCHANGED <<queue, Holders>>
<1>1. UNCHANGED <<queue, leaked>>
  BY DEF LockBegin, TryLockBegin, Link, RelLoad, RelWait, ReturnNode, PoolDrop, ThreadExit,
         DropBegin
<1>2. CASE DropBegin(t, n)
  <2>1. /\ pc[t] = "idle" /\ pc'[t] = "relload" /\ lk'[t] = guard[t][n] /\ nd'[t] = n
        /\ \A u \in Threads \ {t} : pc'[u] = pc[u] /\ nd'[u] = nd[u] /\ lk'[u] = lk[u]
        /\ \A u \in Threads, m \in Nodes :
              guard'[u][m] = IF u = t /\ m = n THEN Null ELSE guard[u][m]
    BY <1>2 DEF IInv, TypeOK, Types, DropBegin, Goto
  <2>2. \A u \in Threads, k \in Locks, m \in Nodes : HoldsFor(u, k, m)' <=> HoldsFor(u, k, m)
    BY <2>1, NullAssumption DEF HoldsFor, Releasing
  <2> QED BY <1>1, <2>2, HeldByUnseen
<1>3. CASE LockBegin(t, l, n) \/ TryLockBegin(t, l, n) \/ ReturnNode(t)
  <2>1. /\ ~Releasing(t) /\ ~Releasing(t)' /\ guard' = guard
        /\ \A u \in Threads \ {t} : pc'[u] = pc[u] /\ nd'[u] = nd[u] /\ lk'[u] = lk[u]
    BY <1>3 DEF IInv, TypeOK, Types, Releasing, LockBegin, TryLockBegin, ReturnNode, Leave, Goto
  <2>2. \A u \in Threads, k \in Locks, m \in Nodes : HoldsFor(u, k, m)' <=> HoldsFor(u, k, m)
    BY <2>1 DEF HoldsFor, Releasing
  <2> QED BY <1>1, <2>2, HeldByUnseen
<1>4. CASE Link(t) \/ RelLoad(t) \/ RelWait(t) \/ PoolDrop(t) \/ ThreadExit(t)
  <2>1. /\ UNCHANGED <<guard, lk, nd>>
        /\ \A u \in Threads : Releasing(u)' <=> Releasing(u)
    BY <1>4 DEF IInv, TypeOK, Types, Releasing, Link, RelLoad, RelWait, PoolDrop, ThreadExit,
                Goto, memory, locals
  <2>2. \A u \in Threads, k \in Locks, m \in Nodes : HoldsFor(u, k, m)' <=> HoldsFor(u, k, m)
    BY <2>1 DEF HoldsFor
  <2> QED BY <1>1, <2>2, HeldByUnseen
<1> QED BY <1>2, <1>3, <1>4

LEMMA UnseenForget ==
    ASSUME IInv, NEW t \in Threads, NEW n \in Nodes, Forget(t, n)
    PROVE  UNCHANGED <<queue, Holders>>
<1>1. /\ pc[t] = "idle" /\ guard[t][n] # Null /\ leaked' = leaked \cup {n}
      /\ UNCHANGED <<queue, pc, lk, nd>>
      /\ \A u \in Threads, m \in Nodes :
            guard'[u][m] = IF u = t /\ m = n THEN Null ELSE guard[u][m]
  BY DEF IInv, TypeOK, Types, Forget, locals
<1>2. PICK l \in Locks : l = guard[t][n]
  BY <1>1 DEF IInv, TypeOK, Types
<1>3. \A k \in Locks : InLine(n, k) <=> k = l
  <2>1. 1 \in 1..Size(l) /\ queue[l][1] = n
    BY <1>2, QueueElements DEF IInv, QueueMembers, GuardsAreFirst
  <2>2. \A k \in Locks : queue[k] \in Seq(Nodes)
    BY DEF IInv, TypeOK, Types
  <2>3. \A k \in Locks : \A i \in 1..Size(k) : queue[k][i] = n => k = l
    BY <2>1 DEF IInv, QueueMembers, QueuedOnce
  <2> QED BY <2>1, <2>2, <2>3 DEF InLine, Size
<1>4. \A u \in Threads, k \in Locks, m \in Nodes :
         HoldsFor(u, k, m)' <=> HoldsFor(u, k, m) /\ ~(u = t /\ m = n)
  BY <1>1, NullAssumption DEF HoldsFor, Releasing
<1>5. \A k \in Locks : HoldsFor(t, k, n) <=> k = l
  BY <1>1, <1>2 DEF HoldsFor, Releasing
<1>6. ASSUME NEW k \in Locks PROVE HeldBy(k)' = HeldBy(k)
  <2>1. \A m \in Nodes :
           (\E u \in Threads : HoldsFor(u, k, m))' \/ (m \in leaked' /\ InLine(m, k)) <=>
           (\E u \in Threads : HoldsFor(u, k, m)) \/ (m \in leaked /\ InLine(m, k))
    <3> SUFFICES ASSUME NEW m \in Nodes
                 PROVE  (\E u \in Threads : HoldsFor(u, k, m))' \/ (m \in leaked' /\ InLine(m, k)) <=>
                        (\E u \in Threads : HoldsFor(u, k, m)) \/ (m \in leaked /\ InLine(m, k))
      OBVIOUS
    <3>1. CASE m # n
      BY <1>1, <1>4, <3>1
    <3>2. CASE m = n
      <4>1. CASE k = l
        BY <1>1, <1>3, <1>5, <3>2, <4>1
      <4>2. CASE k # l
        BY <1>1, <1>3, <1>4, <1>5, <3>2, <4>2
      <4> QED BY <4>1, <4>2
    <3> QED BY <3>1, <3>2
  <2> QED BY <1>1, <2>1, HeldByKept
<1> QED BY <1>1, <1>6 DEF Holders

LEMMA SeenEnter ==
    ASSUME IInv, NEW t \in Threads, NEW l \in Locks, NEW n \in Nodes,
           pc[t] \in {"swap", "trycas"}, lk[t] = l, nd[t] = n, tail[l] = Null,
           queue' = [queue EXCEPT ![l] = Append(@, n)],
           LeaveWithGuard(t), UNCHANGED leaked
    PROVE  Fifo!Next
<1>1. queue[l] = <<>> /\ Size(l) = 0
  BY EmptyIffTailNull
<1>2. queue' = [queue EXCEPT ![l] = <<n>>] /\ queue'[l] = <<n>>
      /\ \A k \in Locks \ {l} : queue'[k] = queue[k]
  BY <1>1 DEF IInv, TypeOK, Types
<1>3. HeldBy(l) = {}
  BY <1>1, HoldersAreFirst
<1>4. /\ \A u \in Threads, m \in Nodes :
            guard'[u][m] = IF u = t /\ m = n THEN l ELSE guard[u][m]
      /\ pc'[t] = "idle"
      /\ \A u \in Threads \ {t} : nd'[u] = nd[u] /\ lk'[u] = lk[u] /\ pc'[u] = pc[u]
  BY GuardGained DEF IInv
<1>5. guard[t][n] = Null /\ n \notin leaked
  BY NullAssumption DEF IInv, Ownership, Owns
<1>6. \A u \in Threads, k \in Locks, m \in Nodes :
         HoldsFor(u, k, m)' <=> HoldsFor(u, k, m) \/ (u = t /\ k = l /\ m = n)
  BY <1>4, <1>5, NullAssumption DEF HoldsFor, Releasing
<1>7. \A k \in Locks \ {l} : HeldBy(k)' = HeldBy(k)
  BY <1>2, <1>6, HeldByKept DEF InLine
<1>8. HeldBy(l)' = {n}
  <2>1. \A m \in Nodes : m \in leaked' => ~InLine(m, l)'
    BY <1>2, <1>5 DEF InLine
  <2>2. \A u \in Threads, m \in Nodes : ~HoldsFor(u, l, m)
    BY <1>3, HeldByMembers
  <2>3. \A m \in Nodes : (\E u \in Threads : HoldsFor(u, l, m)') <=> m = n
    BY <1>6, <2>2
  <2> QED BY <2>1, <2>3 DEF HeldBy, HoldsFor
<1>9. Holders' = [Holders EXCEPT ![l] = {n}]
  BY <1>7, <1>8 DEF Holders
<1>10. ~Fifo!InLine(n)
  BY QueuedIsFresh, QueuedNodes DEF IInv
<1>11. Fifo!Enter(l, n)
  BY <1>1, <1>2, <1>9, <1>10 DEF Fifo!Enter, Holders
<1> QED BY <1>11 DEF Fifo!Next

LEMMA SeenEnqueue ==
    ASSUME IInv, NEW t \in Threads, NEW l \in Locks, NEW n \in Nodes,
           Swap(t), lk[t] = l, nd[t] = n, tail[l] # Null
    PROVE  Fifo!Next
<1>1. queue[l] # <<>>
  BY EmptyIffTailNull
<1>2. /\ queue' = [queue EXCEPT ![l] = Append(@, n)]
      /\ queue'[l] = Append(queue[l], n)
      /\ \A k \in Locks \ {l} : queue'[k] = queue[k]
      /\ UNCHANGED <<leaked, guard, lk, nd>>
  BY DEF IInv, TypeOK, Types, Swap
<1>3. \A u \in Threads : Releasing(u)' <=> Releasing(u)
  BY DEF IInv, TypeOK, Types, Swap, Releasing, Goto
<1>4. \A u \in Threads, k \in Locks, m \in Nodes : HoldsFor(u, k, m)' <=> HoldsFor(u, k, m)
  BY <1>2, <1>3 DEF HoldsFor
<1>5. \A k \in Locks \ {l} : HeldBy(k)' = HeldBy(k)
  BY <1>2, <1>4, HeldByKept
<1>6. HeldBy(l)' = HeldBy(l)
  <2>1. n \notin leaked
    BY DEF IInv, Ownership, Owns
  <2>2. \A m \in Nodes : m # n => (InLine(m, l)' <=> InLine(m, l))
    <3>1. queue[l] \in Seq(Nodes)
      BY DEF IInv, TypeOK, Types
    <3>2. /\ DOMAIN queue'[l] = 1..(Len(queue[l]) + 1)
          /\ DOMAIN queue[l] = 1..Len(queue[l]) /\ Len(queue[l]) \in Nat
          /\ \A i \in 1..Len(queue[l]) : queue'[l][i] = queue[l][i]
          /\ queue'[l][Len(queue[l]) + 1] = n
      BY <1>2, <3>1
    <3>3. \A i \in 1..(Len(queue[l]) + 1) : i \in 1..Len(queue[l]) \/ i = Len(queue[l]) + 1
      BY <3>2
    <3>4. \A i \in 1..Len(queue[l]) : i \in 1..(Len(queue[l]) + 1)
      BY <3>2
    <3> QED BY <3>2, <3>3, <3>4 DEF InLine
  <2> QED BY <1>2, <1>4, <2>1, <2>2 DEF HeldBy, HoldsFor
<1>7. Holders' = Holders
  BY <1>5, <1>6 DEF Holders
<1>8. ~Fifo!InLine(n)
  BY QueuedIsFresh, QueuedNodes DEF IInv, Swap
<1>9. Fifo!Enqueue(l, n)
  BY <1>1, <1>2, <1>7, <1>8 DEF Fifo!Enqueue, Holders
<1> QED BY <1>9 DEF Fifo!Next

LEMMA SeenGrant ==
    ASSUME IInv, NEW t \in Threads, SpinEnd(t)
    PROVE  Fifo!Next
<1>1. PICK l \in Locks, n \in Nodes : \E i \in 1..Size(l) :
             /\ l = lk[t] /\ n = nd[t] /\ queue[l][i] = n
             /\ locked[n] <=> i > 1
  BY WaiterPlace DEF Waiting, SpinEnd
<1>2. Size(l) > 0 /\ queue[l][1] = n /\ l = lk[t] /\ n = nd[t]
  <2>1. PICK i \in 1..Size(l) : queue[l][i] = n /\ ~locked[n] /\ (locked[n] <=> i > 1)
    BY <1>1 DEF SpinEnd
  <2>2. Size(l) \in Nat /\ i \in Nat /\ i >= 1 /\ Size(l) >= i
    BY QueueElements DEF IInv
  <2> QED BY <1>1, <2>1, <2>2
<1>3. queue[l] # <<>> /\ Head(queue[l]) = n
  <2>1. queue[l] \in Seq(Nodes)
    BY DEF IInv, TypeOK, Types
  <2> QED BY <1>2, <2>1 DEF Size
<1>4. guard[t][n] = Null /\ n \notin leaked /\ \A u \in Threads : Owns(u, n) => u = t
  BY <1>2, NullAssumption DEF IInv, Ownership, Owns
<1>5. HeldBy(l) = {}
  <2>1. \A m \in HeldBy(l) : m = n
    BY <1>2, HoldersAreFirst
  <2>2. \A u \in Threads : ~HoldsFor(u, l, n)
    BY <1>4, NullAssumption DEF HoldsFor, Owns, Releasing, SpinEnd
  <2>3. n \notin HeldBy(l)
    BY <1>4, <2>2, HeldByMembers
  <2> QED BY <2>1, <2>3
<1>6. /\ \A u \in Threads, m \in Nodes :
            guard'[u][m] = IF u = t /\ m = n THEN l ELSE guard[u][m]
      /\ pc[t] = "spin" /\ pc'[t] = "idle"
      /\ \A u \in Threads \ {t} : nd'[u] = nd[u] /\ lk'[u] = lk[u] /\ pc'[u] = pc[u]
      /\ UNCHANGED <<queue, leaked>>
  BY <1>2, GuardGained DEF IInv, SpinEnd
<1>7. \A u \in Threads, k \in Locks, m \in Nodes :
         HoldsFor(u, k, m)' <=> HoldsFor(u, k, m) \/ (u = t /\ k = l /\ m = n)
  BY <1>4, <1>6, NullAssumption DEF HoldsFor, Releasing
<1>8. \A k \in Locks \ {l} : HeldBy(k)' = HeldBy(k)
  BY <1>6, <1>7, HeldByKept
<1>9. HeldBy(l)' = {n}
  <2>1. \A u \in Threads, m \in Nodes : ~HoldsFor(u, l, m)
    BY <1>5, HeldByMembers
  <2>2. \A m \in Nodes : ~(m \in leaked /\ InLine(m, l))
    BY <1>5, HeldByMembers
  <2>3. \A m \in Nodes : (\E u \in Threads : HoldsFor(u, l, m)') <=> m = n
    BY <1>7, <2>1
  <2>4. \A m \in Nodes : ~(m \in leaked' /\ InLine(m, l)')
    BY <1>6, <2>2 DEF InLine
  <2> QED BY <2>3, <2>4 DEF HeldBy, HoldsFor
<1>10. Holders' = [Holders EXCEPT ![l] = {Head(queue[l])}]
  BY <1>3, <1>8, <1>9 DEF Holders
<1>11. Fifo!Grant(l)
  BY <1>3, <1>5, <1>6, <1>10 DEF Fifo!Grant, Holders
<1> QED BY <1>11 DEF Fifo!Next


LEMMA SeenRelease ==
    ASSUME IInv, NEW l \in Locks, NEW n \in HeldBy(l),
           queue' = [queue EXCEPT ![l] = Tail(@)], leaked' = leaked,
           \A u \in Threads, k \in Locks, m \in Nodes :
              k # l => (HoldsFor(u, k, m)' <=> HoldsFor(u, k, m)),
           \A u \in Threads, m \in Nodes : ~HoldsFor(u, l, m)'
    PROVE  Fifo!Next
<1>1. n \in Nodes /\ Size(l) > 0 /\ queue[l][1] = n
  BY HoldersAreFirst
<1>2. queue[l] # <<>> /\ Head(queue[l]) = n
  <2>1. queue[l] \in Seq(Nodes)
    BY DEF IInv, TypeOK, Types
  <2> QED BY <1>1, <2>1 DEF Size
<1>3. HeldBy(l) = {n}
  BY <1>1, HoldersAreFirst
<1>4. /\ Size(l)' = Size(l) - 1
      /\ \A i \in 1..(Size(l) - 1) : queue'[l][i] = queue[l][i + 1]
      /\ \A k \in Locks \ {l} : queue'[k] = queue[k]
  BY <1>1, QueueTail DEF IInv
<1>5. \A k \in Locks \ {l} : HeldBy(k)' = HeldBy(k)
  BY <1>4, HeldByKept
<1>6. ASSUME NEW m \in Nodes, m \in leaked, InLine(m, l)' PROVE FALSE
  <2>1. queue'[l] \in Seq(Nodes)
    <3>1. Tail(queue[l]) \in Seq(Nodes)
      BY <1>2 DEF IInv, TypeOK, Types
    <3> QED BY <3>1 DEF IInv, TypeOK, Types
  <2>2. PICK i \in 1..Len(queue'[l]) : queue'[l][i] = m
    BY <1>6, <2>1 DEF InLine
  <2>3. Size(l) \in Nat /\ i \in 1..(Size(l) - 1)
    BY <1>4, QueueElements DEF IInv, Size
  <2>4. i + 1 \in 1..Size(l) /\ i + 1 # 1 /\ queue[l][i + 1] = m
    BY <1>4, <2>2, <2>3
  <2>5. PICK u \in Threads : Queues(u, l, m)
    BY <2>4 DEF IInv, QueueMembers, QueuedForSomeone, Queues
  <2>6. Owns(u, m)
    BY <2>5, NullAssumption DEF Queues, Owns
  <2> QED BY <1>6, <2>6 DEF IInv, Ownership
<1>7. HeldBy(l)' = {}
  BY <1>6 DEF HeldBy, HoldsFor
<1>8. Holders' = [Holders EXCEPT ![l] = @ \ {Head(queue[l])}]
  BY <1>2, <1>3, <1>5, <1>7 DEF Holders
<1>9. Fifo!Release(l)
  BY <1>1, <1>2, <1>3, <1>8 DEF Fifo!Release, Holders
<1> QED BY <1>9 DEF Fifo!Next

LEMMA SeenRelCas ==
    ASSUME IInv, NEW t \in Threads, RelCas(t)
    PROVE  Fifo!Next \/ UNCHANGED <<queue, Holders>>
<1>1. PICK l \in Locks, n \in Nodes :
              /\ l = lk[t] /\ n = nd[t]
              /\ Size(l) > 0 /\ 1 \in 1..Size(l) /\ queue[l][1] = n
              /\ \A u \in Threads, m \in Nodes : guard[u][m] # l
              /\ \A u \in Threads \ {t} : Releasing(u) => lk[u] # l
              /\ \A u \in Threads \ {t} : nd[u] # n
  BY ReleaserAlone DEF Releasing, RelCas
<1>2. pc[t] = "relcas" /\ UNCHANGED <<guard, lk, nd, leaked>>
      /\ \A u \in Threads \ {t} : pc'[u] = pc[u]
  BY DEF IInv, TypeOK, Types, RelCas, Goto
<1>3. CASE tail[l] = n
  <2>1. pc'[t] = "return" /\ queue' = [queue EXCEPT ![l] = <<>>]
    BY <1>1, <1>3 DEF IInv, TypeOK, Types, RelCas, Goto
  <2>2. queue[l] = <<n>>
    <3>1. Size(l) \in 1..Size(l) /\ queue[l][Size(l)] = n
      BY <1>1, <1>3, QueueElements DEF IInv, QueueLinks, TailIsLast
    <3>2. \A i, j \in 1..Size(l) : queue[l][i] = queue[l][j] => i = j
      BY DEF IInv, QueueMembers, QueuedOnce
    <3>3. queue[l] \in Seq(Nodes) /\ Len(queue[l]) = 1
      BY <1>1, <3>1, <3>2 DEF Size, IInv, TypeOK, Types
    <3> QED BY <1>1, <3>3
  <2>3. Tail(queue[l]) = <<>>
    BY <2>2
  <2>4. queue' = [queue EXCEPT ![l] = Tail(@)]
    BY <2>1, <2>3
  <2>5. n \in HeldBy(l)
    BY <1>1, <1>2 DEF HeldBy, Releasing
  <2>6. \A u \in Threads, k \in Locks, m \in Nodes :
           k # l => (HoldsFor(u, k, m)' <=> HoldsFor(u, k, m))
    BY <1>1, <1>2 DEF HoldsFor, Releasing
  <2>7. \A u \in Threads, m \in Nodes : ~HoldsFor(u, l, m)'
    BY <1>1, <1>2, <2>1 DEF HoldsFor, Releasing
  <2> QED BY <1>2, <2>4, <2>5, <2>6, <2>7, SeenRelease
<1>4. CASE tail[l] # n
  <2>1. pc'[t] = "relwait" /\ queue' = queue
    BY <1>1, <1>4 DEF IInv, TypeOK, Types, RelCas, Goto
  <2>2. \A u \in Threads, k \in Locks, m \in Nodes : HoldsFor(u, k, m)' <=> HoldsFor(u, k, m)
    BY <1>2, <2>1 DEF HoldsFor, Releasing
  <2> QED BY <1>2, <2>1, <2>2, HeldByUnseen
<1> QED BY <1>3, <1>4

LEMMA SeenHandoff ==
    ASSUME IInv, NEW t \in Threads, Handoff(t)
    PROVE  Fifo!Next
<1>1. PICK l \in Locks, n \in Nodes :
              /\ l = lk[t] /\ n = nd[t]
              /\ Size(l) > 0 /\ 1 \in 1..Size(l) /\ queue[l][1] = n
              /\ \A u \in Threads, m \in Nodes : guard[u][m] # l
              /\ \A u \in Threads \ {t} : Releasing(u) => lk[u] # l
              /\ \A u \in Threads \ {t} : nd[u] # n
  BY ReleaserAlone DEF Releasing, Handoff
<1>2. /\ pc[t] = "handoff" /\ pc'[t] = "return" /\ UNCHANGED <<guard, lk, nd, leaked>>
      /\ \A u \in Threads \ {t} : pc'[u] = pc[u]
      /\ queue' = [queue EXCEPT ![l] = Tail(@)]
  BY <1>1 DEF IInv, TypeOK, Types, Handoff, Goto
<1>3. n \in HeldBy(l)
  BY <1>1, <1>2 DEF HeldBy, Releasing
<1>4. \A u \in Threads, k \in Locks, m \in Nodes :
         k # l => (HoldsFor(u, k, m)' <=> HoldsFor(u, k, m))
  BY <1>1, <1>2 DEF HoldsFor, Releasing
<1>5. \A u \in Threads, m \in Nodes : ~HoldsFor(u, l, m)'
  BY <1>1, <1>2 DEF HoldsFor, Releasing
<1> QED BY <1>2, <1>3, <1>4, <1>5, SeenRelease

(* A lock that nobody borrows is at most held by a forgotten guard, and    *)
(* then taking it apart is a release.                                      *)
LEMMA SeenIntoInner ==
    ASSUME IInv, NEW l \in Locks, IntoInner(l)
    PROVE  Fifo!Next \/ UNCHANGED <<queue, Holders>>
<1>1. /\ queue' = [queue EXCEPT ![l] = <<>>]
      /\ UNCHANGED <<guard, leaked, nd, lk, pc>>
  BY DEF IntoInner, locals
<1>2. \A u \in Threads : lk[u] # l /\ \A m \in Nodes : guard[u][m] # l
  BY DEF IntoInner, Unborrowed, Holds
<1>3. \A u \in Threads, k \in Locks, m \in Nodes : HoldsFor(u, k, m)' <=> HoldsFor(u, k, m)
  BY <1>1 DEF HoldsFor, Releasing
<1>4. \A u \in Threads, m \in Nodes : ~HoldsFor(u, l, m)'
  BY <1>1, <1>2 DEF HoldsFor
<1>5. \A u \in Threads, m \in Nodes : ~Queues(u, l, m)
  BY <1>2 DEF Queues
<1>6. \A i \in 1..Size(l) : queue[l][i] \in Nodes /\ i = 1 /\ queue[l][i] \in leaked
  <2>1. ASSUME NEW i \in 1..Size(l) PROVE i = 1 /\ queue[l][i] \in leaked
    <3>1. PICK m \in Nodes : m = queue[l][i]
      BY QueueElements DEF IInv
    <3> QED BY <1>5, <3>1 DEF IInv, QueueMembers, QueuedForSomeone, Queues
  <2> QED BY <2>1, QueueElements DEF IInv
<1>7. queue[l] \in Seq(Nodes) /\ Size(l) \in Nat /\ (Size(l) = 0 => queue[l] = <<>>)
  BY QueueElements DEF IInv, TypeOK, Types
<1>8. CASE Size(l) = 0
  <2>1. queue' = queue
    <3>1. queue \in [Locks -> Seq(Nodes)]
      BY DEF IInv, TypeOK, Types
    <3> QED BY <1>1, <1>7, <1>8, <3>1
  <2> QED BY <1>1, <1>3, <2>1, HeldByUnseen
<1>9. CASE Size(l) # 0
  <2>1. Size(l) \in 1..Size(l) /\ Size(l) = 1
    <3>1. Size(l) \in 1..Size(l)
      BY <1>7, <1>9
    <3> QED BY <1>6, <3>1
  <2>2. PICK n \in Nodes : n = queue[l][1] /\ n \in leaked
    BY <1>6, <2>1
  <2>3. n \in HeldBy(l)
    <3>1. 1 \in DOMAIN queue[l]
      BY <1>7, <2>1 DEF Size
    <3> QED BY <2>2, <3>1 DEF HeldBy, InLine
  <2>4. Tail(queue[l]) = <<>>
    <3>1. Len(queue[l]) = 1
      BY <2>1 DEF Size
    <3>2. queue[l] = <<n>>
      BY <1>7, <2>2, <3>1
    <3> QED BY <3>2
  <2>5. queue' = [queue EXCEPT ![l] = Tail(@)]
    BY <1>1, <2>4
  <2> QED BY <1>1, <1>3, <1>4, <2>3, <2>5, SeenRelease
<1> QED BY <1>8, <1>9

LEMMA StepSeen ==
    ASSUME IInv, [Next]_vars
    PROVE  Fifo!Next \/ UNCHANGED <<queue, Holders>>
<1>1. ASSUME NEW t \in Threads, NEW l \in Locks, NEW n \in Nodes,
             LockBegin(t, l, n) \/ TryLockBegin(t, l, n)
      PROVE  UNCHANGED <<queue, Holders>>
  BY <1>1, UnseenSteps
<1>2. ASSUME NEW t \in Threads, NEW n \in Nodes, DropBegin(t, n) \/ Forget(t, n)
      PROVE  UNCHANGED <<queue, Holders>>
  <2>1. CASE Forget(t, n)
    BY <2>1, UnseenForget
  <2>2. CASE DropBegin(t, n)
    <3>1. \E l \in Locks : TRUE
      BY <2>2 DEF DropBegin, IInv, TypeOK, Types
    <3> QED BY <2>2, <3>1, UnseenSteps
  <2> QED BY <1>2, <2>1, <2>2
<1>3. ASSUME NEW t \in Threads, PoolDrop(t) \/ ThreadExit(t)
      PROVE  UNCHANGED <<queue, Holders>>
  <2>1. /\ UNCHANGED <<queue, leaked, guard, lk, nd, pc>>
    BY <1>3 DEF PoolDrop, ThreadExit, locals
  <2>2. \A u \in Threads, k \in Locks, m \in Nodes : HoldsFor(u, k, m)' <=> HoldsFor(u, k, m)
    BY <2>1 DEF HoldsFor, Releasing
  <2> QED BY <2>1, <2>2, HeldByUnseen
<1>4. ASSUME NEW t \in Threads, Link(t) \/ RelLoad(t) \/ RelWait(t) \/ ReturnNode(t)
      PROVE  UNCHANGED <<queue, Holders>>
  <2>1. pc[t] # "idle"
    BY <1>4 DEF Link, RelLoad, RelWait, ReturnNode
  <2>2. nd[t] \in Nodes /\ lk[t] \in Locks
    BY <2>1 DEF IInv, TypeOK, Types, LocalsSet
  <2> QED BY <1>4, <2>2, UnseenSteps
<1>5. ASSUME NEW t \in Threads, Swap(t) \/ TryCas(t)
      PROVE  Fifo!Next \/ UNCHANGED <<queue, Holders>>
  <2>1. PICK l \in Locks, n \in Nodes : l = lk[t] /\ n = nd[t]
    BY <1>5 DEF IInv, TypeOK, Types, LocalsSet, Swap, TryCas
  <2>2. CASE tail[l] = Null
    BY <1>5, <2>1, <2>2, SeenEnter DEF Swap, TryCas
  <2>3. CASE tail[l] # Null /\ Swap(t)
    BY <2>1, <2>3, SeenEnqueue
  <2>4. CASE tail[l] # Null /\ TryCas(t)
    <3>1. /\ UNCHANGED <<queue, leaked, guard, lk, nd>>
          /\ \A u \in Threads : Releasing(u)' <=> Releasing(u)
      BY <2>1, <2>4 DEF IInv, TypeOK, Types, TryCas, Goto, Releasing
    <3>2. \A u \in Threads, k \in Locks, m \in Nodes : HoldsFor(u, k, m)' <=> HoldsFor(u, k, m)
      BY <3>1 DEF HoldsFor
    <3> QED BY <3>1, <3>2, HeldByUnseen
  <2> QED BY <1>5, <2>2, <2>3, <2>4
<1>6. ASSUME NEW t \in Threads, SpinEnd(t) \/ RelCas(t) \/ Handoff(t)
      PROVE  Fifo!Next \/ UNCHANGED <<queue, Holders>>
  BY <1>6, SeenGrant, SeenRelCas, SeenHandoff
<1>7. ASSUME NEW l \in Locks, IntoInner(l)
      PROVE  Fifo!Next \/ UNCHANGED <<queue, Holders>>
  BY <1>7, SeenIntoInner
<1>8. CASE UNCHANGED vars
  <2>1. /\ UNCHANGED <<queue, leaked, guard, lk, nd, pc>>
    BY <1>8 DEF vars, locals
  <2>2. \A u \in Threads, k \in Locks, m \in Nodes : HoldsFor(u, k, m)' <=> HoldsFor(u, k, m)
    BY <2>1 DEF HoldsFor, Releasing
  <2> QED BY <2>1, <2>2, HeldByUnseen
<1> QED BY <1>1, <1>2, <1>3, <1>4, <1>5, <1>6, <1>7, <1>8 DEF Next, Step, Program

(* McsSpinlock implements the FIFO lock: tickets are swapped into tail, and*)
(* the lock goes to the oldest of them, whatever the threads do meanwhile. *)
THEOREM McsIsFifoLock == Spec => ImplementsFifoLock
<1>1. Init => Fifo!Init
  <2>1. Init => \A l \in Locks : HeldBy(l) = {}
    BY NullAssumption DEF Init, HeldBy, Releasing
  <2> QED BY <2>1 DEF Init, Fifo!Init
<1>2. IInv /\ [Next]_vars => [Fifo!Next]_<<queue, Holders>>
  BY StepSeen
<1>3. IInv /\ [Next]_vars => [Fifo!Next]_Fifo!vars
  BY <1>2 DEF Fifo!vars, Holders
<1> QED BY <1>1, <1>3, McsQueueInvariant, PTL DEF Spec, Fifo!Spec, ImplementsFifoLock


--------------------------------------------------------------------------------
(* Nodes.                                                                  *)

InSomeQueue(n) == \E l \in Locks : \E i \in 1..Size(l) : queue[l][i] = n

(* The link of an unreleased node leads into a queue.                      *)
LEMMA LinksAreQueued ==
    ASSUME IInv, NEW m \in Nodes, Unreleased(m), next[m] # Null
    PROVE  InSomeQueue(next[m])
<1>1. PICK k \in Locks : \E i \in 1..Size(k) : queue[k][i] = m
  <2>1. CASE m \in leaked
    <3>1. PICK l \in Locks : Size(l) > 0 /\ queue[l][1] = m
      BY <2>1 DEF IInv, Accounts, ForgottenAreFirst
    <3> QED BY <3>1, QueueElements DEF IInv
  <2>2. CASE \E t \in Threads : guard[t][m] # Null
    <3>1. PICK t \in Threads : guard[t][m] # Null
      BY <2>2
    <3>2. PICK l \in Locks : guard[t][m] = l
      BY <3>1 DEF IInv, TypeOK, Types
    <3>3. Size(l) > 0 /\ queue[l][1] = m
      BY <3>2 DEF IInv, QueueMembers, GuardsAreFirst
    <3> QED BY <3>3, QueueElements DEF IInv
  <2>3. CASE \E t \in Threads : Waiting(t) /\ nd[t] = m
    BY <2>3, WaiterPlace
  <2>4. CASE \E t \in Threads : Releasing(t) /\ nd[t] = m
    BY <2>4, ReleaserAlone
  <2> QED BY <2>1, <2>2, <2>3, <2>4 DEF Unreleased
<1>2. PICK i \in 1..Size(k) : queue[k][i] = m
  BY <1>1
<1>3. i # Size(k) /\ next[m] = queue[k][i + 1]
  BY <1>2 DEF IInv, QueueLinks, NextIsBehind
<1>4. i + 1 \in 1..Size(k)
  BY <1>3, QueueElements DEF IInv
<1> QED BY <1>3, <1>4 DEF InSomeQueue

LEMMA ReachableIsQueued ==
    ASSUME IInv, NEW n \in Nodes, Reachable(n)
    PROVE  InSomeQueue(n)
<1>1. ASSUME NEW l \in Locks, tail[l] = n PROVE InSomeQueue(n)
  <2>1. Size(l) \in 1..Size(l) /\ queue[l][Size(l)] = n
    BY <1>1, NullAssumption, QueueElements DEF IInv, QueueLinks, TailIsLast
  <2> QED BY <2>1 DEF InSomeQueue
<1>2. ASSUME NEW t \in Threads, pr[t] = n PROVE InSomeQueue(n)
  <2>1. pc[t] = "link"
    BY <1>2, NullAssumption DEF IInv, TypeOK, LocalsSet
  <2> QED BY <1>2, <2>1, LinkPlace DEF InSomeQueue
<1>3. ASSUME NEW t \in Threads, nx[t] = n PROVE InSomeQueue(n)
  <2>1. pc[t] = "handoff"
    BY <1>3, NullAssumption DEF IInv, TypeOK, LocalsSet
  <2>2. PICK l \in Locks : Size(l) > 1 /\ queue[l][2] = n
    BY <1>3, <2>1, HandoffPlace
  <2>3. 2 \in 1..Size(l)
    BY <2>2, QueueElements DEF IInv
  <2> QED BY <2>2, <2>3 DEF InSomeQueue
<1>4. ASSUME NEW m \in Nodes, Unreleased(m), next[m] = n PROVE InSomeQueue(n)
  BY <1>4, NullAssumption, LinksAreQueued
<1> QED BY <1>1, <1>2, <1>3, <1>4 DEF Reachable

(* A node that release has returned for, that try_lock gives back, that is *)
(* on a free list or that is freed is out of every other thread's reach.   *)
THEOREM McsUnreachableOnceReturned == Spec => []UnreachableOnceReturned
<1>1. ASSUME IInv, NEW n \in Nodes, InSomeQueue(n)
      PROVE  n \in heap /\ \A t \in Threads : n \notin pool[t] /\ ~(Returning(t) /\ nd[t] = n)
  <2>1. PICK l \in Locks : \E i \in 1..Size(l) : queue[l][i] = n
    BY <1>1 DEF InSomeQueue
  <2>2. PICK i \in 1..Size(l) : queue[l][i] = n
    BY <2>1
  <2> QED BY <1>1, <2>2, QueuedNodes DEF IInv, Returning
<1>2. IInv => UnreachableOnceReturned
  BY <1>1, ReachableIsQueued DEF UnreachableOnceReturned
<1> QED BY <1>2, McsQueueInvariant, PTL

(* Every allocated node is in exactly one place, and no other in any.      *)
THEOREM McsNodesAccountedFor == Spec => []NodesAccountedFor
<1>1. ASSUME IInv, NEW n \in Nodes
      PROVE  IF n \in heap THEN \E p \in Places(n) : Places(n) = {p}
                           ELSE Places(n) = {}
  <2>1. \A t \in Threads : nd[t] = n => pc[t] # "idle"
    BY <1>1, NullAssumption DEF IInv, TypeOK, LocalsSet
  <2>2. CASE n \notin heap
    <3>1. n \notin leaked /\ \A t \in Threads : n \notin pool[t] /\ ~Owns(t, n)
      BY <1>1, <2>2 DEF IInv, Ownership
    <3>2. Places(n) = {}
      BY <3>1 DEF Places, Owns
    <3> QED BY <2>2, <3>2
  <2>3. CASE n \in heap
    <3>1. n \in leaked \/ \E t \in Threads : Owns(t, n) \/ n \in pool[t]
      BY <1>1, <2>3 DEF IInv, Accounts, NoOrphans
    <3>2. CASE n \in leaked
      <4>1. \A t \in Threads : n \notin pool[t] /\ ~Owns(t, n)
        BY <1>1, <3>2 DEF IInv, Ownership
      <4>2. Places(n) = {<<"leaked", Null>>}
        BY <3>2, <4>1 DEF Places, Owns
      <4> QED BY <2>3, <4>2
    <3>3. ASSUME NEW t \in Threads, n \in pool[t]
          PROVE  \E p \in Places(n) : Places(n) = {p}
      <4>1. n \notin leaked /\ \A u \in Threads : ~Owns(u, n) /\ (n \in pool[u] <=> u = t)
        BY <1>1, <3>3 DEF IInv, Ownership
      <4>2. Places(n) = {<<"pool", t>>}
        BY <4>1 DEF Places, Owns
      <4> QED BY <4>2
    <3>4. ASSUME NEW t \in Threads, Owns(t, n)
          PROVE  \E p \in Places(n) : Places(n) = {p}
      <4>1. n \notin leaked /\ \A u \in Threads : n \notin pool[u] /\ (Owns(u, n) <=> u = t)
        BY <1>1, <3>4 DEF IInv, Ownership
      <4>2. CASE guard[t][n] # Null
        <5>1. \A u \in Threads : nd[u] # n /\ (guard[u][n] # Null <=> u = t)
          BY <1>1, <4>1, <4>2, NullAssumption DEF IInv, Ownership, Owns
        <5>2. Places(n) = {<<"guard", t>>}
          BY <4>1, <5>1 DEF Places
        <5> QED BY <5>2
      <4>3. CASE guard[t][n] = Null
        <5>1. \A u \in Threads : guard[u][n] = Null /\ (nd[u] = n <=> u = t)
          BY <3>4, <4>1, <4>3 DEF Owns
        <5>2. Places(n) = {<<"call", t>>}
          <6>1. pc[t] # "idle" /\ nd[t] = n
            BY <2>1, <5>1
          <6>2. {<<"call", u>> : u \in {v \in Threads : pc[v] # "idle" /\ nd[v] = n}} = {<<"call", t>>}
            BY <5>1, <6>1
          <6>3. /\ {u \in Threads : n \in pool[u]} = {}
                /\ {u \in Threads : guard[u][n] # Null} = {}
                /\ n \notin leaked
            BY <4>1, <5>1
          <6> QED BY <6>2, <6>3 DEF Places
        <5> QED BY <5>2
      <4> QED BY <4>2, <4>3
    <3> QED BY <2>3, <3>1, <3>2, <3>3, <3>4
  <2> QED BY <2>2, <2>3
<1>2. IInv => NodesAccountedFor
  BY <1>1 DEF NodesAccountedFor
<1> QED BY <1>2, McsQueueInvariant, PTL

--------------------------------------------------------------------------------
(* The pool.                                                               *)

TakenBy == [t \in Threads |-> Taken(t)]

LEMMA TakenKept ==
    ASSUME \A u \in Threads, m \in Nodes : Owns(u, m)' <=> Owns(u, m)
    PROVE  UNCHANGED TakenBy
  BY DEF TakenBy, Taken, Owns

LEMMA TakenMore ==
    ASSUME NEW t \in Threads, NEW n \in Nodes,
           \A u \in Threads, m \in Nodes : Owns(u, m)' <=> Owns(u, m) \/ (u = t /\ m = n)
    PROVE  TakenBy' = [TakenBy EXCEPT ![t] = @ \cup {n}]
<1>1. \A u \in Threads : Taken(u)' = IF u = t THEN Taken(t) \cup {n} ELSE Taken(u)
  BY DEF Taken, Owns
<1> QED BY <1>1 DEF TakenBy

LEMMA TakenLess ==
    ASSUME NEW t \in Threads, NEW n \in Nodes,
           \A u \in Threads, m \in Nodes : Owns(u, m)' <=> Owns(u, m) /\ ~(u = t /\ m = n)
    PROVE  TakenBy' = [TakenBy EXCEPT ![t] = @ \ {n}]
<1>1. \A u \in Threads : Taken(u)' = IF u = t THEN Taken(t) \ {n} ELSE Taken(u)
  BY DEF Taken, Owns
<1> QED BY <1>1 DEF TakenBy

LEMMA SupplyTakes ==
    ASSUME IInv, NEW t \in Threads, NEW l \in Locks, NEW n \in Nodes,
           LockBegin(t, l, n) \/ TryLockBegin(t, l, n)
    PROVE  Supply!Recycle(t, n) \/ Supply!Allocate(t, n)
<1>1. nd[t] = Null /\ take_node(t, n) /\ UNCHANGED <<poolAlive, guard>>
  BY DEF IInv, TypeOK, LocalsSet, LockBegin, TryLockBegin
<1>2. \A u \in Threads : nd'[u] = IF u = t THEN n ELSE nd[u]
  BY DEF IInv, TypeOK, Types, LockBegin, TryLockBegin
<1>3. \A u \in Threads, m \in Nodes : Owns(u, m)' <=> Owns(u, m) \/ (u = t /\ m = n)
  BY <1>1, <1>2, NullAssumption DEF Owns
<1>4. TakenBy' = [TakenBy EXCEPT ![t] = @ \cup {n}]
  BY <1>3, TakenMore
<1>5. CASE poolAlive[t] /\ pool[t] # {}
  <2>1. n \in pool[t] /\ n \in heap
    BY <1>1, <1>5 DEF take_node, Takeable, IInv, Ownership
  <2> QED BY <1>1, <1>4, <1>5, <2>1 DEF take_node, Supply!Recycle, TakenBy
<1>6. CASE ~(poolAlive[t] /\ pool[t] # {})
  <2>1. n \notin heap /\ n \notin pool[t]
    BY <1>1, <1>6 DEF take_node, Takeable, IInv, Ownership
  <2>2. UNCHANGED pool
    BY <1>1, <2>1 DEF take_node, IInv, TypeOK, Types
  <2> QED BY <1>1, <1>4, <1>6, <2>1, <2>2 DEF take_node, Supply!Allocate, TakenBy
<1> QED BY <1>5, <1>6

LEMMA SupplyReturns ==
    ASSUME IInv, NEW t \in Threads, ReturnNode(t)
    PROVE  Supply!Keep(t, nd[t]) \/ Supply!Free(t, nd[t])
<1> DEFINE n == nd[t]
<1>1. n \in Nodes /\ guard[t][n] = Null
  BY NullAssumption DEF IInv, TypeOK, Types, LocalsSet, Ownership, ReturnNode
<1>2. /\ \A u \in Threads : nd'[u] = IF u = t THEN Null ELSE nd[u]
      /\ UNCHANGED <<guard, poolAlive>>
      /\ return_node(t, n)
  BY DEF IInv, TypeOK, Types, ReturnNode, Leave
<1>3. \A u \in Threads, m \in Nodes : Owns(u, m)' <=> Owns(u, m) /\ ~(u = t /\ m = n)
  BY <1>1, <1>2, NullAssumption DEF Owns
<1>4. TakenBy' = [TakenBy EXCEPT ![t] = @ \ {n}]
  BY <1>1, <1>3, TakenLess
<1>5. n \in TakenBy[t]
  BY <1>1 DEF TakenBy, Taken
<1>6. CASE poolAlive[t]
  BY <1>2, <1>4, <1>5, <1>6 DEF return_node, Supply!Keep, TakenBy
<1>7. CASE ~poolAlive[t]
  BY <1>2, <1>4, <1>5, <1>7 DEF return_node, Free, Supply!Free, TakenBy
<1> QED BY <1>6, <1>7

LEMMA SupplyForgets ==
    ASSUME IInv, NEW t \in Threads, NEW n \in Nodes, Forget(t, n)
    PROVE  Supply!Forget(t, n)
<1>1. /\ \A u \in Threads, m \in Nodes :
            guard'[u][m] = IF u = t /\ m = n THEN Null ELSE guard[u][m]
      /\ guard[t][n] # Null /\ nd[t] = Null
      /\ UNCHANGED <<nd, heap, pool, poolAlive>>
  BY DEF IInv, TypeOK, Types, LocalsSet, Forget, memory, locals
<1>2. \A u \in Threads, m \in Nodes : Owns(u, m)' <=> Owns(u, m) /\ ~(u = t /\ m = n)
  BY <1>1, NullAssumption DEF Owns
<1>3. TakenBy' = [TakenBy EXCEPT ![t] = @ \ {n}]
  BY <1>2, TakenLess
<1>4. n \in TakenBy[t]
  BY <1>1 DEF TakenBy, Taken
<1> QED BY <1>1, <1>3, <1>4 DEF Supply!Forget, TakenBy

LEMMA SupplyEnds ==
    ASSUME IInv, NEW t \in Threads, PoolDrop(t) \/ ThreadExit(t)
    PROVE  Supply!PoolDrop(t) \/ Supply!ThreadExit(t)
<1>1. UNCHANGED <<guard, nd>>
  BY DEF PoolDrop, ThreadExit, locals
<1>2. UNCHANGED TakenBy
  BY <1>1, TakenKept DEF Owns
<1>3. CASE PoolDrop(t)
  BY <1>2, <1>3 DEF PoolDrop, Free, Supply!PoolDrop, TakenBy
<1>4. CASE ThreadExit(t)
  <2>1. TakenBy[t] = {}
    <3>1. nd[t] = Null /\ \A n \in Nodes : guard[t][n] \notin Locks
      BY <1>4 DEF IInv, TypeOK, LocalsSet, ThreadExit, Holds
    <3>2. \A n \in Nodes : n # nd[t] /\ guard[t][n] = Null
      BY <3>1, NullAssumption DEF IInv, TypeOK, Types
    <3> QED BY <3>2 DEF TakenBy, Taken
  <2> QED BY <1>2, <1>4, <2>1 DEF ThreadExit, Supply!ThreadExit, TakenBy
<1> QED BY <1>3, <1>4

(* Steps that pass a node between a call and a guard of the same thread.   *)
LEMMA SupplyUnseen ==
    ASSUME IInv, NEW t \in Threads,
           (Step(t) /\ ~ReturnNode(t)) \/ \E n \in Nodes : DropBegin(t, n)
    PROVE  UNCHANGED <<heap, pool, poolAlive, TakenBy>>
<1>1. CASE \E n \in Nodes : DropBegin(t, n)
  <2>1. PICK n \in Nodes : DropBegin(t, n)
    BY <1>1
  <2>2. /\ \A u \in Threads, m \in Nodes :
              guard'[u][m] = IF u = t /\ m = n THEN Null ELSE guard[u][m]
        /\ \A u \in Threads : nd'[u] = IF u = t THEN n ELSE nd[u]
        /\ guard[t][n] # Null /\ nd[t] = Null
        /\ UNCHANGED <<heap, pool, poolAlive>>
    BY <2>1 DEF IInv, TypeOK, Types, LocalsSet, DropBegin, memory
  <2>3. \A u \in Threads, m \in Nodes : Owns(u, m)' <=> Owns(u, m)
    BY <2>2, NullAssumption DEF Owns
  <2> QED BY <2>2, <2>3, TakenKept
<1>2. CASE Swap(t) \/ SpinEnd(t) \/ TryCas(t)
  <2>1. pc[t] # "idle" /\ UNCHANGED <<heap, pool, poolAlive>>
    BY <1>2 DEF Swap, SpinEnd, TryCas, memory
  <2>2. CASE LeaveWithGuard(t)
    <3>1. nd[t] \in Nodes /\ lk[t] \in Locks
      BY <2>1 DEF IInv, TypeOK, Types, LocalsSet
    <3>2. \A u \in Threads, m \in Nodes : Owns(u, m)' <=> Owns(u, m)
      BY <2>2, <3>1, GuardGained, NullAssumption DEF Owns, IInv
    <3> QED BY <2>1, <3>2, TakenKept
  <2>3. CASE UNCHANGED <<guard, nd>>
    BY <2>1, <2>3, TakenKept DEF Owns
  <2> QED BY <1>2, <2>2, <2>3 DEF Swap, SpinEnd, TryCas
<1>3. CASE Link(t) \/ RelLoad(t) \/ RelCas(t) \/ RelWait(t) \/ Handoff(t)
  <2>1. UNCHANGED <<heap, pool, poolAlive, guard, nd>>
    BY <1>3 DEF Link, RelLoad, RelCas, RelWait, Handoff, memory
  <2> QED BY <2>1, TakenKept DEF Owns
<1> QED BY <1>1, <1>2, <1>3 DEF Step

(* The lock's use of its nodes is one that NodeSupply serves: it takes a   *)
(* node before each acquisition and returns it, or forgets it, once.       *)
THEOREM McsIsNodeSupply == Spec => ImplementsNodeSupply
<1>1. Init => Supply!Init
  BY NullAssumption DEF Init, Supply!Init, Taken
<1>2. IInv /\ [Next]_vars => [Supply!Next]_<<heap, pool, poolAlive, TakenBy>>
  <2> SUFFICES ASSUME IInv, [Next]_vars
               PROVE  Supply!Next \/ UNCHANGED <<heap, pool, poolAlive, TakenBy>>
    OBVIOUS
  <2>1. ASSUME NEW t \in Threads, Program(t), \A n \in Nodes : ~DropBegin(t, n)
        PROVE  Supply!Next
    <3>1. CASE \E l \in Locks, n \in Nodes : LockBegin(t, l, n) \/ TryLockBegin(t, l, n)
      BY <3>1, SupplyTakes DEF Supply!Next
    <3>2. CASE \E n \in Nodes : Forget(t, n)
      BY <3>2, SupplyForgets DEF Supply!Next
    <3>3. CASE PoolDrop(t) \/ ThreadExit(t)
      BY <3>3, SupplyEnds DEF Supply!Next
    <3> QED BY <2>1, <3>1, <3>2, <3>3 DEF Program
  <2>2. ASSUME NEW t \in Threads, ReturnNode(t) PROVE Supply!Next
    <3>1. nd[t] \in Nodes
      BY <2>2 DEF IInv, TypeOK, Types, LocalsSet, ReturnNode
    <3> QED BY <2>2, <3>1, SupplyReturns DEF Supply!Next
  <2>3. ASSUME NEW l \in Locks, IntoInner(l)
        PROVE  UNCHANGED <<heap, pool, poolAlive, TakenBy>>
    BY <2>3, TakenKept DEF IntoInner, locals, Owns
  <2>4. CASE UNCHANGED vars
    BY <2>4, TakenKept DEF vars, memory, locals, Owns
  <2> QED BY <2>1, <2>2, <2>3, <2>4, SupplyUnseen DEF Next
<1>3. IInv /\ [Next]_vars => [Supply!Next]_Supply!vars
  BY <1>2 DEF Supply!vars, TakenBy
<1> QED BY <1>1, <1>3, McsQueueInvariant, PTL DEF Spec, Supply!Spec, ImplementsNodeSupply

================================================================================
