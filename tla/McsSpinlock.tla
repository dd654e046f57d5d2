------------------------------ MODULE McsSpinlock ------------------------------
(***************************************************************************)
(* The queue lock of src/mcs_spinlock/mod.rs, at the granularity of its    *)
(* atomic operations: every swap, compare_exchange, load or store of a     *)
(* shared word is one action, and the steps of different threads           *)
(* interleave freely.  Nodes are heap cells: a freed one may be allocated  *)
(* again, by any thread, at the same address.                              *)
(*                                                                         *)
(* The free list of a thread is a set here.  Whichever node take_node      *)
(* finds at its head, it behaves as some member of that set would.         *)
(***************************************************************************)
EXTENDS Integers, Sequences

CONSTANTS
    Threads,   \* thread slots; a slot is used again once its thread is over
    Locks,     \* the McsSpinlock values of the program
    Nodes,     \* heap cells that can hold a Node: the bound on the heap
    Null,      \* the null pointer; also "no lock" in a thread's locals
    Nests,     \* <<k, l>> \in Nests: the program calls l.lock() holding k
    Leaks,     \* whether the program calls mem::forget on guards
    Exits      \* the slots whose threads end

ASSUME NullAssumption == Null \notin Nodes \cup Locks
ASSUME NestsAssumption == Nests \subseteq Locks \X Locks
ASSUME LeaksAssumption == Leaks \in BOOLEAN
ASSUME ExitsAssumption == Exits \subseteq Threads

VARIABLES
    tail,       \* McsSpinlock.tail
    locked,     \* Node.locked
    next,       \* Node.next
    heap,       \* the nodes that are allocated
    pool,       \* the nodes on each thread's free list (POOL)
    poolAlive,  \* FALSE once POOL's destructor has started on the thread
    pc,         \* where each thread is
    lk,         \* `self` of the call a thread is in
    nd,         \* local `node`
    pr,         \* local `pred`
    nx,         \* local `next` of release
    guard,      \* guard[t][n]: the lock whose guard, owned by t, carries n
    leaked,     \* nodes whose guard was forgotten
    queue       \* history: the nodes swapped into tail and not yet released

memory == <<tail, locked, next, heap, pool, poolAlive>>
locals == <<pc, lk, nd, pr, nx>>
vars   == <<memory, locals, guard, leaked, queue>>

(* The labels name what the thread does next.                              *)
Labels == {"idle",                    \* outside every call of the lock
           "swap", "link", "spin",    \* lock
           "trycas", "tryreturn",     \* try_lock
           "relload", "relcas", "relwait", "handoff", "return"}  \* guard drop

Init ==
    /\ tail = [l \in Locks |-> Null]
    /\ locked = [n \in Nodes |-> TRUE]
    /\ next = [n \in Nodes |-> Null]
    /\ heap = {}
    /\ pool = [t \in Threads |-> {}]
    /\ poolAlive = [t \in Threads |-> TRUE]
    /\ pc = [t \in Threads |-> "idle"]
    /\ lk = [t \in Threads |-> Null]
    /\ nd = [t \in Threads |-> Null]
    /\ pr = [t \in Threads |-> Null]
    /\ nx = [t \in Threads |-> Null]
    /\ guard = [t \in Threads |-> [n \in Nodes |-> Null]]
    /\ leaked = {}
    /\ queue = [l \in Locks |-> <<>>]

--------------------------------------------------------------------------------
(* The calling thread's own steps between two shared accesses.             *)

Goto(t, label) == pc' = [pc EXCEPT ![t] = label]

(* What take_node can hand out: a node of the free list or, when that is   *)
(* empty or already destroyed, a fresh box.                                *)
Takeable(t) ==
    IF poolAlive[t] /\ pool[t] # {} THEN pool[t] ELSE Nodes \ heap

(* Slips: a recycled node keeps its flag; its link; its place on the list. *)
take_node_KeepsLocked(t, n) ==
    /\ n \in Takeable(t)
    /\ pool' = [pool EXCEPT ![t] = @ \ {n}]
    /\ heap' = heap \cup {n}
    /\ next' = [next EXCEPT ![n] = Null]
    /\ UNCHANGED locked

take_node_KeepsNext(t, n) ==
    /\ n \in Takeable(t)
    /\ pool' = [pool EXCEPT ![t] = @ \ {n}]
    /\ heap' = heap \cup {n}
    /\ locked' = [locked EXCEPT ![n] = TRUE]
    /\ UNCHANGED next

take_node_NotPopped(t, n) ==
    /\ n \in Takeable(t)
    /\ heap' = heap \cup {n}
    /\ locked' = [locked EXCEPT ![n] = TRUE]
    /\ next' = [next EXCEPT ![n] = Null]
    /\ UNCHANGED pool

take_node(t, n) ==
    /\ n \in Takeable(t)
    /\ pool' = [pool EXCEPT ![t] = @ \ {n}]
    /\ heap' = heap \cup {n}
    /\ locked' = [locked EXCEPT ![n] = TRUE]
    /\ next' = [next EXCEPT ![n] = Null]

(* Freed memory has no contents; the model blanks it.                      *)
Free(freed) ==
    /\ heap' = heap \ freed
    /\ locked' = [n \in Nodes |-> IF n \in freed THEN TRUE ELSE locked[n]]
    /\ next' = [n \in Nodes |-> IF n \in freed THEN Null ELSE next[n]]

(* Slip: with the free list gone, the node is dropped on the floor.        *)
return_node_Drops(t, n) ==
    /\ pool' = [pool EXCEPT ![t] = IF poolAlive[t] THEN @ \cup {n} ELSE @]
    /\ UNCHANGED <<heap, locked, next>>

return_node(t, n) ==
    \/ /\ poolAlive[t]
       /\ pool' = [pool EXCEPT ![t] = @ \cup {n}]
       /\ UNCHANGED <<heap, locked, next>>
    \/ /\ ~poolAlive[t]
       /\ Free({n})
       /\ UNCHANGED pool

(* The call returns: its locals go out of scope.                           *)
Leave(t) ==
    /\ Goto(t, "idle")
    /\ lk' = [lk EXCEPT ![t] = Null]
    /\ nd' = [nd EXCEPT ![t] = Null]
    /\ pr' = [pr EXCEPT ![t] = Null]
    /\ nx' = [nx EXCEPT ![t] = Null]

(* lock or try_lock returns a guard.                                       *)
LeaveWithGuard(t) ==
    /\ Leave(t)
    /\ guard' = [guard EXCEPT ![t][nd[t]] = lk[t]]

Holds(t, l) == \E n \in Nodes : guard[t][n] = l

--------------------------------------------------------------------------------
(* McsSpinlock::lock.                                                      *)

(* `Nests` is the program's own discipline on blocking while holding.      *)
LockBegin(t, l, n) ==
    /\ pc[t] = "idle"
    /\ \A k \in Locks : Holds(t, k) => <<k, l>> \in Nests
    /\ take_node(t, n)
    /\ Goto(t, "swap")
    /\ lk' = [lk EXCEPT ![t] = l]
    /\ nd' = [nd EXCEPT ![t] = n]
    /\ UNCHANGED <<tail, poolAlive, pr, nx, guard, leaked, queue>>

Swap(t) ==
    /\ pc[t] = "swap"
    /\ tail' = [tail EXCEPT ![lk[t]] = nd[t]]
    /\ queue' = [queue EXCEPT ![lk[t]] = Append(@, nd[t])]
    /\ \/ /\ tail[lk[t]] = Null
          /\ LeaveWithGuard(t)
       \/ /\ tail[lk[t]] # Null
          /\ pr' = [pr EXCEPT ![t] = tail[lk[t]]]
          /\ Goto(t, "link")
          /\ UNCHANGED <<lk, nd, nx, guard>>
    /\ UNCHANGED <<locked, next, heap, pool, poolAlive, leaked>>

(* Slip: the new node is linked to its predecessor, not the other way.     *)
Link_Backwards(t) ==
    /\ pc[t] = "link"
    /\ next' = [next EXCEPT ![nd[t]] = pr[t]]
    /\ pr' = [pr EXCEPT ![t] = Null]
    /\ Goto(t, "spin")
    /\ UNCHANGED <<tail, locked, heap, pool, poolAlive, lk, nd, nx,
                   guard, leaked, queue>>

Link(t) ==
    /\ pc[t] = "link"
    /\ next' = [next EXCEPT ![pr[t]] = nd[t]]
    /\ pr' = [pr EXCEPT ![t] = Null]
    /\ Goto(t, "spin")
    /\ UNCHANGED <<tail, locked, heap, pool, poolAlive, lk, nd, nx,
                   guard, leaked, queue>>

(* The load that ends the spin; the loads before it change nothing.        *)
SpinEnd(t) ==
    /\ pc[t] = "spin"
    /\ ~locked[nd[t]]
    /\ LeaveWithGuard(t)
    /\ UNCHANGED <<memory, leaked, queue>>

--------------------------------------------------------------------------------
(* McsSpinlock::try_lock.                                                  *)

TryLockBegin(t, l, n) ==
    /\ pc[t] = "idle"
    /\ take_node(t, n)
    /\ Goto(t, "trycas")
    /\ lk' = [lk EXCEPT ![t] = l]
    /\ nd' = [nd EXCEPT ![t] = n]
    /\ UNCHANGED <<tail, poolAlive, pr, nx, guard, leaked, queue>>

(* Slip: a weak compare_exchange, which may fail on a null tail too.       *)
TryCas_Weak(t) ==
    /\ pc[t] = "trycas"
    /\ \/ /\ tail[lk[t]] = Null
          /\ tail' = [tail EXCEPT ![lk[t]] = nd[t]]
          /\ queue' = [queue EXCEPT ![lk[t]] = Append(@, nd[t])]
          /\ LeaveWithGuard(t)
       \/ /\ Goto(t, "tryreturn")
          /\ UNCHANGED <<tail, queue, lk, nd, pr, nx, guard>>
    /\ UNCHANGED <<locked, next, heap, pool, poolAlive, leaked>>

(* A strong compare_exchange: it fails only on a tail that is not null.    *)
TryCas(t) ==
    /\ pc[t] = "trycas"
    /\ \/ /\ tail[lk[t]] = Null
          /\ tail' = [tail EXCEPT ![lk[t]] = nd[t]]
          /\ queue' = [queue EXCEPT ![lk[t]] = Append(@, nd[t])]
          /\ LeaveWithGuard(t)
       \/ /\ tail[lk[t]] # Null
          /\ Goto(t, "tryreturn")
          /\ UNCHANGED <<tail, queue, lk, nd, pr, nx, guard>>
    /\ UNCHANGED <<locked, next, heap, pool, poolAlive, leaked>>

--------------------------------------------------------------------------------
(* Drop for McsSpinlockGuard: release, then return_node.  Guards may be    *)
(* dropped in any order; an unwinding panic drops them too.                *)

DropBegin(t, n) ==
    /\ pc[t] = "idle"
    /\ guard[t][n] # Null
    /\ guard' = [guard EXCEPT ![t][n] = Null]
    /\ Goto(t, "relload")
    /\ lk' = [lk EXCEPT ![t] = guard[t][n]]
    /\ nd' = [nd EXCEPT ![t] = n]
    /\ UNCHANGED <<memory, pr, nx, leaked, queue>>

RelLoad(t) ==
    /\ pc[t] = "relload"
    /\ nx' = [nx EXCEPT ![t] = next[nd[t]]]
    /\ Goto(t, IF next[nd[t]] = Null THEN "relcas" ELSE "handoff")
    /\ UNCHANGED <<memory, lk, nd, pr, guard, leaked, queue>>

(* Slips: the successor that has not linked itself yet is not waited for;  *)
(* null is stored without comparing.                                       *)
RelCas_NoWait(t) ==
    /\ pc[t] = "relcas"
    /\ tail' = [tail EXCEPT ![lk[t]] = IF @ = nd[t] THEN Null ELSE @]
    /\ queue' = [queue EXCEPT ![lk[t]] = Tail(@)]
    /\ Goto(t, "return")
    /\ UNCHANGED <<locked, next, heap, pool, poolAlive, lk, nd, pr, nx,
                   guard, leaked>>

RelCas_Store(t) ==
    /\ pc[t] = "relcas"
    /\ tail' = [tail EXCEPT ![lk[t]] = Null]
    /\ queue' = [queue EXCEPT ![lk[t]] = Tail(@)]
    /\ Goto(t, "return")
    /\ UNCHANGED <<locked, next, heap, pool, poolAlive, lk, nd, pr, nx,
                   guard, leaked>>

RelCas(t) ==
    /\ pc[t] = "relcas"
    /\ \/ /\ tail[lk[t]] = nd[t]
          /\ tail' = [tail EXCEPT ![lk[t]] = Null]
          /\ queue' = [queue EXCEPT ![lk[t]] = <<>>]
          /\ Goto(t, "return")
       \/ /\ tail[lk[t]] # nd[t]
          /\ Goto(t, "relwait")
          /\ UNCHANGED <<tail, queue>>
    /\ UNCHANGED <<locked, next, heap, pool, poolAlive, lk, nd, pr, nx,
                   guard, leaked>>

(* The load that ends the wait for the successor's link.                   *)
RelWait(t) ==
    /\ pc[t] = "relwait"
    /\ next[nd[t]] # Null
    /\ nx' = [nx EXCEPT ![t] = next[nd[t]]]
    /\ Goto(t, "handoff")
    /\ UNCHANGED <<memory, lk, nd, pr, guard, leaked, queue>>

(* Slip: the lock goes to the thread that came last.                       *)
Handoff_Newest(t) ==
    /\ pc[t] = "handoff"
    /\ locked' = [locked EXCEPT ![tail[lk[t]]] = FALSE]
    /\ queue' = [queue EXCEPT ![lk[t]] = Tail(@)]
    /\ nx' = [nx EXCEPT ![t] = Null]
    /\ Goto(t, "return")
    /\ UNCHANGED <<tail, next, heap, pool, poolAlive, lk, nd, pr,
                   guard, leaked>>

Handoff(t) ==
    /\ pc[t] = "handoff"
    /\ locked' = [locked EXCEPT ![nx[t]] = FALSE]
    /\ queue' = [queue EXCEPT ![lk[t]] = Tail(@)]
    /\ nx' = [nx EXCEPT ![t] = Null]
    /\ Goto(t, "return")
    /\ UNCHANGED <<tail, next, heap, pool, poolAlive, lk, nd, pr,
                   guard, leaked>>

(* After release, and on try_lock's failure path.                          *)
ReturnNode(t) ==
    /\ pc[t] \in {"return", "tryreturn"}
    /\ return_node(t, nd[t])
    /\ Leave(t)
    /\ UNCHANGED <<tail, poolAlive, guard, leaked, queue>>

--------------------------------------------------------------------------------
(* The ends of guards, threads and locks.                                  *)

(* mem::forget(guard): safe Rust, and the lock stays held for good.        *)
Forget(t, n) ==
    /\ Leaks
    /\ pc[t] = "idle"
    /\ guard[t][n] # Null
    /\ guard' = [guard EXCEPT ![t][n] = Null]
    /\ leaked' = leaked \cup {n}
    /\ UNCHANGED <<memory, locals, queue>>

(* Drop for Pool, among the thread's other thread-local destructors: the   *)
(* thread may still lock, and may still own guards, afterwards.            *)
PoolDrop(t) ==
    /\ t \in Exits
    /\ pc[t] = "idle"
    /\ poolAlive[t]
    /\ poolAlive' = [poolAlive EXCEPT ![t] = FALSE]
    /\ pool' = [pool EXCEPT ![t] = {}]
    /\ Free(pool[t])
    /\ UNCHANGED <<tail, locals, guard, leaked, queue>>

(* The thread is over and a new one, with a POOL of its own, takes its     *)
(* slot.  Whatever guards the old one had are dropped or forgotten.        *)
ThreadExit(t) ==
    /\ pc[t] = "idle"
    /\ ~poolAlive[t]
    /\ \A l \in Locks : ~Holds(t, l)
    /\ poolAlive' = [poolAlive EXCEPT ![t] = TRUE]
    /\ UNCHANGED <<tail, locked, next, heap, pool, locals,
                   guard, leaked, queue>>

(* No call or guard borrows l, so its owner has exclusive access to it.    *)
Unborrowed(l) ==
    \A t \in Threads : lk[t] # l /\ ~Holds(t, l)

(* into_inner, or a plain drop, and a `new` lock in the same place.        *)
IntoInner(l) ==
    /\ Unborrowed(l)
    /\ tail' = [tail EXCEPT ![l] = Null]
    /\ queue' = [queue EXCEPT ![l] = <<>>]
    /\ UNCHANGED <<locked, next, heap, pool, poolAlive, locals,
                   guard, leaked>>

--------------------------------------------------------------------------------

(* The steps of a call already begun: the scheduler runs them, the program *)
(* cannot withhold them.                                                   *)
Step(t) ==
    \/ Swap(t) \/ Link(t) \/ SpinEnd(t)
    \/ TryCas(t)
    \/ RelLoad(t) \/ RelCas(t) \/ RelWait(t) \/ Handoff(t)
    \/ ReturnNode(t)

(* What the program running on a thread decides to do.                     *)
Program(t) ==
    \/ \E l \in Locks, n \in Nodes : LockBegin(t, l, n) \/ TryLockBegin(t, l, n)
    \/ \E n \in Nodes : DropBegin(t, n) \/ Forget(t, n)
    \/ PoolDrop(t)
    \/ ThreadExit(t)

Next ==
    \/ \E t \in Threads : Step(t) \/ Program(t)
    \/ \E l \in Locks : IntoInner(l)

Spec == Init /\ [][Next]_vars

(* Spinning occupies a core and never parks: a thread inside a call is     *)
(* always runnable, and a preemptive scheduler runs it eventually.         *)
FairSpec == Spec /\ \A t \in Threads : WF_vars(Step(t))

(* In addition the program lets go of every guard it gets.                 *)
DropGuardOf(t, l) == \E n \in Nodes : guard[t][n] = l /\ DropBegin(t, n)

LiveSpec ==
    /\ FairSpec
    /\ \A t \in Threads, l \in Locks : SF_vars(DropGuardOf(t, l))

--------------------------------------------------------------------------------
(* Who has what.                                                           *)

Waiting(t)   == pc[t] \in {"link", "spin"}
Releasing(t) == pc[t] \in {"relload", "relcas", "relwait", "handoff"}
Returning(t) == pc[t] \in {"return", "tryreturn"}

InLine(n, l) == \E i \in DOMAIN queue[l] : queue[l][i] = n

(* The nodes that hold l: in a guard, in the release of a dropped guard    *)
(* that has not given the lock up yet, or in a guard that was forgotten.   *)
HeldBy(l) ==
    {n \in Nodes :
        \/ \E t \in Threads :
               guard[t][n] = l \/ (Releasing(t) /\ lk[t] = l /\ nd[t] = n)
        \/ n \in leaked /\ InLine(n, l)}

Busy(l) == HeldBy(l) # {} \/ \E t \in Threads : Waiting(t) /\ lk[t] = l

(* The owner of n may still follow n.next.                                 *)
Unreleased(n) ==
    \/ n \in leaked
    \/ \E t \in Threads :
           \/ guard[t][n] # Null
           \/ (Waiting(t) \/ Releasing(t)) /\ nd[t] = n

(* Some thread other than n's owner can get to n.                          *)
Reachable(n) ==
    \/ \E l \in Locks : tail[l] = n
    \/ \E t \in Threads : pr[t] = n \/ nx[t] = n
    \/ \E m \in Nodes : Unreleased(m) /\ next[m] = n

(* The places that claim n as theirs.                                      *)
Places(n) ==
    {<<"pool", t>>  : t \in {u \in Threads : n \in pool[u]}}
      \cup {<<"guard", t>> : t \in {u \in Threads : guard[u][n] # Null}}
      \cup {<<"call", t>>  : t \in {u \in Threads : pc[u] # "idle" /\ nd[u] = n}}
      \cup (IF n \in leaked THEN {<<"leaked", Null>>} ELSE {})

--------------------------------------------------------------------------------
(* Safety.                                                                 *)

Types ==
    /\ tail \in [Locks -> Nodes \cup {Null}]
    /\ locked \in [Nodes -> BOOLEAN]
    /\ next \in [Nodes -> Nodes \cup {Null}]
    /\ heap \in SUBSET Nodes
    /\ pool \in [Threads -> SUBSET Nodes]
    /\ poolAlive \in [Threads -> BOOLEAN]
    /\ pc \in [Threads -> Labels]
    /\ lk \in [Threads -> Locks \cup {Null}]
    /\ nd \in [Threads -> Nodes \cup {Null}]
    /\ pr \in [Threads -> Nodes \cup {Null}]
    /\ nx \in [Threads -> Nodes \cup {Null}]
    /\ guard \in [Threads -> [Nodes -> Locks \cup {Null}]]
    /\ leaked \in SUBSET Nodes
    /\ queue \in [Locks -> Seq(Nodes)]

(* The locals are set exactly while the code they belong to runs.          *)
LocalsSet ==
    \A t \in Threads :
        /\ (pc[t] = "idle") <=> (lk[t] = Null)
        /\ (pc[t] = "idle") <=> (nd[t] = Null)
        /\ (pc[t] = "link") <=> (pr[t] # Null)
        /\ (pc[t] = "handoff") <=> (nx[t] # Null)

TypeOK == Types /\ LocalsSet

(* Two nodes never hold the same lock, and no node is in two guards: there *)
(* is one &mut T at a time, which the dereferences of the guard rest on.   *)
MutualExclusion ==
    /\ \A l \in Locks : \A m, n \in HeldBy(l) : m = n
    /\ \A n \in Nodes : \A t, u \in Threads :
           guard[t][n] # Null /\ guard[u][n] # Null => t = u

(* Whenever a thread is about to write through a pointer to another        *)
(* thread's node, that node is allocated and its owner still waits for the *)
(* very write: the SAFETY comments at `pred.next.store` and at the handoff.*)
NoDanglingWrite ==
    \A t \in Threads :
        /\ pc[t] = "link" =>
              pr[t] \in heap /\ Unreleased(pr[t]) /\ next[pr[t]] = Null
        /\ pc[t] = "handoff" =>
              /\ nx[t] \in heap /\ locked[nx[t]]
              /\ \E u \in Threads : pc[u] = "spin" /\ nd[u] = nx[t]

(* Once release has returned, and on try_lock's failure path, no other     *)
(* thread can get to the node; nor can it while the node is on a free list *)
(* or after it was freed: the safety section of release and return_node.   *)
UnreachableOnceReturned ==
    \A n \in Nodes :
        \/ n \notin heap
        \/ \E t \in Threads : n \in pool[t] \/ (Returning(t) /\ nd[t] = n)
        => ~Reachable(n)

(* Every allocated node is in one place and no other node is in any: none  *)
(* leaks but with its guard, none is freed or pooled twice.                *)
NodesAccountedFor ==
    \A n \in Nodes :
        IF n \in heap THEN \E p \in Places(n) : Places(n) = {p}
                      ELSE Places(n) = {}

(* "null when no thread holds or wants the lock", and only then.           *)
TailNullIffNotBusy ==
    \A l \in Locks : (tail[l] = Null) <=> ~Busy(l)

(* try_lock succeeds only if no thread holds or waits for the lock, and it *)
(* never reports a free lock as busy.                                      *)
TryLockIsHonest ==
    [][\A t \in Threads :
          pc[t] = "trycas" /\ pc'[t] # pc[t] =>
              (pc'[t] = "tryreturn" <=> Busy(lk[t]))]_vars

(* The load that would end t's spin does not end it now.                   *)
Blocked(t) ==
    \/ pc[t] = "spin" /\ locked[nd[t]]
    \/ pc[t] = "relwait" /\ next[nd[t]] = Null

(* No queue waits for nothing, in the window between a swap and its link   *)
(* either: when a thread spins on a lock, the lock is in a guard, dropped  *)
(* or forgotten as the program likes, or a thread in its queue has a step  *)
(* to take, "a handful of instructions" that wait for nobody.              *)
NobodyStranded ==
    \A t \in Threads : Blocked(t) =>
        \/ \E n \in Nodes : /\ InLine(n, lk[t])
                            /\ n \in leaked \/ \E u \in Threads : guard[u][n] = lk[t]
        \/ \E u \in Threads : /\ lk[u] = lk[t]
                              /\ Waiting(u) \/ Releasing(u)
                              /\ ~Blocked(u)

(* A thread that locks what it already holds is in the queue behind its    *)
(* own node, and no step of any thread gets it out again.                  *)
RelockNeverReturns ==
    [][\A t \in Threads :
          Waiting(t) /\ Holds(t, lk[t]) => Waiting(t)' /\ lk'[t] = lk[t]]_vars

(* The lock is granted in the order in which threads swapped themselves    *)
(* into tail, to the head of the queue only, and by nobody's barging.      *)
Fifo == INSTANCE FifoLock WITH
            Tickets <- Nodes,
            line    <- queue,
            holders <- [l \in Locks |-> HeldBy(l)]
ImplementsFifoLock == Fifo!Spec

(* Of the pool the lock needs no more than NodeSupply promises; that the    *)
(* free list keeps that promise is shown of NodePool.                      *)
Taken(t) == {n \in Nodes : guard[t][n] # Null \/ nd[t] = n}

Supply == INSTANCE NodeSupply WITH held <- [t \in Threads |-> Taken(t)]
ImplementsNodeSupply == Supply!Spec

(* return_node's "# Safety" section and Drop for Pool: a node reaches the   *)
(* free list only once release has returned for it.                        *)
ReleasedBeforeReturned ==
    [][\A t \in Threads, n \in Nodes :
          n \in pool'[t] /\ n \notin pool[t] => pc[t] = "return"]_vars

--------------------------------------------------------------------------------
(* Liveness.                                                               *)

(* A guard's drop ends, whatever the other threads' programs do: the       *)
(* successor it may have to wait for "is committed to" linking itself.     *)
DropReturns == \A t \in Threads : Releasing(t) ~> pc[t] = "idle"

(* Every lock() call gets its guard once programs drop theirs.             *)
LockReturns ==
    \A t \in Threads : (pc[t] = "swap" \/ Waiting(t)) ~> pc[t] = "idle"

================================================================================
