------------------------------ MODULE McsOrderings ------------------------------
(***************************************************************************)
(* The queue lock of src/mcs_spinlock/mod.rs again, now under the memory   *)
(* of ViewMemory: every atomic access has the Ordering the source gives    *)
(* it, loads may be stale, and the protected value is plain memory.        *)
(*                                                                         *)
(* The program is that of two of the crate's tests at once,                *)
(* writes_are_published_to_the_next_holder and                             *)
(* try_lock_under_contention_loses_nothing: main owns the lock, lends it   *)
(* to scoped threads that lock or try to and add one to the value, joins   *)
(* them and consumes the lock.  No thread has two guards at a time, so its *)
(* free list serves it the same node every time: node t is thread t's.     *)
(***************************************************************************)
EXTENDS Naturals, Sequences

CONSTANTS
    Threads,
    Main,       \* the thread that owns the lock
    Null,       \* the null pointer
    Rounds      \* ITERS, for each thread

ASSUME MainAssumption == Main \notin Threads
ASSUME NullAssumption == Null \notin Threads
ASSUME RoundsAssumption == Rounds \in [Threads -> Nat]

(* The words: the lock's, each node's, and per node two plain marks that   *)
(* count the accesses of other threads to its fields.                      *)
TailOf       == <<"tail", Main>>
Data         == <<"data", Main>>
NextOf(t)    == <<"next", t>>
LockedOf(t)  == <<"locked", t>>
LinkMark(t)  == <<"linked", t>>
GrantMark(t) == <<"granted", t>>

Node(t) == {NextOf(t), LockedOf(t)}
Marks(t) == {LinkMark(t), GrantMark(t)}
Cells == {TailOf, Data} \cup UNION {Node(t) \cup Marks(t) : t \in Threads}

VARIABLES
    written, view,   \* memory
    pc,
    pred,            \* local `pred` of lock
    succ,            \* local `next` of release
    seen,            \* what the critical section has read
    todo,            \* the iterations each thread has left
    queue,           \* history: the nodes swapped into tail, not yet released
    taken            \* history: the guards handed out, the tests' `taken`

INSTANCE ViewMemory WITH Processes <- Threads \cup {Main}

memory == <<written, view>>
locals == <<pc, pred, succ, seen, todo>>
vars   == <<memory, locals, queue, taken>>

--------------------------------------------------------------------------------
(* The Orderings of the source; and slips: weaker ones.                    *)

SwapOrder_Weak    == Acquire
LinkOrder_Weak    == Relaxed
EmptyOrder_Weak   == Relaxed
HandoffOrder_Weak == Relaxed

ResetOrder   == Relaxed   \* take_node's stores
SwapOrder    == AcqRel    \* lock: tail.swap
LinkOrder    == Release   \* lock: pred.next.store
SpinOrder    == Acquire   \* lock: node.locked.load
TryOrder     == AcqRel    \* try_lock: tail.compare_exchange
TryFailOrder == Relaxed
NextOrder    == Acquire   \* release: node.next.load, both of them
EmptyOrder   == Release   \* release: tail.compare_exchange
EmptyFailOrder == Relaxed
HandoffOrder == Release   \* release: next.locked.store

--------------------------------------------------------------------------------

Entry(val, v) == [val |-> val, view |-> v]

(* The lock and its value exist, and main, which made them, is alone.      *)
Init ==
    LET made == [x \in Cells |-> IF x \in {TailOf, Data} THEN 1 ELSE 0]
    IN  /\ written = [x \in Cells |->
               IF x = TailOf THEN <<Entry(Null, made)>>
               ELSE IF x = Data THEN <<Entry(0, made)>>
               ELSE <<>>]
        /\ view = [p \in Threads \cup {Main} |-> IF p = Main THEN made ELSE Blank]
        /\ pc = [p \in Threads \cup {Main} |-> IF p = Main THEN "owner" ELSE "unborn"]
        /\ pred = [t \in Threads |-> Null]
        /\ succ = [t \in Threads |-> Null]
        /\ seen = [t \in Threads |-> 0]
        /\ todo = Rounds
        /\ queue = <<>>
        /\ taken = 0

Goto(p, label) == pc' = [pc EXCEPT ![p] = label]

(* An iteration begins: take_node resets the node, which is t's alone.     *)
Begin(t, label) ==
    /\ pc[t] = "idle"
    /\ todo[t] > 0
    /\ todo' = [todo EXCEPT ![t] = @ - 1]
    /\ Write(t, [x \in Node(t) |-> IF x = LockedOf(t) THEN TRUE ELSE Null], ResetOrder)
    /\ Goto(t, label)
    /\ UNCHANGED <<pred, succ, seen, queue, taken>>

(* t gets its guard.                                                       *)
Granted(t) ==
    /\ Goto(t, "guard")
    /\ taken' = taken + 1

--------------------------------------------------------------------------------
(* lock and try_lock.                                                      *)

LockBegin(t) == Begin(t, "swap")

Swap(t) ==
    /\ pc[t] = "swap"
    /\ Exchange(t, TailOf, t, SwapOrder)
    /\ pred' = [pred EXCEPT ![t] = ValueOf(TailOf)]
    /\ queue' = Append(queue, t)
    /\ IF ValueOf(TailOf) = Null
         THEN Granted(t)
         ELSE Goto(t, "link") /\ UNCHANGED taken
    /\ UNCHANGED <<succ, seen, todo>>

Link(t) ==
    /\ pc[t] = "link"
    /\ Write(t, [x \in {NextOf(pred[t]), LinkMark(pred[t])} |-> t], LinkOrder)
    /\ Goto(t, "spin")
    /\ UNCHANGED <<pred, succ, seen, todo, queue, taken>>

(* Of the loads of the spin, the one that ends it.                         *)
SpinEnd(t) ==
    /\ pc[t] = "spin"
    /\ \E i \in DOMAIN written[LockedOf(t)] :
          /\ ~written[LockedOf(t)][i].val
          /\ Read(t, LockedOf(t), i, SpinOrder)
    /\ Granted(t)
    /\ UNCHANGED <<pred, succ, seen, todo, queue>>

TryLockBegin(t) == Begin(t, "trycas")

(* Slip: a load that finds the tail null, and a store.                     *)
TryCas_InTwo(t) ==
    /\ pc[t] = "trycas"
    /\ \E i \in view[t][TailOf] .. Newest(TailOf) : written[TailOf][i].val = Null
    /\ Write(t, [x \in {TailOf} |-> t], TryOrder)
    /\ queue' = Append(queue, t)
    /\ Granted(t)
    /\ UNCHANGED <<pred, succ, seen, todo>>

TryCas(t) ==
    /\ pc[t] = "trycas"
    /\ \/ /\ ValueOf(TailOf) = Null
          /\ Exchange(t, TailOf, t, TryOrder)
          /\ queue' = Append(queue, t)
          /\ Granted(t)
       \/ /\ \E i \in DOMAIN written[TailOf] :
                /\ written[TailOf][i].val # Null
                /\ Read(t, TailOf, i, TryFailOrder)
          /\ Goto(t, "idle")
          /\ UNCHANGED <<queue, taken>>
    /\ UNCHANGED <<pred, succ, seen, todo>>

--------------------------------------------------------------------------------
(* The critical section, and the guard's drop.                             *)

(* Deref.                                                                  *)
ReadData(t) ==
    /\ pc[t] = "guard"
    /\ \E i \in DOMAIN written[Data] :
          /\ Read(t, Data, i, Relaxed)
          /\ seen' = [seen EXCEPT ![t] = written[Data][i].val]
    /\ Goto(t, "derefmut")
    /\ UNCHANGED <<pred, succ, todo, queue, taken>>

(* DerefMut.                                                               *)
WriteData(t) ==
    /\ pc[t] = "derefmut"
    /\ Write(t, [x \in {Data} |-> seen[t] + 1], Relaxed)
    /\ Goto(t, "relload")
    /\ UNCHANGED <<pred, succ, seen, todo, queue, taken>>

LoadNext(t, i) ==
    /\ Read(t, NextOf(t), i, NextOrder)
    /\ succ' = [succ EXCEPT ![t] = written[NextOf(t)][i].val]

RelLoad(t) ==
    /\ pc[t] = "relload"
    /\ \E i \in DOMAIN written[NextOf(t)] :
          /\ LoadNext(t, i)
          /\ Goto(t, IF written[NextOf(t)][i].val = Null THEN "relcas" ELSE "handoff")
    /\ UNCHANGED <<pred, seen, todo, queue, taken>>

RelCas(t) ==
    /\ pc[t] = "relcas"
    /\ \/ /\ ValueOf(TailOf) = t
          /\ Exchange(t, TailOf, Null, EmptyOrder)
          /\ queue' = <<>>
          /\ Goto(t, "idle")
       \/ /\ \E i \in DOMAIN written[TailOf] :
                /\ written[TailOf][i].val # t
                /\ Read(t, TailOf, i, EmptyFailOrder)
          /\ Goto(t, "relwait")
          /\ UNCHANGED queue
    /\ UNCHANGED <<pred, succ, seen, todo, taken>>

RelWait(t) ==
    /\ pc[t] = "relwait"
    /\ \E i \in DOMAIN written[NextOf(t)] :
          /\ written[NextOf(t)][i].val # Null
          /\ LoadNext(t, i)
    /\ Goto(t, "handoff")
    /\ UNCHANGED <<pred, seen, todo, queue, taken>>

Handoff(t) ==
    /\ pc[t] = "handoff"
    /\ Write(t, [x \in {LockedOf(succ[t]), GrantMark(succ[t])} |-> FALSE], HandoffOrder)
    /\ queue' = Tail(queue)
    /\ Goto(t, "idle")
    /\ UNCHANGED <<pred, succ, seen, todo, taken>>

--------------------------------------------------------------------------------
(* The ends of the program.                                                *)

(* get_mut adds one to the value, main being alone; then the scope spawns. *)
GetMut ==
    /\ pc[Main] = "owner"
    /\ Write(Main, [x \in {Data} |-> ValueOf(Data) + 1], Relaxed)
    /\ Goto(Main, "scope")
    /\ UNCHANGED <<pred, succ, seen, todo, queue, taken>>

SpawnAll ==
    /\ pc[Main] = "scope"
    /\ Spawn(Main, Threads)
    /\ pc' = [p \in Threads \cup {Main} |-> IF p = Main THEN "join" ELSE "idle"]
    /\ UNCHANGED <<pred, succ, seen, todo, queue, taken>>

(* The thread ends, and POOL's destructor frees its node: an access to all *)
(* of it that none may race with.                                          *)
PoolDrop(t) ==
    /\ pc[t] = "idle"
    /\ todo[t] = 0
    /\ Goto(t, "ended")
    /\ UNCHANGED <<memory, pred, succ, seen, todo, queue, taken>>

JoinOne(t) ==
    /\ pc[Main] = "join"
    /\ pc[t] = "ended"
    /\ JoinThread(Main, t)
    /\ Goto(t, "joined")
    /\ UNCHANGED <<pred, succ, seen, todo, queue, taken>>

(* into_inner: main reads the value without locking.                       *)
IntoInner ==
    /\ pc[Main] = "join"
    /\ \A t \in Threads : pc[t] = "joined"
    /\ Goto(Main, "consumed")
    /\ UNCHANGED <<memory, pred, succ, seen, todo, queue, taken>>

Step(t) ==
    \/ LockBegin(t) \/ Swap(t) \/ Link(t) \/ SpinEnd(t)
    \/ TryLockBegin(t) \/ TryCas(t)
    \/ ReadData(t) \/ WriteData(t)
    \/ RelLoad(t) \/ RelCas(t) \/ RelWait(t) \/ Handoff(t)
    \/ PoolDrop(t) \/ JoinOne(t)

(* The test is over: the only state in which nothing has to happen.        *)
Over == pc[Main] = "consumed" /\ UNCHANGED vars

Next == GetMut \/ SpawnAll \/ IntoInner \/ Over \/ \E t \in Threads : Step(t)

Spec == Init /\ [][Next]_vars

--------------------------------------------------------------------------------

Holders == {t \in Threads :
    pc[t] \in {"guard", "derefmut", "relload", "relcas", "relwait", "handoff"}}

AllJoined == \A t \in Threads : pc[t] = "joined"

(* The comments of lock and release: whoever dereferences a guard, and     *)
(* main when they are joined, has every earlier access to the value behind *)
(* it.  An access that does not is a data race.                            *)
ValueOrdered ==
    /\ \A t \in Threads : pc[t] \in {"guard", "derefmut"} => InOrder(t, Data)
    /\ AllJoined => InOrder(Main, Data)

(* "any node reachable from `tail` is fully initialised": a thread that    *)
(* stores into a node, its own or another's, knows every earlier store to  *)
(* that word, so none of them can overtake its own and undo it - a reset   *)
(* that undid a link or a handoff would leave a thread spinning for good.  *)
StoresInOrder ==
    \A t \in Threads :
        /\ pc[t] = "link" => InOrder(t, NextOf(pred[t])) /\ InOrder(t, LinkMark(pred[t]))
        /\ pc[t] = "handoff" => InOrder(t, LockedOf(succ[t])) /\ InOrder(t, GrantMark(succ[t]))
        /\ pc[t] = "idle" => \A x \in Node(t) : InOrder(t, x)

(* The safety comments of return_node and of Drop for Pool: when a thread  *)
(* frees its node, every access that others made to it has happened before.*)
FreedInOrder ==
    \A t \in Threads :
        pc[t] = "idle" /\ todo[t] = 0 => \A x \in Marks(t) : InOrder(t, x)

(* The assertions at the end of both tests: whatever into_inner may be     *)
(* shown of the value counts every guard that was handed out, on top of    *)
(* main's own increment before the threads were born.                      *)
NothingLost ==
    pc[Main] = "consumed" =>
        \A i \in view[Main][Data] .. Newest(Data) : written[Data][i].val = 1 + taken

(* Stale loads included, the lock is granted to one thread at a time and   *)
(* in the order of the swaps.                                              *)
TheLock == {Main}
Line == [l \in TheLock |-> queue]
Held == [l \in TheLock |-> Holders]

Fifo == INSTANCE FifoLock WITH
            Locks <- TheLock, Tickets <- Threads, line <- Line, holders <- Held
ImplementsFifoLock == Fifo!Spec

================================================================================
