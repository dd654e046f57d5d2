-------------------------------- MODULE NodePool --------------------------------
(***************************************************************************)
(* The free list of src/mcs_spinlock/mod.rs as the code keeps it: a        *)
(* thread-local `head` and the `pool_next` of the nodes behind it, pushed  *)
(* and popped at the front, and taken apart node by node when the thread   *)
(* ends, while other threads allocate what has been freed.                 *)
(***************************************************************************)
EXTENDS Integers, FiniteSets, Sequences

CONSTANTS
    Threads,   \* thread slots; a slot is used again once its thread is over
    Nodes,     \* heap cells that can hold a Node: the bound on the heap
    Null

ASSUME NullAssumption == Null \notin Nodes

VARIABLES
    head,      \* Pool.head of each thread
    poolNext,  \* Node.pool_next
    heap,      \* the nodes that are allocated
    stage,     \* where POOL is in its life on each thread
    node,      \* local `node` of Pool's drop
    nx,        \* local `next` of Pool's drop
    held,      \* the nodes in the guards and calls of each thread
    list,      \* history: the list at head, or what drop has left of it
    peak       \* history: the most nodes the thread has held at once

vars == <<head, poolNext, heap, stage, node, nx, held, list, peak>>

(* alive; inside drop, at the top of its loop or about to free a node; and *)
(* destroyed, when try_with fails.                                         *)
Stages == {"alive", "read", "free", "gone"}

Init ==
    /\ head = [t \in Threads |-> Null]
    /\ poolNext = [n \in Nodes |-> Null]
    /\ heap = {}
    /\ stage = [t \in Threads |-> "alive"]
    /\ node = [t \in Threads |-> Null]
    /\ nx = [t \in Threads |-> Null]
    /\ held = [t \in Threads |-> {}]
    /\ list = [t \in Threads |-> <<>>]
    /\ peak = [t \in Threads |-> 0]

(* Pool's drop runs no other code of its thread.                           *)
Runs(t) == stage[t] \in {"alive", "gone"}

--------------------------------------------------------------------------------
(* take_node.                                                              *)

Hold(t, n) ==
    /\ held' = [held EXCEPT ![t] = @ \cup {n}]
    /\ peak' = [peak EXCEPT ![t] =
                   IF @ > Cardinality(held[t]) THEN @ ELSE Cardinality(held'[t])]

(* History: a list without its first, if it has one.                       *)
Rest(s) == SubSeq(s, 2, Len(s))

(* Slip: head is read and not moved on.                                    *)
Recycle_NotPopped(t) ==
    /\ stage[t] = "alive"
    /\ head[t] # Null
    /\ poolNext' = [poolNext EXCEPT ![head[t]] = Null]
    /\ list' = [list EXCEPT ![t] = Rest(@)]
    /\ Hold(t, head[t])
    /\ UNCHANGED <<head, heap, stage, node, nx>>

(* Slip: the node keeps its link.                                          *)
Recycle_Linked(t) ==
    /\ stage[t] = "alive"
    /\ head[t] # Null
    /\ head' = [head EXCEPT ![t] = poolNext[head[t]]]
    /\ list' = [list EXCEPT ![t] = Rest(@)]
    /\ Hold(t, head[t])
    /\ UNCHANGED <<poolNext, heap, stage, node, nx>>

Recycle(t) ==
    /\ stage[t] = "alive"
    /\ head[t] # Null
    /\ head' = [head EXCEPT ![t] = poolNext[head[t]]]
    /\ poolNext' = [poolNext EXCEPT ![head[t]] = Null]
    /\ list' = [list EXCEPT ![t] = Rest(@)]
    /\ Hold(t, head[t])
    /\ UNCHANGED <<heap, stage, node, nx>>

(* Slip: the free list is never looked at.                                 *)
Allocate_Always(t, n) ==
    /\ Runs(t)
    /\ n \notin heap
    /\ heap' = heap \cup {n}
    /\ poolNext' = [poolNext EXCEPT ![n] = Null]
    /\ Hold(t, n)
    /\ UNCHANGED <<head, stage, node, nx, list>>

Allocate(t, n) ==
    /\ Runs(t)
    /\ stage[t] = "alive" => head[t] = Null
    /\ n \notin heap
    /\ heap' = heap \cup {n}
    /\ poolNext' = [poolNext EXCEPT ![n] = Null]
    /\ Hold(t, n)
    /\ UNCHANGED <<head, stage, node, nx, list>>

--------------------------------------------------------------------------------
(* return_node, and a guard that is forgotten.                             *)

LetGo(t, n) ==
    /\ n \in held[t]
    /\ held' = [held EXCEPT ![t] = @ \ {n}]

(* Slip: head is set before it is read, so that the node links to itself.  *)
Push_ToItself(t, n) ==
    /\ stage[t] = "alive"
    /\ LetGo(t, n)
    /\ poolNext' = [poolNext EXCEPT ![n] = n]
    /\ head' = [head EXCEPT ![t] = n]
    /\ list' = [list EXCEPT ![t] = <<n>> \o @]
    /\ UNCHANGED <<heap, stage, node, nx, peak>>

Push(t, n) ==
    /\ stage[t] = "alive"
    /\ LetGo(t, n)
    /\ poolNext' = [poolNext EXCEPT ![n] = head[t]]
    /\ head' = [head EXCEPT ![t] = n]
    /\ list' = [list EXCEPT ![t] = <<n>> \o @]
    /\ UNCHANGED <<heap, stage, node, nx, peak>>

(* Freed memory has no contents; the model blanks it.                      *)
Free(n) ==
    /\ heap' = heap \ {n}
    /\ poolNext' = [poolNext EXCEPT ![n] = Null]

FreeOneOff(t, n) ==
    /\ stage[t] = "gone"
    /\ LetGo(t, n)
    /\ Free(n)
    /\ UNCHANGED <<head, stage, node, nx, list, peak>>

(* mem::forget(guard): the node stays allocated and is nobody's.           *)
Forget(t, n) ==
    /\ Runs(t)
    /\ LetGo(t, n)
    /\ UNCHANGED <<head, poolNext, heap, stage, node, nx, list, peak>>

--------------------------------------------------------------------------------
(* Drop for Pool, and the end of the thread.                               *)

DropBegin(t) ==
    /\ stage[t] = "alive"
    /\ stage' = [stage EXCEPT ![t] = "read"]
    /\ node' = [node EXCEPT ![t] = head[t]]
    /\ head' = [head EXCEPT ![t] = Null]
    /\ UNCHANGED <<poolNext, heap, nx, held, list, peak>>

(* The top of the loop: the next node is read before this one is freed.    *)
DropRead(t) ==
    /\ stage[t] = "read"
    /\ IF node[t] = Null
         THEN stage' = [stage EXCEPT ![t] = "gone"] /\ UNCHANGED nx
         ELSE /\ stage' = [stage EXCEPT ![t] = "free"]
              /\ nx' = [nx EXCEPT ![t] = poolNext[node[t]]]
    /\ UNCHANGED <<head, poolNext, heap, node, held, list, peak>>

(* Slip: the loop does not move on.                                        *)
DropFree_Stays(t) ==
    /\ stage[t] = "free"
    /\ Free(node[t])
    /\ stage' = [stage EXCEPT ![t] = "read"]
    /\ nx' = [nx EXCEPT ![t] = Null]
    /\ list' = [list EXCEPT ![t] = Rest(@)]
    /\ UNCHANGED <<head, node, held, peak>>

DropFree(t) ==
    /\ stage[t] = "free"
    /\ Free(node[t])
    /\ stage' = [stage EXCEPT ![t] = "read"]
    /\ node' = [node EXCEPT ![t] = nx[t]]
    /\ nx' = [nx EXCEPT ![t] = Null]
    /\ list' = [list EXCEPT ![t] = Rest(@)]
    /\ UNCHANGED <<head, held, peak>>

(* A new thread takes the slot, with a POOL of its own.                    *)
ThreadExit(t) ==
    /\ stage[t] = "gone"
    /\ held[t] = {}
    /\ stage' = [stage EXCEPT ![t] = "alive"]
    /\ peak' = [peak EXCEPT ![t] = 0]
    /\ UNCHANGED <<head, poolNext, heap, node, nx, held, list>>

--------------------------------------------------------------------------------

DropStep(t) == DropRead(t) \/ DropFree(t)

Next ==
    \E t \in Threads :
        \/ Recycle(t)
        \/ \E n \in Nodes :
              Allocate(t, n) \/ Push(t, n) \/ FreeOneOff(t, n) \/ Forget(t, n)
        \/ DropBegin(t)
        \/ DropStep(t)
        \/ ThreadExit(t)

Spec == Init /\ [][Next]_vars

(* A thread that ends runs its destructors.                                *)
FairSpec == Spec /\ \A t \in Threads : WF_vars(DropStep(t))

--------------------------------------------------------------------------------
(* Safety.                                                                 *)

Listed(t) == {list[t][i] : i \in DOMAIN list[t]}

TypeOK ==
    /\ head \in [Threads -> Nodes \cup {Null}]
    /\ poolNext \in [Nodes -> Nodes \cup {Null}]
    /\ heap \in SUBSET Nodes
    /\ stage \in [Threads -> Stages]
    /\ node \in [Threads -> Nodes \cup {Null}]
    /\ nx \in [Threads -> Nodes \cup {Null}]
    /\ held \in [Threads -> SUBSET Nodes]
    /\ list \in [Threads -> Seq(Nodes)]
    /\ peak \in [Threads -> Nat]

(* The pointer a thread reaches its list by.                               *)
Front(t) == IF stage[t] = "alive" THEN head[t] ELSE node[t]

NodeAt(t, i) == IF i \in DOMAIN list[t] THEN list[t][i] ELSE Null

(* The pointers make the list, and end: no cycle, nothing cut off.         *)
ListIsLinked ==
    \A t \in Threads :
        /\ Front(t) = NodeAt(t, 1)
        /\ \A i \in DOMAIN list[t] : poolNext[list[t][i]] = NodeAt(t, i + 1)
        /\ stage[t] = "free" => node[t] # Null /\ nx[t] = NodeAt(t, 2)
        /\ stage[t] = "gone" => list[t] = <<>>
        /\ stage[t] # "alive" => head[t] = Null

(* "Valid only while the node is not queued", and cleared otherwise.       *)
UnlinkedWhileHeld == \A t \in Threads : \A n \in held[t] : poolNext[n] = Null

(* A node is in one place of one list, or in one thread's use.             *)
OnePlace ==
    /\ \A t \in Threads :
          /\ \A i, j \in DOMAIN list[t] : list[t][i] = list[t][j] => i = j
          /\ Listed(t) \cup held[t] \subseteq heap
          /\ Listed(t) \cap held[t] = {}
    /\ \A t, u \in Threads :
          t # u => (Listed(t) \cup held[t]) \cap (Listed(u) \cup held[u]) = {}

HeldIsFinite == \A t \in Threads : IsFiniteSet(held[t])

IInv == TypeOK /\ ListIsLinked /\ UnlinkedWhileHeld /\ OnePlace /\ HeldIsFinite

(* "Acquisitions reuse nodes instead of allocating": a living thread never *)
(* has more nodes than it once held at the same time.                      *)
NeverGrows ==
    \A t \in Threads :
        stage[t] = "alive" => Len(list[t]) + Cardinality(held[t]) <= peak[t]

(* The list does what the locks need of the pool.  While it is taken       *)
(* apart its nodes count as freed: nobody can ask for them before they are.*)
Doomed == UNION {Listed(t) : t \in {u \in Threads : stage[u] # "alive"}}

Supply == INSTANCE NodeSupply WITH
              heap      <- heap \ Doomed,
              pool      <- [t \in Threads |-> IF stage[t] = "alive" THEN Listed(t) ELSE {}],
              poolAlive <- [t \in Threads |-> stage[t] = "alive"]
ImplementsNodeSupply == Supply!Spec

--------------------------------------------------------------------------------
(* Liveness.                                                               *)

(* The destructor's loop comes to the end of its list.                     *)
PoolDropEnds == \A t \in Threads : stage[t] \in {"read", "free"} ~> stage[t] = "gone"

================================================================================
