------------------------------- MODULE NodeSupply -------------------------------
(***************************************************************************)
(* What the locks need of the node pool of src/mcs_spinlock/mod.rs: every  *)
(* node that is handed out belongs to the thread that asked for it, alone, *)
(* until that thread returns it.  A thread's pool is a set: which of its   *)
(* nodes take_node hands out is not promised, only that it prefers them to *)
(* a fresh allocation.                                                     *)
(***************************************************************************)

CONSTANTS
    Threads,
    Nodes      \* heap cells that can hold a node

VARIABLES
    heap,      \* the nodes that are allocated
    pool,      \* the nodes each thread keeps for itself
    poolAlive, \* whether the thread still keeps any
    held       \* the nodes each thread has taken and not returned

vars == <<heap, pool, poolAlive, held>>

Init ==
    /\ heap = {}
    /\ pool = [t \in Threads |-> {}]
    /\ poolAlive = [t \in Threads |-> TRUE]
    /\ held = [t \in Threads |-> {}]

Recycle(t, n) ==
    /\ poolAlive[t]
    /\ n \in pool[t]
    /\ pool' = [pool EXCEPT ![t] = @ \ {n}]
    /\ held' = [held EXCEPT ![t] = @ \cup {n}]
    /\ UNCHANGED <<heap, poolAlive>>

Allocate(t, n) ==
    /\ pool[t] = {} \/ ~poolAlive[t]
    /\ n \notin heap
    /\ heap' = heap \cup {n}
    /\ held' = [held EXCEPT ![t] = @ \cup {n}]
    /\ UNCHANGED <<pool, poolAlive>>

Keep(t, n) ==
    /\ poolAlive[t]
    /\ n \in held[t]
    /\ pool' = [pool EXCEPT ![t] = @ \cup {n}]
    /\ held' = [held EXCEPT ![t] = @ \ {n}]
    /\ UNCHANGED <<heap, poolAlive>>

Free(t, n) ==
    /\ ~poolAlive[t]
    /\ n \in held[t]
    /\ heap' = heap \ {n}
    /\ held' = [held EXCEPT ![t] = @ \ {n}]
    /\ UNCHANGED <<pool, poolAlive>>

(* A guard is forgotten and its node stays allocated for good.             *)
Forget(t, n) ==
    /\ n \in held[t]
    /\ held' = [held EXCEPT ![t] = @ \ {n}]
    /\ UNCHANGED <<heap, pool, poolAlive>>

PoolDrop(t) ==
    /\ poolAlive[t]
    /\ heap' = heap \ pool[t]
    /\ pool' = [pool EXCEPT ![t] = {}]
    /\ poolAlive' = [poolAlive EXCEPT ![t] = FALSE]
    /\ UNCHANGED held

ThreadExit(t) ==
    /\ ~poolAlive[t]
    /\ held[t] = {}
    /\ poolAlive' = [poolAlive EXCEPT ![t] = TRUE]
    /\ UNCHANGED <<heap, pool, held>>

Next ==
    \E t \in Threads :
        \/ \E n \in Nodes :
              Recycle(t, n) \/ Allocate(t, n) \/ Keep(t, n) \/ Free(t, n) \/ Forget(t, n)
        \/ PoolDrop(t)
        \/ ThreadExit(t)

Spec == Init /\ [][Next]_vars

--------------------------------------------------------------------------------

TypeOK ==
    /\ heap \in SUBSET Nodes
    /\ pool \in [Threads -> SUBSET Nodes]
    /\ poolAlive \in [Threads -> BOOLEAN]
    /\ held \in [Threads -> SUBSET Nodes]

(* A node is one thread's, and either in use by it or in its pool.         *)
OneOwner ==
    \A t \in Threads :
        /\ pool[t] \cup held[t] \subseteq heap
        /\ pool[t] \cap held[t] = {}
        /\ \A u \in Threads \ {t} :
              (pool[t] \cup held[t]) \cap (pool[u] \cup held[u]) = {}

================================================================================
