------------------------------ MODULE McsInvariant ------------------------------
(***************************************************************************)
(* The inductive invariant of McsSpinlock.  The safety properties speak of *)
(* guards, free lists and pointers; what makes them inductive is the queue *)
(* the nodes form: who is where in it (QueueMembers), how tail, next and   *)
(* locked mirror it (QueueLinks), and that a node has one owner at a time  *)
(* (Ownership), without which an address freed by one thread and allocated *)
(* by another could be in the queue twice.  Accounts says that ownership   *)
(* loses no node, and what a forgotten node may still link to.             *)
(***************************************************************************)
EXTENDS McsSpinlock

Size(l) == Len(queue[l])

(* The thread whose guard or call n is in.                                 *)
Owns(t, n) == guard[t][n] # Null \/ nd[t] = n

(* n is in l's queue on behalf of t.                                       *)
Queues(t, l, n) ==
    \/ guard[t][n] = l
    \/ nd[t] = n /\ lk[t] = l /\ (Waiting(t) \/ Releasing(t))

(* A node is owned by one thread, or on one free list, or leaked, or free. *)
Ownership ==
    /\ \A t \in Threads : nd[t] # Null => guard[t][nd[t]] = Null
    /\ \A t, u \in Threads, n \in Nodes : Owns(t, n) /\ Owns(u, n) => t = u
    /\ \A t \in Threads, n \in Nodes :
          Owns(t, n) => n \in heap /\ n \notin leaked /\ \A u \in Threads : n \notin pool[u]
    /\ \A t \in Threads : \A n \in pool[t] :
          n \in heap /\ n \notin leaked /\ \A u \in Threads : n \in pool[u] => t = u
    /\ leaked \subseteq heap

(* No node is queued twice.                                                *)
QueuedOnce ==
    \A k, l \in Locks : \A i \in 1..Size(k), j \in 1..Size(l) :
        queue[k][i] = queue[l][j] => k = l /\ i = j

(* Every queued node is there for its owner, or it is the head and leaked. *)
QueuedForSomeone ==
    \A l \in Locks : \A i \in 1..Size(l) :
        \/ \E t \in Threads : Queues(t, l, queue[l][i])
        \/ i = 1 /\ queue[l][i] \in leaked

(* Whoever has the lock is at the head.                                    *)
GuardsAreFirst ==
    \A t \in Threads, n \in Nodes, l \in Locks :
        guard[t][n] = l => Size(l) > 0 /\ queue[l][1] = n

ReleasersAreFirst ==
    \A t \in Threads :
        Releasing(t) => Size(lk[t]) > 0 /\ queue[lk[t]][1] = nd[t]

(* Whoever waits is queued, and at the head exactly when its flag is down. *)
WaitersAreQueued ==
    \A t \in Threads :
        Waiting(t) => \E i \in 1..Size(lk[t]) :
            /\ queue[lk[t]][i] = nd[t]
            /\ locked[nd[t]] <=> i > 1
            /\ pc[t] = "link" => i > 1 /\ queue[lk[t]][i - 1] = pr[t]

QueueMembers ==
    /\ QueuedOnce
    /\ QueuedForSomeone
    /\ GuardsAreFirst
    /\ ReleasersAreFirst
    /\ WaitersAreQueued

TailIsLast ==
    \A l \in Locks : tail[l] = IF Size(l) = 0 THEN Null ELSE queue[l][Size(l)]

(* Some thread has swapped n into tail and is about to link it.            *)
Unlinked(n) == \E t \in Threads : pc[t] = "link" /\ nd[t] = n

(* Each next is the link to the node behind, or null until that is linked. *)
NextIsBehind ==
    \A l \in Locks : \A i \in 1..Size(l) :
        next[queue[l][i]] =
            IF i = Size(l) \/ Unlinked(queue[l][i + 1]) THEN Null
                                                       ELSE queue[l][i + 1]

(* What take_node has initialised is still so when it is published.        *)
UnpublishedIsFresh ==
    \A t \in Threads :
        pc[t] \in {"swap", "trycas"} => locked[nd[t]] /\ next[nd[t]] = Null

(* A releaser whose compare_exchange failed has a successor, and one about *)
(* to hand off has its link.                                               *)
ReleaserSeesNext ==
    \A t \in Threads :
        /\ pc[t] = "relwait" => Size(lk[t]) > 1
        /\ pc[t] = "handoff" => nx[t] = next[nd[t]]

QueueLinks ==
    /\ TailIsLast
    /\ NextIsBehind
    /\ UnpublishedIsFresh
    /\ ReleaserSeesNext

(* Every allocated node is somebody's.                                     *)
NoOrphans ==
    \A n \in heap :
        n \in leaked \/ \E t \in Threads : Owns(t, n) \/ n \in pool[t]

(* A forgotten node links to nothing once its lock is gone.                *)
ForgottenAreFirst ==
    \A n \in leaked :
        next[n] # Null => \E l \in Locks : Size(l) > 0 /\ queue[l][1] = n

Accounts == NoOrphans /\ ForgottenAreFirst

IInv == TypeOK /\ Ownership /\ QueueMembers /\ QueueLinks /\ Accounts

================================================================================
