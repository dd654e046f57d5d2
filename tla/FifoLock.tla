-------------------------------- MODULE FifoLock --------------------------------
(***************************************************************************)
(* What McsSpinlock promises on top of mutual exclusion: "the lock is      *)
(* granted in the order it was requested", "there is no barging, so a      *)
(* thread that joins the queue is served after exactly the threads already *)
(* in it".  A request is a ticket; requests of a lock stand in line[l],    *)
(* oldest first, and only the oldest can be granted the lock.  A request   *)
(* stays in line until its holder has released the lock.                   *)
(***************************************************************************)
EXTENDS Sequences

CONSTANTS
    Locks,    \* the locks
    Tickets   \* identities of pending or granted requests

VARIABLES
    line,     \* [Locks -> Seq(Tickets)], the requests, oldest first
    holders   \* [Locks -> SUBSET Tickets], the requests that were granted

vars == <<line, holders>>

InLine(k) == \E l \in Locks : \E i \in DOMAIN line[l] : line[l][i] = k

Init ==
    /\ line = [l \in Locks |-> <<>>]
    /\ holders = [l \in Locks |-> {}]

(* A request finds others ahead of it and waits behind the last of them.   *)
Enqueue(l, k) ==
    /\ ~InLine(k)
    /\ line[l] # <<>>
    /\ line' = [line EXCEPT ![l] = Append(@, k)]
    /\ UNCHANGED holders

(* A request finds nobody in line: it is granted at once.                  *)
Enter(l, k) ==
    /\ ~InLine(k)
    /\ line[l] = <<>>
    /\ line' = [line EXCEPT ![l] = <<k>>]
    /\ holders' = [holders EXCEPT ![l] = {k}]

(* The oldest request learns that the lock is its own.                     *)
Grant(l) ==
    /\ line[l] # <<>>
    /\ holders[l] = {}
    /\ holders' = [holders EXCEPT ![l] = {Head(line[l])}]
    /\ UNCHANGED line

(* The oldest request, which holds the lock, gives it up.                  *)
Release(l) ==
    /\ line[l] # <<>>
    /\ Head(line[l]) \in holders[l]
    /\ line' = [line EXCEPT ![l] = Tail(@)]
    /\ holders' = [holders EXCEPT ![l] = @ \ {Head(line[l])}]

Next ==
    \E l \in Locks :
        \/ \E k \in Tickets : Enqueue(l, k) \/ Enter(l, k)
        \/ Grant(l)
        \/ Release(l)

Spec == Init /\ [][Next]_vars

--------------------------------------------------------------------------------

TypeOK ==
    /\ line \in [Locks -> Seq(Tickets)]
    /\ holders \in [Locks -> SUBSET Tickets]

(* Only the head of a line holds its lock.                                 *)
HolderIsFirst ==
    \A l \in Locks : \A k \in holders[l] : line[l] # <<>> /\ k = Head(line[l])

(* The FIFO lock is in particular an exclusive lock.                       *)
Exclusive == INSTANCE ExclusiveLock WITH Clients <- Tickets

================================================================================
