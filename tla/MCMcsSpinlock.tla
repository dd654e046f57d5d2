----------------------------- MODULE MCMcsSpinlock -----------------------------
(* Instances of McsSpinlock for TLC.                                       *)
EXTENDS McsInvariant, TLC

CONSTANTS t1, t2, t3, l1, l2, n1, n2, n3, n4

(* Which lock may be waited for while holding which.                       *)
NeverNested == {}
AnyNesting == Locks \X Locks
Ordered == {<<l1, l2>>}

(* Which threads end.                                                      *)
AnyThread == Threads
NoThread == {}

Symmetric == Permutations(Threads) \cup Permutations(Nodes)
SymmetricLocks == Symmetric \cup Permutations(Locks)

================================================================================
