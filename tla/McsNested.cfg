\* Two threads, two locks, guards held across each other in any order,
\* relocked, dropped in any order and forgotten.
CONSTANTS
    t1 = t1  t2 = t2  t3 = t3
    l1 = l1  l2 = l2
    n1 = n1  n2 = n2  n3 = n3  n4 = n4
    Threads = {t1, t2}
    Locks = {l1, l2}
    Nodes = {n1, n2, n3, n4}
    Null = Null
    Nests <- AnyNesting
    Exits <- AnyThread
    Leaks = TRUE
SPECIFICATION Spec
SYMMETRY SymmetricLocks
CHECK_DEADLOCK FALSE
INVARIANTS
    NodesAccountedFor
PROPERTY
    RelockNeverReturns
