\* Three threads on one lock, a heap of four nodes.
CONSTANTS
    t1 = t1  t2 = t2  t3 = t3
    l1 = l1  l2 = l2
    n1 = n1  n2 = n2  n3 = n3  n4 = n4
    Threads = {t1, t2, t3}
    Locks = {l1}
    Nodes = {n1, n2, n3, n4}
    Null = Null
    Nests <- NeverNested
    Exits <- AnyThread
    Leaks = FALSE
SPECIFICATION Spec
SYMMETRY Symmetric
INVARIANTS
    IInv
    MutualExclusion
    NoDanglingWrite
    UnreachableOnceReturned
    NobodyStranded
    TailNullIffNotBusy
PROPERTIES
    TryLockIsHonest
    ImplementsFifoLock
    ImplementsNodeSupply
