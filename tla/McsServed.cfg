\* Three threads wait for one lock.
CONSTANTS
    t1 = t1  t2 = t2  t3 = t3
    l1 = l1  l2 = l2
    n1 = n1  n2 = n2  n3 = n3  n4 = n4
    Threads = {t1, t2, t3}
    Locks = {l1}
    Nodes = {n1, n2, n3}
    Null = Null
    Nests <- NeverNested
    Exits <- NoThread
    Leaks = FALSE
SPECIFICATION LiveSpec
PROPERTIES
    LockReturns
