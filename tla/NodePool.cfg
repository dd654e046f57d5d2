\* Two threads that end and are replaced, a heap of four nodes.
CONSTANTS
    t1 = t1  t2 = t2
    n1 = n1  n2 = n2  n3 = n3  n4 = n4
    Threads = {t1, t2}
    Nodes = {n1, n2, n3, n4}
    Null = Null
SPECIFICATION FairSpec
INVARIANTS
    ListIsLinked
    UnlinkedWhileHeld
    OnePlace
    NeverGrows
PROPERTIES
    ImplementsNodeSupply
    PoolDropEnds
