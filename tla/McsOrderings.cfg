\* Three threads, one lock, five iterations in all.
CONSTANTS
    t1 = t1
    t2 = t2
    t3 = t3
    main = main
    null = null
    Threads <- MCThreads
    Main = main
    Null = null
    Rounds <- MCRounds

SPECIFICATION Spec

INVARIANTS
    ValueOrdered
    StoresInOrder
    FreedInOrder
    NothingLost

PROPERTY
    ImplementsFifoLock
