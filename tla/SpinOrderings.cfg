\* Three threads, one lock, five iterations in all.
CONSTANTS
    t1 = t1
    t2 = t2
    t3 = t3
    main = main
    Threads <- MCThreads
    Main = main
    Rounds <- MCRounds

SPECIFICATION Spec

INVARIANTS
    HolderUpToDate
    NeverTorn
    NothingLost

PROPERTY
    ImplementsExclusiveLock
