\* Three threads, two locks, any nesting, guards forgotten.
CONSTANTS
    t1 = t1  t2 = t2  t3 = t3
    l1 = l1  l2 = l2
    Threads = {t1, t2, t3}
    Locks = {l1, l2}
    None = None
    Nests <- AnyNesting
    Leaks = TRUE
SPECIFICATION FairSpec
CHECK_DEADLOCK FALSE
INVARIANTS
    FlagSetIffHeld
PROPERTIES
    TryLockIsHonest
    RelockNeverReturns
    ImplementsExclusiveLock
    FreeLockIsTaken
