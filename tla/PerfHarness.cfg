\* Three workers, two acquisitions each; driven or not, one lock or three.
CONSTANTS
    w1 = w1
    w2 = w2
    w3 = w3
    Workers <- MCWorkers
    Main = main
    Perf = perf
    Acquisitions = 2

SPECIFICATION FairSpec

\* The run stops when it is over; that it does not before is NoDeadlock and
\* RunEnds.
CHECK_DEADLOCK FALSE

INVARIANTS
    NoDeadlock
    WorkIsCounted
    OnlyWorkIsCounted

PROPERTY
    RunEnds
