\* Three workers, chunks of two, a window of any length.
CONSTANTS
    w1 = w1
    w2 = w2
    w3 = w3
    Workers <- MCWorkers
    Main = main
    Chunk = 2
    Width = 5

SPECIFICATION FairSpec

\* The row is made and the function returns; before that, see WindowEnds.
CHECK_DEADLOCK FALSE

INVARIANT
    CountsAgree

PROPERTY
    WindowEnds
