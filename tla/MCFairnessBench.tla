---------------------------- MODULE MCFairnessBench ----------------------------
(* Three workers, chunks of two, counters that wrap around at five.        *)
EXTENDS FairnessBench

CONSTANTS w1, w2, w3

MCWorkers == {w1, w2, w3}

================================================================================
