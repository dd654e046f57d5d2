----------------------------- MODULE MCPerfHarness -----------------------------
(* Three workers, two acquisitions each, every scenario and order of opens. *)
EXTENDS PerfHarness

CONSTANTS w1, w2, w3

MCWorkers == {w1, w2, w3}

================================================================================
