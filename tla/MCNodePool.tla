------------------------------- MODULE MCNodePool -------------------------------
(* Instances of NodePool for TLC.                                          *)
EXTENDS NodePool

CONSTANTS t1, t2, n1, n2, n3, n4

================================================================================
