------------------------------- MODULE MCSpinlock -------------------------------
(* Instances of Spinlock for TLC.                                          *)
EXTENDS Spinlock

CONSTANTS t1, t2, t3, l1, l2

AnyNesting == Locks \X Locks

================================================================================
