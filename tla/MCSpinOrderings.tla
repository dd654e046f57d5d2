---------------------------- MODULE MCSpinOrderings ----------------------------
(* Two threads of two iterations each, and a third of one.                 *)
EXTENDS SpinOrderings

CONSTANTS t1, t2, t3, main

MCThreads == {t1, t2, t3}
MCRounds == [t \in MCThreads |-> IF t = t3 THEN 1 ELSE 2]

================================================================================
