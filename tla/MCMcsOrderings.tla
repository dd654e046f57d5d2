---------------------------- MODULE MCMcsOrderings ----------------------------
(* Two threads that lock twice and a third that locks once.                *)
EXTENDS McsOrderings

CONSTANTS t1, t2, t3, main, null

MCThreads == {t1, t2, t3}
MCRounds == [t \in MCThreads |-> IF t = t3 THEN 1 ELSE 2]

================================================================================
