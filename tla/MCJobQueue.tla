----------------------------- MODULE MCJobQueue -----------------------------
(* One key, two worker slots, two operators.  Distinct keys share nothing   *)
(* but worker slots; two workers are what redelivery after a crash needs.   *)
EXTENDS JobQueue

CONSTANTS k1, w1, w2, o1, o2
MCKeys == {k1}
MCWorkers == {w1, w2}
MCOperators == {o1, o2}
=============================================================================
