------------------------ MODULE MCGuardedTransition ------------------------
(* Three callers on one clip candidate, which can be deleted under them.   *)
(* Rows share nothing, so one row is all the contention there is.          *)
EXTENDS GuardedTransition

CONSTANTS c1, c2, c3, id1
MCCallers == {c1, c2, c3}
MCIds == {id1}
=============================================================================
