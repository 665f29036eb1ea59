------------------------------ MODULE MCAccess ------------------------------
(* Two instances, the login and the route that checks all there is to check,  *)
(* and one user who is deactivated, moved and demoted, or the other way round. *)
EXTENDS Access, TLC

CONSTANTS i1, i2, c1, c2
MCInstances == {i1, i2}
MCCalls == {c1, c2}
MCUsers == {"user"}
MCRequested == {Login, PublishNow}
MCOwners == {"pool", "w1"}
MCHeaderRoles == {"VIEWER"}

Admin == [role |-> "ADMIN", workspace |-> "w1", active |-> TRUE]
MCUserRows ==
  {Admin, [role |-> "OPERATOR", workspace |-> "w2", active |-> FALSE]}
MCSymmetry == Permutations(MCInstances) \cup Permutations(MCCalls)
=============================================================================
