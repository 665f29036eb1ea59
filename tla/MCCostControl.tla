--------------------------- MODULE MCCostControl ---------------------------
(* A publish worker with two slots, for TLC. *)
EXTENDS CostControl, TLC

CONSTANTS publisher, s1, s2

MCSlots == {s1, s2}
MCProcessOf == [s \in MCSlots |-> publisher]
MCAreaOf == [s \in MCSlots |-> "publishing"]
MCSymmetry == Permutations(MCSlots)
=============================================================================
