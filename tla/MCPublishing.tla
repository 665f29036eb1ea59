---------------------------- MODULE MCPublishing ----------------------------
(* One safety-critical check and one that may be waived; a deployment that   *)
(* may post publicly, and one whose app is not audited.                      *)
EXTENDS Publishing

CONSTANTS sourcePermission, captionLength
MCSafetyChecks == {sourcePermission}
MCOtherChecks == {captionLength}

Audited == [envAllowsPublic |-> TRUE, connected |-> TRUE,
            requiresInApp |-> FALSE, audited |-> TRUE]
Unaudited == [Audited EXCEPT !.audited = FALSE]

MCAudited == {Audited}
MCTwoSetups == {Audited, Unaudited}

MCAuto == {"AUTO"}
MCAutoDraft == {"AUTO", "DRAFT"}
MCAllFaults == {"crash", "database", "provider"}
MCProviderFaults == {"provider"}
MCNoFaults == {}
=============================================================================
