----------------------------- MODULE MCCampaign -----------------------------
(* A campaign of each source, whose page is edited, with an operator who     *)
(* saves reviewed rules beside the parse job.                                *)
EXTENDS CampaignLifecycle, TLC

CONSTANTS o1, o2
MCReviewers == {o1}
MCRules == {[status |-> "PARSED", permits |-> "yes"],
            [status |-> "PARSED", permits |-> "unlisted"],
            [status |-> "NEEDS_MANUAL_REVIEW", permits |-> "no"]}
MCSources == {"CONTENT_REWARDS", "MANUAL"}
=============================================================================
