---------------------------- MODULE MCSubmission ----------------------------
(* Two operators who confirm one submission; posts with a URL, or an id only; *)
(* the status adapter of the sandbox, and one that reads the portal.          *)
EXTENDS Submission, TLC

CONSTANTS o1, o2, job, e1
MCOperators == {o1, o2}
MCSyncers == {e1}
MCSymmetry == Permutations(MCOperators)

Confirmed(post, polls) == [confirm |-> TRUE, post |-> post, polls |-> polls]
Automatic == [confirm |-> FALSE, post |-> "url", polls |-> FALSE]
MCSetups == {Confirmed("url", TRUE), Confirmed("id", FALSE), Confirmed("none", FALSE), Automatic}
=============================================================================
