---------------------------- MODULE MCCredentials ----------------------------
(* Two processes, deployed one after the other, and two accounts, of which  *)
(* one is of a platform without client credentials.                         *)
EXTENDS Credentials, TLC

CONSTANTS p1, p2, a1, a2
MCProcesses == {p1, p2}
MCAccounts == {a1, a2}
MCSandboxed == {a2}
MCSymmetry == Permutations(MCProcesses)
=============================================================================
