---------------------------- MODULE MCOAuthTokens ----------------------------
(* Instances of OAuthTokens: two callers in one process, or one in each of   *)
(* two processes.                                                            *)
EXTENDS OAuthTokens, TLC

CONSTANTS p1, p2, r1, r2

\* Two callers in one process.
OneProcess == r1 :> p1 @@ r2 :> p1
\* One caller in each of two processes.
TwoProcesses == r1 :> p1 @@ r2 :> p2
==============================================================================
