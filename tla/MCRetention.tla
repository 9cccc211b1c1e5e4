----------------------------- MODULE MCRetention -----------------------------
(* Small instances of Retention for TLC, with a policy of either kind. *)
EXTENDS Retention, TLC

CONSTANTS q1, q2, e1

ThreeRows == {q1, q2, e1}

MCRequests == {q1, q2}
MCPolicies == {[age |-> 1, count |-> 0], [age |-> 0, count |-> 1]}
==============================================================================
