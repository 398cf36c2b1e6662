-------------------------- MODULE MC_ToolExecution --------------------------
(* Instances of ToolExecution for TLC.                                      *)
EXTENDS ToolExecution, TLC

CONSTANTS c1, c2, k1, b1, b2

\* Two calls with one key: the first passes the gates; the second carries the
\* same payload or another, and meets any gate.
OneKey ==
  {a \in [Calls -> Requests] :
     a[c1].body = b1 /\ a[c1].gate = "clear"}
=============================================================================
