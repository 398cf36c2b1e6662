-------------------------- MODULE MC_ResearchTasks --------------------------
(* Instances of ResearchTasks for TLC.                                      *)
EXTENDS ResearchTasks, TLC

CONSTANTS p1, p2, c1, c2, g1, x1, a1, k1, body1, body2

\* Two creates with one key.
OneKey == [c \in Creates |-> k1]

\* One replica serves a create, the cancel and the archive, the other one the
\* repeated create and the reads.
Homes == [r \in Requests |-> IF r \in {c2, g1} THEN p2 ELSE p1]

AnyBody == Permutations(Payloads)

\* A read or a cancel that comes before any task, or an archive before the end
\* of one, finds nothing it could answer with; the store it might make is made by
\* the creates as well.
NothingToRefuse ==
  \A r \in Requests \ Creates : pc[r] = "new" /\ pc'[r] # "new" =>
    \E t \in Tasks : rows[t] # None /\ (r \in Archives => rows[t].status \in Ended)
=============================================================================
