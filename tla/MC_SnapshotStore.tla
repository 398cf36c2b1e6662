-------------------------- MODULE MC_SnapshotStore --------------------------
(* Instances of SnapshotStore for TLC.                                      *)
EXTENDS SnapshotStore, TLC

CONSTANTS p1, p2, s1, s2, g1, g2

\* One call on the second process, the others on the first.
Homes == [o \in Calls |-> IF o = s2 THEN p2 ELSE p1]

\* The second get matters to the reads of the runs in which nothing fails; it
\* does not begin, or is not followed, once something has failed.
SecondGetWithoutFaults == faults < MaxFaults => pc[g2] = "new"
=============================================================================
