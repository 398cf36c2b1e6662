--------------------------- MODULE MC_ChatSession ---------------------------
(* Instances of ChatSession for TLC.                                        *)
EXTENDS ChatSession, TLC

CONSTANTS r1, r2, r3

\* Every request may be any kind of turn, or a rollback.
TurnsAndRollback == [r \in Requests |-> Turns \cup {"rollback"}]

\* A turn or a rollback beside two changes of status, one of which may be a
\* message instead.
TurnAndChanges ==
  [r \in Requests |-> IF r = r1 THEN Turns \cup {"rollback"}
                      ELSE IF r = r2 THEN Changes ELSE Changes \cup {"send"}]

SendOrDelete == [r \in Requests |-> {"send", "delete"}]

RequestSymmetry == Permutations(Requests)
=============================================================================
