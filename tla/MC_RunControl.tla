--------------------------- MODULE MC_RunControl ---------------------------
(* Instances of RunControl for TLC.                                         *)
EXTENDS RunControl, TLC

CONSTANTS p1, p2, w1, w2, w3, k1

\* Two threads on the first process, the rest on the second.
MCHome ==
  [t \in Threads |-> IF t \in {w1, w2} THEN p1 ELSE p2]

MsgSymmetry == Permutations(Msgs)
=============================================================================
