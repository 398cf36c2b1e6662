------------------------------ MODULE RunSlots ------------------------------
(***************************************************************************)
(* What one process promises about running messages: every conversation    *)
(* has one slot, an execution begins only in an empty slot, leaves its own  *)
(* slot only, and a restart empties the slots of its process.               *)
(***************************************************************************)
CONSTANTS Procs, Convs, Workers, Empty

VARIABLE slot   \* slot[p][c]: the execution of conversation c on process p

Init == slot = [p \in Procs |-> [c \in Convs |-> Empty]]

Begin(p, c, w) ==
  /\ slot[p][c] = Empty
  /\ slot' = [slot EXCEPT ![p][c] = w]

End(p, c) ==
  /\ slot[p][c] # Empty
  /\ slot' = [slot EXCEPT ![p][c] = Empty]

Restart(p) == slot' = [slot EXCEPT ![p] = [c \in Convs |-> Empty]]

Next ==
  \/ \E p \in Procs, c \in Convs : End(p, c) \/ \E w \in Workers : Begin(p, c, w)
  \/ \E p \in Procs : Restart(p)

Spec == Init /\ [][Next]_slot
=============================================================================
