---------------------------- MODULE KeyedWrites ----------------------------
(***************************************************************************)
(* What idempotency keys promise: under a key one row is written, once, and *)
(* no other key has it; whoever is told that the write is done is told of   *)
(* this row, after it was written.  Of a key that was lost nothing is       *)
(* promised.                                                                *)
(***************************************************************************)
CONSTANTS Keys, Calls, Rows, NoRow

VARIABLES entry,   \* entry[k]: the row of a key, and who was told of which row
          lost     \* the keys that were lost

Empty == [row |-> NoRow, told |-> {}]

Init == entry = [k \in Keys |-> Empty] /\ lost = {}

Write(k, row) ==
  /\ k \notin lost /\ entry[k] = Empty
  /\ \A j \in Keys : entry[j].row # row
  /\ entry' = [entry EXCEPT ![k].row = row]
  /\ UNCHANGED lost

Tell(k, c) ==
  /\ k \notin lost /\ entry[k].row # NoRow
  /\ entry' = [entry EXCEPT ![k].told = @ \cup {<<c, entry[k].row>>}]
  /\ UNCHANGED lost

Lose(more) ==
  /\ lost' = lost \cup more
  /\ entry' = [k \in Keys |-> IF k \in more THEN Empty ELSE entry[k]]

Next ==
  \/ \E k \in Keys : \/ \E row \in Rows : Write(k, row)
                     \/ \E c \in Calls : Tell(k, c)
  \/ \E more \in SUBSET Keys : Lose(more)

Spec == Init /\ [][Next]_<<entry, lost>>
=============================================================================
