----------------------------- MODULE TaskBoard -----------------------------
(***************************************************************************)
(* What the research service promises of its tasks, if it may lose some:    *)
(* one task is accepted for a key, a task runs, and is completed when it is *)
(* due or cancelled before, what has ended stays as it ended, and only what *)
(* has ended is put away.  Of a task that was lost nothing is promised.     *)
(***************************************************************************)
CONSTANTS Tasks, Key

VARIABLES board,   \* board[t]: the status of a task, and whether it is archived
          due      \* the tasks whose time is over

At(s, archived) == [status |-> s, archived |-> archived]
Absent    == At("absent", FALSE)
Lost      == At("lost", FALSE)
Open      == {At("queued", FALSE), At("running", FALSE)}
Completed == At("completed", FALSE)
Cancelled == At("cancelled", FALSE)

Queued  == {t \in Tasks : board[t] = At("queued", FALSE)}
Overdue == {t \in Tasks \cap due : board[t] \in Open}

Init == board = [t \in Tasks |-> Absent] /\ due = {}

\* A step concerns one task; others may be lost with it.
Becomes(t, new, lost) ==
  /\ board' = [u \in Tasks |-> IF u \in lost THEN Lost
                               ELSE IF u = t THEN new ELSE board[u]]
  /\ UNCHANGED due

\* A key has one task.
Accept(t, lost) ==
  /\ board[t] = Absent
  /\ \A u \in Tasks : Key[u] = Key[t] => board[u] \in {Absent, Lost}
  /\ Becomes(t, At("queued", FALSE), lost)

Cancel(t, lost) ==
  /\ board[t] \in Open
  /\ Becomes(t, Cancelled, lost)

Archive(t, lost) ==
  \/ board[t] = Cancelled /\ Becomes(t, At("cancelled", TRUE), lost)
  \/ /\ board[t] = Completed \/ t \in Overdue
     /\ Becomes(t, At("completed", TRUE), lost)

\* Whoever reads tasks moves them on.
Read(begun, over, lost) ==
  /\ board' = [t \in Tasks |-> IF t \in lost THEN Lost
                               ELSE IF t \in over THEN Completed
                               ELSE IF t \in begun THEN At("running", FALSE) ELSE board[t]]
  /\ UNCHANGED due

Age(t) == board[t] \in Open \cup {Lost} /\ due' = due \cup {t} /\ UNCHANGED board

Next ==
  \/ \E t \in Tasks : Age(t)
  \/ \E lost \in SUBSET Tasks :
       \/ \E t \in Tasks : Accept(t, lost) \/ Cancel(t, lost) \/ Archive(t, lost)
       \/ \E begun \in SUBSET Queued, over \in SUBSET Overdue : Read(begun, over, lost)

Spec == Init /\ [][Next]_<<board, due>>
=============================================================================
