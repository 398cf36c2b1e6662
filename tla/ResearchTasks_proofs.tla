------------------------ MODULE ResearchTasks_proofs ------------------------
(* Theorems about ResearchTasks, for any requests, processes and crashes.   *)
EXTENDS ResearchTasks, TLAPS

\* The step of a request, whatever its kind.
Step(r) == Handle(r) \/ (r \in Creates /\ (Look(r) \/ Insert(r)))

LEMMA NextIsStep ==
  Next <=> \/ \E r \in Requests : Step(r)
           \/ \E t \in Tasks : Grow(t)
           \/ \E p \in Procs : Crash(p)
BY DEF Next, Step, Requests
----------------------------------------------------------------------------
\* Rows keep their type when they are read, changed and merged.
LEMMA RowTypes ==
  /\ NewRow \in Row
  /\ \A t, r : \A row \in Row : /\ MaybeComplete(t, row) \in Row
                                /\ Change(r, row) \in Row
  /\ \A now, was, new \in Row : Merge(now, was, new) \in Row
BY DEF NewRow, Row, Ended, MaybeComplete, Change, Merge

\* A row that nobody has changed since it was read becomes the one planned.
LEMMA MergeUnchanged ==
  ASSUME NEW now \in Row, NEW new \in Row
  PROVE  Merge(now, now, new) = new
BY DEF Merge, Row

\* What the dirty rows of a request are when its copies are of type.
LEMMA Fetched ==
  ASSUME TypeOK, NEW r \in Requests, NEW S \in Asked(r), \A t \in S : ~Denied(r, t)
  PROVE  /\ [t \in Tasks |-> IF t \in S THEN rows[t] ELSE None] \in Rows
         /\ [t \in Tasks |-> IF t \in S THEN Change(r, MaybeComplete(t, rows[t])) ELSE None]
              \in Rows
<1>1. \A t \in S \cap Tasks : rows[t] \in Row
  BY DEF Denied, Visible, TypeOK, Rows
<1>2. \A t \in S \cap Tasks : Change(r, MaybeComplete(t, rows[t])) \in Row
  BY <1>1, RowTypes
<1> QED BY <1>1, <1>2 DEF Rows

LEMMA Merged ==
  ASSUME TypeOK, NEW r \in Requests, \A t \in Changed(r) : rows[t] # None,
         \A t \in Tasks : copy[r][t] = None <=> dirty[r][t] = None
  PROVE  [t \in Tasks |-> IF t \in Changed(r)
            THEN Merge(rows[t], copy[r][t], dirty[r][t]) ELSE rows[t]] \in Rows
<1> SUFFICES ASSUME NEW t \in Changed(r)
    PROVE  Merge(rows[t], copy[r][t], dirty[r][t]) \in Row \cup {None}
  BY DEF TypeOK, Rows
<1>1. t \in Tasks /\ rows[t] \in Row BY DEF Changed, TypeOK, Rows
<1>2. copy[r][t] \in Row /\ dirty[r][t] \in Row BY DEF Changed, TypeOK, Rows
<1> QED BY <1>1, <1>2, RowTypes
----------------------------------------------------------------------------
\* A request plans changes for the rows it has read, and for no others.
Pairs == \A r \in Requests, t \in Tasks : copy[r][t] = None <=> dirty[r][t] = None

TInv == TypeOK /\ Pairs

LEMMA TypeInit == Init => TInv
BY CrashesAssumption DEF Init, TInv, TypeOK, Pairs, Rows, Absent, Labels, Requests, Tasks

LEMMA AbsentType == Absent \in Rows
BY DEF Absent, Rows

LEMMA TypeStep ==
  ASSUME TInv, NEW r \in Requests, Step(r)
  PROVE  TInv'
<1> USE DEF TInv
<1>1. CASE Enter(r)
  <2> USE <1>1 DEF Enter, Goto, request, history
  <2>1. TypeOK' BY HomeAssumption DEF TypeOK, Labels
  <2> QED BY <2>1 DEF Pairs
<1>2. CASE CheckRows(r)
  <2> USE <1>2 DEF CheckRows, Made, Goto, history
  <2>1. TypeOK' BY HomeAssumption DEF TypeOK, Labels
  <2> QED BY <2>1 DEF Pairs
<1>3. CASE Wipe(r)
  <2> USE <1>3 DEF Wipe, Made, Goto
  <2>1. TypeOK' BY AbsentType, HomeAssumption DEF TypeOK, Labels
  <2> QED BY <2>1 DEF Pairs
<1>4. CASE Select(r)
  <2>1. PICK S \in Asked(r) :
           \/ Goto(r, "failed") /\ UNCHANGED <<copy, dirty>>
           \/ /\ \A t \in S : ~Denied(r, t)
              /\ copy' = [copy EXCEPT ![r] = [t \in Tasks |-> IF t \in S THEN rows[t] ELSE None]]
              /\ dirty' = [dirty EXCEPT ![r] =
                   [t \in Tasks |-> IF t \in S THEN Change(r, MaybeComplete(t, rows[t])) ELSE None]]
              /\ Goto(r, "commit")
    BY <1>4 DEF Select
  <2>2. /\ copy' \in [Requests -> Rows] /\ dirty' \in [Requests -> Rows]
        /\ pc' \in [Requests -> Labels]
    BY <2>1, Fetched DEF TypeOK, Goto, Labels
  <2>3. TypeOK' BY <1>4, <2>2 DEF Select, TypeOK, history
  <2>4. CASE UNCHANGED <<copy, dirty>>
    BY <2>3, <2>4 DEF Pairs
  <2>5. ASSUME ~UNCHANGED <<copy, dirty>>, NEW t \in Tasks
        PROVE  copy'[r][t] = None <=> dirty'[r][t] = None
    <3>1. \A u \in S \cap Tasks : rows[u] \in Row
      BY <2>1, <2>5 DEF Denied, Visible, TypeOK, Rows
    <3>2. \A u \in S \cap Tasks : Change(r, MaybeComplete(u, rows[u])) \in Row
      BY <3>1, RowTypes
    <3>3. /\ copy'[r][t] = IF t \in S THEN rows[t] ELSE None
          /\ dirty'[r][t] = IF t \in S THEN Change(r, MaybeComplete(t, rows[t])) ELSE None
      BY <2>1, <2>5 DEF TypeOK
    <3> QED BY <3>1, <3>2, <3>3, NoRowAssumption
  <2>6. \A q \in Requests \ {r} : copy'[q] = copy[q] /\ dirty'[q] = dirty[q]
    BY <2>1 DEF TypeOK
  <2> QED BY <2>3, <2>4, <2>5, <2>6 DEF Pairs
<1>5. CASE Commit(r)
  <2>1. rows' \in Rows BY <1>5, Merged DEF Commit, Pairs
  <2>2. TypeOK' BY <1>5, <2>1, AbsentType DEF Commit, Goto, Forget, TypeOK, Labels, Changed
  <2> QED BY <1>5, <2>2 DEF Commit, Forget, Pairs, TypeOK, Absent
<1>6. CASE CommitFails(r)
  <2>1. TypeOK' BY <1>6, AbsentType DEF CommitFails, Goto, Forget, TypeOK, Labels, history
  <2> QED BY <1>6, <2>1 DEF CommitFails, Forget, Pairs, TypeOK, Absent
<1>7. CASE r \in Creates /\ Look(r)
  <2> USE <1>7 DEF Look, Replay, WithKey, Goto, history
  <2>1. TypeOK' BY DEF TypeOK, Labels
  <2> QED BY <2>1 DEF Pairs
<1>8. CASE r \in Creates /\ Insert(r)
  <2> USE <1>8 DEF Insert, Replay, WithKey, Goto, history
  <2>1. rows' \in Rows BY RowTypes DEF TypeOK, Rows, Tasks
  <2>2. TypeOK' BY <2>1 DEF TypeOK, Labels, Tasks
  <2> QED BY <2>2 DEF Pairs
<1> QED BY <1>1, <1>2, <1>3, <1>4, <1>5, <1>6, <1>7, <1>8 DEF Step, Handle

LEMMA TypeNext == TInv /\ [Next]_vars => TInv'
<1> SUFFICES ASSUME TInv, [Next]_vars PROVE TInv'
  OBVIOUS
<1>1. CASE \E r \in Requests : Step(r)
  BY <1>1, TypeStep
<1>2. ASSUME NEW t \in Tasks, Grow(t) PROVE TInv'
  BY <1>2 DEF TInv, TypeOK, Pairs, Grow, request, history
<1>3. ASSUME NEW p \in Procs, Crash(p) PROVE TInv'
  <2>1. TypeOK'
    BY <1>3, AbsentType, CrashesAssumption DEF TInv, TypeOK, Crash, Labels, history
  <2> QED BY <1>3, <2>1 DEF TInv, Pairs, TypeOK, Crash, Absent
<1>4. CASE UNCHANGED vars
  BY <1>4 DEF TInv, TypeOK, Pairs, vars, request, history
<1> QED BY <1>1, <1>2, <1>3, <1>4, NextIsStep

\* Every variable keeps its type: requests, rows and their copies, whatever is
\* read, merged, wiped or lost with a process.
THEOREM TypeCorrect == Spec => []TypeOK
<1>1. Spec => []TInv BY TypeInit, TypeNext, PTL DEF Spec
<1> QED BY <1>1, PTL DEF TInv
----------------------------------------------------------------------------
\* What an insert does to the rows and the keys.
LEMMA Inserted ==
  ASSUME NEW c \in Creates, Insert(c)
  PROVE  /\ pc[c] = "insert" /\ overwritten' = overwritten
         /\ \/ rows' = rows /\ keys' = keys
            \/ /\ rows' = [rows EXCEPT ![c] = NewRow] /\ keys' = keys \cup {c}
               /\ task' = [task EXCEPT ![c] = c] /\ WithKey(c) = {}
BY DEF Insert, history

\* A create that has not inserted has no row.
Fresh ==
  \A c \in Creates : pc[c] \in {"new", "check", "wipe", "ready", "insert"} =>
    rows[c] = None /\ c \notin keys

LEMMA FreshInit == Init => Fresh
BY DEF Init, Fresh, Absent, Requests, Tasks

LEMMA FreshNext == TInv /\ Fresh /\ [Next]_vars => Fresh'
<1> SUFFICES ASSUME TInv, Fresh, [Next]_vars, NEW c \in Creates,
                    pc'[c] \in {"new", "check", "wipe", "ready", "insert"}
             PROVE  rows'[c] = None /\ c \notin keys'
  BY DEF Fresh
<1> USE DEF TInv, TypeOK
<1>1. c \in Requests /\ c \in Tasks BY DEF Requests, Tasks
<1>2. ASSUME NEW r \in Requests, Step(r)
      PROVE  rows'[c] = None /\ c \notin keys'
  <2>1. CASE Enter(r) BY <1>1, <2>1 DEF Enter, Goto, Fresh
  <2>2. CASE CheckRows(r) BY <1>1, <2>2 DEF CheckRows, Made, Goto, Fresh
  <2>3. CASE Wipe(r) BY <1>1, <2>3 DEF Wipe, Absent
  <2>4. CASE Select(r)
    <3>1. /\ rows' = rows /\ keys' = keys
          /\ pc' \in {[pc EXCEPT ![r] = "failed"], [pc EXCEPT ![r] = "commit"]}
      BY <2>4 DEF Select, Goto
    <3> QED BY <1>1, <3>1 DEF Fresh
  <2>5. CASE Commit(r)
    <3>1. c # r /\ rows[c] = None /\ c \notin keys
      BY <1>1, <2>5 DEF Commit, Goto, Fresh
    <3>2. c \notin Changed(r) BY <2>5, <3>1 DEF Commit
    <3> QED BY <1>1, <2>5, <3>1, <3>2 DEF Commit
  <2>6. CASE CommitFails(r) BY <1>1, <2>6 DEF CommitFails, Goto, Fresh
  <2>7. CASE r \in Creates /\ Look(r) BY <1>1, <2>7 DEF Look, Replay, Goto, Fresh
  <2>8. CASE r \in Creates /\ Insert(r)
    <3>1. c # r BY <1>1, <2>8 DEF Insert, Replay, Goto
    <3>2. pc'[c] = pc[c] BY <1>1, <2>8, <3>1 DEF Insert, Replay, Goto
    <3>3. rows'[c] = rows[c] /\ (c \in keys' => c \in keys)
      BY <1>1, <2>8, <3>1, Inserted DEF Rows
    <3> QED BY <3>2, <3>3 DEF Fresh
  <2> QED BY <1>2, <2>1, <2>2, <2>3, <2>4, <2>5, <2>6, <2>7, <2>8 DEF Step, Handle
<1>3. ASSUME NEW t \in Tasks, Grow(t) PROVE rows'[c] = None /\ c \notin keys'
  BY <1>3 DEF Grow, request, Fresh
<1>4. ASSUME NEW p \in Procs, Crash(p) PROVE rows'[c] = None /\ c \notin keys'
  BY <1>1, <1>4 DEF Crash, Fresh
<1>5. CASE UNCHANGED vars BY <1>5 DEF vars, request, Fresh
<1> QED BY <1>2, <1>3, <1>4, <1>5, NextIsStep
----------------------------------------------------------------------------
\* A row whose columns agree, and a change that keeps the end of a task.
Coherent(row) ==
  /\ row.ready <=> (row.status = "completed")
  /\ row.deleted => row.status \in Ended

Keeps(was, new) == was.status \in Ended => new.status = was.status

LEMMA PlansAreSound ==
  ASSUME NEW t, NEW r, NEW row \in Row, Coherent(row), ~Refuses(r, MaybeComplete(t, row))
  PROVE  /\ Coherent(Change(r, MaybeComplete(t, row)))
         /\ Keeps(row, Change(r, MaybeComplete(t, row)))
<1> DEFINE polled == MaybeComplete(t, row)
<1>1. polled \in Row /\ Coherent(polled) /\ Keeps(row, polled) /\ ~Refuses(r, polled)
  BY DEF MaybeComplete, Coherent, Keeps, Row, Ended
<1>2. Coherent(Change(r, polled)) /\ Keeps(polled, Change(r, polled))
  <2> HIDE DEF polled
  <2>1. CASE r \in Cancels
    BY <1>1, <2>1, RequestsAssumption DEF Refuses, Change, Coherent, Keeps, Row, Ended
  <2>2. CASE r \notin Cancels /\ r \in Archives
    BY <1>1, <2>2 DEF Refuses, Change, Coherent, Keeps, Row, Ended
  <2>3. CASE r \notin Cancels /\ r \notin Archives
    BY <1>1, <2>3 DEF Change, Coherent, Keeps, Row, Ended
  <2> QED BY <2>1, <2>2, <2>3
<1>3. Keeps(row, Change(r, polled)) BY <1>1, <1>2 DEF Keeps
<1> QED BY <1>2, <1>3

\* What a request is about to commit is coherent and keeps the end of the row
\* it has read, unless that row was written from an outdated copy before.
Planned ==
  \A r \in Requests, t \in Tasks \ overwritten :
    copy[r][t] # None => Coherent(dirty[r][t]) /\ Keeps(copy[r][t], dirty[r][t])

RInv == TInv /\ Fresh /\ Planned /\ RowsAreCoherent

LEMMA CoherentRows ==
  RowsAreCoherent <=> \A t \in Tasks \ overwritten : rows[t] # None => Coherent(rows[t])
BY DEF RowsAreCoherent, Coherent

LEMMA CoherentRowsNext ==
  RowsAreCoherent' <=> \A t \in Tasks \ overwritten' : rows'[t] # None => Coherent(rows'[t])
BY DEF RowsAreCoherent, Coherent

\* What a step of the service does to one row that stays free of outdated
\* copies.
RowStep(t) ==
  \/ rows'[t] = rows[t]
  \/ rows'[t] = None
  \/ rows[t] = None /\ rows'[t] = NewRow
  \/ \E r \in Requests : /\ copy[r][t] = rows[t] /\ rows[t] # None
                         /\ rows'[t] = dirty[r][t]

LEMMA Committed ==
  ASSUME TInv, NEW r \in Requests, Commit(r), NEW t \in Tasks \ overwritten'
  PROVE  /\ t \notin overwritten
         /\ \/ rows'[t] = rows[t]
            \/ copy[r][t] = rows[t] /\ rows[t] # None /\ rows'[t] = dirty[r][t]
<1> USE DEF TInv, TypeOK
<1>1. t \notin overwritten BY DEF Commit
<1>2. CASE t \notin Changed(r) BY <1>1, <1>2 DEF Commit
<1>3. CASE t \in Changed(r)
  <2>1. copy[r][t] = rows[t] /\ rows[t] # None /\ rows[t] \in Row
    BY <1>3 DEF Commit, Rows
  <2>2. dirty[r][t] \in Row BY <2>1 DEF Pairs, Rows
  <2>3. rows'[t] = Merge(rows[t], rows[t], dirty[r][t]) BY <1>3, <2>1 DEF Commit
  <2> QED BY <1>1, <2>1, <2>2, <2>3, MergeUnchanged
<1> QED BY <1>1, <1>2, <1>3

LEMMA CommittedRow ==
  ASSUME TInv, NEW r \in Requests, Commit(r), NEW t \in Tasks \ overwritten'
  PROVE  t \notin overwritten /\ RowStep(t)
BY Committed DEF RowStep

LEMMA RowSteps ==
  ASSUME TInv, Fresh, [Next]_vars, NEW t \in Tasks \ overwritten'
  PROVE  t \notin overwritten /\ RowStep(t)
<1>1. CASE \E r \in Requests : Commit(r) BY <1>1, CommittedRow
<1>2. ASSUME NEW r \in Requests, Wipe(r) PROVE t \notin overwritten /\ RowStep(t)
  BY <1>2 DEF Wipe, Absent, RowStep
<1>3. ASSUME NEW c \in Creates, Insert(c) PROVE t \notin overwritten /\ RowStep(t)
  <2>1. rows[c] = None BY <1>3, Inserted DEF Fresh
  <2>2. rows'[t] = rows[t] \/ (t = c /\ rows'[t] = NewRow)
    BY <1>3, Inserted DEF TInv, TypeOK, Rows
  <2> QED BY <1>3, <2>1, <2>2, Inserted DEF RowStep
<1>4. CASE rows' = rows /\ overwritten' = overwritten BY <1>4 DEF RowStep
<1>5. ASSUME NEW r \in Requests, Handle(r), ~Commit(r), ~Wipe(r)
      PROVE  rows' = rows /\ overwritten' = overwritten
  BY <1>5 DEF Handle, Enter, CheckRows, Select, CommitFails, history
<1>6. ASSUME NEW c \in Creates, Look(c) PROVE rows' = rows /\ overwritten' = overwritten
  BY <1>6 DEF Look, Replay, history
<1>7. ASSUME NEW u \in Tasks, Grow(u) PROVE rows' = rows /\ overwritten' = overwritten
  BY <1>7 DEF Grow, history
<1>8. ASSUME NEW p \in Procs, Crash(p) PROVE rows' = rows /\ overwritten' = overwritten
  BY <1>8 DEF Crash, history
<1>9. CASE UNCHANGED vars BY <1>4, <1>9 DEF vars, history
<1> QED BY <1>1, <1>2, <1>3, <1>4, <1>5, <1>6, <1>7, <1>8, <1>9 DEF Next

\* An outdated copy stays known as one.
LEMMA OverwrittenGrows == [Next]_vars => overwritten \subseteq overwritten'
BY DEF Next, vars, Handle, Enter, CheckRows, Wipe, Select, Commit, CommitFails, Look,
       Insert, Replay, Grow, Crash, history

LEMMA PlannedStep ==
  ASSUME RInv, NEW r \in Requests, Step(r)
  PROVE  Planned'
<1> USE DEF RInv, TInv, TypeOK
<1>1. overwritten \subseteq overwritten'
  BY OverwrittenGrows, NextIsStep
<1>2. CASE Select(r)
  <2>1. PICK S \in Asked(r) :
           \/ UNCHANGED <<copy, dirty>>
           \/ /\ \A t \in S : ~Denied(r, t)
              /\ copy' = [copy EXCEPT ![r] = [t \in Tasks |-> IF t \in S THEN rows[t] ELSE None]]
              /\ dirty' = [dirty EXCEPT ![r] =
                   [t \in Tasks |-> IF t \in S THEN Change(r, MaybeComplete(t, rows[t])) ELSE None]]
    BY <1>2 DEF Select
  <2>2. CASE UNCHANGED <<copy, dirty>> BY <1>1, <2>2 DEF Planned
  <2>3. ASSUME ~UNCHANGED <<copy, dirty>>, NEW t \in Tasks \ overwritten', copy'[r][t] # None
        PROVE  Coherent(dirty'[r][t]) /\ Keeps(copy'[r][t], dirty'[r][t])
    <3>1. t \in S /\ copy'[r][t] = rows[t]
          /\ dirty'[r][t] = Change(r, MaybeComplete(t, rows[t]))
      BY <2>1, <2>3
    <3>2. rows[t] \in Row /\ ~Refuses(r, MaybeComplete(t, rows[t]))
      BY <2>1, <2>3, <3>1 DEF Denied, Visible, Rows
    <3>3. Coherent(rows[t]) BY <1>1, <2>3, <3>1, CoherentRows
    <3> QED BY <3>1, <3>2, <3>3, PlansAreSound
  <2>4. \A q \in Requests \ {r} : copy'[q] = copy[q] /\ dirty'[q] = dirty[q]
    BY <2>1
  <2> QED BY <1>1, <2>2, <2>3, <2>4 DEF Planned
<1>3. CASE Commit(r) \/ CommitFails(r)
  <2>1. /\ copy' = [copy EXCEPT ![r] = Absent]
        /\ dirty' = [dirty EXCEPT ![r] = Absent]
    BY <1>3 DEF Commit, CommitFails, Forget
  <2>2. \A t \in Tasks : copy'[r][t] = None BY <2>1 DEF Absent
  <2>3. \A q \in Requests \ {r} : copy'[q] = copy[q] /\ dirty'[q] = dirty[q] BY <2>1
  <2> QED BY <1>1, <2>2, <2>3 DEF Planned
<1>4. CASE UNCHANGED <<copy, dirty>> BY <1>1, <1>4 DEF Planned
<1> QED BY <1>2, <1>3, <1>4
        DEF Step, Handle, Enter, CheckRows, Wipe, Look, Insert, Replay

LEMMA PlannedNext == RInv /\ [Next]_vars => Planned'
<1> SUFFICES ASSUME RInv, [Next]_vars PROVE Planned'
  OBVIOUS
<1>1. CASE \E r \in Requests : Step(r) BY <1>1, PlannedStep
<1>2. ASSUME NEW p \in Procs, Crash(p) PROVE Planned'
  <2>1. \A q \in Requests, t \in Tasks : copy'[q][t] # None =>
          copy'[q][t] = copy[q][t] /\ dirty'[q][t] = dirty[q][t]
    BY <1>2 DEF Crash, Absent
  <2> QED BY <1>2, <2>1 DEF RInv, Planned, Crash, history
<1>3. ASSUME UNCHANGED <<copy, dirty, overwritten>> PROVE Planned'
  BY <1>3 DEF RInv, Planned
<1> QED BY <1>1, <1>2, <1>3, NextIsStep DEF Grow, vars, request, history

LEMMA RowsNext == RInv /\ [Next]_vars => RowsAreCoherent'
<1> SUFFICES ASSUME RInv, [Next]_vars, NEW t \in Tasks \ overwritten', rows'[t] # None
             PROVE  Coherent(rows'[t])
  BY CoherentRowsNext
<1>1. t \notin overwritten /\ RowStep(t) BY RowSteps DEF RInv
<1>2. Coherent(NewRow) BY DEF Coherent, NewRow
<1> QED BY <1>1, <1>2, CoherentRows DEF RowStep, RInv, Planned

LEMMA RInvInit == Init => RInv
BY TypeInit, FreshInit DEF Init, RInv, Planned, RowsAreCoherent, Absent

LEMMA RInvNext == RInv /\ [Next]_vars => RInv'
BY TypeNext, FreshNext, PlannedNext, RowsNext DEF RInv

\* A row that was never written from an outdated copy is coherent: it has a
\* result iff it is completed, and is archived only after its end.
THEOREM RowsAreCoherentHolds == Spec => []RowsAreCoherent
<1>1. Spec => []RInv BY RInvInit, RInvNext, PTL DEF Spec
<1> QED BY <1>1, PTL DEF RInv

\* An ended task keeps its status through every read, cancel and archive, and
\* every create, as long as its row was never written from an outdated copy.
THEOREM EndedIsFinalHolds == Spec => EndedIsFinal
<1> DEFINE Final == \A t \in Tasks \ overwritten' :
             /\ rows[t] # None /\ rows'[t] # None
             /\ rows[t].status \in Ended
             => rows'[t].status = rows[t].status
<1>1. RInv /\ [Next]_vars => [Final]_vars
  <2> SUFFICES ASSUME RInv, [Next]_vars, NEW t \in Tasks \ overwritten',
                      rows[t] # None, rows'[t] # None, rows[t].status \in Ended
               PROVE  rows'[t].status = rows[t].status
    OBVIOUS
  <2>1. t \notin overwritten /\ RowStep(t) BY RowSteps DEF RInv
  <2> QED BY <2>1 DEF RowStep, RInv, Planned, Keeps
<1>2. Spec => []RInv BY RInvInit, RInvNext, PTL DEF Spec
<1> QED BY <1>1, <1>2, PTL DEF Spec, EndedIsFinal
----------------------------------------------------------------------------
\* A key has one row, and its task is there.
KeysAreUnique ==
  /\ \A t \in keys : rows[t] # None
  /\ \A t, u \in keys : Key[t] = Key[u] => t = u

\* The task that answers a create was inserted for its key and its payload,
\* and is deleted by the making of a store only.
AnswersAreKept ==
  \A c \in Creates : task[c] # None =>
    /\ Key[task[c]] = Key[c] /\ payload[task[c]] = payload[c]
    /\ task[c] \in wiped \/ task[c] \in keys

\* A create has a task before it loads it.
HaveTasks == \A c \in Creates : pc[c] \in {"load", "commit", "done"} => task[c] # None

KInv == TInv /\ Fresh /\ KeysAreUnique /\ AnswersAreKept /\ HaveTasks

LEMMA KInvInit == Init => KInv
BY TypeInit, FreshInit
   DEF Init, KInv, KeysAreUnique, AnswersAreKept, HaveTasks, Requests

LEMMA NoneIsNoTask == None \notin Tasks
BY NoneAssumption DEF Tasks, Requests

LEMMA InsertKeys ==
  ASSUME KInv, NEW c \in Creates, Insert(c)
  PROVE  KeysAreUnique' /\ AnswersAreKept' /\ HaveTasks'
<1> USE DEF KInv, TInv, TypeOK, Tasks, WithKey, KeysAreUnique, AnswersAreKept, HaveTasks
<1>1. CASE WithKey(c) = {}
  <2>1. /\ rows' = [rows EXCEPT ![c] = NewRow] /\ keys' = keys \cup {c}
        /\ task' = [task EXCEPT ![c] = c] /\ pc' = [pc EXCEPT ![c] = "load"]
        /\ wiped' = wiped /\ payload' = payload
    BY <1>1 DEF Insert, Goto, history
  <2>2. NewRow # None BY RowTypes, NoRowAssumption
  <2>3. \A t \in Tasks : rows'[t] = IF t = c THEN NewRow ELSE rows[t]
    BY <2>1 DEF Rows
  <2>4. KeysAreUnique' BY <1>1, <2>1, <2>2, <2>3
  <2>5. AnswersAreKept' BY <2>1
  <2>6. HaveTasks' BY <2>1, NoneIsNoTask DEF Requests
  <2> QED BY <2>4, <2>5, <2>6
<1>2. CASE WithKey(c) # {}
  <2>1. PICK t \in WithKey(c) : Replay(c, t) BY <1>2 DEF Insert
  <2>2. rows' = rows /\ keys' = keys /\ wiped' = wiped /\ payload' = payload
    BY <1>2 DEF Insert, history
  <2>3. \/ /\ task' = [task EXCEPT ![c] = t] /\ pc' = [pc EXCEPT ![c] = "load"]
           /\ payload[t] = payload[c]
        \/ task' = task /\ pc' = [pc EXCEPT ![c] = "failed"]
    BY <2>1 DEF Replay, Goto
  <2>4. t \in keys /\ Key[t] = Key[c] BY <2>1
  <2>5. AnswersAreKept' BY <2>2, <2>3, <2>4
  <2>6. HaveTasks' BY <2>3, <2>4, NoneIsNoTask DEF Requests
  <2> QED BY <2>2, <2>5, <2>6
<1> QED BY <1>1, <1>2

LEMMA LookKeys ==
  ASSUME KInv, NEW c \in Creates, Look(c)
  PROVE  KeysAreUnique' /\ AnswersAreKept' /\ HaveTasks'
<1> USE DEF KInv, TInv, TypeOK, Tasks, WithKey, KeysAreUnique, AnswersAreKept, HaveTasks
<1>1. rows' = rows /\ keys' = keys /\ wiped' = wiped /\ payload' = payload
  BY DEF Look, history
<1>2. CASE WithKey(c) = {}
  <2>1. task' = task /\ pc' = [pc EXCEPT ![c] = "insert"] BY <1>2 DEF Look, Goto
  <2> QED BY <1>1, <2>1 DEF Requests
<1>3. CASE WithKey(c) # {}
  <2>1. PICK t \in WithKey(c) : Replay(c, t) BY <1>3 DEF Look
  <2>2. \/ /\ task' = [task EXCEPT ![c] = t] /\ pc' = [pc EXCEPT ![c] = "load"]
           /\ payload[t] = payload[c]
        \/ task' = task /\ pc' = [pc EXCEPT ![c] = "failed"]
    BY <2>1 DEF Replay, Goto
  <2>3. t \in keys /\ Key[t] = Key[c] BY <2>1
  <2>4. AnswersAreKept' BY <1>1, <2>2, <2>3
  <2>5. HaveTasks' BY <2>2, <2>3, NoneIsNoTask DEF Requests
  <2> QED BY <1>1, <2>4, <2>5
<1> QED BY <1>2, <1>3

LEMMA HandleKeys ==
  ASSUME KInv, NEW r \in Requests, Handle(r)
  PROVE  KeysAreUnique' /\ AnswersAreKept' /\ HaveTasks'
<1> USE DEF KInv, TInv, TypeOK, Tasks, KeysAreUnique, AnswersAreKept, HaveTasks
<1>1. task' = task /\ payload' = payload
  BY DEF Handle, Enter, CheckRows, Wipe, Select, Commit, CommitFails
<1>2. HaveTasks'
  <2>1. CASE Select(r)
    <3>1. pc[r] = "load" \/ r \notin Creates BY <2>1 DEF Select, Loads
    <3>2. \A c \in Creates : pc'[c] = pc[c] \/ (c = r /\ pc[c] = "load")
      BY <2>1, <3>1 DEF Select, Goto, Requests
    <3> QED BY <1>1, <3>2
  <2>2. CASE Commit(r) BY <1>1, <2>2 DEF Commit, Goto, Requests
  <2>3. CASE Enter(r) \/ CheckRows(r) \/ Wipe(r) \/ CommitFails(r)
    BY <1>1, <2>3 DEF Enter, CheckRows, Wipe, Made, CommitFails, Goto, Requests
  <2> QED BY <2>1, <2>2, <2>3 DEF Handle
<1>3. CASE Wipe(r)
  <2>1. keys' = {} /\ wiped' = wiped \cup {t \in Tasks : rows[t] # None} BY <1>3 DEF Wipe
  <2> QED BY <1>1, <1>2, <2>1
<1>4. CASE Commit(r)
  <2>1. keys' = keys /\ wiped' = wiped BY <1>4 DEF Commit
  <2>2. ASSUME NEW t \in keys PROVE rows'[t] # None
    <3>1. CASE t \notin Changed(r) BY <1>4, <2>2, <3>1 DEF Commit
    <3>2. CASE t \in Changed(r)
      <4>1. rows[t] \in Row /\ copy[r][t] \in Row /\ dirty[r][t] \in Row
        BY <2>2, <3>2 DEF Rows, Pairs, Changed
      <4>2. rows'[t] \in Row BY <1>4, <2>2, <3>2, <4>1, RowTypes DEF Commit
      <4> QED BY <4>2, NoRowAssumption
    <3> QED BY <3>1, <3>2
  <2> QED BY <1>1, <1>2, <2>1, <2>2
<1>5. CASE rows' = rows /\ keys' = keys /\ wiped' = wiped BY <1>1, <1>2, <1>5
<1> QED BY <1>3, <1>4, <1>5 DEF Handle, Enter, CheckRows, Select, CommitFails, history

LEMMA KInvNext == KInv /\ [Next]_vars => KInv'
<1> SUFFICES ASSUME KInv, [Next]_vars
             PROVE  KeysAreUnique' /\ AnswersAreKept' /\ HaveTasks'
  BY TypeNext, FreshNext DEF KInv
<1>1. ASSUME NEW p \in Procs, Crash(p)
      PROVE  KeysAreUnique' /\ AnswersAreKept' /\ HaveTasks'
  BY <1>1 DEF Crash, history, KInv, KeysAreUnique, AnswersAreKept, HaveTasks, Requests
<1>2. CASE (\E t \in Tasks : Grow(t)) \/ UNCHANGED vars
  BY <1>2 DEF Grow, vars, request, history, KInv, KeysAreUnique, AnswersAreKept, HaveTasks
<1> QED BY <1>1, <1>2, HandleKeys, LookKeys, InsertKeys DEF Next

\* Answered creates with one key have one task, made for their key and payload,
\* which stays unless the making of a store deletes it; on any number of
\* replicas, since the key is unique in the database.
THEOREM OneTaskPerKeyHolds == Spec => []OneTaskPerKey
<1>1. KInv => OneTaskPerKey
  <2> SUFFICES ASSUME KInv PROVE OneTaskPerKey
    OBVIOUS
  <2>1. \A c \in Creates : Answered(c) =>
          /\ task[c] \in keys /\ rows[task[c]] # None
          /\ Key[task[c]] = Key[c] /\ payload[task[c]] = payload[c]
    BY DEF KInv, KeysAreUnique, AnswersAreKept, HaveTasks, Answered
  <2>2. \A t, u \in keys : Key[t] = Key[u] => t = u BY DEF KInv, KeysAreUnique
  <2> QED BY <2>1, <2>2 DEF OneTaskPerKey
<1>2. Spec => []KInv BY KInvInit, KInvNext, PTL DEF Spec
<1> QED BY <1>1, <1>2, PTL
----------------------------------------------------------------------------
\* A request has a store from its first step on: the one it makes, or one that
\* another request has finished.
StoresAreMade ==
  /\ \A r \in Requests : pc[r] = "new" <=> store[r] = None
  /\ \A r \in Requests : pc[r] \in {"check", "wipe"} => store[r] = r
  /\ \A q, r \in Requests : store[r] = q /\ r # q => pc[q] \notin {"new", "check", "wipe"}
  /\ \A p \in Procs : cached[p] # None => pc[cached[p]] \notin {"new", "check", "wipe"}

\* The requests that share a store are one at a time between SELECT and COMMIT.
LockIsExclusive ==
  \A q, r \in Requests : q # r /\ Holds(q) /\ Holds(r) => store[q] # store[r]

\* Nothing is stored before a store is ready.
EmptyAtFirst ==
  (\A r \in Requests : pc[r] \in {"new", "check", "wipe"}) => rows = Absent /\ keys = {}

\* With one store, copies are up to date until they are committed.
CopiesAreFresh ==
  OneStore => \A r \in Requests, t \in Tasks : pc[r] = "commit" /\ copy[r][t] # None =>
                copy[r][t] = rows[t]

\* What a request has read it is about to commit.
CopiesAreHeld == \A r \in Requests, t \in Tasks : copy[r][t] # None => pc[r] = "commit"

SInv == /\ TInv /\ Fresh /\ StoresAreMade /\ LockIsExclusive /\ EmptyAtFirst
        /\ CopiesAreFresh /\ CopiesAreHeld /\ SharedStoreIsSafe

LEMMA SInvInit == Init => SInv
<1> SUFFICES ASSUME Init PROVE SInv
  OBVIOUS
<1>1. StoresAreMade BY NoneAssumption DEF Init, StoresAreMade
<1>2. \A r \in Requests : pc[r] = "new" /\ \A t \in Tasks : copy[r][t] = None
  BY DEF Init, Absent
<1>3. LockIsExclusive /\ CopiesAreFresh /\ CopiesAreHeld
  BY <1>2 DEF LockIsExclusive, Holds, CopiesAreFresh, CopiesAreHeld
<1>4. EmptyAtFirst /\ SharedStoreIsSafe BY DEF Init, EmptyAtFirst, SharedStoreIsSafe
<1> QED BY <1>1, <1>3, <1>4, TypeInit, FreshInit DEF SInv

\* A second store stays.
LEMMA OneStoreBefore ==
  ASSUME SInv, [Next]_vars, OneStore'
  PROVE  OneStore
<1>1. \A r \in Requests : store[r] # None => store'[r] = store[r]
  BY DEF SInv, TInv, TypeOK, StoresAreMade, Next, vars, request, Handle, Enter, CheckRows,
         Wipe, Select, Commit, CommitFails, Look, Insert, Grow, Crash
<1> QED BY <1>1 DEF OneStore

\* What the steps of a request do to the labels, and with which store.
LEMMA Labelled ==
  ASSUME TInv, NEW r \in Requests, Step(r)
  PROVE  /\ \A q \in Requests \ {r} : pc'[q] = pc[q] /\ store'[q] = store[q]
         /\ pc'[r] # "new"
         /\ pc'[r] \in {"check"} => pc[r] = "new" /\ store'[r] = r
         /\ pc'[r] = "wipe" => pc[r] = "check" /\ store'[r] = store[r]
         /\ pc'[r] \in {"insert", "commit"} => Free(r) /\ store'[r] = store[r]
         /\ pc[r] # "new" => store'[r] = store[r]
<1> USE DEF TInv, TypeOK
<1>1. CASE Enter(r) BY <1>1 DEF Enter, Goto
<1>2. CASE CheckRows(r) \/ Wipe(r) BY <1>2 DEF CheckRows, Wipe, Made, Goto
<1>3. CASE Select(r)
  <2>1. pc' \in {[pc EXCEPT ![r] = "failed"], [pc EXCEPT ![r] = "commit"]} /\ Free(r)
        /\ store' = store
    BY <1>3 DEF Select, Goto
  <2> QED BY <2>1
<1>4. CASE Commit(r) \/ CommitFails(r) BY <1>4 DEF Commit, CommitFails, Goto
<1>5. CASE Look(r) BY <1>5 DEF Look, Replay, Goto
<1>6. CASE Insert(r) BY <1>6 DEF Insert, Replay, Goto
<1> QED BY <1>1, <1>2, <1>3, <1>4, <1>5, <1>6 DEF Step, Handle

\* A request enters with the store it makes or with the one of its process.
LEMMA Entered ==
  ASSUME SInv, NEW r \in Requests, Step(r), pc[r] = "new"
  PROVE  /\ \/ store'[r] = r /\ pc'[r] = "check"
            \/ /\ store'[r] \in Requests /\ pc'[r] = "ready"
               /\ pc[store'[r]] \notin {"new", "check", "wipe"}
         /\ cached' = cached /\ rows' = rows /\ keys' = keys
<1>1. Enter(r)
  BY DEF Step, Handle, CheckRows, Wipe, Select, Loads, Commit, CommitFails, Look, Insert
<1>2. Home[r] \in Procs BY HomeAssumption
<1> QED BY <1>1, <1>2 DEF Enter, Goto, SInv, TInv, TypeOK, StoresAreMade

LEMMA StoresStep ==
  ASSUME SInv, NEW r \in Requests, Step(r)
  PROVE  StoresAreMade' /\ LockIsExclusive'
<1> USE DEF SInv, TInv, TypeOK
<1>1. \A p \in Procs : \/ cached'[p] = cached[p]
                       \/ cached'[p] = r /\ pc'[r] \notin {"new", "check", "wipe"}
  <2>1. cached' = cached \/ Made(r)
    BY DEF Step, Handle, Enter, CheckRows, Wipe, Select, Commit, CommitFails, Look, Insert
  <2>2. CASE Made(r)
    <3>1. pc'[r] = "ready" BY <2>2 DEF Made, Goto
    <3>2. \A p \in Procs : cached'[p] = cached[p] \/ cached'[p] = r BY <2>2 DEF Made
    <3> QED BY <3>1, <3>2
  <2>3. CASE cached' = cached BY <2>3
  <2> QED BY <2>1, <2>2, <2>3
<1>2. \A q \in Requests : pc[q] \notin {"new", "check", "wipe"} =>
        pc'[q] \notin {"new", "check", "wipe"}
  BY Labelled
<1>3. store' \in [Requests -> Requests \cup {None}] BY TypeStep
<1>4. store'[r] # None /\ pc'[r] # "new"
  BY Labelled, Entered, NoneAssumption DEF StoresAreMade
<1>5. \A q \in Requests : pc'[q] = "new" <=> store'[q] = None
  BY <1>4, Labelled DEF StoresAreMade
<1>6. \A q \in Requests : pc'[q] \in {"check", "wipe"} => store'[q] = q
  BY Labelled DEF StoresAreMade
<1>7. \A q, s \in Requests : store'[s] = q /\ s # q => pc'[q] \notin {"new", "check", "wipe"}
  BY <1>2, Labelled, Entered DEF StoresAreMade
<1>8. \A p \in Procs : cached'[p] # None => pc'[cached'[p]] \notin {"new", "check", "wipe"}
  BY <1>1, <1>2 DEF StoresAreMade
<1>9. ASSUME NEW q \in Requests, NEW s \in Requests, q # s, Holds(q)', Holds(s)'
      PROVE  store'[q] # store'[s]
  BY <1>9, Labelled DEF LockIsExclusive, Holds, Free
<1> QED BY <1>5, <1>6, <1>7, <1>8, <1>9 DEF StoresAreMade, LockIsExclusive

\* With one store, its maker is alone while it makes it.
LEMMA AloneAtFirst ==
  ASSUME SInv, OneStore, NEW r \in Requests, pc[r] \in {"check", "wipe"}
  PROVE  rows = Absent /\ keys = {}
<1>1. store[r] = r BY DEF SInv, StoresAreMade
<1>2. \A q \in Requests \ {r} : store[q] = None
  BY <1>1, NoneAssumption DEF OneStore, SInv, StoresAreMade, TInv, TypeOK
<1> QED BY <1>2 DEF SInv, StoresAreMade, EmptyAtFirst

\* With one store, the holder of its lock is the only one.
LEMMA AloneInside ==
  ASSUME SInv, OneStore, NEW q \in Requests, NEW r \in Requests, Holds(q), Holds(r)
  PROVE  q = r
BY DEF OneStore, SInv, StoresAreMade, LockIsExclusive, Holds

LEMMA EmptyStep ==
  ASSUME SInv, NEW r \in Requests, Step(r)
  PROVE  EmptyAtFirst'
<1> SUFFICES ASSUME \A q \in Requests : pc'[q] \in {"new", "check", "wipe"}
             PROVE  rows' = Absent /\ keys' = {}
  BY DEF EmptyAtFirst
<1>1. \A q \in Requests : pc[q] \in {"new", "check", "wipe"}
  BY Labelled DEF SInv
<1>2. rows = Absent /\ keys = {} BY <1>1 DEF SInv, EmptyAtFirst
<1>3. (rows' = rows /\ keys' = keys) \/ Wipe(r)
  BY <1>1 DEF Step, Handle, Enter, CheckRows, Select, Loads, Commit, CommitFails, Look, Insert
<1> QED BY <1>2, <1>3 DEF Wipe

LEMMA HeldStep ==
  ASSUME SInv, NEW r \in Requests, Step(r)
  PROVE  CopiesAreHeld'
<1> USE DEF SInv, TInv, TypeOK
<1> SUFFICES ASSUME NEW q \in Requests, NEW t \in Tasks, copy'[q][t] # None
             PROVE  pc'[q] = "commit"
  BY DEF CopiesAreHeld
<1>1. CASE Select(r)
  <2>1. \/ copy' = copy /\ pc' = [pc EXCEPT ![r] = "failed"]
        \/ \E f : copy' = [copy EXCEPT ![r] = f] /\ pc' = [pc EXCEPT ![r] = "commit"]
    BY <1>1 DEF Select, Goto
  <2>2. pc[r] # "commit" BY <1>1 DEF Select, Loads
  <2> QED BY <2>1, <2>2 DEF CopiesAreHeld
<1>2. CASE Commit(r) \/ CommitFails(r)
  <2>1. copy' = [copy EXCEPT ![r] = Absent] /\ \A s \in Requests \ {r} : pc'[s] = pc[s]
    BY <1>2 DEF Commit, CommitFails, Forget, Goto
  <2> QED BY <2>1 DEF CopiesAreHeld, Absent
<1>3. CASE ~Select(r) /\ ~Commit(r) /\ ~CommitFails(r)
  <2>1. copy' = copy /\ pc[r] # "commit"
    BY <1>3 DEF Step, Handle, Enter, CheckRows, Wipe, Look, Insert
  <2> QED BY <2>1, Labelled DEF CopiesAreHeld
<1> QED BY <1>1, <1>2, <1>3

LEMMA SharedStep ==
  ASSUME SInv, NEW r \in Requests, Step(r), OneStore'
  PROVE  /\ overwritten' = {} /\ wiped' = {}
         /\ \A q \in Requests, t \in Tasks : pc'[q] = "commit" /\ copy'[q][t] # None =>
              copy'[q][t] = rows'[t]
<1> USE DEF SInv, TInv, TypeOK
<1>1. OneStore BY OneStoreBefore, NextIsStep
<1>2. overwritten = {} /\ wiped = {} BY <1>1 DEF SharedStoreIsSafe
<1>3. \A q \in Requests, t \in Tasks : copy[q][t] # None => copy[q][t] = rows[t]
  BY <1>1 DEF CopiesAreFresh, CopiesAreHeld
<1>4. CASE Wipe(r)
  <2>1. rows = Absent BY <1>1, <1>4, AloneAtFirst DEF Wipe
  <2> QED BY <1>2, <1>3, <1>4, <2>1 DEF Wipe, Absent
<1>5. CASE Commit(r)
  <2>1. \A q \in Requests \ {r}, t \in Tasks : copy[q][t] = None
    BY <1>1, <1>5, AloneInside DEF Commit, Holds, CopiesAreHeld
  <2>2. \A t \in Tasks : copy'[r][t] = None BY <1>5 DEF Commit, Forget, Absent
  <2>3. \A q \in Requests \ {r} : copy'[q] = copy[q] BY <1>5 DEF Commit, Forget
  <2>4. \A t \in Changed(r) : copy[r][t] = rows[t]
    BY <1>3 DEF Changed, Pairs
  <2> QED BY <1>2, <1>5, <2>1, <2>2, <2>3, <2>4 DEF Commit
<1>6. CASE r \in Creates /\ Insert(r)
  <2>1. \A q \in Requests, t \in Tasks : copy[q][t] = None
    <3>1. Holds(r) /\ pc[r] = "insert" BY <1>6 DEF Insert, Holds
    <3>2. \A q \in Requests : pc[q] = "commit" => q = r
      BY <1>1, <3>1, AloneInside DEF Holds
    <3> QED BY <3>1, <3>2 DEF CopiesAreHeld
  <2> QED BY <1>2, <1>6, <2>1 DEF Insert, history
<1>7. CASE Select(r)
  <2>1. \/ copy' = copy
        \/ \E S \in Asked(r) :
             copy' = [copy EXCEPT ![r] = [t \in Tasks |-> IF t \in S THEN rows[t] ELSE None]]
    BY <1>7 DEF Select
  <2>2. rows' = rows BY <1>7 DEF Select
  <2> QED BY <1>2, <1>3, <1>7, <2>1, <2>2 DEF Select, history
<1>8. CASE CommitFails(r)
  <2>1. copy' = [copy EXCEPT ![r] = Absent] /\ rows' = rows
    BY <1>8 DEF CommitFails, Forget
  <2> QED BY <1>2, <1>3, <1>8, <2>1 DEF CommitFails, history, Absent
<1>9. CASE Enter(r) \/ CheckRows(r) \/ (r \in Creates /\ Look(r))
  BY <1>2, <1>3, <1>9 DEF Enter, CheckRows, Look, history
<1> QED BY <1>4, <1>5, <1>6, <1>7, <1>8, <1>9 DEF Step, Handle

LEMMA SInvNext == SInv /\ [Next]_vars => SInv'
<1> SUFFICES ASSUME SInv, [Next]_vars PROVE SInv'
  OBVIOUS
<1>1. TInv' /\ Fresh' BY TypeNext, FreshNext DEF SInv
<1>2. ASSUME NEW r \in Requests, Step(r) PROVE SInv'
  BY <1>1, <1>2, StoresStep, EmptyStep, HeldStep, SharedStep
     DEF SInv, CopiesAreFresh, SharedStoreIsSafe
<1>3. ASSUME NEW p \in Procs, Crash(p) PROVE SInv'
  <2> USE <1>3 DEF SInv, TInv, TypeOK, Crash
  <2>1. \A r \in Requests : pc'[r] = pc[r] \/ (pc[r] # "new" /\ pc'[r] = "failed")
    BY DEF Lost
  <2>2. store' = store /\ rows' = rows /\ keys' = keys
        /\ overwritten' = overwritten /\ wiped' = wiped
    BY DEF history
  <2>3. \A r \in Requests, t \in Tasks : copy'[r][t] # None =>
          copy'[r][t] = copy[r][t] /\ pc'[r] = pc[r]
    BY DEF Absent
  <2>4. \A q \in Procs : cached'[q] \in {cached[q], None} OBVIOUS
  <2>5. StoresAreMade' BY <2>1, <2>2, <2>4 DEF StoresAreMade
  <2>6. LockIsExclusive' BY <2>1, <2>2 DEF LockIsExclusive, Holds
  <2>7. EmptyAtFirst' BY <2>1, <2>2 DEF EmptyAtFirst
  <2>8. OneStore' => OneStore BY <2>2 DEF OneStore
  <2>9. CopiesAreHeld' /\ CopiesAreFresh' BY <2>2, <2>3, <2>8 DEF CopiesAreHeld, CopiesAreFresh
  <2> QED BY <1>1, <2>2, <2>5, <2>6, <2>7, <2>8, <2>9 DEF SharedStoreIsSafe
<1>4. ASSUME UNCHANGED <<rows, keys, cached, store, pc, copy, overwritten, wiped>> PROVE SInv'
  BY <1>1, <1>4
     DEF SInv, StoresAreMade, LockIsExclusive, EmptyAtFirst, CopiesAreFresh, CopiesAreHeld,
         SharedStoreIsSafe, Holds, OneStore
<1> QED BY <1>2, <1>3, <1>4, NextIsStep DEF Grow, vars, request, history

\* As long as all requests share a store, its lock keeps every write up to date
\* and the filling of the database deletes no task.
THEOREM SharedStoreIsSafeHolds == Spec => []SharedStoreIsSafe
<1>1. Spec => []SInv BY SInvInit, SInvNext, PTL DEF Spec
<1> QED BY <1>1, PTL DEF SInv
----------------------------------------------------------------------------
\* What a read may make of a row, whose task may be old enough to be completed.
Progress(row, old) ==
  {row} \cup IF row.status \in Ended THEN {}
             ELSE {[row EXCEPT !.status = "running"]}
                    \cup IF old THEN {[row EXCEPT !.status = "completed", !.ready = TRUE]} ELSE {}

\* A request plans for a row that it has seen, which time has moved on, the
\* change it was made for.
Meant(r, was, new, old) ==
  /\ ~was.deleted
  /\ \E row \in Progress(was, old) : ~Refuses(r, row) /\ new = Change(r, row)

PlansAreMeant ==
  \A r \in Requests, t \in Tasks : copy[r][t] # None =>
    Meant(r, copy[r][t], dirty[r][t], t \in due)

\* A cancel or an archive is about one task.
OneAsked ==
  \A r \in Cancels \cup Archives, t, u \in Tasks :
    copy[r][t] # None /\ copy[r][u] # None => t = u

\* A task has a row for its key, and is not lost before it is inserted.
RowsHaveKeys == \A t \in Tasks : rows[t] # None => t \in keys

NotYetLost ==
  \A c \in Creates : pc[c] \in {"new", "check", "wipe", "ready", "insert"} =>
    c \notin overwritten /\ c \notin wiped

BInv == RInv /\ PlansAreMeant /\ OneAsked /\ RowsHaveKeys /\ NotYetLost

LEMMA BInvInit == Init => BInv
<1> SUFFICES ASSUME Init PROVE BInv
  OBVIOUS
<1>1. \A r \in Requests, t \in Tasks : copy[r][t] = None BY DEF Init, Absent
<1>2. RowsHaveKeys /\ NotYetLost BY DEF Init, Absent, RowsHaveKeys, NotYetLost
<1> QED BY <1>1, <1>2, RInvInit DEF BInv, PlansAreMeant, OneAsked, Requests

\* What happens to the copies of a request.
LEMMA CopySteps ==
  ASSUME TInv, [Next]_vars, NEW r \in Requests
  PROVE  \/ copy'[r] = copy[r] /\ dirty'[r] = dirty[r]
         \/ \A t \in Tasks : copy'[r][t] = None
         \/ \E S \in Asked(r) :
              /\ \A t \in S : ~Denied(r, t)
              /\ copy'[r] = [t \in Tasks |-> IF t \in S THEN rows[t] ELSE None]
              /\ dirty'[r] =
                   [t \in Tasks |-> IF t \in S THEN Change(r, MaybeComplete(t, rows[t])) ELSE None]
<1> USE DEF TInv, TypeOK
<1>1. ASSUME NEW q \in Requests, Select(q), q # r
      PROVE  copy'[r] = copy[r] /\ dirty'[r] = dirty[r]
  BY <1>1 DEF Select
<1>2. CASE Select(r) BY <1>2 DEF Select
<1>3. ASSUME NEW q \in Requests, Commit(q) \/ CommitFails(q)
      PROVE  (copy'[r] = copy[r] /\ dirty'[r] = dirty[r]) \/ \A t \in Tasks : copy'[r][t] = None
  <2>1. /\ copy' = [copy EXCEPT ![q] = Absent] /\ dirty' = [dirty EXCEPT ![q] = Absent]
    BY <1>3 DEF Commit, CommitFails, Forget
  <2> QED BY <2>1 DEF Absent
<1>4. ASSUME NEW p \in Procs, Crash(p)
      PROVE  (copy'[r] = copy[r] /\ dirty'[r] = dirty[r]) \/ \A t \in Tasks : copy'[r][t] = None
  BY <1>4 DEF Crash, Absent
<1>5. CASE UNCHANGED <<copy, dirty>> BY <1>5
<1> QED BY <1>1, <1>2, <1>3, <1>4, <1>5
        DEF Next, Handle, Enter, CheckRows, Wipe, Look, Insert, Grow, vars, request

LEMMA DueGrows == [Next]_vars => due \subseteq due'
BY DEF Next, vars, Handle, Enter, CheckRows, Wipe, Select, Commit, CommitFails, Look,
       Insert, Grow, Crash

LEMMA MeantNext ==
  ASSUME BInv, [Next]_vars
  PROVE  PlansAreMeant' /\ OneAsked'
<1> USE DEF BInv, RInv, TInv, TypeOK
<1>1. ASSUME NEW r \in Requests, NEW t \in Tasks, copy'[r][t] # None
      PROVE  Meant(r, copy'[r][t], dirty'[r][t], t \in due')
  <2>1. CASE copy'[r] = copy[r] /\ dirty'[r] = dirty[r]
    <3>1. Meant(r, copy[r][t], dirty[r][t], t \in due)
      BY <1>1, <2>1 DEF PlansAreMeant
    <3>2. Progress(copy[r][t], t \in due) \subseteq Progress(copy[r][t], t \in due')
      BY DueGrows DEF Progress
    <3> QED BY <2>1, <3>1, <3>2 DEF Meant
  <2>2. ASSUME NEW S \in Asked(r), \A u \in S : ~Denied(r, u),
               copy'[r] = [u \in Tasks |-> IF u \in S THEN rows[u] ELSE None],
               dirty'[r] = [u \in Tasks |->
                              IF u \in S THEN Change(r, MaybeComplete(u, rows[u])) ELSE None]
        PROVE  Meant(r, copy'[r][t], dirty'[r][t], t \in due')
    <3>1. /\ t \in S /\ copy'[r][t] = rows[t]
          /\ dirty'[r][t] = Change(r, MaybeComplete(t, rows[t]))
      BY <1>1, <2>2
    <3>2. rows[t] \in Row /\ ~rows[t].deleted /\ ~Refuses(r, MaybeComplete(t, rows[t]))
      BY <2>2, <3>1 DEF Denied, Visible, Rows
    <3>3. MaybeComplete(t, rows[t]) \in Progress(rows[t], t \in due')
      BY DueGrows DEF MaybeComplete, Progress
    <3> QED BY <3>1, <3>2, <3>3 DEF Meant
  <2> QED BY <1>1, <2>1, <2>2, CopySteps
<1>2. ASSUME NEW r \in Cancels \cup Archives, NEW t \in Tasks, NEW u \in Tasks,
             copy'[r][t] # None, copy'[r][u] # None
      PROVE  t = u
  <2>0. r \in Requests /\ r \notin Creates /\ r \notin Polls
    BY RequestsAssumption DEF Requests
  <2>1. CASE copy'[r] = copy[r] BY <1>2, <2>1 DEF OneAsked
  <2>2. ASSUME NEW S \in Asked(r), copy'[r] = [v \in Tasks |-> IF v \in S THEN rows[v] ELSE None]
        PROVE  t = u
    <3>1. t \in S /\ u \in S BY <1>2, <2>2
    <3>2. \E v \in Tasks : S = {v} BY <2>0, <2>2 DEF Asked
    <3> QED BY <3>1, <3>2
  <2> QED BY <1>2, <2>0, <2>1, <2>2, CopySteps
<1> QED BY <1>1, <1>2 DEF PlansAreMeant, OneAsked

LEMMA KeptNext ==
  ASSUME BInv, [Next]_vars
  PROVE  RowsHaveKeys' /\ NotYetLost'
<1> USE DEF BInv, RInv, TInv, TypeOK, RowsHaveKeys, NotYetLost
<1>1. ASSUME NEW c \in Creates, Insert(c) PROVE RowsHaveKeys' /\ NotYetLost'
  <2>1. /\ overwritten' = overwritten /\ wiped' = wiped
        /\ \A d \in Creates \ {c} : pc'[d] = pc[d]
        /\ pc'[c] \notin {"new", "check", "wipe", "ready", "insert"}
    BY <1>1 DEF Insert, Replay, Goto, history, Requests
  <2>2. \A t \in Tasks : /\ rows'[t] = rows[t] \/ (t = c /\ t \in keys')
                         /\ t \in keys => t \in keys'
    BY <1>1, Inserted DEF Rows
  <2> QED BY <2>1, <2>2
<1>2. ASSUME NEW r \in Requests, Commit(r) PROVE RowsHaveKeys' /\ NotYetLost'
  <2>1. /\ \A t \in Tasks : rows'[t] # None => rows[t] # None
        /\ keys' = keys /\ wiped' = wiped
        /\ \A t \in overwritten' : t \in overwritten \/ rows[t] # None
        /\ pc'[r] = "done" /\ \A q \in Requests \ {r} : pc'[q] = pc[q]
    BY <1>2 DEF Commit, Goto, Changed
  <2> QED BY <2>1 DEF Fresh, Requests, Tasks
<1>3. ASSUME NEW r \in Requests, Wipe(r) PROVE RowsHaveKeys' /\ NotYetLost'
  <2>1. /\ \A t \in Tasks : rows'[t] = None
        /\ overwritten' = overwritten
        /\ \A t \in wiped' : t \in wiped \/ rows[t] # None
        /\ pc[r] = "wipe" /\ \A q \in Requests \ {r} : pc'[q] = pc[q]
    BY <1>3 DEF Wipe, Made, Goto, Absent
  <2> QED BY <2>1 DEF Fresh, Requests, Tasks
<1>4. ASSUME NEW r \in Requests, Step(r), ~Commit(r), ~Wipe(r), ~(r \in Creates /\ Insert(r))
      PROVE  RowsHaveKeys' /\ NotYetLost'
  <2>1. rows' = rows /\ keys' = keys /\ overwritten' = overwritten /\ wiped' = wiped
    BY <1>4 DEF Step, Handle, Enter, CheckRows, Select, CommitFails, Look, Replay, history
  <2>2. \A c \in Creates : pc'[c] \in {"new", "check", "wipe", "ready", "insert"} =>
          pc[c] \in {"new", "check", "wipe", "ready", "insert"}
    <3>1. \A q \in Requests \ {r} : pc'[q] = pc[q] BY <1>4, Labelled
    <3>2. CASE Select(r)
      <4>1. pc'[r] \in {"failed", "commit"} BY <3>2 DEF Select, Goto
      <4> QED BY <3>1, <4>1 DEF Requests
    <3>3. CASE Enter(r) \/ CheckRows(r) \/ Look(r)
      BY <3>1, <3>3 DEF Enter, CheckRows, Look, Requests
    <3>4. CASE CommitFails(r)
      <4>1. pc'[r] = "failed" BY <3>4 DEF CommitFails, Goto
      <4> QED BY <3>1, <4>1 DEF Requests
    <3> QED BY <1>4, <3>2, <3>3, <3>4 DEF Step, Handle
  <2> QED BY <2>1, <2>2
<1>5. ASSUME NEW p \in Procs, Crash(p) PROVE RowsHaveKeys' /\ NotYetLost'
  BY <1>5 DEF Crash, history, Requests
<1>6. CASE (\E t \in Tasks : Grow(t)) \/ UNCHANGED vars
  BY <1>6 DEF Grow, vars, request, history
<1> QED BY <1>1, <1>2, <1>3, <1>4, <1>5, <1>6, NextIsStep

LEMMA BInvNext == BInv /\ [Next]_vars => BInv'
BY RInvNext, MeantNext, KeptNext DEF BInv
----------------------------------------------------------------------------
\* What a request of each kind makes of a task that is not lost.
LEMMA TaskMoves ==
  ASSUME BInv, NEW r \in Requests, Commit(r), NEW t \in Tasks,
         t \notin overwritten' \cup wiped', AsTask(t)' # AsTask(t)
  PROVE  /\ copy[r][t] # None
         /\ r \notin Cancels \cup Archives =>
              \/ t \in Board!Queued /\ AsTask(t)' = Board!At("running", FALSE)
              \/ t \in Board!Overdue /\ AsTask(t)' = Board!Completed
         /\ r \in Cancels => AsTask(t) \in Board!Open /\ AsTask(t)' = Board!Cancelled
         /\ r \in Archives =>
              \/ AsTask(t) = Board!Cancelled /\ AsTask(t)' = Board!At("cancelled", TRUE)
              \/ /\ AsTask(t) = Board!Completed \/ t \in Board!Overdue
                 /\ AsTask(t)' = Board!At("completed", TRUE)
<1>0. t \notin overwritten /\ t \notin wiped /\ Entries[t] = AsTask(t)
  BY DEF Commit, Entries
<1>1. /\ copy[r][t] = rows[t] /\ rows[t] # None /\ rows'[t] = dirty[r][t]
  BY <1>0, Committed DEF BInv, RInv, AsTask
<1>2. rows[t] \in Row /\ dirty[r][t] \in Row
  BY <1>1 DEF BInv, RInv, TInv, TypeOK, Pairs, Rows
<1>3. PICK row \in Progress(rows[t], t \in due) :
         ~rows[t].deleted /\ ~Refuses(r, row) /\ dirty[r][t] = Change(r, row)
  BY <1>1 DEF BInv, RInv, PlansAreMeant, Meant
<1>4. /\ AsTask(t) = Board!At(rows[t].status, FALSE)
      /\ AsTask(t)' = Board!At(dirty[r][t].status, dirty[r][t].deleted)
  <2>1. rows'[t] # None BY <1>1, <1>2, NoRowAssumption
  <2>2. rows[t].deleted = FALSE BY <1>2, <1>3 DEF Row
  <2> QED BY <1>0, <1>1, <2>1, <2>2 DEF AsTask, Board!At
<1>5. row \in Row /\ row.deleted = FALSE
  BY <1>2, <1>3 DEF Progress, Row, Ended
<1>6. \/ row.status = rows[t].status
      \/ rows[t].status \in {"queued", "running"} /\ row.status = "running"
      \/ rows[t].status \in {"queued", "running"} /\ row.status = "completed" /\ t \in due
  BY <1>2, <1>3 DEF Progress, Row, Ended
<1>7. /\ rows[t].status \in {"queued", "running"} => AsTask(t) \in Board!Open
      /\ rows[t].status \in {"queued", "running"} /\ t \in due => t \in Board!Overdue
      /\ rows[t].status = "queued" => t \in Board!Queued
  BY <1>0, <1>4 DEF Board!Open, Board!Overdue, Board!Queued
<1>8. CASE r \notin Cancels \cup Archives
  <2>1. AsTask(t)' = Board!At(row.status, FALSE)
    BY <1>3, <1>4, <1>5, <1>8 DEF Change
  <2> QED BY <1>1, <1>2, <1>4, <1>6, <1>7, <1>8, <2>1 DEF Board!Completed, Row
<1>9. CASE r \in Cancels
  <2>1. r \notin Archives /\ row.status # "completed"
    BY <1>3, <1>9, RequestsAssumption DEF Refuses
  <2>2. AsTask(t)' = Board!At("cancelled", FALSE)
    BY <1>3, <1>4, <1>5, <1>9 DEF Change, Row
  <2>3. rows[t].status \in {"queued", "running"}
    BY <1>2, <1>4, <1>6, <2>1, <2>2 DEF Row, Ended
  <2> QED BY <1>1, <1>7, <1>9, <2>1, <2>2, <2>3 DEF Board!Cancelled
<1>10. CASE r \in Archives
  <2>1. r \notin Cancels /\ row.status \in Ended
    BY <1>3, <1>10, RequestsAssumption DEF Refuses
  <2>2. AsTask(t)' = Board!At(row.status, TRUE)
    BY <1>3, <1>4, <1>5, <1>10, <2>1 DEF Change, Row
  <2> QED BY <1>1, <1>4, <1>6, <1>7, <1>10, <2>1, <2>2
          DEF Ended, Board!Cancelled, Board!Completed
<1> QED BY <1>8, <1>9, <1>10

\* The board after a step, of which some tasks are lost.
LEMMA EntriesNext ==
  Entries' = [t \in Tasks |-> IF t \in overwritten' \cup wiped' THEN Board!Lost ELSE AsTask(t)']
BY DEF Entries, AsTask, Board!Lost, Board!At

LEMMA CommitOnBoard ==
  ASSUME BInv, BInv', NEW r \in Requests, Commit(r)
  PROVE  Board!Next
<1> DEFINE lost == overwritten' \cup wiped'
<1>0. lost \in SUBSET Tasks /\ due' = due /\ \A t \in Tasks : Entries[t] = AsTask(t)
  BY DEF BInv, RInv, TInv, TypeOK, Commit, Entries
<1>1. Entries' = [t \in Tasks |-> IF t \in lost THEN Board!Lost ELSE AsTask(t)']
  BY EntriesNext
<1>2. CASE \A t \in Tasks \ lost : AsTask(t)' = AsTask(t)
  <2>1. Board!Read({}, {}, lost) BY <1>0, <1>1, <1>2 DEF Board!Read
  <2> QED BY <1>0, <2>1 DEF Board!Next
<1>3. CASE r \notin Cancels \cup Archives
  <2> DEFINE begun == {t \in Board!Queued : AsTask(t)' = Board!At("running", FALSE)}
             over  == {t \in Board!Overdue : AsTask(t)' = Board!Completed}
  <2>1. \A t \in Tasks \ lost : AsTask(t)' = IF t \in over THEN Board!Completed
                                             ELSE IF t \in begun THEN Board!At("running", FALSE)
                                             ELSE AsTask(t)
    BY <1>3, TaskMoves
  <2>2. Board!Read(begun, over, lost)
    <3> HIDE DEF begun, over, lost
    <3> QED BY <1>0, <1>1, <2>1 DEF Board!Read
  <2>3. begun \in SUBSET Board!Queued /\ over \in SUBSET Board!Overdue
    OBVIOUS
  <2> HIDE DEF begun, over, lost
  <2> QED BY <1>0, <2>2, <2>3 DEF Board!Next
<1>4. ASSUME r \in Cancels \cup Archives, NEW t \in Tasks \ lost, AsTask(t)' # AsTask(t)
      PROVE  Board!Next
  <2>1. \A u \in Tasks \ lost : u # t => AsTask(u)' = AsTask(u)
    BY <1>4, TaskMoves DEF BInv, RInv, OneAsked
  <2>2. Board!Becomes(t, AsTask(t)', lost)
    <3> HIDE DEF lost
    <3> QED BY <1>0, <1>1, <2>1, <1>4 DEF Board!Becomes
  <2>3. Board!Cancel(t, lost) \/ Board!Archive(t, lost)
    <3>1. CASE r \in Cancels
      <4>1. Entries[t] \in Board!Open /\ AsTask(t)' = Board!Cancelled
        BY <1>0, <1>4, <3>1, TaskMoves
      <4> QED BY <2>2, <4>1 DEF Board!Cancel
    <3>2. CASE r \in Archives
      <4>1. \/ Entries[t] = Board!Cancelled /\ AsTask(t)' = Board!At("cancelled", TRUE)
            \/ /\ Entries[t] = Board!Completed \/ t \in Board!Overdue
               /\ AsTask(t)' = Board!At("completed", TRUE)
        BY <1>0, <1>4, <3>2, TaskMoves
      <4> QED BY <2>2, <4>1 DEF Board!Archive
    <3> QED BY <1>4, <3>1, <3>2
  <2> HIDE DEF lost
  <2> QED BY <1>0, <2>3 DEF Board!Next
<1> QED BY <1>2, <1>3, <1>4

LEMMA InsertOnBoard ==
  ASSUME BInv, BInv', NEW c \in Creates, Insert(c)
  PROVE  Board!Next \/ UNCHANGED <<Entries, due>>
<1> DEFINE lost == overwritten' \cup wiped'
<1>0. /\ lost \in SUBSET Tasks /\ due' = due /\ \A t \in Tasks : Entries[t] = AsTask(t)
      /\ overwritten' = overwritten /\ wiped' = wiped /\ c \in Tasks
  BY DEF BInv, RInv, TInv, TypeOK, Insert, history, Entries, Tasks
<1>1. CASE rows' = rows
  BY <1>0, <1>1 DEF Entries, AsTask
<1>2. CASE rows' = [rows EXCEPT ![c] = NewRow] /\ WithKey(c) = {}
  <2>1. /\ rows[c] = None /\ c \notin lost
        /\ \A t \in Tasks : rows'[t] = IF t = c THEN NewRow ELSE rows[t]
    BY <1>0, <1>2, Inserted DEF BInv, RInv, TInv, TypeOK, Rows, Fresh, NotYetLost
  <2>2. AsTask(c) = Board!Absent /\ AsTask(c)' = Board!At("queued", FALSE)
    <3>1. NewRow # None BY RowTypes, NoRowAssumption
    <3>2. AsTask(c) = Board!Absent BY <1>0, <2>1 DEF AsTask, Board!Absent, Board!At
    <3>3. c \notin overwritten' \cup wiped' /\ rows'[c] = NewRow BY <1>0, <2>1
    <3>4. AsTask(c)' = Board!At(NewRow.status, NewRow.deleted)
      BY <3>1, <3>3 DEF AsTask, Board!At
    <3> QED BY <3>2, <3>4 DEF NewRow
  <2>3. \A t \in Tasks \ {c} : AsTask(t)' = AsTask(t)
    BY <1>0, <2>1 DEF AsTask
  <2>4. \A t \in Tasks : Key[t] = Key[c] => AsTask(t) \in {Board!Absent, Board!Lost}
    <3>1. \A t \in Tasks : Key[t] = Key[c] => rows[t] = None
      BY <1>2 DEF BInv, RInv, RowsHaveKeys, WithKey
    <3> QED BY <3>1 DEF AsTask, Board!Absent, Board!Lost, Board!At
  <2>5. \A t \in lost : AsTask(t) = Board!Lost
    BY <1>0 DEF AsTask, Board!Lost, Board!At
  <2>6. Board!Becomes(c, Board!At("queued", FALSE), lost)
    <3>1. Entries' = [t \in Tasks |-> IF t \in lost THEN Board!Lost ELSE AsTask(t)']
      BY EntriesNext
    <3> HIDE DEF lost
    <3> QED BY <1>0, <2>1, <2>2, <2>3, <3>1 DEF Board!Becomes
  <2> HIDE DEF lost
  <2>7. Board!Accept(c, lost) BY <1>0, <2>2, <2>4, <2>6 DEF Board!Accept
  <2> QED BY <1>0, <2>7 DEF Board!Next
<1> QED BY <1>1, <1>2, Inserted

LEMMA WipeOnBoard ==
  ASSUME BInv, BInv', NEW r \in Requests, Wipe(r)
  PROVE  Board!Next
<1> DEFINE lost == overwritten' \cup wiped'
<1>0. lost \in SUBSET Tasks /\ due' = due /\ \A t \in Tasks : Entries[t] = AsTask(t)
  BY DEF BInv, RInv, TInv, TypeOK, Wipe, Entries
<1>1. \A t \in Tasks \ lost : AsTask(t)' = AsTask(t)
  BY DEF Wipe, Absent, AsTask
<1>2. Board!Read({}, {}, lost)
  <2>1. Entries' = [t \in Tasks |-> IF t \in lost THEN Board!Lost ELSE AsTask(t)']
    BY EntriesNext
  <2> HIDE DEF lost
  <2> QED BY <1>0, <1>1, <2>1 DEF Board!Read
<1> HIDE DEF lost
<1> QED BY <1>0, <1>2 DEF Board!Next

\* So every step is one of the board, or changes nothing a client could see.
LEMMA BoardStep == BInv /\ BInv' /\ [Next]_vars => [Board!Next]_<<Entries, due>>
<1> SUFFICES ASSUME BInv, BInv', [Next]_vars
             PROVE  Board!Next \/ UNCHANGED <<Entries, due>>
  OBVIOUS
<1>1. CASE UNCHANGED <<rows, due, overwritten, wiped>>
  BY <1>1 DEF Entries, AsTask
<1>2. ASSUME NEW t \in Tasks, Grow(t) PROVE Board!Next
  <2>1. UNCHANGED Entries /\ Entries[t] = AsTask(t)
    BY <1>2 DEF Grow, history, Entries, AsTask
  <2>2. AsTask(t) \in Board!Open \cup {Board!Lost}
    <3>1. rows[t] \in Row /\ rows[t].status \notin Ended
      BY <1>2 DEF Grow, BInv, RInv, TInv, TypeOK, Rows
    <3>2. rows[t].status \in {"queued", "running"} BY <3>1 DEF Row, Ended
    <3>3. CASE t \in overwritten \cup wiped
      BY <3>3 DEF AsTask, Board!Lost, Board!At
    <3>4. CASE t \notin overwritten \cup wiped
      <4>1. rows[t] # None /\ Coherent(rows[t])
        BY <1>2, <3>4, CoherentRows DEF Grow, BInv, RInv
      <4>2. rows[t].deleted = FALSE BY <3>1, <4>1 DEF Coherent, Row
      <4> QED BY <3>2, <3>4, <4>1, <4>2 DEF AsTask, Board!Open, Board!At
    <3> QED BY <3>3, <3>4
  <2> QED BY <1>2, <2>1, <2>2 DEF Grow, Board!Next, Board!Age
<1>3. ASSUME NEW r \in Requests, Handle(r), ~Commit(r), ~Wipe(r)
      PROVE  UNCHANGED <<rows, due, overwritten, wiped>>
  BY <1>3 DEF Handle, Enter, CheckRows, Select, CommitFails, history
<1>4. ASSUME NEW c \in Creates, Look(c) PROVE UNCHANGED <<rows, due, overwritten, wiped>>
  BY <1>4 DEF Look, Replay, history
<1>5. ASSUME NEW p \in Procs, Crash(p) PROVE UNCHANGED <<rows, due, overwritten, wiped>>
  BY <1>5 DEF Crash, history
<1>6. CASE UNCHANGED vars BY <1>1, <1>6 DEF vars, history
<1> QED BY <1>1, <1>2, <1>3, <1>4, <1>5, <1>6, CommitOnBoard, InsertOnBoard, WipeOnBoard DEF Next

\* The requests of any number of replicas make one board of tasks, whenever they
\* read, commit and die, but for the tasks whose row was written from an outdated
\* copy or deleted by the making of a store.
THEOREM BoardImplemented == Spec => ImplementsBoard
<1>1. Init => Board!Init
  BY DEF Init, Absent, Entries, AsTask, Board!Init, Board!Absent, Board!At
<1>2. Spec => []BInv BY BInvInit, BInvNext, PTL DEF Spec
<1> QED BY <1>1, <1>2, BoardStep, PTL DEF Spec, ImplementsBoard, Board!Spec
=============================================================================
