------------------------- MODULE ChatSession_proofs -------------------------
(* Proofs about ChatSession, for any number of requests of any kinds, any   *)
(* length of route, with or without faults.                                 *)
EXTENDS ChatSession, TLAPS

\* The slot names exactly the request that is between start() and finish().
SlotIsExecution == \A r \in Requests : pc[r] \in Body <=> slot = r

\* Only a rollback compensates.
UndoIsRollback == \A r \in Requests : pc[r] = "undo" => kind[r] = "rollback"

\* Who will still write the record of a deleted conversation is caught; of an
\* archived one, caught or itself a change of status.
CaughtByDelete ==
  status = "deleted" =>
    \A r \in Requests : pc[r] \in {"create", "write", "store"} => r \in caught

CaughtByArchive ==
  status = "archived" =>
    \A r \in Requests :
      /\ pc[r] \in {"create", "store"} => r \in caught
      /\ pc[r] \in {"status", "write"} => r \in caught \/ kind[r] \in Changes

\* A turn that hands over has a next task to hand over to.
PauseHasNext == \A r \in Requests : plan[r].end = "pause" => plan[r].at + 1 \in Tasks

IInv == /\ TypeOK /\ PauseHasNext /\ SlotIsExecution /\ UndoIsRollback /\ TurnsSeeEachOther
        /\ CaughtByDelete /\ CaughtByArchive

Plan == [msg : Requests, at : Tasks, turn : SUBSET Tasks,
         end : {"none", "final", "pause", "cancelled"}]

-----------------------------------------------------------------------------
\* The snapshot that a turn saves is one, since a turn that hands over has a
\* next task (Respond).
LEMMA NextSnapType ==
  ASSUME NEW p \in Plan, NEW old \in Snapshot, p.end = "pause" => p.at + 1 \in Tasks
  PROVE  NextSnap(p, old) \in Snapshot
<1>1. Arm(old.stack, p) \in SUBSET Entry
  BY DEF Arm, Plan, Snapshot, Entry
<1>2. p.end = "pause" => [msg |-> p.msg, at |-> p.at + 1, turn |-> p.turn] \in Handoff
  BY DEF Plan, Handoff
<1>3. QED
  BY <1>1, <1>2 DEF NextSnap, Snapshot, Plan

\* The handlers' helpers keep the types of what they assign.
LEMMA HelperTypes ==
  ASSUME TypeOK, NEW r \in Requests
  PROVE  /\ \A l \in Labels : Goto(r, l) => (pc' \in [Requests -> Labels] /\ UNCHANGED answer)
         /\ \A a \in {"ok", "cancelled", "failed"} :
              Reply(r, a) \/ Unwind(r, a) =>
                /\ pc' \in [Requests -> Labels]
                /\ answer' \in [Requests -> {"none", "ok", "cancelled", "failed"}]
         /\ \A s \in {"none", "active", "running"} \cup Closed :
              PutStatus(r, s) =>
                /\ status' \in {"none", "active", "running"} \cup Closed
                /\ caught' \in SUBSET Requests
         /\ \A s \in Snapshot :
              PutSnap(r, s) => snap' \in Snapshot /\ missed' \in [Requests -> SUBSET Requests]
         /\ TakeSnap(r) =>
              copy' \in [Requests -> Snapshot] /\ missed' \in [Requests -> SUBSET Requests]
<1>1. "done" \in Labels /\ "finish" \in Labels
  BY DEF Labels, Body
<1>2. \A l \in Labels : Goto(r, l) => (pc' \in [Requests -> Labels] /\ UNCHANGED answer)
  BY DEF Goto, TypeOK
<1>3. \A a \in {"ok", "cancelled", "failed"} :
        Reply(r, a) \/ Unwind(r, a) =>
          /\ pc' \in [Requests -> Labels]
          /\ answer' \in [Requests -> {"none", "ok", "cancelled", "failed"}]
  BY <1>1 DEF Reply, Unwind, TypeOK
<1>4. \A s \in {"none", "active", "running"} \cup Closed :
        PutStatus(r, s) =>
          /\ status' \in {"none", "active", "running"} \cup Closed
          /\ caught' \in SUBSET Requests
  BY DEF PutStatus, TypeOK
<1>5. \A s \in Snapshot :
        PutSnap(r, s) => snap' \in Snapshot /\ missed' \in [Requests -> SUBSET Requests]
  BY DEF PutSnap, TypeOK
<1>6. TakeSnap(r) =>
        copy' \in [Requests -> Snapshot] /\ missed' \in [Requests -> SUBSET Requests]
  BY DEF TakeSnap, TypeOK
<1>7. QED
  BY <1>2, <1>3, <1>4, <1>5, <1>6

\* The steps before start() keep the types; a resumed plan is that of the stored handoff.
LEMMA BeforeTypes ==
  ASSUME TypeOK, NEW r \in Requests, Before(r)
  PROVE  TypeOK'
<1> USE HelperTypes DEF store, control, local, history, Labels, Body, Closed
<1>1. CASE Ensure(r) \/ Create(r) \/ Retry(r) \/ Require(r) \/ ReadStatus(r)
  BY <1>1 DEF Ensure, Create, Retry, Require, ReadStatus, Proceed, TypeOK
<1>2. CASE WriteStatus(r)
  <2>1. Target(r) \in {"running", "archived", "deleted", "active"}
    BY DEF Target
  <2>2. QED
    BY <1>2, <2>1 DEF WriteStatus, TypeOK
<1>3. CASE LookForHandoff(r)
  <2>1. snap.handoff # NoHandoff => snap.handoff \in Handoff
    BY DEF TypeOK, Snapshot
  <2>2. plan' \in [Requests -> Plan]
    BY <1>3, <2>1 DEF LookForHandoff, TypeOK, Plan, Handoff
  <2>3. pc' \in [Requests -> Labels]
        /\ answer' \in [Requests -> {"none", "ok", "cancelled", "failed"}]
    BY <1>3 DEF LookForHandoff, Proceed, TypeOK
  <2>4. QED
    BY <1>3, <2>2, <2>3 DEF LookForHandoff, TypeOK, Plan
<1>4. QED
  BY <1>1, <1>2, <1>3 DEF Before

\* The steps between start() and the first write keep the types.
LEMMA TaskTypes ==
  ASSUME TypeOK, NEW r \in Requests, Task(r)
  PROVE  TypeOK'
<1> USE HelperTypes DEF store, control, local, history, Labels, Body, Closed
<1>1. CASE Start(r) \/ Raise(r)
  BY <1>1 DEF Start, Raise, TypeOK
<1>2. ASSUME NEW t \in SUBSET Tasks, plan' = [plan EXCEPT ![r].turn = t]
      PROVE  plan' \in [Requests -> Plan]
  BY <1>2 DEF TypeOK, Plan
<1>3. ASSUME NEW e \in {"final", "pause", "cancelled"}, plan' = [plan EXCEPT ![r].end = e]
      PROVE  plan' \in [Requests -> Plan]
  BY <1>3 DEF TypeOK, Plan
<1>4. CASE Work(r)
  <2>1. PICK t \in {plan[r].turn, plan[r].turn \cup {plan[r].at}} :
               plan' = [plan EXCEPT ![r].turn = t]
    BY <1>4 DEF Work
  <2>2. t \in SUBSET Tasks
    BY <2>1 DEF TypeOK
  <2>3. QED
    BY <1>2, <1>4, <2>1, <2>2 DEF Work, TypeOK, Plan
<1>5. CASE AnswerFromFaq(r)
  BY <1>3, <1>5 DEF AnswerFromFaq, TypeOK, Plan
<1>6. CASE Respond(r)
  BY <1>3, <1>6 DEF Respond, TypeOK, Plan
<1>7. CASE Stop(r)
  BY <1>3, <1>7 DEF Stop, TypeOK, Plan
<1>8. QED
  BY <1>1, <1>4, <1>5, <1>6, <1>7 DEF Task

\* The steps that store a turn, and finish(), keep the types.
LEMMA PersistTypes ==
  ASSUME TypeOK, PauseHasNext, NEW r \in Requests, Persist(r)
  PROVE  TypeOK'
<1> USE HelperTypes DEF store, control, local, history, Labels, Body, Closed
<1>1. CASE ReadSnap(r) \/ ReadRecord(r) \/ Finish(r)
  BY <1>1 DEF ReadSnap, ReadRecord, Finish, TypeOK
<1>2. CASE SaveSnap(r)
  <2>1. NextSnap(plan[r], copy[r]) \in Snapshot
    BY NextSnapType DEF TypeOK, PauseHasNext, Plan
  <2>2. QED
    BY <1>2, <2>1 DEF SaveSnap, TypeOK
<1>3. CASE StoreExchange(r)
  <2>1. plan[r].msg \in Requests
    BY DEF TypeOK
  <2>2. QED
    BY <1>3, <2>1 DEF StoreExchange, TypeOK
<1>4. QED
  BY <1>1, <1>2, <1>3 DEF Persist

\* The steps of a rollback keep the types: a compensated step stays an entry.
LEMMA RollbackTypes ==
  ASSUME TypeOK, NEW r \in Requests, Rollback(r)
  PROVE  TypeOK'
<1> USE HelperTypes DEF store, control, local, history, Labels, Body
<1>1. CASE LookForStack(r)
  BY <1>1 DEF LookForStack, Proceed, TypeOK
<1>2. CASE SaveRollback(r)
  BY <1>2 DEF SaveRollback, TypeOK
<1>3. CASE Compensate(r)
  <2>1. PICK e \in Armed(copy[r]), s \in {"completed", "failed"} :
               copy' = [copy EXCEPT ![r].stack = (@ \ {e}) \cup {[e EXCEPT !.state = s]}]
    BY <1>3 DEF Compensate
  <2>2. copy[r] \in Snapshot
    BY DEF TypeOK
  <2>3. e \in Entry
    BY <2>2 DEF Armed, Snapshot
  <2>4. [e EXCEPT !.state = s] \in Entry
    BY <2>3 DEF Entry
  <2>5. (copy[r].stack \ {e}) \cup {[e EXCEPT !.state = s]} \in SUBSET Entry
    BY <2>2, <2>4 DEF Snapshot
  <2>6. copy' \in [Requests -> Snapshot]
    BY <2>1, <2>5 DEF TypeOK, Snapshot
  <2>7. QED
    BY <1>3, <2>6 DEF Compensate, TypeOK
<1>4. QED
  BY <1>1, <1>2, <1>3 DEF Rollback

\* Every step keeps the types.
LEMMA TypeStep == TypeOK /\ PauseHasNext /\ [Next]_vars => TypeOK'
<1> SUFFICES ASSUME TypeOK, PauseHasNext, [Next]_vars PROVE TypeOK'
  OBVIOUS
<1>1. CASE Cancel
  BY <1>1 DEF Cancel, TypeOK, store, local, history
<1>2. CASE Crash
  BY <1>2 DEF Crash, TypeOK, store, local, history, Labels
<1>3. ASSUME NEW r \in Requests, Handle(r) PROVE TypeOK'
  BY <1>3, BeforeTypes, TaskTypes, PersistTypes, RollbackTypes DEF Handle
<1>4. CASE UNCHANGED vars
  BY <1>4 DEF vars, TypeOK, store, control, local, history
<1>5. QED
  BY <1>1, <1>2, <1>3, <1>4 DEF Next

-----------------------------------------------------------------------------
\* A request that hands over does so from a task with a successor.
LEMMA PauseStep == TypeOK /\ PauseHasNext /\ [Next]_vars => PauseHasNext'
<1> SUFFICES ASSUME TypeOK, PauseHasNext, [Next]_vars PROVE PauseHasNext'
  OBVIOUS
<1>1. CASE UNCHANGED plan
  BY <1>1 DEF PauseHasNext
<1>2. ASSUME NEW r \in Requests, LookForHandoff(r), ~ UNCHANGED plan PROVE PauseHasNext'
  <2>1. plan' = [plan EXCEPT ![r] = [msg |-> snap.handoff.msg, at |-> snap.handoff.at,
                                     turn |-> snap.handoff.turn, end |-> "none"]]
    BY <1>2 DEF LookForHandoff
  <2>2. QED
    BY <2>1 DEF PauseHasNext, TypeOK
<1>3. ASSUME NEW r \in Requests, Work(r) PROVE PauseHasNext'
  BY <1>3 DEF Work, PauseHasNext, TypeOK
<1>4. ASSUME NEW r \in Requests, AnswerFromFaq(r) \/ Stop(r) PROVE PauseHasNext'
  BY <1>4 DEF AnswerFromFaq, Stop, PauseHasNext, TypeOK
<1>5. ASSUME NEW r \in Requests, Respond(r) PROVE PauseHasNext'
  <2>1. PICK e \in {"final", "pause"} :
               (e = "pause" => plan[r].at < Last) /\ plan' = [plan EXCEPT ![r].end = e]
    BY <1>5 DEF Respond
  <2>2. \A i \in Tasks : i < Last => i + 1 \in Tasks
    BY LastAssumption DEF Tasks
  <2>3. QED
    BY <2>1, <2>2 DEF PauseHasNext, TypeOK
<1>6. ASSUME NEW r \in Requests, Handle(r), ~ LookForHandoff(r), ~ Work(r),
             ~ AnswerFromFaq(r), ~ Stop(r), ~ Respond(r)
      PROVE  UNCHANGED plan
  BY <1>6 DEF Handle, Before, Task, Persist, Rollback, Ensure, Create, Retry, Require,
     ReadStatus, WriteStatus, Start, Raise, ReadSnap, SaveSnap, ReadRecord, StoreExchange,
     Finish, LookForStack, Compensate, SaveRollback, local
<1>7. QED
  BY <1>1, <1>2, <1>3, <1>4, <1>5, <1>6 DEF Next, Cancel, Crash, vars, local

\* What the proofs about labels need of a step of a handler.
LEMMA HandlerMoves ==
  ASSUME TypeOK, NEW r \in Requests, Handle(r)
  PROVE  /\ \E l \in Labels : pc' = [pc EXCEPT ![r] = l]
         /\ UNCHANGED kind
<1>1. "done" \in Labels /\ "finish" \in Labels
  BY DEF Labels, Body
<1>2. CASE Before(r)
  BY <1>1, <1>2 DEF Before, Ensure, Create, Retry, Require, ReadStatus, WriteStatus,
     LookForHandoff, Proceed, Goto, Reply, local, Labels
<1>3. CASE Task(r)
  BY <1>1, <1>3 DEF Task, Start, AnswerFromFaq, Work, Respond, Stop, Raise, Goto, Reply,
     Unwind, local, Labels, Body
<1>4. CASE Persist(r)
  BY <1>1, <1>4 DEF Persist, ReadSnap, SaveSnap, ReadRecord, StoreExchange, Finish, Goto,
     Unwind, local, Labels, Body
<1>5. CASE Rollback(r)
  <2>1. Compensate(r) => pc' = [pc EXCEPT ![r] = pc[r]]
    BY DEF Compensate, TypeOK
  <2>2. QED
    BY <1>1, <1>5, <2>1 DEF Rollback, LookForStack, Compensate, SaveRollback, Proceed,
       Goto, Reply, local, Labels, TypeOK
<1>6. QED
  BY <1>2, <1>3, <1>4, <1>5 DEF Handle

\* The slot is taken and given back where the body of a turn begins and ends.
LEMMA SlotStep ==
  TypeOK /\ SlotIsExecution /\ [Next]_vars => SlotIsExecution'
<1> SUFFICES ASSUME TypeOK, SlotIsExecution, [Next]_vars PROVE SlotIsExecution'
  OBVIOUS
<1>0. NoReq \notin Requests
  BY NoneAssumption
<1>1. ASSUME NEW r \in Requests, Before(r) \/ Rollback(r) PROVE SlotIsExecution'
  <2>1. CASE Ensure(r) \/ Create(r) \/ Retry(r) \/ Require(r)
    BY <2>1 DEF Ensure, Create, Retry, Require, Proceed, Goto, Reply, At, control, Body,
       SlotIsExecution, TypeOK
  <2>2. CASE ReadStatus(r) \/ WriteStatus(r) \/ LookForHandoff(r)
    BY <2>2 DEF ReadStatus, WriteStatus, LookForHandoff, Proceed, Goto, Reply, At, control,
       Body, SlotIsExecution, TypeOK
  <2>3. CASE Rollback(r)
    BY <2>3 DEF Rollback, LookForStack, Compensate, SaveRollback, Proceed, Goto, Reply, At,
       control, Body, SlotIsExecution, TypeOK
  <2>4. QED
    BY <1>1, <2>1, <2>2, <2>3 DEF Before
<1>2. ASSUME NEW r \in Requests, Task(r) PROVE SlotIsExecution'
  <2>1. CASE Start(r)
    BY <1>0, <2>1 DEF Start, Goto, Reply, At, Body, SlotIsExecution, TypeOK
  <2>2. CASE AnswerFromFaq(r) \/ Work(r) \/ Respond(r) \/ Stop(r) \/ Raise(r)
    BY <2>2 DEF AnswerFromFaq, Work, Respond, Stop, Raise, Goto, Reply, Unwind, At, control,
       Body, SlotIsExecution, TypeOK
  <2>3. QED
    BY <1>2, <2>1, <2>2 DEF Task
<1>3. ASSUME NEW r \in Requests, Persist(r) PROVE SlotIsExecution'
  <2>1. CASE Finish(r)
    BY <1>0, <2>1 DEF Finish, At, Body, SlotIsExecution, TypeOK
  <2>2. CASE ReadSnap(r) \/ SaveSnap(r) \/ ReadRecord(r) \/ StoreExchange(r)
    BY <2>2 DEF ReadSnap, SaveSnap, ReadRecord, StoreExchange, Goto, Unwind, At, control,
       Body, SlotIsExecution, TypeOK
  <2>3. QED
    BY <1>3, <2>1, <2>2 DEF Persist
<1>4. CASE Crash
  <2>1. \A k \in Kinds : Entrance(k) \notin Body
    BY DEF Entrance, Kinds, Turns, Messages, Changes, Body
  <2>2. QED
    BY <1>0, <1>4, <2>1 DEF Crash, Body, SlotIsExecution, TypeOK
<1>5. CASE Cancel \/ UNCHANGED vars
  BY <1>5 DEF Cancel, vars, control, SlotIsExecution
<1>6. QED
  BY <1>1, <1>2, <1>3, <1>4, <1>5 DEF Next, Handle

\* Only LookForStack leads to the compensations.
LEMMA UndoStep == TypeOK /\ UndoIsRollback /\ [Next]_vars => UndoIsRollback'
<1> SUFFICES ASSUME TypeOK, UndoIsRollback, [Next]_vars PROVE UndoIsRollback'
  OBVIOUS
<1>1. ASSUME NEW r \in Requests, Before(r) PROVE pc'[r] # "undo"
  BY <1>1 DEF Before, Ensure, Create, Retry, Require, ReadStatus, WriteStatus,
     LookForHandoff, Proceed, Goto, Reply, TypeOK
<1>2. ASSUME NEW r \in Requests, Task(r) \/ Persist(r) PROVE pc'[r] # "undo"
  BY <1>2 DEF Task, Start, AnswerFromFaq, Work, Respond, Stop, Raise, Persist, ReadSnap,
     SaveSnap, ReadRecord, StoreExchange, Finish, Goto, Reply, Unwind, TypeOK
<1>3. ASSUME NEW r \in Requests, Rollback(r) PROVE pc'[r] = "undo" => kind[r] = "rollback"
  BY <1>3 DEF Rollback, LookForStack, Compensate, SaveRollback, Proceed, Goto, Reply,
     UndoIsRollback, TypeOK
<1>4. ASSUME NEW r \in Requests, Handle(r) PROVE UndoIsRollback'
  BY <1>1, <1>2, <1>3, <1>4, HandlerMoves DEF Handle, UndoIsRollback, TypeOK
<1>5. CASE Cancel \/ Crash \/ UNCHANGED vars
  BY <1>5 DEF Cancel, Crash, vars, local, UndoIsRollback, TypeOK
<1>6. QED
  BY <1>4, <1>5 DEF Next

\* Saves come between the read and the save of a turn from rollbacks only: another
\* turn would hold the slot.
LEMMA MissedStep ==
  TypeOK /\ SlotIsExecution /\ UndoIsRollback /\ TurnsSeeEachOther /\ [Next]_vars
    => TurnsSeeEachOther'
<1> SUFFICES ASSUME TypeOK, SlotIsExecution, UndoIsRollback, TurnsSeeEachOther, [Next]_vars
             PROVE  TurnsSeeEachOther'
  OBVIOUS
<1>1. ASSUME NEW r \in Requests, Handle(r), UNCHANGED missed, pc'[r] # "savesnap"
      PROVE  TurnsSeeEachOther'
  BY <1>1, HandlerMoves DEF TurnsSeeEachOther, TypeOK
<1>2. ASSUME NEW r \in Requests, Before(r) PROVE UNCHANGED missed /\ pc'[r] # "savesnap"
  BY <1>2 DEF Before, Ensure, Create, Retry, Require, ReadStatus, WriteStatus,
     LookForHandoff, Proceed, Goto, Reply, history, TypeOK
<1>3. ASSUME NEW r \in Requests, Task(r) PROVE UNCHANGED missed /\ pc'[r] # "savesnap"
  BY <1>3 DEF Task, Start, AnswerFromFaq, Work, Respond, Stop, Raise, Goto, Reply, Unwind,
     history, TypeOK
<1>4. ASSUME NEW r \in Requests, ReadRecord(r) \/ StoreExchange(r) \/ Finish(r)
      PROVE  UNCHANGED missed /\ pc'[r] # "savesnap"
  BY <1>4 DEF ReadRecord, StoreExchange, Finish, Goto, Unwind, history, TypeOK
<1>5. ASSUME NEW r \in Requests, ReadSnap(r) PROVE TurnsSeeEachOther'
  BY <1>5 DEF ReadSnap, TakeSnap, Goto, TurnsSeeEachOther, TypeOK, local
<1>6. ASSUME NEW r \in Requests, SaveSnap(r) PROVE TurnsSeeEachOther'
  <2>1. \A q \in Requests : pc'[q] # "savesnap"
    <3>1. pc'[r] # "savesnap"
      BY <1>6 DEF SaveSnap, Goto, Unwind, TypeOK
    <3>2. \A q \in Requests \ {r} : pc'[q] = pc[q]
      BY <1>6 DEF SaveSnap, Goto, Unwind, TypeOK
    <3>3. \A q \in Requests : pc[q] = "savesnap" => q = r
      BY <1>6 DEF SaveSnap, At, SlotIsExecution, Body
    <3>4. QED
      BY <3>1, <3>2, <3>3
  <2>2. QED
    BY <2>1 DEF TurnsSeeEachOther
<1>7. ASSUME NEW r \in Requests, LookForStack(r) PROVE TurnsSeeEachOther'
  BY <1>7 DEF LookForStack, TakeSnap, Proceed, Goto, Reply, TurnsSeeEachOther, TypeOK
<1>8. ASSUME NEW r \in Requests, Compensate(r) PROVE TurnsSeeEachOther'
  BY <1>8 DEF Compensate, TurnsSeeEachOther, history
<1>9. ASSUME NEW r \in Requests, SaveRollback(r) PROVE TurnsSeeEachOther'
  <2>1. kind[r] = "rollback" /\ UNCHANGED kind
    BY <1>9 DEF SaveRollback, At, UndoIsRollback, local
  <2>2. \A q \in Requests : missed'[q] \subseteq missed[q] \cup {r}
    BY <1>9 DEF SaveRollback, PutSnap
  <2>3. \A q \in Requests : pc'[q] = "savesnap" => pc[q] = "savesnap"
    BY <1>9 DEF SaveRollback, Reply, TypeOK
  <2>4. QED
    BY <2>1, <2>2, <2>3 DEF TurnsSeeEachOther
<1>10. CASE Cancel \/ Crash \/ UNCHANGED vars
  BY <1>10 DEF Cancel, Crash, vars, local, history, TurnsSeeEachOther, TypeOK
<1>11. QED
  BY <1>1, <1>2, <1>3, <1>4, <1>5, <1>6, <1>7, <1>8, <1>9, <1>10
     DEF Next, Handle, Persist, Rollback

-----------------------------------------------------------------------------
\* The invariants of closed conversations.
Caught == CaughtByDelete /\ CaughtByArchive

\* Nobody enters a window of a closed conversation uncaught, since the read that
\* opens it stops; a closing write catches everyone inside and ends its request.
LEMMA CaughtStep == TypeOK /\ Caught /\ [Next]_vars => Caught'
<1> SUFFICES ASSUME TypeOK, Caught, [Next]_vars PROVE Caught'
  OBVIOUS
<1>1. ASSUME NEW r \in Requests, Create(r) \/ StoreExchange(r) PROVE Caught'
  BY <1>1 DEF Create, StoreExchange, PutStatus, Caught, CaughtByDelete, CaughtByArchive
<1>2. ASSUME NEW r \in Requests, WriteStatus(r) PROVE Caught'
  <2>1. CASE Target(r) \notin Closed
    BY <1>2, <2>1 DEF WriteStatus, PutStatus, Closed, Caught, CaughtByDelete, CaughtByArchive
  <2>2. CASE Target(r) \in Closed
    <3>1. kind[r] \notin Turns
      <4>1. kind[r] \in Turns => Target(r) = "running"
        BY DEF Target, Turns, Messages
      <4>2. QED
        BY <2>2, <4>1 DEF Closed
    <3>2. pc' = [pc EXCEPT ![r] = "done"]
      BY <1>2, <3>1 DEF WriteStatus, Reply
    <3>3. status' = Target(r) /\ caught' = {q \in Requests \ {r} : pc[q] \in Window(Target(r))}
      BY <1>2, <2>2 DEF WriteStatus, PutStatus
    <3>4. QED
      BY <3>2, <3>3 DEF Window, Caught, CaughtByDelete, CaughtByArchive, TypeOK
  <2>3. QED
    BY <2>1, <2>2
<1>3. ASSUME NEW r \in Requests, Handle(r), UNCHANGED <<status, caught>>,
             pc'[r] \in {"create", "store"} => status \notin Closed,
             pc'[r] = "write" => status # "deleted",
             pc'[r] \in {"status", "write"} /\ status = "archived"
               => r \in caught \/ kind[r] \in Changes
      PROVE  Caught'
  BY <1>3, HandlerMoves DEF Caught, CaughtByDelete, CaughtByArchive, Closed, TypeOK
<1>4. ASSUME NEW r \in Requests, Ensure(r) PROVE Caught'
  <2>1. Handle(r)
    BY <1>4 DEF Handle, Before
  <2>2. QED
    BY <1>3, <1>4, <2>1 DEF Ensure, Proceed, Goto, Reply, store, history, Closed, TypeOK
<1>5. ASSUME NEW r \in Requests, Require(r) PROVE Caught'
  <2>1. Handle(r)
    BY <1>5 DEF Handle, Before
  <2>2. QED
    BY <1>3, <1>5, <2>1 DEF Require, Proceed, Goto, Reply, store, history, Changes, TypeOK
<1>6. ASSUME NEW r \in Requests, ReadStatus(r) PROVE Caught'
  <2>1. Handle(r)
    BY <1>6 DEF Handle, Before
  <2>2. QED
    BY <1>3, <1>6, <2>1 DEF ReadStatus, At, Proceed, Goto, Reply, store, history, Caught,
       CaughtByArchive, TypeOK
<1>7. ASSUME NEW r \in Requests, ReadRecord(r) PROVE Caught'
  <2>1. Handle(r)
    BY <1>7 DEF Handle, Persist
  <2>2. QED
    BY <1>3, <1>7, <2>1 DEF ReadRecord, Goto, Unwind, store, history, TypeOK
<1>8. ASSUME NEW r \in Requests, Handle(r), UNCHANGED <<status, caught>>,
             pc'[r] \notin {"create", "store", "write", "status"}
      PROVE  Caught'
  BY <1>3, <1>8
<1>9. ASSUME NEW r \in Requests, Retry(r) \/ LookForHandoff(r) \/ Task(r) PROVE Caught'
  <2>1. Handle(r)
    BY <1>9 DEF Handle, Before
  <2>2. UNCHANGED <<status, caught>> /\ pc'[r] \notin {"create", "store", "write", "status"}
    BY <1>9 DEF Retry, LookForHandoff, Task, Start, AnswerFromFaq, Work, Respond, Stop, Raise,
       Proceed, Goto, Reply, Unwind, store, history, TypeOK
  <2>3. QED
    BY <1>8, <2>1, <2>2
<1>10. ASSUME NEW r \in Requests, ReadSnap(r) \/ SaveSnap(r) \/ Finish(r) \/ Rollback(r)
       PROVE  Caught'
  <2>1. Handle(r)
    BY <1>10 DEF Handle, Persist
  <2>2. UNCHANGED <<status, caught>> /\ pc'[r] \notin {"create", "store", "write", "status"}
    BY <1>10 DEF ReadSnap, SaveSnap, Finish, Rollback, LookForStack, Compensate,
       SaveRollback, At, Proceed, Goto, Reply, Unwind, store, history, TypeOK
  <2>3. QED
    BY <1>8, <2>1, <2>2
<1>11. CASE Cancel \/ UNCHANGED vars
  BY <1>11 DEF Cancel, vars, store, local, history, Caught, CaughtByDelete, CaughtByArchive
<1>12. CASE Crash
  BY <1>12 DEF Crash, store, local, history, Caught, CaughtByDelete, CaughtByArchive, TypeOK
<1>13. QED
  BY <1>1, <1>2, <1>4, <1>5, <1>6, <1>7, <1>9, <1>10, <1>11, <1>12
     DEF Next, Handle, Before, Persist

-----------------------------------------------------------------------------
\* The initial states: every request is at its entrance, outside every window.
LEMMA InitInductive == Init => IInv
<1> SUFFICES ASSUME Init PROVE IInv
  OBVIOUS
<1>1. \A r \in Requests : kind[r] \in Kinds
  BY DEF Init
<1>2. \A k \in Kinds : Entrance(k) \in {"ensure", "retry", "require", "status"}
  BY DEF Entrance, Kinds, Turns, Messages, Changes
<1>3. \A r \in Requests : pc[r] \in {"ensure", "retry", "require", "status"}
  BY <1>1, <1>2 DEF Init
<1>4. 1 \in Tasks
  BY LastAssumption DEF Tasks
<1>5. NoSnap \in Snapshot
  BY DEF NoSnap, Snapshot
<1>6. \A r \in Requests : Fresh(r) \in Plan
  BY <1>4 DEF Fresh, Plan
<1>7. TypeOK
  <2>1. pc \in [Requests -> Labels]
    BY <1>3 DEF Init, Labels
  <2>2. plan \in [Requests -> Plan]
    BY <1>6 DEF Init
  <2>3. QED
    BY <2>1, <2>2, <1>5 DEF Init, TypeOK, Plan
<1>8. PauseHasNext
  BY DEF Init, Fresh, PauseHasNext
<1>9. SlotIsExecution
  BY <1>3, NoneAssumption DEF Init, SlotIsExecution, Body
<1>10. UndoIsRollback /\ TurnsSeeEachOther
  BY <1>3 DEF UndoIsRollback, TurnsSeeEachOther
<1>11. CaughtByDelete /\ CaughtByArchive
  BY DEF Init, CaughtByDelete, CaughtByArchive
<1>12. QED
  BY <1>7, <1>8, <1>9, <1>10, <1>11 DEF IInv

\* IInv is an inductive invariant.
LEMMA Inductive == Spec => []IInv
<1>1. IInv /\ [Next]_vars => IInv'
  BY TypeStep, PauseStep, SlotStep, UndoStep, MissedStep, CaughtStep DEF IInv, Caught
<1>2. QED
  BY InitInductive, <1>1, PTL DEF Spec

\* Every variable keeps its type, through every interleaving and restart.
THEOREM TypeCorrect == Spec => []TypeOK
<1>1. IInv => TypeOK
  BY DEF IInv
<1>2. QED
  BY Inductive, <1>1, PTL

\* No save of another turn falls between the read and the save of a turn.
THEOREM TurnsSeeEachOtherHolds == Spec => []TurnsSeeEachOther
<1>1. IInv => TurnsSeeEachOther
  BY DEF IInv
<1>2. QED
  BY Inductive, <1>1, PTL

-----------------------------------------------------------------------------
\* The status is changed by the three writes, each of a request inside a window.
LEMMA ReopenStep ==
  IInv /\ [Next]_vars =>
    (Reopens => \E r \in Requests :
       /\ pc'[r] # pc[r]
       /\ r \in caught \/ (status = "archived" /\ kind[r] = "restore"))
<1> SUFFICES ASSUME IInv, [Next]_vars, Reopens
             PROVE  \E r \in Requests :
                      /\ pc'[r] # pc[r]
                      /\ r \in caught \/ (status = "archived" /\ kind[r] = "restore")
  OBVIOUS
<1>0. TypeOK /\ CaughtByDelete /\ CaughtByArchive
  BY DEF IInv
<1>1. status' # status /\ status \in Closed
  BY DEF Reopens, Closed
<1>2. PICK r \in Requests : Create(r) \/ StoreExchange(r) \/ WriteStatus(r)
  <2>1. \A r \in Requests : Before(r) /\ ~ Create(r) /\ ~ WriteStatus(r) => UNCHANGED status
    BY DEF Before, Ensure, Retry, Require, ReadStatus, LookForHandoff, store
  <2>2. \A r \in Requests : Task(r) => UNCHANGED status
    BY DEF Task, Start, AnswerFromFaq, Work, Respond, Stop, Raise, store
  <2>3. \A r \in Requests : Persist(r) /\ ~ StoreExchange(r) => UNCHANGED status
    BY DEF Persist, ReadSnap, SaveSnap, ReadRecord, Finish, store
  <2>4. \A r \in Requests : Rollback(r) => UNCHANGED status
    BY DEF Rollback, LookForStack, Compensate, SaveRollback, store
  <2>5. Cancel \/ Crash \/ UNCHANGED vars => UNCHANGED status
    BY DEF Cancel, Crash, vars, store
  <2>6. QED
    BY <1>1, <2>1, <2>2, <2>3, <2>4, <2>5 DEF Next, Handle
<1>3. CASE Create(r) \/ StoreExchange(r)
  <2>1. pc'[r] # pc[r]
    BY <1>0, <1>3 DEF Create, StoreExchange, At, Goto, Unwind, TypeOK
  <2>2. r \in caught
    BY <1>0, <1>1, <1>3 DEF Create, StoreExchange, At, CaughtByDelete, CaughtByArchive, Closed
  <2>3. QED
    BY <2>1, <2>2
<1>4. CASE WriteStatus(r)
  <2>1. pc'[r] # pc[r]
    BY <1>0, <1>4 DEF WriteStatus, At, Goto, Reply, TypeOK
  <2>2. CASE status = "deleted"
    BY <1>0, <1>4, <2>1, <2>2 DEF WriteStatus, At, CaughtByDelete
  <2>3. CASE status = "archived"
    <3>1. r \in caught \/ kind[r] \in Changes
      BY <1>0, <1>4, <2>3 DEF WriteStatus, At, CaughtByArchive
    <3>2. Target(r) \in {"active", "running"}
      BY <1>4, <2>3 DEF WriteStatus, PutStatus, Reopens
    <3>3. kind[r] \in Changes => kind[r] = "restore"
      BY <3>2 DEF Changes, Target, Turns, Messages
    <3>4. QED
      BY <2>1, <2>3, <3>1, <3>3
  <2>4. QED
    BY <1>1, <2>2, <2>3 DEF Closed
<1>5. QED
  BY <1>2, <1>3, <1>4

\* A closed conversation is reopened by restore, or by a request that read its
\* status before it was closed.
THEOREM ReopenedByCaughtOnlyHolds == Spec => ReopenedByCaughtOnly
<1>1. IInv /\ [Next]_vars =>
        [Reopens => \E r \in Requests :
           /\ pc'[r] # pc[r]
           /\ r \in caught \/ (status = "archived" /\ kind[r] = "restore")]_vars
  BY ReopenStep
<1>2. QED
  BY Inductive, <1>1, PTL DEF Spec, ReopenedByCaughtOnly

-----------------------------------------------------------------------------
\* The conversation's slot, as RunSlots names it.
Occupied == [p \in {"here"} |-> [c \in {"this"} |-> Executing]]

\* Executing changes with the slot.
LEMMA ExecutingIsSlot == IInv => Executing = {slot} \cap Requests
<1> SUFFICES ASSUME IInv PROVE Executing = {slot} \cap Requests
  OBVIOUS
<1>1. SlotIsExecution
  BY DEF IInv
<1>2. QED
  BY <1>1 DEF Executing, SlotIsExecution

\* The slot is taken by Start when it is empty, emptied by Finish and Crash, and
\* left alone by every other step.
LEMMA SlotMoves ==
  ASSUME [Next]_vars
  PROVE  \/ UNCHANGED slot
         \/ slot = NoReq /\ slot' \in Requests
         \/ slot' = NoReq
<1>1. ASSUME NEW r \in Requests, Before(r) \/ Rollback(r) PROVE UNCHANGED slot
  BY <1>1 DEF Before, Rollback, Ensure, Create, Retry, Require, ReadStatus, WriteStatus,
     LookForHandoff, LookForStack, Compensate, SaveRollback, control
<1>2. ASSUME NEW r \in Requests, Task(r)
      PROVE  UNCHANGED slot \/ (slot = NoReq /\ slot' \in Requests)
  BY <1>2 DEF Task, Start, AnswerFromFaq, Work, Respond, Stop, Raise, control
<1>3. ASSUME NEW r \in Requests, Persist(r) PROVE UNCHANGED slot \/ slot' = NoReq
  BY <1>3 DEF Persist, ReadSnap, SaveSnap, ReadRecord, StoreExchange, Finish, control
<1>4. CASE Cancel \/ Crash \/ UNCHANGED vars
  BY <1>4 DEF Cancel, Crash, vars, control
<1>5. QED
  BY <1>1, <1>2, <1>3, <1>4 DEF Next, Handle

\* A step of a conversation is a step of its slot, or none.
LEMMA SlotsStep == IInv /\ IInv' /\ [Next]_vars => [Slots!Next]_Occupied
<1> SUFFICES ASSUME IInv, IInv', [Next]_vars PROVE [Slots!Next]_Occupied
  OBVIOUS
<1>0. NoReq \notin Requests
  BY NoneAssumption
<1>1. Executing = {slot} \cap Requests
  BY ExecutingIsSlot
<1>2. Executing' = {slot'} \cap Requests
  <2>1. (Executing = {slot} \cap Requests)'
    BY ExecutingIsSlot, PTL
  <2>2. QED
    BY <2>1
<1>3. CASE Executing' = Executing
  BY <1>3 DEF Occupied
<1>4. ASSUME slot = NoReq, slot' \in Requests
      PROVE  Slots!Begin("here", "this", {slot'})
  <2>1. Executing = {} /\ Executing' = {slot'}
    BY <1>0, <1>1, <1>2, <1>4
  <2>2. QED
    BY <2>1 DEF Slots!Begin, Occupied
<1>5. ASSUME slot' = NoReq, Executing # {} PROVE Slots!End("here", "this")
  <2>1. Executing' = {}
    BY <1>0, <1>2, <1>5
  <2>2. QED
    BY <1>5, <2>1 DEF Slots!End, Occupied
<1>6. CASE slot = NoReq /\ slot' \in Requests
  BY <1>4, <1>6 DEF Slots!Next
<1>7. CASE slot' = NoReq /\ Executing # {}
  BY <1>5, <1>7 DEF Slots!Next
<1>8. CASE UNCHANGED slot \/ (slot' = NoReq /\ Executing = {})
  <2>1. Executing' = Executing
    BY <1>0, <1>1, <1>2, <1>8
  <2>2. QED
    BY <1>3, <2>1
<1>9. QED
  BY <1>6, <1>7, <1>8, SlotMoves

\* Turns take the slot when it is empty and give it back: between start() and
\* finish() there is at most one, and nothing else occupies it.
THEOREM SlotsImplemented == Spec => ImplementsSlots
<1>1. IInv /\ Init => Slots!Init
  <2>1. SUFFICES ASSUME IInv, Init PROVE Slots!Init
    OBVIOUS
  <2>2. Executing = {}
    BY <2>1, ExecutingIsSlot, NoneAssumption DEF Init
  <2>3. QED
    BY <2>2 DEF Slots!Init
<1>2. Init => Slots!Init
  BY <1>1, InitInductive
<1>3. QED
  BY <1>2, SlotsStep, Inductive, PTL DEF Spec, ImplementsSlots, Slots!Spec, Occupied

-----------------------------------------------------------------------------
(* Without rollbacks: compensations and handoffs from save to save.         *)

NoRollback == \A r \in Requests : kind[r] # "rollback"

\* Where a request has not looked for a handoff, or found none, its plan is fresh.
Early == {"ensure", "create", "retry", "require", "look", "status", "write", "undo"}
PlanIsFresh == \A r \in Requests : pc[r] \in Early => plan[r] = Fresh(r)

\* The copy a turn is about to save over is the snapshot as it stands.
CopyIsCurrent == \A r \in Requests : pc[r] = "savesnap" => copy[r] = snap

OnStack(turn) == \A t \in turn : \E e \in snap.stack : e.step = t

\* The turn of r is on the stack: before it works, and after its save unless it
\* was cancelled or failed.
Settled(r) ==
  \/ pc[r] \in Early \cup {"start", "run"}
  \/ pc[r] \in {"readrecord", "store"} /\ plan[r].end # "cancelled"
  \/ pc[r] \in {"finish", "done"} /\ answer[r] = "ok"

StepsOnStack ==
  /\ snap.handoff # NoHandoff => OnStack(snap.handoff.turn)
  /\ \A r \in Requests : Settled(r) => OnStack(plan[r].turn)

\* The message m has handed the rest of its route over, and will not save again.
Handed(m) == plan[m].end = "pause" /\ pc[m] \in {"readrecord", "store", "finish", "done"}

\* A handoff, pending or resumed, is of a message that has handed over.
HandoffIsHanded ==
  /\ snap.handoff # NoHandoff => Handed(snap.handoff.msg)
  /\ \A r \in Requests : Resumes(r) => Handed(plan[r].msg)

\* The continuation r has saved its turn.
Consumed(r) ==
  /\ Resumes(r)
  /\ \/ pc[r] \in {"readrecord", "store"}
     \/ pc[r] \in {"finish", "done"} /\ answer[r] = "ok"

\* What it resumed is pending again only when a further continuation of the message
\* put it back.
ConsumedNotPending ==
  \A r \in Requests :
    /\ Consumed(r)
    /\ snap.handoff # NoHandoff
    /\ snap.handoff.msg = plan[r].msg /\ snap.handoff.at = plan[r].at
    => \E w \in Requests \ {r} : Resumes(w) /\ plan[w].msg = plan[r].msg

Undisturbed == /\ PlanIsFresh /\ CopyIsCurrent /\ StepsOnStack
               /\ HandoffIsHanded /\ ConsumedNotPending

SInv == NoRollback => Undisturbed

\* A step changes the plan, the copy and the position of the request that takes it;
\* a crash ends the others' too, as failed.
LEMMA Bystander ==
  ASSUME TypeOK, [Next]_vars, NEW r \in Requests, ~ Handle(r)
  PROVE  /\ plan'[r] = plan[r] /\ copy'[r] = copy[r]
         /\ \/ pc'[r] = pc[r] /\ answer'[r] = answer[r]
            \/ pc'[r] = "done" /\ answer'[r] = "failed" /\ pc[r] # "done"
<1> DEFINE Still == /\ plan'[r] = plan[r] /\ copy'[r] = copy[r]
                    /\ pc'[r] = pc[r] /\ answer'[r] = answer[r]
<1>1. ASSUME NEW q \in Requests \ {r}, Before(q) PROVE Still
  BY <1>1 DEF Before, Ensure, Create, Retry, Require, ReadStatus, WriteStatus,
     LookForHandoff, Proceed, Goto, Reply, local, TypeOK
<1>2. ASSUME NEW q \in Requests \ {r}, Task(q) PROVE Still
  BY <1>2 DEF Task, Start, AnswerFromFaq, Work, Respond, Stop, Raise, Goto, Reply, Unwind,
     local, TypeOK
<1>3. ASSUME NEW q \in Requests \ {r}, Persist(q) PROVE Still
  BY <1>3 DEF Persist, ReadSnap, TakeSnap, SaveSnap, ReadRecord, StoreExchange, Finish,
     Goto, Unwind, local, TypeOK
<1>4. ASSUME NEW q \in Requests \ {r}, Rollback(q) PROVE Still
  BY <1>4 DEF Rollback, LookForStack, TakeSnap, Compensate, SaveRollback, Proceed, Goto,
     Reply, local, TypeOK
<1>5. CASE Cancel \/ UNCHANGED vars
  BY <1>5 DEF Cancel, vars, local
<1>6. CASE Crash
  BY <1>6 DEF Crash, local, TypeOK
<1>7. QED
  BY <1>1, <1>2, <1>3, <1>4, <1>5, <1>6 DEF Next, Handle

\* The snapshot is replaced by the save of a turn or of a rollback.
LEMMA SnapMoves ==
  ASSUME [Next]_vars
  PROVE  UNCHANGED snap \/ \E r \in Requests : SaveSnap(r) \/ SaveRollback(r)
<1>1. ASSUME NEW r \in Requests, Before(r) \/ Task(r) PROVE UNCHANGED snap
  BY <1>1 DEF Before, Ensure, Create, Retry, Require, ReadStatus, WriteStatus, LookForHandoff,
     Task, Start, AnswerFromFaq, Work, Respond, Stop, Raise, store
<1>2. ASSUME NEW r \in Requests, Persist(r) \/ Rollback(r), ~ SaveSnap(r), ~ SaveRollback(r)
      PROVE  UNCHANGED snap
  BY <1>2 DEF Persist, ReadSnap, ReadRecord, StoreExchange, Finish,
     Rollback, LookForStack, Compensate, store
<1>3. CASE Cancel \/ Crash \/ UNCHANGED vars
  BY <1>3 DEF Cancel, Crash, vars, store
<1>4. QED
  BY <1>1, <1>2, <1>3 DEF Next, Handle

\* Without rollbacks only turns save.
LEMMA TurnsSave ==
  ASSUME IInv, NoRollback, [Next]_vars
  PROVE  UNCHANGED snap \/ \E r \in Requests : SaveSnap(r)
BY SnapMoves DEF SaveRollback, At, IInv, UndoIsRollback, NoRollback

\* A fresh plan resumes nothing and has made no write.
LEMMA FreshPlan ==
  ASSUME PlanIsFresh, NEW r \in Requests, pc[r] \in Early
  PROVE  plan[r].turn = {} /\ ~ Resumes(r)
<1>1. plan[r] = Fresh(r)
  BY DEF PlanIsFresh
<1>2. Fresh(r).msg = r /\ Fresh(r).turn = {}
  BY DEF Fresh
<1>3. QED
  BY <1>1, <1>2 DEF Resumes

\* A plan is read from a handoff at the look, and keeps its message from then on.
LEMMA PlanFreshStep ==
  ASSUME TypeOK, PlanIsFresh, [Next]_vars
  PROVE  PlanIsFresh'
<1> SUFFICES ASSUME NEW r \in Requests, pc'[r] \in Early PROVE plan'[r] = Fresh(r)
  BY DEF PlanIsFresh, Fresh
<1>1. CASE ~ Handle(r)
  BY <1>1, Bystander DEF PlanIsFresh, Early
<1>2. ASSUME Task(r) \/ Persist(r) PROVE FALSE
  BY <1>2 DEF Task, Start, AnswerFromFaq, Work, Respond, Stop, Raise, Persist, ReadSnap,
     SaveSnap, ReadRecord, StoreExchange, Finish, Goto, Reply, Unwind, TypeOK, Early
<1>3. CASE LookForHandoff(r)
  BY <1>3 DEF LookForHandoff, At, Goto, PlanIsFresh, Early, TypeOK
<1>4. ASSUME Before(r), ~ LookForHandoff(r) PROVE UNCHANGED plan /\ pc[r] \in Early
  BY <1>4 DEF Before, Ensure, Create, Retry, Require, ReadStatus, WriteStatus, At, local, Early
<1>5. ASSUME Rollback(r) PROVE UNCHANGED plan /\ pc[r] \in Early
  BY <1>5 DEF Rollback, LookForStack, Compensate, SaveRollback, At, local, Early
<1>6. QED
  BY <1>1, <1>2, <1>3, <1>4, <1>5 DEF Handle, PlanIsFresh

\* Between the read and the save of a turn nothing is saved: the slot is taken.
LEMMA CopyStep ==
  ASSUME IInv, NoRollback, CopyIsCurrent, [Next]_vars
  PROVE  CopyIsCurrent'
<1> SUFFICES ASSUME NEW r \in Requests, pc'[r] = "savesnap" PROVE copy'[r] = snap'
  BY DEF CopyIsCurrent
<1>0. TypeOK /\ SlotIsExecution
  BY DEF IInv
<1>1. CASE ~ Handle(r)
  <2>1. pc[r] = "savesnap" /\ copy'[r] = copy[r]
    BY <1>0, <1>1, Bystander
  <2>2. ASSUME NEW q \in Requests, SaveSnap(q) PROVE FALSE
    <3>1. q = r
      BY <1>0, <2>1, <2>2 DEF SaveSnap, At, SlotIsExecution, Body
    <3>2. QED
      BY <1>1, <2>2, <3>1 DEF Handle, Persist
  <2>3. QED
    BY <2>1, <2>2, TurnsSave DEF CopyIsCurrent
<1>2. ASSUME Before(r) \/ Task(r) \/ Rollback(r) PROVE FALSE
  <2>1. CASE Before(r)
    BY <1>0, <2>1 DEF Before, Ensure, Create, Retry, Require, ReadStatus, WriteStatus,
       LookForHandoff, Proceed, Goto, Reply, TypeOK
  <2>2. CASE Task(r)
    BY <1>0, <2>2 DEF Task, Start, AnswerFromFaq, Work, Respond, Stop, Raise, Goto, Reply,
       Unwind, TypeOK
  <2>3. CASE Rollback(r)
    BY <1>0, <2>3 DEF Rollback, LookForStack, Compensate, SaveRollback, At, Proceed, Goto,
       Reply, TypeOK
  <2>4. QED
    BY <1>2, <2>1, <2>2, <2>3
<1>3. CASE ReadSnap(r)
  BY <1>0, <1>3 DEF ReadSnap, TakeSnap, store, TypeOK
<1>4. ASSUME Persist(r), ~ ReadSnap(r) PROVE FALSE
  BY <1>0, <1>4 DEF Persist, SaveSnap, ReadRecord, StoreExchange, Finish, Goto, Unwind, TypeOK
<1>5. QED
  BY <1>1, <1>2, <1>3, <1>4 DEF Handle

\* Arming keeps what is on the stack and adds every step of the turn that is not.
LEMMA ArmCovers ==
  ASSUME NEW stack, NEW p
  PROVE  /\ stack \subseteq Arm(stack, p)
         /\ \A t \in p.turn : \E e \in Arm(stack, p) : e.step = t
<1>1. stack \subseteq Arm(stack, p)
  BY DEF Arm
<1>2. ASSUME NEW t \in p.turn PROVE \E e \in Arm(stack, p) : e.step = t
  <2>1. CASE \E e \in stack : e.step = t
    BY <1>1, <2>1
  <2>2. CASE \A e \in stack : e.step # t
    <3> DEFINE e == [step |-> t, msg |-> p.msg, state |-> "armed"]
    <3>1. e \in Arm(stack, p) /\ e.step = t
      BY <2>2 DEF Arm
    <3>2. QED
      BY <3>1
  <2>3. QED
    BY <2>1, <2>2
<1>3. QED
  BY <1>1, <1>2

\* What the save of a turn leaves: the stack it saw and, unless it was cancelled, its
\* own steps; a handoff of its message to the next task, or none.
LEMMA SaveLeaves ==
  ASSUME CopyIsCurrent, NEW r \in Requests, SaveSnap(r)
  PROVE  /\ snap.stack \subseteq snap'.stack
         /\ plan[r].end # "cancelled" =>
              \A t \in plan[r].turn : \E e \in snap'.stack : e.step = t
         /\ snap'.handoff # NoHandoff =>
              /\ plan[r].end = "pause"
              /\ snap'.handoff.msg = plan[r].msg
              /\ snap'.handoff.at = plan[r].at + 1
              /\ snap'.handoff.turn = plan[r].turn
         /\ plan' = plan /\ kind' = kind
<1>1. snap' = NextSnap(plan[r], snap) /\ UNCHANGED <<plan, kind>>
  BY DEF SaveSnap, At, PutSnap, CopyIsCurrent, local
<1>2. /\ snap'.stack = IF plan[r].end = "cancelled" THEN snap.stack ELSE Arm(snap.stack, plan[r])
      /\ snap'.handoff = IF plan[r].end = "pause"
                           THEN [msg |-> plan[r].msg, at |-> plan[r].at + 1, turn |-> plan[r].turn]
                           ELSE NoHandoff
  BY <1>1 DEF NextSnap
<1>3. QED
  BY <1>1, <1>2, ArmCovers

\* No step is taken off the stack.
LEMMA StackGrows ==
  ASSUME IInv, NoRollback, CopyIsCurrent, [Next]_vars
  PROVE  snap.stack \subseteq snap'.stack
BY TurnsSave, SaveLeaves

\* The steps of every turn that is settled, and of the handoff, stay on the stack.
LEMMA OnStackStep ==
  ASSUME IInv, NoRollback, CopyIsCurrent, PlanIsFresh, StepsOnStack, [Next]_vars
  PROVE  StepsOnStack'
<1>0. TypeOK
  BY DEF IInv
<1>1. \A t : (\E e \in snap.stack : e.step = t) => (\E e \in snap'.stack : e.step = t)
  BY StackGrows
<1>2. snap'.handoff # NoHandoff =>
        \A t \in snap'.handoff.turn : \E e \in snap'.stack : e.step = t
  <2>1. CASE UNCHANGED snap
    BY <2>1 DEF StepsOnStack, OnStack
  <2>2. ASSUME NEW r \in Requests, SaveSnap(r) PROVE <1>2!:
    BY <2>2, SaveLeaves
  <2>3. QED
    BY <2>1, <2>2, TurnsSave
<1>3. ASSUME NEW r \in Requests, Settled(r)'
      PROVE  \A t \in plan'[r].turn : \E e \in snap'.stack : e.step = t
  <2> DEFINE Covered == \A t \in plan'[r].turn : \E e \in snap'.stack : e.step = t
  <2>1. ASSUME Settled(r), plan'[r].turn = plan[r].turn PROVE Covered
    BY <1>1, <2>1 DEF StepsOnStack, OnStack
  <2>2. CASE ~ Handle(r)
    BY <1>0, <1>3, <2>1, <2>2, Bystander DEF Settled, Early
  <2>3. CASE LookForHandoff(r)
    <3>1. CASE UNCHANGED plan
      BY <2>1, <2>3, <3>1 DEF LookForHandoff, At, Settled, Early
    <3>2. CASE ~ UNCHANGED plan
      <4>1. plan'[r].turn = snap.handoff.turn /\ snap.handoff # NoHandoff
        BY <1>0, <2>3, <3>2 DEF LookForHandoff, TypeOK
      <4>2. QED
        BY <1>1, <4>1 DEF StepsOnStack, OnStack
    <3>3. QED
      BY <3>1, <3>2
  <2>4. ASSUME Before(r) \/ Rollback(r), ~ LookForHandoff(r) PROVE Covered
    <3>1. pc[r] \in Early /\ UNCHANGED plan
      BY <2>4 DEF Before, Ensure, Create, Retry, Require, ReadStatus, WriteStatus,
         Rollback, LookForStack, Compensate, SaveRollback, At, local, Early
    <3>2. QED
      BY <2>1, <3>1 DEF Settled
  <2>5. ASSUME Task(r) PROVE Covered
    <3>1. CASE Start(r) \/ AnswerFromFaq(r)
      <4>1. Settled(r) /\ plan'[r].turn = plan[r].turn
        BY <1>0, <3>1 DEF Start, AnswerFromFaq, At, Settled, local, TypeOK
      <4>2. QED
        BY <2>1, <4>1
    <3>2. CASE Work(r) \/ Respond(r) \/ Stop(r) \/ Raise(r)
      <4>1. ~ Settled(r)'
        BY <1>0, <3>2 DEF Work, Respond, Stop, Raise, Goto, Unwind, Settled, Early, TypeOK
      <4>2. QED
        BY <1>3, <4>1
    <3>3. QED
      BY <2>5, <3>1, <3>2 DEF Task
  <2>6. ASSUME SaveSnap(r) PROVE Covered
    <3>1. plan[r].end # "cancelled" /\ UNCHANGED plan
      BY <1>0, <1>3, <2>6 DEF SaveSnap, Goto, Unwind, Settled, Early, local, TypeOK
    <3>2. QED
      BY <2>6, <3>1, SaveLeaves
  <2>7. ASSUME ReadSnap(r) PROVE Covered
    BY <1>0, <1>3, <2>7 DEF ReadSnap, Goto, Settled, Early, TypeOK
  <2>8. ASSUME ReadRecord(r) \/ StoreExchange(r) \/ Finish(r) PROVE Covered
    <3>1. UNCHANGED plan /\ Settled(r)
      BY <1>0, <1>3, <2>8 DEF ReadRecord, StoreExchange, Finish, At, Goto, Unwind, Settled,
         Early, local, TypeOK
    <3>2. QED
      BY <2>1, <3>1
  <2>9. QED
    BY <2>2, <2>3, <2>4, <2>5, <2>6, <2>7, <2>8 DEF Handle, Persist
<1>4. QED
  BY <1>2, <1>3 DEF StepsOnStack, OnStack

-----------------------------------------------------------------------------
\* A message that has handed over stays so: its handler only stores and finishes.
LEMMA HandedStep ==
  ASSUME TypeOK, [Next]_vars, NEW m \in Requests, Handed(m)
  PROVE  Handed(m)'
<1>1. CASE ~ Handle(m)
  BY <1>1, Bystander DEF Handed
<1>2. ASSUME Before(m) \/ Rollback(m) PROVE FALSE
  BY <1>2 DEF Handed, Before, Ensure, Create, Retry, Require, ReadStatus, WriteStatus,
     LookForHandoff, Rollback, LookForStack, Compensate, SaveRollback, At
<1>3. ASSUME Task(m) \/ ReadSnap(m) \/ SaveSnap(m) PROVE FALSE
  BY <1>3 DEF Handed, Task, Start, AnswerFromFaq, Work, Respond, Stop, Raise, ReadSnap,
     SaveSnap, At
<1>4. ASSUME ReadRecord(m) \/ StoreExchange(m) \/ Finish(m) PROVE Handed(m)'
  BY <1>4 DEF Handed, ReadRecord, StoreExchange, Finish, Goto, Unwind, local, TypeOK
<1>5. QED
  BY <1>1, <1>2, <1>3, <1>4 DEF Handle, Persist

\* The message of a plan changes only where a handoff is resumed.
LEMMA MessageKept ==
  ASSUME TypeOK, [Next]_vars, NEW r \in Requests
  PROVE  \/ plan'[r].msg = plan[r].msg /\ plan'[r].at = plan[r].at
         \/ /\ LookForHandoff(r) /\ snap.handoff # NoHandoff
            /\ plan'[r].msg = snap.handoff.msg /\ plan'[r].at = snap.handoff.at
            /\ pc'[r] = "start"
<1>1. CASE ~ Handle(r)
  BY <1>1, Bystander
<1>2. CASE LookForHandoff(r)
  BY <1>2 DEF LookForHandoff, Goto, TypeOK
<1>3. ASSUME Before(r) \/ Rollback(r), ~ LookForHandoff(r) PROVE UNCHANGED plan
  BY <1>3 DEF Before, Ensure, Create, Retry, Require, ReadStatus, WriteStatus,
     Rollback, LookForStack, Compensate, SaveRollback, local
<1>4. ASSUME Task(r) PROVE plan'[r].msg = plan[r].msg /\ plan'[r].at = plan[r].at
  BY <1>4 DEF Task, Start, AnswerFromFaq, Work, Respond, Stop, Raise, local, TypeOK
<1>5. ASSUME Persist(r) PROVE UNCHANGED plan
  BY <1>5 DEF Persist, ReadSnap, SaveSnap, ReadRecord, StoreExchange, Finish, local
<1>6. QED
  BY <1>1, <1>2, <1>3, <1>4, <1>5 DEF Handle

\* Only a message that hands over leaves a handoff, and only a left one is resumed.
LEMMA HandedOverStep ==
  ASSUME IInv, NoRollback, CopyIsCurrent, PlanIsFresh, HandoffIsHanded, [Next]_vars
  PROVE  HandoffIsHanded'
<1>0. TypeOK /\ snap.handoff \in Handoff \cup {NoHandoff}
  BY DEF IInv, TypeOK, Snapshot
<1>a. \A m \in Requests : Handed(m) =>
        plan'[m].end = "pause" /\ pc'[m] \in {"readrecord", "store", "finish", "done"}
  BY <1>0, HandedStep DEF Handed
<1>1. ASSUME snap.handoff # NoHandoff
      PROVE  /\ plan'[snap.handoff.msg].end = "pause"
             /\ pc'[snap.handoff.msg] \in {"readrecord", "store", "finish", "done"}
  <2>1. snap.handoff.msg \in Requests
    BY <1>0, <1>1 DEF Handoff
  <2>2. QED
    BY <1>1, <1>a, <2>1 DEF HandoffIsHanded
<1>2. snap'.handoff # NoHandoff =>
        plan'[snap'.handoff.msg].end = "pause"
        /\ pc'[snap'.handoff.msg] \in {"readrecord", "store", "finish", "done"}
  <2>1. CASE UNCHANGED snap
    BY <1>1, <2>1
  <2>2. ASSUME NEW r \in Requests, SaveSnap(r), snap'.handoff # NoHandoff
        PROVE  /\ snap'.handoff.msg = plan[r].msg
               /\ plan'[plan[r].msg].end = "pause"
               /\ pc'[plan[r].msg] \in {"readrecord", "store", "finish", "done"}
    <3>1. plan[r].end = "pause" /\ snap'.handoff.msg = plan[r].msg /\ plan' = plan
      BY <2>2, SaveLeaves
    <3>2. CASE Resumes(r)
      <4>1. plan[r].msg \in Requests /\ Handed(plan[r].msg)
        BY <1>0, <3>2 DEF TypeOK, HandoffIsHanded
      <4>2. QED
        BY <1>a, <3>1, <4>1
    <3>3. CASE ~ Resumes(r)
      BY <1>0, <2>2, <3>1, <3>3 DEF SaveSnap, Goto, Resumes, TypeOK
    <3>4. QED
      BY <3>2, <3>3
  <2>3. QED
    BY <2>1, <2>2, TurnsSave
<1>3. ASSUME NEW r \in Requests, plan'[r].msg # r
      PROVE  plan'[plan'[r].msg].end = "pause"
             /\ pc'[plan'[r].msg] \in {"readrecord", "store", "finish", "done"}
  <2>1. CASE plan'[r].msg = plan[r].msg
    <3>1. plan[r].msg \in Requests /\ Handed(plan[r].msg)
      BY <1>0, <1>3, <2>1 DEF TypeOK, HandoffIsHanded, Resumes
    <3>2. QED
      BY <1>a, <2>1, <3>1
  <2>2. CASE snap.handoff # NoHandoff /\ plan'[r].msg = snap.handoff.msg
    BY <1>1, <2>2
  <2>3. QED
    BY <1>0, <2>1, <2>2, MessageKept
<1>4. QED
  BY <1>2, <1>3 DEF HandoffIsHanded, Handed, Resumes

\* A continuation counts as having saved only by its own save, or already did.
LEMMA ConsumedBefore ==
  ASSUME TypeOK, PlanIsFresh, HandoffIsHanded, [Next]_vars, NEW r \in Requests, Consumed(r)'
  PROVE  /\ plan'[r].msg = plan[r].msg /\ plan'[r].at = plan[r].at /\ Resumes(r)
         /\ Consumed(r) \/ SaveSnap(r)
<1>1. plan'[r].msg = plan[r].msg /\ plan'[r].at = plan[r].at
  BY MessageKept DEF Consumed
<1>2. Resumes(r)
  BY <1>1 DEF Consumed, Resumes
<1>3. CASE ~ Handle(r)
  BY <1>1, <1>2, <1>3, Bystander DEF Consumed
<1>4. ASSUME Before(r) \/ Rollback(r) PROVE FALSE
  <2>1. pc[r] \in Early
    BY <1>4 DEF Before, Ensure, Create, Retry, Require, ReadStatus, WriteStatus,
       LookForHandoff, Rollback, LookForStack, Compensate, SaveRollback, At, Early
  <2>2. QED
    BY <1>2, <2>1, FreshPlan
<1>5. ASSUME Task(r) PROVE FALSE
  BY <1>2, <1>5 DEF Task, Start, AnswerFromFaq, Work, Respond, Stop, Raise, Goto, Reply,
     Unwind, Consumed, TypeOK
<1>6. ASSUME ReadSnap(r) PROVE FALSE
  BY <1>6 DEF ReadSnap, Goto, Consumed, TypeOK
<1>7. ASSUME ReadRecord(r) \/ StoreExchange(r) \/ Finish(r) PROVE Consumed(r)
  BY <1>2, <1>7 DEF ReadRecord, StoreExchange, Finish, At, Goto, Unwind, Consumed, TypeOK
<1>8. QED
  BY <1>1, <1>2, <1>3, <1>4, <1>5, <1>6, <1>7 DEF Handle, Persist

\* What a continuation consumed comes back only through a further continuation of
\* its message: the message itself has handed over and saves no more.
LEMMA ConsumedStep ==
  ASSUME IInv, NoRollback, Undisturbed, [Next]_vars
  PROVE  ConsumedNotPending'
<1> SUFFICES ASSUME NEW r \in Requests, Consumed(r)', snap'.handoff # NoHandoff,
                    snap'.handoff.msg = plan'[r].msg, snap'.handoff.at = plan'[r].at
             PROVE  \E w \in Requests \ {r} : plan'[w].msg # w /\ plan'[w].msg = plan'[r].msg
  BY DEF ConsumedNotPending, Resumes
<1>0. /\ TypeOK /\ PlanIsFresh /\ CopyIsCurrent /\ HandoffIsHanded
      /\ plan[r].msg \in Requests /\ plan[r].at \in Tasks
  BY DEF IInv, TypeOK, Undisturbed
<1>1. /\ plan'[r].msg = plan[r].msg /\ plan'[r].at = plan[r].at /\ Resumes(r)
      /\ Consumed(r) \/ SaveSnap(r)
  BY <1>0, ConsumedBefore
<1>2. CASE UNCHANGED snap
  <2>1. Consumed(r)
    <3>1. ~ SaveSnap(r)
      <4>1. SaveSnap(r) => snap'.handoff.at = plan[r].at + 1
        BY <1>0, SaveLeaves
      <4>2. QED
        BY <1>0, <1>1, <4>1 DEF Tasks
    <3>2. QED
      BY <1>1, <3>1
  <2>2. PICK w \in Requests \ {r} : Resumes(w) /\ plan[w].msg = plan[r].msg
    BY <1>1, <1>2, <2>1 DEF Undisturbed, ConsumedNotPending
  <2>3. plan'[w].msg = plan[w].msg
    <3>1. pc[w] # "look"
      BY <1>0, <2>2, FreshPlan DEF Early
    <3>2. QED
      BY <1>0, <3>1, MessageKept DEF LookForHandoff, At
  <2>4. QED
    BY <1>1, <2>2, <2>3 DEF Resumes
<1>3. ASSUME NEW x \in Requests, SaveSnap(x)
      PROVE  \E w \in Requests \ {r} : plan'[w].msg # w /\ plan'[w].msg = plan'[r].msg
  <2>1. /\ plan' = plan /\ snap'.handoff.msg = plan[x].msg
        /\ snap'.handoff.at = plan[x].at + 1 /\ plan[x].at \in Tasks
    BY <1>0, <1>3, SaveLeaves DEF TypeOK
  <2>2. x # r
    BY <1>1, <2>1 DEF Tasks
  <2>3. Handed(plan[r].msg)
    BY <1>0, <1>1 DEF HandoffIsHanded
  <2>4. plan[r].msg # x
    BY <1>3, <2>3 DEF Handed, SaveSnap, At
  <2>5. QED
    BY <1>1, <2>1, <2>2, <2>4
<1>4. QED
  BY <1>2, <1>3, TurnsSave

\* Every step keeps what holds without rollbacks.
LEMMA UndisturbedStep == IInv /\ SInv /\ [Next]_vars => SInv'
<1> SUFFICES ASSUME IInv, SInv, [Next]_vars, NoRollback' PROVE Undisturbed'
  BY DEF SInv
<1>1. kind' = kind
  BY HandlerMoves DEF Next, Cancel, Crash, vars, local, IInv
<1>2. NoRollback /\ Undisturbed
  BY <1>1 DEF NoRollback, SInv
<1>3. TypeOK /\ PlanIsFresh /\ CopyIsCurrent /\ StepsOnStack /\ HandoffIsHanded
  BY <1>2 DEF IInv, Undisturbed
<1>4. QED
  BY <1>2, <1>3, PlanFreshStep, CopyStep, OnStackStep, HandedOverStep, ConsumedStep
     DEF Undisturbed

\* It holds initially, and so always.
LEMMA UndisturbedAlways == Spec => []SInv
<1>1. ASSUME Init PROVE SInv
  <2>1. \A r \in Requests : plan[r] = Fresh(r) /\ pc[r] \in {"ensure", "retry", "require", "status"}
    BY <1>1 DEF Init, Entrance, Kinds, Turns, Messages, Changes
  <2>2. snap.handoff = NoHandoff
    BY <1>1 DEF Init, NoSnap
  <2>3. PlanIsFresh /\ \A r \in Requests : pc[r] \in Early
    BY <2>1 DEF PlanIsFresh, Early
  <2>4. \A r \in Requests : plan[r].turn = {} /\ ~ Resumes(r)
    BY <2>3, FreshPlan
  <2>5. CopyIsCurrent /\ StepsOnStack /\ HandoffIsHanded
    BY <2>1, <2>2, <2>4 DEF CopyIsCurrent, StepsOnStack, OnStack, HandoffIsHanded
  <2>6. ConsumedNotPending
    BY <2>2 DEF ConsumedNotPending
  <2>7. QED
    BY <2>3, <2>5, <2>6 DEF SInv, Undisturbed
<1>2. QED
  BY <1>1, UndisturbedStep, Inductive, PTL DEF Spec

\* When a turn is answered, every write it made has its step on the compensation
\* stack, whatever turns, crashes and refusals came between: unless the conversation
\* is rolled back at some time, which may save an older stack over it.
THEOREM AnsweredStepsArmedHolds == Spec => []AnsweredStepsArmed
<1>1. SInv => AnsweredStepsArmed
  BY DEF SInv, NoRollback, Undisturbed, StepsOnStack, OnStack, Settled, Answered,
         AnsweredStepsArmed
<1>2. QED
  BY <1>1, UndisturbedAlways, PTL

\* A continuation that looks for a handoff after another one was answered for it does
\* not resume it again, unless a rollback or a further continuation put it back.
THEOREM HandoffIsConsumedHolds == Spec => HandoffIsConsumed
<1> DEFINE Consumption ==
      \A q, r \in Requests :
        /\ Answered(q) /\ Resumes(q)
        /\ pc[r] = "look" /\ kind[r] = "continue" /\ Resumes(r)'
        /\ plan'[r].msg = plan[q].msg /\ plan'[r].at = plan[q].at
        => \E w \in Requests \ {q, r} :
             kind[w] = "rollback" \/ (Resumes(w) /\ plan[w].msg = plan[q].msg)
<1>1. ASSUME IInv, SInv, [Next]_vars, NEW q \in Requests, NEW r \in Requests,
             Answered(q), Resumes(q), pc[r] = "look", kind[r] = "continue", Resumes(r)',
             plan'[r].msg = plan[q].msg, plan'[r].at = plan[q].at
      PROVE  \E w \in Requests \ {q, r} :
               kind[w] = "rollback" \/ (Resumes(w) /\ plan[w].msg = plan[q].msg)
  <2>1. CASE ~ NoRollback
    <3>1. kind[q] # "rollback"
      BY <1>1 DEF Answered, Turns, Messages
    <3>2. QED
      BY <1>1, <2>1, <3>1 DEF NoRollback
  <2>2. CASE NoRollback
    <3>1. TypeOK /\ PlanIsFresh /\ ConsumedNotPending
      BY <1>1, <2>2 DEF IInv, SInv, Undisturbed
    <3>2. ~ Resumes(r)
      BY <1>1, <3>1, FreshPlan DEF Early
    <3>3. /\ snap.handoff # NoHandoff
          /\ snap.handoff.msg = plan[q].msg /\ snap.handoff.at = plan[q].at
      BY <1>1, <3>1, <3>2, MessageKept DEF Resumes
    <3>4. Consumed(q)
      BY <1>1 DEF Answered, Consumed
    <3>5. PICK w \in Requests \ {q} : Resumes(w) /\ plan[w].msg = plan[q].msg
      BY <3>1, <3>3, <3>4 DEF ConsumedNotPending
    <3>6. w # r
      BY <3>2, <3>5
    <3>7. QED
      BY <3>5, <3>6
  <2>3. QED
    BY <2>1, <2>2
<1>2. IInv /\ SInv /\ [Next]_vars => [Consumption]_vars
  BY <1>1
<1>3. QED
  BY <1>2, Inductive, UndisturbedAlways, PTL DEF Spec, HandoffIsConsumed
=============================================================================
