----------------------------- MODULE ChatSession -----------------------------
(***************************************************************************)
(* The requests of one conversation on one orchestrator process: a message  *)
(* (chat completion or retry), the continuation of an agent handoff, a      *)
(* rollback, and the changes of status.  A request handler is a thread; its *)
(* calls to the conversation store and the state store are MySQL            *)
(* transactions of their own, and a method that reads a record, checks it   *)
(* and replaces it is a read step and a write step.  Run control is what    *)
(* RunSlots promises: a slot, and a cancel flag for the execution in it.    *)
(* Every request carries its own message id; MySQL answers and no Redis     *)
(* cache is configured.                                                     *)
(***************************************************************************)
EXTENDS Naturals

CONSTANTS
  Requests,
  NoReq,      \* no request
  NoHandoff,  \* no pending agent handoff
  Last,       \* tasks of the longest route
  Asks,       \* the kinds of request each request may be
  Faults      \* may an orchestration raise, run control refuse, the process crash?

Messages == {"send", "retry"}
Turns    == Messages \cup {"continue"}
Changes  == {"archive", "restore", "delete"}
Kinds    == Turns \cup Changes \cup {"rollback"}
Tasks    == 1 .. Last
Entry    == [step : Tasks, msg : Requests, state : {"armed", "completed", "failed"}]
Handoff  == [msg : Requests, at : Tasks, turn : SUBSET Tasks]
Snapshot == [saved : BOOLEAN, stack : SUBSET Entry, handoff : Handoff \cup {NoHandoff}]

ASSUME LastAssumption  == Last \in Nat \ {0}
ASSUME NoneAssumption  == NoReq \notin Requests /\ NoHandoff \notin Handoff
ASSUME AsksAssumption  == Asks \in [Requests -> SUBSET Kinds]
ASSUME FaultAssumption == Faults \in BOOLEAN

VARIABLES
  status,    \* of the conversation record; "none": no record yet
  recorded,  \* messages whose exchange is stored
  snap,      \* the session state snapshot
  slot,      \* the execution registered by run control
  flagged,   \* executions whose cancel flag is set
  kind, pc,  \* what each request is, and where its handler is
  plan,      \* its message, its task, the tasks whose write succeeded, its end
  copy,      \* the snapshot its handler has read
  answer,
  missed,    \* history: who saved the snapshot since `copy` was read
  caught     \* history: requests that had read the status before it was closed

store   == <<status, recorded, snap>>
control == <<slot, flagged>>
local   == <<kind, plan, copy>>
history == <<missed, caught>>
vars    == <<store, control, local, history, pc, answer>>

\* What lies between start() and finish().
Body   == {"run", "ran", "readsnap", "savesnap", "readrecord", "store", "finish"}
Labels == Body \cup {"create", "ensure", "retry", "require", "look",
                     "status", "write", "start", "undo", "done"}
Closed == {"archived", "deleted"}

TypeOK ==
  /\ status \in {"none", "active", "running"} \cup Closed
  /\ recorded \in SUBSET Requests
  /\ snap \in Snapshot
  /\ slot \in Requests \cup {NoReq}
  /\ flagged \in SUBSET Requests
  /\ kind \in [Requests -> Kinds]
  /\ pc \in [Requests -> Labels]
  /\ plan \in [Requests -> [msg : Requests, at : Tasks, turn : SUBSET Tasks,
                            end : {"none", "final", "pause", "cancelled"}]]
  /\ copy \in [Requests -> Snapshot]
  /\ answer \in [Requests -> {"none", "ok", "cancelled", "failed"}]
  /\ missed \in [Requests -> SUBSET Requests]
  /\ caught \in SUBSET Requests

\* The first call a request of a kind makes.
Entrance(k) ==
  CASE k = "send" -> "ensure"
    [] k = "retry" -> "retry"
    [] k \in {"continue", "restore", "rollback"} -> "require"
    [] OTHER -> "status"

Target(r) ==
  CASE kind[r] \in Turns -> "running"
    [] kind[r] = "archive" -> "archived"
    [] kind[r] = "delete" -> "deleted"
    [] OTHER -> "active"

Fresh(r) == [msg |-> r, at |-> 1, turn |-> {}, end |-> "none"]
NoSnap   == [saved |-> FALSE, stack |-> {}, handoff |-> NoHandoff]

Init ==
  /\ status \in {"none", "active"} /\ recorded = {} /\ snap = NoSnap
  /\ slot = NoReq /\ flagged = {}
  /\ kind \in [Requests -> Kinds] /\ \A r \in Requests : kind[r] \in Asks[r]
  /\ pc = [r \in Requests |-> Entrance(kind[r])]
  /\ plan = [r \in Requests |-> Fresh(r)]
  /\ copy = [r \in Requests |-> NoSnap]
  /\ answer = [r \in Requests |-> "none"]
  /\ missed = [r \in Requests |-> {}] /\ caught = {}

-----------------------------------------------------------------------------
At(r, l)   == pc[r] = l
Goto(r, l) == pc' = [pc EXCEPT ![r] = l] /\ UNCHANGED answer
Reply(r, a) == pc' = [pc EXCEPT ![r] = "done"] /\ answer' = [answer EXCEPT ![r] = a]
Proceed(r, ok, l) == IF ok THEN Goto(r, l) ELSE Reply(r, "failed")

\* finish() is next: the handler left the try block.
Unwind(r, a) == pc' = [pc EXCEPT ![r] = "finish"] /\ answer' = [answer EXCEPT ![r] = a]

\* The status of the record is replaced.  Who read it before a closing write
\* and will write it afterwards is caught; set_status does not look at
\* "archived", so the window of an archived conversation opens earlier.
Window(s) == {"create", "write", "store"} \cup (IF s = "archived" THEN {"status"} ELSE {})
PutStatus(r, s) ==
  /\ status' = s
  /\ caught' = IF s \notin Closed THEN caught
               ELSE {q \in Requests \ {r} : pc[q] \in Window(s)}

PutSnap(r, s) ==
  /\ snap' = s
  /\ missed' = [q \in Requests |-> IF q # r /\ pc[q] \in {"savesnap", "undo"}
                                     THEN missed[q] \cup {r} ELSE missed[q]]

TakeSnap(r) ==
  /\ copy' = [copy EXCEPT ![r] = snap]
  /\ missed' = [missed EXCEPT ![r] = {}]

-----------------------------------------------------------------------------
(* Before start().                                                          *)

\* ensure() creates a missing record in a second transaction that replaces the
\* row.  chat_completions calls it once more than orchestrate_message does.
Ensure(r) ==
  /\ At(r, "ensure")
  /\ Proceed(r, status \notin Closed, IF status = "none" THEN "create" ELSE "status")
  /\ UNCHANGED <<store, control, local, history>>

Create(r) ==
  /\ At(r, "create")
  /\ PutStatus(r, "active")
  /\ \E l \in {"ensure", "status"} : Goto(r, l)
  /\ UNCHANGED <<recorded, snap, control, local, missed>>

\* build_retry_request: the message must have been stored.
Retry(r) ==
  /\ At(r, "retry")
  /\ Proceed(r, recorded # {}, "ensure")
  /\ UNCHANGED <<store, control, local, history>>

\* require(), which accepts an archived conversation, and the check of restore().
Require(r) ==
  /\ At(r, "require")
  /\ IF kind[r] = "restore"
       THEN Proceed(r, status = "archived", "status")
       ELSE Proceed(r, status \notin {"none", "deleted"}, "look")
  /\ UNCHANGED <<store, control, local, history>>

\* Mutant of ReadStatus: deleted records are not hidden from set_status.
ReadStatusUnchecked(r) ==
  /\ At(r, "status")
  /\ Proceed(r, status # "none", "write")
  /\ UNCHANGED <<store, control, local, history>>

\* set_status: the record is read ...
ReadStatus(r) ==
  /\ At(r, "status")
  /\ Proceed(r, status \notin {"none", "deleted"}, "write")
  /\ UNCHANGED <<store, control, local, history>>

\* ... and replaced.
WriteStatus(r) ==
  /\ At(r, "write")
  /\ PutStatus(r, Target(r))
  /\ IF kind[r] \in Turns THEN Goto(r, "start") ELSE Reply(r, "ok")
  /\ UNCHANGED <<recorded, snap, control, local, missed>>

\* A pending handoff is resumed from the copy read here.  Without one the
\* fields that the user supplied make a new message of the last stored one.
LookForHandoff(r) ==
  /\ At(r, "look") /\ kind[r] = "continue"
  /\ IF snap.handoff # NoHandoff
       THEN /\ Goto(r, "start")
            /\ plan' = [plan EXCEPT ![r] =
                 [msg |-> snap.handoff.msg, at |-> snap.handoff.at,
                  turn |-> snap.handoff.turn, end |-> "none"]]
       ELSE /\ \E supplied \in BOOLEAN :
                 Proceed(r, snap.saved /\ supplied /\ recorded # {}, "ensure")
            /\ UNCHANGED plan
  /\ UNCHANGED <<store, control, kind, copy, history>>

-----------------------------------------------------------------------------
(* From start() to finish().                                                *)

\* Is r the continuation of a handoff, with its narrower error handling?
Resumes(r) == plan[r].msg # r

\* Mutant of Start: two executions may share the conversation.
StartUnchecked(r) ==
  /\ At(r, "start")
  /\ slot' = r /\ Goto(r, "run")
  /\ UNCHANGED <<store, flagged, local, history>>

\* start() is called before the try block: a conflict, like an unavailable
\* backend, leaves the handler, and the status stays "running".
Start(r) ==
  /\ At(r, "start")
  /\ \/ slot = NoReq /\ slot' = r /\ Goto(r, "run")
     \/ (slot # NoReq \/ Faults) /\ Reply(r, "failed") /\ UNCHANGED slot
  /\ UNCHANGED <<store, flagged, local, history>>

\* A hit in the FAQ cache is an answer without tasks, checkpoints or a snapshot:
\* what the snapshot had pending stays pending.
AnswerFromFaq(r) ==
  /\ At(r, "run") /\ ~Resumes(r)
  /\ plan' = [plan EXCEPT ![r].end = "final"]
  /\ Goto(r, "readrecord")
  /\ UNCHANGED <<store, control, kind, copy, history>>

\* One task runs per turn, since every turn pauses on an agent handoff.  Its
\* write is deduplicated by an idempotency key of message and step.
Work(r) ==
  /\ At(r, "run") /\ r \notin flagged
  /\ \E t \in {plan[r].turn, plan[r].turn \cup {plan[r].at}} :
       plan' = [plan EXCEPT ![r].turn = t]
  /\ Goto(r, "ran")
  /\ UNCHANGED <<store, control, kind, copy, history>>

\* Mutant of Respond: build_pending_agent_handoff without its length check.
RespondUnbounded(r) ==
  /\ At(r, "ran") /\ r \notin flagged
  /\ \E e \in {"final", "pause"} : plan' = [plan EXCEPT ![r].end = e]
  /\ Goto(r, "readsnap")
  /\ UNCHANGED <<store, control, kind, copy, history>>

\* The checkpoint after the tool call passes; the task ends the turn or hands
\* the rest of the route over.
Respond(r) ==
  /\ At(r, "ran") /\ r \notin flagged
  /\ \E e \in {"final", "pause"} :
       /\ e = "pause" => plan[r].at < Last
       /\ plan' = [plan EXCEPT ![r].end = e]
  /\ Goto(r, "readsnap")
  /\ UNCHANGED <<store, control, kind, copy, history>>

\* Mutant of Stop: the cancellation of a continuation escapes finish().
StopUnfinished(r) ==
  /\ pc[r] \in {"run", "ran"} /\ r \in flagged
  /\ plan' = [plan EXCEPT ![r].end = "cancelled"]
  /\ IF Resumes(r) THEN Reply(r, "failed") ELSE Goto(r, "readrecord")
  /\ UNCHANGED <<store, control, kind, copy, history>>

\* A checkpoint raises OrchestrationCancelled.  _execute_message records it;
\* execute_handoff_resume does not catch it.
Stop(r) ==
  /\ pc[r] \in {"run", "ran"} /\ r \in flagged
  /\ plan' = [plan EXCEPT ![r].end = "cancelled"]
  /\ IF Resumes(r) THEN Unwind(r, "failed") ELSE Goto(r, "readrecord")
  /\ UNCHANGED <<store, control, kind, copy, history>>

Raise(r) ==
  /\ Faults /\ pc[r] \in {"run", "ran"}
  /\ Unwind(r, "failed")
  /\ UNCHANGED <<store, control, local, history>>

\* build_response_state_snapshot and build_cancelled_state_snapshot: read, ...
ReadSnap(r) ==
  /\ At(r, "readsnap")
  /\ TakeSnap(r) /\ Goto(r, "savesnap")
  /\ UNCHANGED <<store, control, kind, plan, caught>>

\* A step id names agent and position, not the message, and a step whose id is
\* on the stack is not pushed again.  The order of the stack is left out.
Arm(stack, p) ==
  stack \cup {[step |-> t, msg |-> p.msg, state |-> "armed"] :
                t \in {t \in p.turn : \A e \in stack : e.step # t}}

\* Mutant of NextSnap: the stack of this response only.
NextSnapReset(p, old) ==
  [saved   |-> TRUE,
   stack   |-> IF p.end = "cancelled" THEN old.stack ELSE Arm({}, p),
   handoff |-> IF p.end = "pause" THEN [msg |-> p.msg, at |-> p.at + 1, turn |-> p.turn]
               ELSE NoHandoff]

\* Mutant of NextSnap: the end of a route leaves the handoff pending.
NextSnapPending(p, old) ==
  [saved   |-> TRUE,
   stack   |-> IF p.end = "cancelled" THEN old.stack ELSE Arm(old.stack, p),
   handoff |-> IF p.end = "pause" THEN [msg |-> p.msg, at |-> p.at + 1, turn |-> p.turn]
               ELSE old.handoff]

NextSnap(p, old) ==
  [saved   |-> TRUE,
   stack   |-> IF p.end = "cancelled" THEN old.stack ELSE Arm(old.stack, p),
   handoff |-> IF p.end = "pause" THEN [msg |-> p.msg, at |-> p.at + 1, turn |-> p.turn]
               ELSE NoHandoff]

\* ... and save.  A cancelled turn has stored its exchange before.
SaveSnap(r) ==
  /\ At(r, "savesnap")
  /\ PutSnap(r, NextSnap(plan[r], copy[r]))
  /\ IF plan[r].end = "cancelled" THEN Unwind(r, "cancelled") ELSE Goto(r, "readrecord")
  /\ UNCHANGED <<status, recorded, control, local, caught>>

\* store_exchange, store_assistant_continuation, store_cancelled_exchange: the
\* record is read; a closed conversation raises ...
ReadRecord(r) ==
  /\ At(r, "readrecord")
  /\ IF status \in Closed THEN Unwind(r, "failed") ELSE Goto(r, "store")
  /\ UNCHANGED <<store, control, local, history>>

\* ... and the record is replaced, with the messages.
StoreExchange(r) ==
  /\ At(r, "store")
  /\ PutStatus(r, "active")
  /\ recorded' = recorded \cup {plan[r].msg}
  /\ IF plan[r].end = "cancelled" THEN Goto(r, "readsnap") ELSE Unwind(r, "ok")
  /\ UNCHANGED <<snap, control, local, missed>>

Finish(r) ==
  /\ At(r, "finish")
  /\ slot' = NoReq /\ flagged' = flagged \ {r}
  /\ pc' = [pc EXCEPT ![r] = "done"]
  /\ UNCHANGED <<store, local, history, answer>>

-----------------------------------------------------------------------------
(* Rollback, cancel, crash.                                                 *)

Armed(s) == {e \in s.stack : e.state = "armed"}

LookForStack(r) ==
  /\ At(r, "look") /\ kind[r] = "rollback"
  /\ TakeSnap(r)
  /\ Proceed(r, snap.stack # {}, "undo")
  /\ UNCHANGED <<store, control, kind, plan, caught>>

\* One compensation is executed; a failed one is not armed any more.
Compensate(r) ==
  /\ At(r, "undo")
  /\ \E e \in Armed(copy[r]), s \in {"completed", "failed"} :
       copy' = [copy EXCEPT ![r].stack = (@ \ {e}) \cup {[e EXCEPT !.state = s]}]
  /\ UNCHANGED <<store, control, kind, plan, pc, answer, history>>

\* The copy is saved, and with it the handoff it carries.
SaveRollback(r) ==
  /\ At(r, "undo") /\ Armed(copy[r]) = {}
  /\ PutSnap(r, copy[r])
  /\ Reply(r, "ok")
  /\ UNCHANGED <<status, recorded, control, local, caught>>

\* cancel_chat_session: is_running and cancel() name the same message, so the
\* second call flags the execution in the slot or none.
Cancel ==
  /\ slot # NoReq
  /\ flagged' = flagged \cup {slot}
  /\ UNCHANGED <<store, slot, local, history, pc, answer>>

\* The process restarts: slot and requests are gone, the stores are not.
Crash ==
  LET alive == {r \in Requests : pc[r] # "done" /\ pc[r] # Entrance(kind[r])} IN
  /\ Faults /\ alive # {}
  /\ slot' = NoReq /\ flagged' = {}
  /\ pc' = [r \in Requests |-> IF r \in alive THEN "done" ELSE pc[r]]
  /\ answer' = [r \in Requests |-> IF r \in alive THEN "failed" ELSE answer[r]]
  /\ UNCHANGED <<store, local, history>>

Before(r)   == Ensure(r) \/ Create(r) \/ Retry(r) \/ Require(r)
               \/ ReadStatus(r) \/ WriteStatus(r) \/ LookForHandoff(r)
Task(r)     == Start(r) \/ AnswerFromFaq(r) \/ Work(r) \/ Respond(r) \/ Stop(r) \/ Raise(r)
Persist(r)  == ReadSnap(r) \/ SaveSnap(r) \/ ReadRecord(r) \/ StoreExchange(r) \/ Finish(r)
Rollback(r) == LookForStack(r) \/ Compensate(r) \/ SaveRollback(r)
Handle(r)   == Before(r) \/ Task(r) \/ Persist(r) \/ Rollback(r)

Next == Cancel \/ Crash \/ \E r \in Requests : Handle(r)

Spec == Init /\ [][Next]_vars

\* A handler thread keeps running.
FairSpec == Spec /\ \A r \in Requests : WF_vars(Handle(r))

-----------------------------------------------------------------------------
(* Properties.                                                              *)

\* A turn that has read the snapshot and not saved it yet misses no save but
\* that of a rollback, which takes no slot: turns never lose each other's
\* compensations and handoffs.
TurnsSeeEachOther ==
  \A r \in Requests : pc[r] = "savesnap" => \A q \in missed[r] : kind[q] = "rollback"

Answered(r) == kind[r] \in Turns /\ pc[r] = "done" /\ answer[r] = "ok"

\* Without a rollback, every write of a turn that was answered has a step of
\* its id on the compensation stack, whatever the other turns have saved.
AnsweredStepsArmed ==
  (\A q \in Requests : kind[q] # "rollback") =>
    \A r \in Requests : Answered(r) =>
      \A t \in plan[r].turn : \E e \in snap.stack : e.step = t

\* A handoff is read before the slot is taken, so two continuations may resume
\* one task; but none that looks for the handoff after another one was answered
\* for it does, unless something put it back: a rollback, or a further
\* continuation of the message.
HandoffIsConsumed ==
  [][\A q, r \in Requests :
       /\ Answered(q) /\ Resumes(q)
       /\ pc[r] = "look" /\ kind[r] = "continue" /\ Resumes(r)'
       /\ plan'[r].msg = plan[q].msg /\ plan'[r].at = plan[q].at
       => \E w \in Requests \ {q, r} :
            kind[w] = "rollback" \/ (Resumes(w) /\ plan[w].msg = plan[q].msg)]_vars

Reopens ==
  \/ status = "deleted" /\ status' # "deleted"
  \/ status = "archived" /\ status' \in {"active", "running"}

\* A closed conversation is opened by restore, or by a request that had read
\* the status before it was closed: every other one sees it and stops.
ReopenedByCaughtOnly ==
  [][Reopens => \E r \in Requests :
       /\ pc'[r] # pc[r]
       /\ r \in caught \/ (status = "archived" /\ kind[r] = "restore")]_vars

\* Whatever happens to a turn, cancelled, refused or failing, it gives the
\* slot back.
SlotIsFreed == \A r \in Requests : slot = r ~> slot # r

Executing == {r \in Requests : pc[r] \in Body}

Slots == INSTANCE RunSlots
           WITH Procs <- {"here"}, Convs <- {"this"}, Empty <- {},
                Workers <- {{r} : r \in Requests},
                slot <- [p \in {"here"} |-> [c \in {"this"} |-> Executing]]

\* Turns use the slot as RunSlots says, so at most one of them is between
\* start() and finish().
ImplementsSlots == Slots!Spec
=============================================================================
