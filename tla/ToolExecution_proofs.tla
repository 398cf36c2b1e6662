------------------------ MODULE ToolExecution_proofs ------------------------
(* AnswersAgree and RepliesMatchPayload hold for any number of calls, keys, *)
(* payloads and attempts.  The argument: among keys nothing was given up    *)
(* on, the reservation of tool-hub leaves at most one running thread per    *)
(* key; so a thread that found no record still finds none when it saves,    *)
(* and a record, once answered from, is never replaced.  From the same      *)
(* invariant the two services implement KeyedWrites.                        *)
EXTENDS ToolExecution, TLAPS

\* The keys the claim is about.
Kept == Keys \ (abandoned \cup forgotten)

\* A call that waits has posted.
Waits == \A c \in Calls : pc[c] = "posted" => tries[c] \in Attempts

\* The calls tool-hub runs hold their keys, each its own.
Reservations ==
  /\ \A c \in Open : Key(c) \in inflight
  /\ \A c, d \in Open : Key(c) = Key(d) => c = d

\* A thread that runs although nothing of its key was abandoned is the
\* thread of the post its call waits for.
RunningIsAwaited ==
  \A p \in Running : Key(p[1]) \notin abandoned =>
    pc[p[1]] = "posted" /\ tries[p[1]] = p[2]

\* What a thread looked up is still true when it saves.
FreeIsFree ==
  \A p \in Posts : thread[p] = "free" /\ Key(p[1]) \notin abandoned =>
    records[Key(p[1])] = NoRecord

\* What callers, tool-hub's memory and business-tools' threads hold as an
\* answer under a key.
Said(k, a) ==
  \/ \E c \in Calls : Key(c) = k /\ answer[c] = a
  \/ \E p \in Posts : Key(p[1]) = k /\ reply[p] = a
  \/ completed[k] = a

\* Whatever was said of a kept key names the row of its record.
SaysTheRecord ==
  \A k \in Kept : \A a \in Effects :
    Said(k, a) => records[k] # NoRecord /\ a.row = records[k].row

\* A record names a row written for its payload.
RecordsMatch ==
  \A k \in Keys : records[k] # NoRecord =>
    ask[records[k].row[1]].body = records[k].body

IInv ==
  /\ TypeOK
  /\ Waits
  /\ Reservations
  /\ RunningIsAwaited
  /\ FreeIsFree
  /\ SaysTheRecord
  /\ RecordsMatch
  /\ RepliesMatchPayload
----------------------------------------------------------------------------
\* What the type invariant says of one call, one post and one key.
LEMMA Parts ==
  ASSUME TypeOK
  PROVE  /\ \A c \in Calls : /\ Key(c) \in Keys
                            /\ ask[c].body \in Bodies
                            /\ ask[c].gate \in Gates
                            /\ answer[c] \in Answers \cup {NoAnswer}
                            /\ tries[c] \in 0..MaxAttempts
         /\ \A p \in Posts : /\ p[1] \in Calls
                            /\ p[2] \in Attempts
                            /\ p = <<p[1], p[2]>>
                            /\ reply[p] \in Answers \cup {NoAnswer}
         /\ \A k \in Keys : /\ completed[k] \in Answers \cup {NoAnswer}
                           /\ records[k] \in Records \cup {NoRecord}
BY DEF TypeOK, Posts, Requests, Key

\* An answer that is no effect is a failure or nothing.
LEMMA NoEffect ==
  /\ NoAnswer \notin Effects
  /\ \A kind \in {"auth-required", "confirmation-required",
                  "idempotency-conflict", "failed", "timeout"} :
       /\ Failed(kind) \in Answers
       /\ Failed(kind) \notin Effects
  /\ \A p \in Posts : /\ Completed(p) \in Effects
                     /\ Completed(p) \in Answers
                     /\ Completed(p).row = p
<1>1. NoAnswer \notin Effects
  BY NullsAssumption DEF Answers
<1>2. \A kind \in {"auth-required", "confirmation-required",
                  "idempotency-conflict", "failed", "timeout"} :
       Failed(kind) \in Failures /\ Failed(kind) \notin Effects
  <2>1. \A e \in Effects : e.kind = "completed"
    BY DEF Effects
  <2>2. \A kind \in {"auth-required", "confirmation-required",
                    "idempotency-conflict", "failed", "timeout"} :
         Failed(kind) \in Failures /\ Failed(kind).kind # "completed"
    BY DEF Failures, Failed
  <2> QED
    BY <2>1, <2>2
<1>3. \A p \in Posts : Completed(p) \in Effects /\ Completed(p).row = p
  BY DEF Completed, Effects
<1> QED
  BY <1>1, <1>2, <1>3 DEF Answers

LEMMA InitIInv == Init => IInv
<1> SUFFICES ASSUME Init PROVE IInv
  OBVIOUS
<1>1. TypeOK
  BY AsksAssumption, MaxAttemptsAssumption DEF Init, TypeOK, Attempts, Posts
<1>2. Waits /\ Reservations
  BY DEF Init, Waits, Reservations, Open
<1>3. RunningIsAwaited /\ FreeIsFree
  BY DEF Init, RunningIsAwaited, FreeIsFree, Running
<1>4. SaysTheRecord
  BY NoEffect DEF Init, SaysTheRecord, Said, Kept
<1>5. RecordsMatch
  BY DEF Init, RecordsMatch
<1>6. RepliesMatchPayload
  BY NoEffect DEF Init, RepliesMatchPayload
<1> QED
  BY <1>1, <1>2, <1>3, <1>4, <1>5, <1>6 DEF IInv

LEMMA TypeStep == TypeOK /\ Waits /\ [Next]_vars => TypeOK'
<1> SUFFICES ASSUME TypeOK, Waits, [Next]_vars PROVE TypeOK'
  OBVIOUS
<1> USE DEF TypeOK, hub, provider, history, Goto
<1>1. ASSUME NEW c \in Calls, Replay(c) PROVE TypeOK'
  BY <1>1, Parts DEF Replay
<1>2. ASSUME NEW c \in Calls, Refuse(c) \/ Reserve(c) PROVE TypeOK'
  BY <1>2, Parts DEF Refuse, Reserve
<1>3. ASSUME NEW c \in Calls, Post(c) PROVE TypeOK'
  <2>1. tries[c] + 1 \in Attempts /\ tries[c] + 1 \in 0..MaxAttempts
    BY <1>3, MaxAttemptsAssumption DEF Post, Attempts
  <2> QED
    BY <1>3, <2>1 DEF Post
<1>4. ASSUME NEW c \in Calls, Unreached(c) PROVE TypeOK'
  <2>1. tries[c] + 1 \in 0..MaxAttempts
    BY <1>4, MaxAttemptsAssumption DEF Unreached
  <2> QED
    BY <1>4, <2>1, NoEffect DEF Unreached, RetryOr
<1>5. ASSUME NEW c \in Calls, GiveUp(c) PROVE TypeOK'
  <2>1. Failed("timeout") \in Answers /\ Key(c) \in Keys
    BY Parts, NoEffect
  <2> QED
    BY <1>5, <2>1 DEF GiveUp, RetryOr
<1>6. ASSUME NEW c \in Calls, Receive(c) PROVE TypeOK'
  <2>1. reply[<<c, tries[c]>>] \in Answers \cup {NoAnswer}
    <3>1. tries[c] \in Attempts
      BY <1>6 DEF Receive, Waits
    <3> QED
      BY <3>1 DEF Posts
  <2> QED
    BY <1>6, <2>1 DEF Receive
<1>7. ASSUME NEW c \in Calls, Finish(c) \/ Fail(c) PROVE TypeOK'
  BY <1>7, Parts DEF Finish, Fail
<1>8. ASSUME NEW p \in Posts, Build(p) \/ BuildFails(p) \/ HookBlocks(p) PROVE TypeOK'
  BY <1>8, NoEffect DEF Build, BuildFails, HookBlocks, Move, Respond
<1>9. ASSUME NEW p \in Posts, Gated(p) PROVE TypeOK'
  BY <1>9, NoEffect, Parts DEF Gated, Move, Respond, Gates
<1>10. ASSUME NEW p \in Posts, Lookup(p) PROVE TypeOK'
  <2>1. records[Key(p[1])] # NoRecord => records[Key(p[1])].row \in Posts
    BY Parts DEF Records
  <2> QED
    BY <1>10, <2>1, NoEffect, Parts DEF Lookup, Move, Respond
<1>11. ASSUME NEW p \in Posts, Save(p) PROVE TypeOK'
  <2>1. [body |-> ask[p[1]].body, row |-> p] \in Records
    BY Parts DEF Records
  <2> QED
    BY <1>11, <2>1, NoEffect DEF Save, Move, Respond
<1>12. ASSUME NEW k \in Keys, Forget(k) \/ RecordExpires(k) PROVE TypeOK'
  BY <1>12 DEF Forget, RecordExpires
<1>13. ASSUME HubRestart PROVE TypeOK'
  BY <1>13, Parts DEF HubRestart, Open, Running
<1>14. ASSUME UNCHANGED vars PROVE TypeOK'
  BY <1>14 DEF vars
<1> QED
  BY <1>1, <1>2, <1>3, <1>4, <1>5, <1>6, <1>7, <1>8, <1>9, <1>10, <1>11,
     <1>12, <1>13, <1>14 DEF Next, CallStep, ThreadStep

\* No step changes a request; a key once abandoned or forgotten stays so.
LEMMA Monotone ==
  [Next]_vars => /\ ask' = ask
                 /\ abandoned \subseteq abandoned'
                 /\ forgotten \subseteq forgotten'
<1> SUFFICES ASSUME [Next]_vars
             PROVE  /\ ask' = ask
                    /\ abandoned \subseteq abandoned'
                    /\ forgotten \subseteq forgotten'
  OBVIOUS
<1> QED
  BY DEF Next, vars, CallStep, ThreadStep, hub, provider, history, Replay,
         Refuse, Reserve, Post, Unreached, GiveUp, Receive, Finish, Fail,
         Forget, HubRestart, Build, BuildFails, Gated, Lookup, Save,
         HookBlocks, RecordExpires

\* The steps of business-tools leave tool-hub alone.
LEMMA ThreadLeavesHub ==
  ASSUME NEW p \in Posts, ThreadStep(p)
  PROVE  UNCHANGED <<ask, pc, tries, answer, inflight, completed, abandoned, forgotten>>
BY DEF ThreadStep, hub, history, Build, BuildFails, Gated, Lookup, Save, HookBlocks

LEMMA WaitsStep == TypeOK /\ Waits /\ [Next]_vars => Waits'
<1> SUFFICES ASSUME TypeOK, Waits, [Next]_vars PROVE Waits'
  OBVIOUS
<1> USE DEF TypeOK, Waits, Goto
<1>1. ASSUME NEW c \in Calls, Post(c) PROVE Waits'
  <2>1. tries[c] + 1 \in Attempts
    BY <1>1, MaxAttemptsAssumption DEF Post, Attempts
  <2> QED
    BY <1>1, <2>1 DEF Post
<1>2. ASSUME NEW c \in Calls, Unreached(c) \/ GiveUp(c) PROVE Waits'
  BY <1>2 DEF Unreached, GiveUp, RetryOr
<1>3. ASSUME NEW c \in Calls, Replay(c) \/ Refuse(c) \/ Reserve(c) \/ Receive(c)
                              \/ Finish(c) \/ Fail(c) PROVE Waits'
  BY <1>3 DEF Replay, Refuse, Reserve, Receive, Finish, Fail
<1>4. ASSUME NEW p \in Posts, ThreadStep(p) PROVE Waits'
  BY <1>4, ThreadLeavesHub
<1>5. ASSUME NEW k \in Keys, Forget(k) \/ RecordExpires(k) PROVE Waits'
  BY <1>5 DEF Forget, RecordExpires
<1>6. CASE HubRestart
  BY <1>6 DEF HubRestart
<1>7. CASE UNCHANGED vars
  BY <1>7 DEF vars
<1> QED
  BY <1>1, <1>2, <1>3, <1>4, <1>5, <1>6, <1>7 DEF Next, CallStep

LEMMA ReservationsStep == TypeOK /\ Reservations /\ [Next]_vars => Reservations'
<1> SUFFICES ASSUME TypeOK, Reservations, [Next]_vars PROVE Reservations'
  OBVIOUS
<1>0. ask' = ask /\ \A c \in Calls : Key(c)' = Key(c)
  BY Monotone DEF Key
<1> USE DEF TypeOK, Reservations, Open, Goto
<1>1. ASSUME NEW c \in Calls, Reserve(c) PROVE Reservations'
  BY <1>0, <1>1 DEF Reserve
<1>2. ASSUME NEW c \in Calls, Replay(c) \/ Refuse(c) PROVE Reservations'
  BY <1>0, <1>2 DEF Replay, Refuse, hub
<1>3. ASSUME NEW c \in Calls, Post(c) \/ Receive(c) PROVE Reservations'
  BY <1>0, <1>3 DEF Post, Receive, hub
<1>4. ASSUME NEW c \in Calls, Unreached(c) \/ GiveUp(c) PROVE Reservations'
  BY <1>0, <1>4 DEF Unreached, GiveUp, RetryOr, hub
<1>5. ASSUME NEW c \in Calls, Finish(c) \/ Fail(c) PROVE Reservations'
  BY <1>0, <1>5 DEF Finish, Fail
<1>6. ASSUME NEW p \in Posts, ThreadStep(p) PROVE Reservations'
  BY <1>0, <1>6, ThreadLeavesHub
<1>7. ASSUME NEW k \in Keys, Forget(k) \/ RecordExpires(k) PROVE Reservations'
  BY <1>0, <1>7 DEF Forget, RecordExpires, hub
<1>8. CASE HubRestart
  BY <1>0, <1>8 DEF HubRestart
<1>9. CASE UNCHANGED vars
  BY <1>0, <1>9 DEF vars
<1> QED
  BY <1>1, <1>2, <1>3, <1>4, <1>5, <1>6, <1>7, <1>8, <1>9 DEF Next, CallStep

LEMMA AwaitedStep ==
  TypeOK /\ Waits /\ RunningIsAwaited /\ [Next]_vars => RunningIsAwaited'
<1> SUFFICES ASSUME TypeOK, Waits, RunningIsAwaited, [Next]_vars,
                    NEW q \in Running', Key(q[1])' \notin abandoned'
             PROVE  pc'[q[1]] = "posted" /\ tries'[q[1]] = q[2]
  BY DEF RunningIsAwaited
<1>0. /\ q \in Posts /\ q[1] \in Calls /\ q = <<q[1], q[2]>>
      /\ Key(q[1])' = Key(q[1]) /\ Key(q[1]) \notin abandoned
  BY Monotone, Parts DEF Running, Key
<1>a. q \in Running => pc[q[1]] = "posted" /\ tries[q[1]] = q[2]
  BY <1>0 DEF RunningIsAwaited
<1> DEFINE Goal == pc'[q[1]] = "posted" /\ tries'[q[1]] = q[2]
<1> USE DEF TypeOK, Goto
<1>1. ASSUME NEW c \in Calls, Replay(c) \/ Refuse(c) \/ Reserve(c)
                              \/ Finish(c) \/ Fail(c) PROVE Goal
  <2>1. q \in Running /\ q[1] # c
    BY <1>0, <1>a, <1>1 DEF Replay, Refuse, Reserve, Finish, Fail, provider, Running
  <2> QED
    BY <1>0, <1>a, <1>1, <2>1 DEF Replay, Refuse, Reserve, Finish, Fail
<1>2. ASSUME NEW c \in Calls, Unreached(c) PROVE Goal
  <2>1. q \in Running /\ q[1] # c
    BY <1>0, <1>a, <1>2 DEF Unreached, provider, Running
  <2> QED
    BY <1>0, <1>a, <1>2, <2>1 DEF Unreached, RetryOr
<1>3. ASSUME NEW c \in Calls, GiveUp(c) PROVE Goal
  <2>1. q \in Running
    BY <1>3 DEF GiveUp, provider, Running
  <2>2. q[1] # c
    BY <1>0, <1>a, <1>3, <2>1 DEF GiveUp
  <2> QED
    BY <1>0, <1>a, <1>3, <2>1, <2>2 DEF GiveUp, RetryOr
<1>4. ASSUME NEW c \in Calls, Receive(c) PROVE Goal
  <2>1. q \in Running
    BY <1>4 DEF Receive, provider, Running
  <2>2. q[1] # c
    BY <1>0, <1>a, <1>4, <2>1 DEF Receive, Running
  <2> QED
    BY <1>0, <1>a, <1>4, <2>1, <2>2 DEF Receive
<1>5. ASSUME NEW c \in Calls, Post(c) PROVE Goal
  <2>1. CASE q = <<c, tries[c] + 1>>
    BY <1>0, <1>5, <2>1 DEF Post
  <2>2. CASE q # <<c, tries[c] + 1>>
    <3>1. q \in Running /\ q[1] # c
      BY <1>0, <1>a, <1>5, <2>2 DEF Post, Running
    <3> QED
      BY <1>0, <1>a, <1>5, <3>1 DEF Post
  <2> QED
    BY <2>1, <2>2
<1>6. ASSUME NEW p \in Posts, ThreadStep(p) PROVE Goal
  <2>1. q \in Running
    BY <1>0, <1>6 DEF ThreadStep, Build, BuildFails, Gated, Lookup, Save,
                      HookBlocks, Move, Respond, Running
  <2> QED
    BY <1>0, <1>a, <1>6, <2>1, ThreadLeavesHub
<1>7. ASSUME NEW k \in Keys, Forget(k) \/ RecordExpires(k) PROVE Goal
  BY <1>0, <1>a, <1>7 DEF Forget, RecordExpires, provider, Running
<1>8. CASE HubRestart
  <2>1. q \in Running
    BY <1>8 DEF HubRestart, provider, Running
  <2>2. Key(q[1]) \in abandoned'
    BY <1>8, <2>1 DEF HubRestart
  <2> QED
    BY <1>0, <2>2
<1>9. CASE UNCHANGED vars
  BY <1>0, <1>a, <1>9 DEF vars, Running
<1> QED
  BY <1>1, <1>2, <1>3, <1>4, <1>5, <1>6, <1>7, <1>8, <1>9 DEF Next, CallStep

\* The heart of the argument: one running thread for a key nothing was
\* abandoned under.
LEMMA OneRunning ==
  ASSUME TypeOK, Reservations, RunningIsAwaited,
         NEW p \in Running, NEW q \in Running,
         Key(p[1]) = Key(q[1]), Key(p[1]) \notin abandoned
  PROVE  p = q
<1>1. /\ p[1] \in Calls /\ q[1] \in Calls
      /\ p = <<p[1], p[2]>> /\ q = <<q[1], q[2]>>
  BY Parts DEF Running
<1>2. /\ pc[p[1]] = "posted" /\ tries[p[1]] = p[2]
      /\ pc[q[1]] = "posted" /\ tries[q[1]] = q[2]
  BY DEF RunningIsAwaited
<1>3. p[1] = q[1]
  BY <1>1, <1>2 DEF Reservations, Open
<1> QED
  BY <1>1, <1>2, <1>3

LEMMA FreeStep ==
  /\ TypeOK /\ Reservations /\ RunningIsAwaited /\ FreeIsFree
  /\ [Next]_vars
  => FreeIsFree'
<1> SUFFICES ASSUME TypeOK, Reservations, RunningIsAwaited, FreeIsFree,
                    [Next]_vars,
                    NEW q \in Posts, thread'[q] = "free", Key(q[1])' \notin abandoned'
             PROVE  records'[Key(q[1])'] = NoRecord
  BY DEF FreeIsFree
<1>0. /\ q[1] \in Calls /\ Key(q[1])' = Key(q[1])
      /\ Key(q[1]) \notin abandoned /\ Key(q[1]) \in Keys
  BY Monotone, Parts DEF Key
<1>a. thread[q] = "free" => records[Key(q[1])] = NoRecord
  BY <1>0 DEF FreeIsFree
<1> DEFINE Goal == records'[Key(q[1])'] = NoRecord
<1> USE DEF TypeOK, Goto
<1>1. ASSUME NEW c \in Calls, CallStep(c) PROVE Goal
  <2>1. records' = records
    BY <1>1 DEF CallStep, provider, Replay, Refuse, Reserve, Post, Unreached,
                GiveUp, Receive, Finish, Fail
  <2>2. thread[q] = "free"
    BY <1>1 DEF CallStep, provider, Replay, Refuse, Reserve, Post, Unreached,
                GiveUp, Receive, Finish, Fail
  <2> QED
    BY <1>0, <1>a, <2>1, <2>2
<1>2. ASSUME NEW p \in Posts, Build(p) \/ BuildFails(p) \/ Gated(p) \/ HookBlocks(p)
      PROVE Goal
  BY <1>0, <1>a, <1>2 DEF Build, BuildFails, Gated, HookBlocks, Move, Respond
<1>3. ASSUME NEW p \in Posts, Lookup(p) PROVE Goal
  BY <1>0, <1>a, <1>3 DEF Lookup, Move, Respond
<1>4. ASSUME NEW p \in Posts, Save(p) PROVE Goal
  <2>1. q # p /\ thread[q] = "free" /\ thread[p] = "free"
    BY <1>4 DEF Save, Move, Respond
  <2>2. q \in Running /\ p \in Running
    BY <2>1 DEF Running
  <2>3. Key(q[1]) # Key(p[1])
    BY <1>0, <2>1, <2>2, OneRunning
  <2> QED
    BY <1>0, <1>a, <1>4, <2>1, <2>3 DEF Save
<1>5. ASSUME NEW k \in Keys, Forget(k) \/ RecordExpires(k) PROVE Goal
  BY <1>0, <1>a, <1>5 DEF Forget, RecordExpires, provider
<1>6. CASE HubRestart
  BY <1>0, <1>a, <1>6 DEF HubRestart, provider
<1>7. CASE UNCHANGED vars
  BY <1>0, <1>a, <1>7 DEF vars
<1> QED
  BY <1>1, <1>2, <1>3, <1>4, <1>5, <1>6, <1>7 DEF Next, ThreadStep

\* Apart from Save, no step says of a key an effect that was not said of it
\* before, unless it is read from the record.
LEMMA NothingNewSaid ==
  ASSUME TypeOK, Waits, [Next]_vars, NEW k \in Keys, NEW a \in Effects,
         Said(k, a)', \A p \in Posts : Save(p) => Key(p[1]) # k
  PROVE  Said(k, a) \/ (records[k] # NoRecord /\ a.row = records[k].row)
<1>0. ask' = ask
  BY Monotone
<1>b. a # NoAnswer /\ \A kind \in {"auth-required", "confirmation-required",
                  "idempotency-conflict", "failed", "timeout"} : a # Failed(kind)
  BY NoEffect
<1> USE DEF TypeOK, Goto, Said, Key
<1>1. ASSUME NEW c \in Calls, Replay(c) PROVE Said(k, a)
  BY <1>0, <1>1 DEF Replay, hub, provider
<1>2. ASSUME NEW c \in Calls, Refuse(c) \/ Reserve(c) PROVE Said(k, a)
  BY <1>0, <1>2 DEF Refuse, Reserve, hub, provider
<1>3. ASSUME NEW c \in Calls, Post(c) PROVE Said(k, a)
  BY <1>0, <1>3 DEF Post, hub
<1>4. ASSUME NEW c \in Calls, Unreached(c) PROVE Said(k, a)
  BY <1>0, <1>b, <1>4 DEF Unreached, RetryOr, hub, provider
<1>5. ASSUME NEW c \in Calls, GiveUp(c) PROVE Said(k, a)
  BY <1>0, <1>b, <1>5 DEF GiveUp, RetryOr, hub, provider
<1>6. ASSUME NEW c \in Calls, Receive(c) PROVE Said(k, a)
  <2>1. <<c, tries[c]>> \in Posts
    BY <1>6 DEF Receive, Waits, Posts
  <2> QED
    BY <1>0, <1>6, <2>1 DEF Receive, hub, provider
<1>7. ASSUME NEW c \in Calls, Finish(c) PROVE Said(k, a)
  BY <1>0, <1>7 DEF Finish, provider
<1>8. ASSUME NEW c \in Calls, Fail(c) PROVE Said(k, a)
  BY <1>0, <1>b, <1>8 DEF Fail, provider
<1>9. ASSUME NEW p \in Posts, Build(p) \/ BuildFails(p) \/ HookBlocks(p)
      PROVE Said(k, a)
  BY <1>0, <1>b, <1>9 DEF Build, BuildFails, HookBlocks, Respond, hub
<1>10. ASSUME NEW p \in Posts, Gated(p) PROVE Said(k, a)
  <2>1. Failed(ask[p[1]].gate) # a
    BY <1>b, <1>10, Parts DEF Gated, Gates
  <2> QED
    BY <1>0, <1>10, <2>1 DEF Gated, Respond, hub
<1>11. ASSUME NEW p \in Posts, Lookup(p), ~Said(k, a)
       PROVE  records[k] # NoRecord /\ a.row = records[k].row
  <2>1. /\ Key(p[1]) = k /\ reply'[p] = a /\ reply[p] # a
        /\ records[k] # NoRecord /\ a = Completed(records[k].row)
    BY <1>0, <1>b, <1>11 DEF Lookup, Respond, hub
  <2> QED
    BY <2>1 DEF Completed
<1>12. ASSUME NEW p \in Posts, Save(p) PROVE Said(k, a)
  <2>1. ask[p[1]].key # k
    BY <1>12
  <2> QED
    BY <1>0, <1>12, <2>1 DEF Save, Respond, hub
<1>13. ASSUME NEW j \in Keys, Forget(j) \/ RecordExpires(j) PROVE Said(k, a)
  BY <1>0, <1>b, <1>13 DEF Forget, RecordExpires, hub, provider
<1>14. ASSUME HubRestart PROVE Said(k, a)
  BY <1>0, <1>b, <1>14 DEF HubRestart, provider
<1>15. ASSUME UNCHANGED vars PROVE Said(k, a)
  BY <1>0, <1>15 DEF vars
<1> QED
  BY <1>1, <1>2, <1>3, <1>4, <1>5, <1>6, <1>7, <1>8, <1>9, <1>10, <1>11,
     <1>12, <1>13, <1>14, <1>15 DEF Next, CallStep, ThreadStep

\* Only Save and an expiry touch the record of a key.
LEMMA RecordStays ==
  ASSUME TypeOK, [Next]_vars, NEW k \in Keys,
         \A p \in Posts : Save(p) => Key(p[1]) # k
  PROVE  \/ records'[k] = records[k]
         \/ records'[k] = NoRecord /\ k \in forgotten'
<1> USE DEF TypeOK
<1>1. ASSUME NEW c \in Calls, CallStep(c) PROVE records' = records
  BY <1>1 DEF CallStep, provider, Replay, Refuse, Reserve, Post, Unreached,
              GiveUp, Receive, Finish, Fail
<1>2. ASSUME NEW p \in Posts, ThreadStep(p), ~Save(p) PROVE records' = records
  BY <1>2 DEF ThreadStep, Build, BuildFails, Gated, Lookup, HookBlocks
<1>3. ASSUME NEW p \in Posts, Save(p) PROVE records'[k] = records[k]
  <2>1. Key(p[1]) # k
    BY <1>3
  <2> QED
    BY <1>3, <2>1 DEF Save
<1>4. ASSUME NEW j \in Keys, Forget(j) PROVE records' = records
  BY <1>4 DEF Forget, provider
<1>5. ASSUME NEW j \in Keys, RecordExpires(j)
      PROVE  \/ records'[k] = records[k]
             \/ records'[k] = NoRecord /\ k \in forgotten'
  BY <1>5 DEF RecordExpires
<1>6. CASE HubRestart
  BY <1>6 DEF HubRestart, provider
<1>7. CASE UNCHANGED vars
  BY <1>7 DEF vars
<1> QED
  BY <1>1, <1>2, <1>3, <1>4, <1>5, <1>6, <1>7 DEF Next

LEMMA SaysStep ==
  /\ TypeOK /\ Waits /\ FreeIsFree /\ SaysTheRecord
  /\ [Next]_vars
  => SaysTheRecord'
<1> SUFFICES ASSUME TypeOK, Waits, FreeIsFree, SaysTheRecord, [Next]_vars,
                    NEW k \in Kept', NEW a \in Effects, Said(k, a)'
             PROVE  records'[k] # NoRecord /\ a.row = records'[k].row
  BY DEF SaysTheRecord
<1>1. k \in Keys /\ k \in Kept /\ k \notin forgotten'
  BY Monotone DEF Kept
<1>2. ASSUME NEW p \in Posts, Save(p), Key(p[1]) = k
      PROVE  records'[k] # NoRecord /\ a.row = records'[k].row
  <2>1. records[k] = NoRecord
    BY <1>1, <1>2 DEF Save, FreeIsFree, Kept
  <2>2. ~Said(k, a)
    BY <1>1, <2>1 DEF SaysTheRecord
  <2>3. a = Completed(p)
    <3>1. ask' = ask /\ answer' = answer /\ completed' = completed
      BY <1>2 DEF Save, hub
    <3>2. PICK q \in Posts : Key(q[1])' = k /\ reply'[q] = a
      BY <2>2, <3>1 DEF Said, Key
    <3>3. Key(q[1]) = k
      BY <3>1, <3>2 DEF Key
    <3>4. q = p
      BY <1>2, <2>2, <3>2, <3>3 DEF Said, Save, Respond, TypeOK
    <3> QED
      BY <1>2, <3>2, <3>4 DEF Save, Respond, TypeOK
  <2>4. records'[k] = [body |-> ask[p[1]].body, row |-> p]
    BY <1>1, <1>2 DEF Save, TypeOK
  <2>5. records'[k] \in Records
    BY <2>4, Parts DEF Records
  <2> QED
    BY <2>3, <2>4, <2>5, NoEffect, NullsAssumption
<1>3. ASSUME \A p \in Posts : Save(p) => Key(p[1]) # k
      PROVE  records'[k] # NoRecord /\ a.row = records'[k].row
  <2>1. Said(k, a) \/ (records[k] # NoRecord /\ a.row = records[k].row)
    BY <1>1, <1>3, NothingNewSaid
  <2>2. records[k] # NoRecord /\ a.row = records[k].row
    BY <1>1, <2>1 DEF SaysTheRecord
  <2>3. records'[k] = records[k]
    BY <1>1, <1>3, RecordStays, <2>2
  <2> QED
    BY <2>2, <2>3
<1> QED
  BY <1>2, <1>3

\* A record carries the fingerprint of the call that wrote its row, and a
\* reply read from a record has been compared with it.
LEMMA MatchStep ==
  /\ TypeOK /\ RecordsMatch /\ RepliesMatchPayload
  /\ [Next]_vars
  => RecordsMatch' /\ RepliesMatchPayload'
<1> SUFFICES ASSUME TypeOK, RecordsMatch, RepliesMatchPayload, [Next]_vars
             PROVE  RecordsMatch' /\ RepliesMatchPayload'
  OBVIOUS
<1>0. ask' = ask
  BY Monotone
<1>b. \A kind \in {"auth-required", "confirmation-required",
                   "idempotency-conflict", "failed", "timeout"} :
        Failed(kind) \notin Effects
  BY NoEffect
<1> USE DEF TypeOK
<1>1. ASSUME records' = records PROVE RecordsMatch'
  BY <1>0, <1>1 DEF RecordsMatch
<1>2. ASSUME reply' = reply PROVE RepliesMatchPayload'
  BY <1>0, <1>2 DEF RepliesMatchPayload
<1>3. ASSUME NEW c \in Calls, CallStep(c)
      PROVE  records' = records /\ reply' = reply
  BY <1>3 DEF CallStep, provider, Replay, Refuse, Reserve, Post, Unreached,
              GiveUp, Receive, Finish, Fail
<1>4. ASSUME NEW p \in Posts, Build(p) PROVE records' = records /\ reply' = reply
  BY <1>4 DEF Build
<1>5. ASSUME NEW p \in Posts, BuildFails(p) \/ HookBlocks(p)
      PROVE  records' = records /\ RepliesMatchPayload'
  BY <1>0, <1>b, <1>5 DEF BuildFails, HookBlocks, Respond, RepliesMatchPayload
<1>6. ASSUME NEW p \in Posts, Gated(p) PROVE records' = records /\ RepliesMatchPayload'
  <2>1. Failed(ask[p[1]].gate) \notin Effects
    BY <1>b, <1>6, Parts DEF Gated, Gates
  <2> QED
    BY <1>0, <1>6, <2>1 DEF Gated, Respond, RepliesMatchPayload
<1>7. ASSUME NEW p \in Posts, Lookup(p) PROVE records' = records /\ RepliesMatchPayload'
  <2>1. Key(p[1]) \in Keys
    BY Parts
  <2>2. CASE records[Key(p[1])] = NoRecord
    BY <1>0, <1>7, <2>2 DEF Lookup, RepliesMatchPayload
  <2>3. CASE records[Key(p[1])] # NoRecord
    <3> DEFINE rec == records[Key(p[1])]
    <3>1. ask[rec.row[1]].body = rec.body
      BY <2>1, <2>3 DEF RecordsMatch
    <3>2. CASE rec.body = ask[p[1]].body
      <4>1. reply' = [reply EXCEPT ![p] = Completed(rec.row)]
        BY <1>7, <2>3, <3>2 DEF Lookup, Respond
      <4>2. Completed(rec.row).row = rec.row
        BY DEF Completed
      <4> HIDE DEF rec
      <4> QED
        BY <1>0, <1>7, <3>1, <3>2, <4>1, <4>2 DEF Lookup, RepliesMatchPayload
    <3>3. CASE rec.body # ask[p[1]].body
      BY <1>0, <1>b, <1>7, <2>3, <3>3 DEF Lookup, Respond, RepliesMatchPayload
    <3> QED
      BY <3>2, <3>3
  <2> QED
    BY <2>2, <2>3
<1>8. ASSUME NEW p \in Posts, Save(p) PROVE RecordsMatch' /\ RepliesMatchPayload'
  <2>1. RecordsMatch'
    BY <1>0, <1>8, Parts DEF Save, RecordsMatch
  <2>2. RepliesMatchPayload'
    BY <1>0, <1>8, NoEffect DEF Save, Respond, RepliesMatchPayload
  <2> QED
    BY <2>1, <2>2
<1>9. ASSUME NEW k \in Keys, Forget(k) PROVE records' = records /\ reply' = reply
  BY <1>9 DEF Forget, provider
<1>10. ASSUME NEW k \in Keys, RecordExpires(k) PROVE RecordsMatch' /\ reply' = reply
  BY <1>0, <1>10 DEF RecordExpires, RecordsMatch
<1>11. ASSUME HubRestart PROVE records' = records /\ reply' = reply
  BY <1>11 DEF HubRestart, provider
<1>12. ASSUME UNCHANGED vars PROVE records' = records /\ reply' = reply
  BY <1>12 DEF vars
<1> QED
  BY <1>1, <1>2, <1>3, <1>4, <1>5, <1>6, <1>7, <1>8, <1>9, <1>10, <1>11,
     <1>12 DEF Next, ThreadStep

LEMMA Inductive == IInv /\ [Next]_vars => IInv'
BY TypeStep, WaitsStep, ReservationsStep, AwaitedStep, FreeStep, SaysStep,
   MatchStep DEF IInv

LEMMA IInvHolds == Spec => []IInv
BY InitIInv, Inductive, PTL DEF Spec

\* Every variable keeps its shape.
THEOREM TypeCorrect == Spec => []TypeOK
<1>1. IInv => TypeOK
  BY DEF IInv
<1> QED
  BY <1>1, IInvHolds, PTL

\* Two callers told of an effect under one key are told of the same row, as
\* long as nothing of the key was abandoned and its record has not expired:
\* both are told the row of the record.
THEOREM AnswersAgreeHolds == Spec => []AnswersAgree
<1>1. IInv => AnswersAgree
  <2> SUFFICES ASSUME IInv, NEW c \in Calls, NEW d \in Calls,
                      Told(c), Told(d), Key(c) = Key(d),
                      Key(c) \notin abandoned \cup forgotten
               PROVE  answer[c].row = answer[d].row
    BY DEF AnswersAgree
  <2>1. Key(c) \in Kept
    BY Parts DEF IInv, Kept
  <2>2. \A e \in {c, d} : answer[e].row = records[Key(c)].row
    BY <2>1 DEF IInv, SaysTheRecord, Said, Told
  <2> QED
    BY <2>2
<1> QED
  BY <1>1, IInvHolds, PTL

\* No thread of business-tools answers with a row written for another
\* payload.
THEOREM RepliesMatchPayloadHolds == Spec => []RepliesMatchPayload
<1>1. IInv => RepliesMatchPayload
  BY DEF IInv
<1> QED
  BY <1>1, IInvHolds, PTL
----------------------------------------------------------------------------
\* A record names a row written under its key.
RecordKeys == \A k \in Keys : records[k] # NoRecord => Key(records[k].row[1]) = k

WInv == IInv /\ RecordKeys

LEMMA RecordKeysStep == TypeOK /\ RecordKeys /\ [Next]_vars => RecordKeys'
<1> SUFFICES ASSUME TypeOK, RecordKeys, [Next]_vars,
                    NEW k \in Keys, records'[k] # NoRecord
             PROVE  ask'[records'[k].row[1]].key = k
  BY DEF RecordKeys, Key
<1>1. ASSUME NEW p \in Posts, Save(p), Key(p[1]) = k
      PROVE  ask'[records'[k].row[1]].key = k
  BY <1>1, Monotone DEF Save, TypeOK, Key
<1>2. CASE records'[k] = records[k]
  BY <1>2, Monotone DEF RecordKeys, Key
<1> QED
  BY <1>1, <1>2, RecordStays
----------------------------------------------------------------------------
Lost == abandoned \cup forgotten

\* What the callers of a kept key were told of is its record.
LEMMA ToldOfRecord ==
  ASSUME IInv, NEW c \in Calls, Told(c), Key(c) \notin Lost
  PROVE  records[Key(c)] # NoRecord /\ answer[c].row = records[Key(c)].row
BY Parts DEF IInv, SaysTheRecord, Said, Told, Kept, Lost

LEMMA ToldOfRecordNext ==
  ASSUME IInv', ask' = ask, NEW c \in Calls, Told(c)', Key(c) \notin Lost'
  PROVE  records'[Key(c)] # NoRecord /\ answer'[c].row = records'[Key(c)].row
<1>1. Key(c)' = Key(c) /\ Key(c) \in Keys
  BY Parts DEF Key, IInv, TypeOK, Requests
<1>2. ASSUME NEW a, a = answer'[c]
      PROVE  records'[Key(c)] # NoRecord /\ a.row = records'[Key(c)].row
  <2>1. Said(Key(c), a)'
    BY <1>1, <1>2 DEF Said
  <2>2. a \in Effects /\ Key(c)' \in Kept'
    BY <1>1, <1>2 DEF Told, Kept, Lost
  <2> QED
    BY <1>1, <2>1, <2>2 DEF IInv, SaysTheRecord
<1> QED
  BY <1>2

\* Who has been told of what, after a step that answers at most one call.
LEMMA ToldNext ==
  ASSUME ask' = ask,
         \A c \in Calls : Told(c)' <=> Told(c),
         \A c \in Calls : Told(c) => answer'[c] = answer[c],
         NEW k \in Keys
  PROVE  ToldOf(k)' = ToldOf(k)
<1>1. {d \in Calls : Told(d) /\ Key(d) = k}' = {d \in Calls : Told(d) /\ Key(d) = k}
  BY DEF Key
<1> QED
  BY <1>1 DEF ToldOf

\* The entries of the keys, as one function.
LEMMA EntriesNow ==
  /\ Entries = [k \in Keys |-> IF k \in Lost THEN Writes!Empty
                               ELSE [row |-> RowOf(k), told |-> ToldOf(k)]]
  /\ Entries' = [k \in Keys |-> IF k \in Lost' THEN Writes!Empty
                                ELSE [row |-> RowOf(k)', told |-> ToldOf(k)']]
BY DEF Entries, Lost, Writes!Empty

\* A step that leaves what callers were told and the records of kept keys alone
\* loses keys at most.
LEMMA LoseStep ==
  ASSUME TypeOK', Lost \subseteq Lost', ask' = ask,
         \A c \in Calls : Told(c)' <=> Told(c),
         \A c \in Calls : Told(c) => answer'[c] = answer[c],
         \A k \in Keys \ Lost' : records'[k] = records[k]
  PROVE  Writes!Next
<1>1. Lost' \in SUBSET Keys
  BY DEF TypeOK, Lost
<1>2. \A k \in Keys \ Lost' : RowOf(k)' = RowOf(k) /\ ToldOf(k)' = ToldOf(k)
  BY ToldNext DEF RowOf
<1>3. Entries' = [k \in Keys |-> IF k \in Lost' THEN Writes!Empty ELSE Entries[k]]
  BY <1>2, EntriesNow
<1>4. Lost' = Lost \cup Lost'
  OBVIOUS
<1>5. Writes!Lose(Lost')
  BY <1>3, <1>4 DEF Writes!Lose, Lost
<1> QED
  BY <1>1, <1>5 DEF Writes!Next

\* A call that is answered with an effect is told of the row of its key.
LEMMA TellStep ==
  ASSUME IInv, IInv', NEW c \in Calls, Told(c)', ~Told(c),
         UNCHANGED <<ask, records, abandoned, forgotten>>,
         \A d \in Calls \ {c} : pc'[d] = pc[d] /\ answer'[d] = answer[d]
  PROVE  Writes!Next \/ UNCHANGED <<Entries, Lost>>
<1>k. PICK k \in Keys : k = Key(c)
  BY Parts DEF IInv
<1>0. /\ k \in Keys /\ Lost' = Lost
      /\ \A j \in Keys : RowOf(j)' = RowOf(j)
  BY Parts DEF IInv, Lost, RowOf
<1>1. ASSUME NEW j \in Keys, j # k PROVE ToldOf(j)' = ToldOf(j)
  <2>1. {d \in Calls : Told(d) /\ Key(d) = j}' = {d \in Calls : Told(d) /\ Key(d) = j}
    BY <1>k, <1>1 DEF Key, Told
  <2>2. \A d \in {e \in Calls : Told(e) /\ Key(e) = j} : answer'[d] = answer[d]
    BY <1>1
  <2> QED
    BY <2>1, <2>2 DEF ToldOf
<1>2. CASE k \in Lost
  <2>1. Entries' = Entries
    BY <1>0, <1>1, <1>2, EntriesNow
  <2> QED
    BY <1>0, <2>1
<1>3. CASE k \notin Lost
  <2>1. records[k] # NoRecord /\ answer'[c].row = records[k].row
    BY <1>k, <1>0, <1>3, ToldOfRecordNext
  <2>2. RowOf(k) = records[k].row /\ RowOf(k) # NoRecord
    BY <1>0, <2>1, NullsAssumption DEF RowOf, IInv, TypeOK, Records
  <2>3. ToldOf(k)' = ToldOf(k) \cup {<<c, RowOf(k)>>}
    <3>1. {d \in Calls : Told(d) /\ Key(d) = k}'
            = {d \in Calls : Told(d) /\ Key(d) = k} \cup {c}
      BY <1>k DEF Key, Told
    <3>2. \A d \in {e \in Calls : Told(e) /\ Key(e) = k} : answer'[d] = answer[d]
      OBVIOUS
    <3>3. {<<d, answer'[d].row>> : d \in {e \in Calls : Told(e) /\ Key(e) = k} \cup {c}}
            = {<<d, answer[d].row>> : d \in {e \in Calls : Told(e) /\ Key(e) = k}}
                \cup {<<c, answer'[c].row>>}
      BY <3>2
    <3> QED
      BY <2>1, <2>2, <3>1, <3>3 DEF ToldOf
  <2>4. Entries[k] = [row |-> RowOf(k), told |-> ToldOf(k)]
    BY <1>0, <1>3, EntriesNow
  <2>5. Entries' = [Entries EXCEPT ![k].told = @ \cup {<<c, Entries[k].row>>}]
    <3>1. Entries' = [j \in Keys |->
            IF j = k THEN [row |-> RowOf(k), told |-> ToldOf(k) \cup {<<c, RowOf(k)>>}]
            ELSE Entries[j]]
      BY <1>0, <1>1, <1>3, <2>3, EntriesNow
    <3>2. [Entries[k] EXCEPT !.told = @ \cup {<<c, Entries[k].row>>}]
            = [row |-> RowOf(k), told |-> ToldOf(k) \cup {<<c, RowOf(k)>>}]
      BY <2>4
    <3>3. DOMAIN Entries = Keys
      BY DEF Entries
    <3> QED
      BY <1>0, <3>1, <3>2, <3>3
  <2>6. Writes!Tell(k, c)
    BY <1>0, <1>3, <2>2, <2>4, <2>5 DEF Writes!Tell, Lost
  <2> QED
    BY <1>0, <2>6 DEF Writes!Next
<1> QED
  BY <1>2, <1>3

\* A thread that saves is the first one of its key, unless the key is lost.
LEMMA SaveStep ==
  ASSUME WInv, NEW p \in Posts, Save(p)
  PROVE  Writes!Next \/ UNCHANGED <<Entries, Lost>>
<1>k. PICK k \in Keys : k = Key(p[1])
  BY Parts DEF WInv, IInv
<1>0. /\ k \in Keys /\ Lost' = Lost /\ ask' = ask
      /\ \A j \in Keys : records'[j] = IF j = k THEN [body |-> ask[p[1]].body, row |-> p]
                                       ELSE records[j]
      /\ \A j \in Keys : ToldOf(j)' = ToldOf(j)
  BY <1>k, Parts, ToldNext DEF WInv, IInv, TypeOK, Save, hub, history, Lost, Told
<1>1. \A j \in Keys \ {k} : RowOf(j)' = RowOf(j)
  BY <1>0 DEF RowOf
<1>2. CASE k \in Lost
  BY <1>0, <1>1, <1>2, EntriesNow
<1>3. CASE k \notin Lost
  <2>1. records[k] = NoRecord
    BY <1>k, <1>3 DEF WInv, IInv, FreeIsFree, Save, Lost
  <2>2. ToldOf(k) = {}
    BY <1>3, <2>1, ToldOfRecord DEF ToldOf, WInv
  <2>3. Entries[k] = Writes!Empty
    BY <1>0, <1>3, <2>1, <2>2, EntriesNow DEF RowOf, Writes!Empty
  <2>4. RowOf(k)' = p
    <3>1. ask[p[1]].body \in Bodies
      BY DEF WInv, IInv, TypeOK, Requests, Posts
    <3>2. [body |-> ask[p[1]].body, row |-> p] \in Records
      BY <3>1 DEF Records
    <3> QED
      BY <1>0, <3>2, NullsAssumption DEF RowOf
  <2>5. ASSUME NEW j \in Keys PROVE Entries[j].row # p
    <3>1. CASE j \in Lost \/ records[j] = NoRecord
      BY <3>1, NullsAssumption, EntriesNow DEF RowOf, Writes!Empty
    <3>2. CASE j \notin Lost /\ records[j] # NoRecord
      BY <1>k, <1>3, <2>1, <3>2, EntriesNow DEF RowOf, WInv, RecordKeys
    <3> QED
      BY <3>1, <3>2
  <2>6. Entries' = [Entries EXCEPT ![k].row = p]
    <3>1. Entries' = [j \in Keys |->
            IF j = k THEN [row |-> p, told |-> {}] ELSE Entries[j]]
      BY <1>0, <1>1, <1>3, <2>2, <2>4, EntriesNow
    <3>2. [Entries[k] EXCEPT !.row = p] = [row |-> p, told |-> {}]
      BY <2>3 DEF Writes!Empty
    <3>3. DOMAIN Entries = Keys
      BY DEF Entries
    <3> QED
      BY <1>0, <3>1, <3>2, <3>3
  <2>7. Writes!Write(k, p)
    BY <1>0, <1>3, <2>3, <2>5, <2>6 DEF Writes!Write, Lost
  <2> QED
    BY <1>0, <2>7 DEF Writes!Next
<1> QED
  BY <1>2, <1>3

\* Every step writes, tells or loses, or concerns nobody outside.
LEMMA WritesStep ==
  WInv /\ WInv' /\ [Next]_vars => [Writes!Next]_<<Entries, abandoned \cup forgotten>>
<1> SUFFICES ASSUME WInv, WInv', [Next]_vars
             PROVE  Writes!Next \/ UNCHANGED <<Entries, Lost>>
  BY DEF Lost
<1> USE DEF WInv, IInv
<1>0. /\ ask' = ask /\ Lost \subseteq Lost' /\ TypeOK /\ TypeOK'
      /\ \A c \in Calls : Key(c) \in Keys
  BY Monotone, Parts DEF Lost
<1>1. ASSUME NEW c \in Calls, Finish(c) \/ Replay(c)
      PROVE  Writes!Next \/ UNCHANGED <<Entries, Lost>>
  <2>1. /\ UNCHANGED <<ask, records, abandoned, forgotten>> /\ ~Told(c)
        /\ \A d \in Calls \ {c} : pc'[d] = pc[d] /\ answer'[d] = answer[d]
    BY <1>0, <1>1 DEF Finish, Replay, provider, history, Goto, TypeOK, Told
  <2>2. CASE Told(c)'
    BY <2>1, <2>2, TellStep
  <2>3. CASE ~Told(c)'
    <3>1. \A d \in Calls : /\ Told(d)' <=> Told(d)
                           /\ Told(d) => answer'[d] = answer[d]
      BY <2>1, <2>3 DEF Told
    <3> QED
      BY <1>0, <2>1, <3>1, LoseStep
  <2> QED
    BY <2>2, <2>3
<1>2. ASSUME NEW c \in Calls, CallStep(c), ~Finish(c), ~Replay(c)
      PROVE  Writes!Next
  <2>1. /\ records' = records /\ ~Told(c) /\ ~Told(c)'
        /\ \A d \in Calls \ {c} : pc'[d] = pc[d] /\ answer'[d] = answer[d]
    BY <1>0, <1>2 DEF CallStep, provider, Refuse, Reserve, Post, Unreached, RetryOr, GiveUp,
                      Receive, Fail, Goto, TypeOK, Told
  <2>2. \A d \in Calls : /\ Told(d)' <=> Told(d)
                         /\ Told(d) => answer'[d] = answer[d]
    BY <2>1 DEF Told
  <2> QED
    BY <1>0, <2>1, <2>2, LoseStep
<1>3. ASSUME NEW p \in Posts, Save(p)
      PROVE  Writes!Next \/ UNCHANGED <<Entries, Lost>>
  BY <1>3, SaveStep
<1>4. ASSUME NEW p \in Posts, ThreadStep(p), ~Save(p)
      PROVE  Writes!Next
  <2>1. records' = records /\ answer' = answer /\ pc' = pc
    BY <1>4 DEF ThreadStep, Build, BuildFails, Gated, Lookup, HookBlocks
  <2> QED
    BY <1>0, <2>1, LoseStep DEF Told
<1>5. ASSUME NEW k \in Keys, Forget(k) \/ RecordExpires(k)
      PROVE  Writes!Next
  <2>1. answer' = answer /\ pc' = pc
    BY <1>5 DEF Forget, RecordExpires
  <2>2. \A j \in Keys \ Lost' : records'[j] = records[j]
    BY <1>0, <1>5 DEF Forget, RecordExpires, provider, Lost, TypeOK
  <2> QED
    BY <1>0, <2>1, <2>2, LoseStep DEF Told
<1>6. CASE HubRestart
  <2>1. /\ records' = records
        /\ \A d \in Calls : /\ Told(d)' <=> Told(d)
                            /\ Told(d) => answer'[d] = answer[d]
    BY <1>0, <1>6 DEF HubRestart, provider, Open, Told, TypeOK
  <2> QED
    BY <1>0, <2>1, LoseStep
<1>7. CASE UNCHANGED vars
  <2>1. records' = records /\ answer' = answer /\ pc' = pc
    BY <1>7 DEF vars
  <2> QED
    BY <1>0, <2>1, LoseStep DEF Told
<1> QED
  BY <1>1, <1>2, <1>3, <1>4, <1>5, <1>6, <1>7 DEF Next

\* tool-hub and business-tools implement keyed writes, for any number of calls,
\* keys and attempts: the first row recorded under a key is the only one its
\* callers hear of, and no other key gets it, unless a running post of the key
\* was given up on or its record has expired.
THEOREM WritesImplemented == Spec => ImplementsWrites
<1>1. Init => Writes!Init /\ RecordKeys
  <2> SUFFICES ASSUME Init PROVE Writes!Init /\ RecordKeys
    OBVIOUS
  <2>1. \A k \in Keys : records[k] = NoRecord /\ ToldOf(k) = {}
    BY DEF Init, ToldOf, Told
  <2>2. Lost = {}
    BY DEF Init, Lost
  <2> QED
    BY <2>1, <2>2, EntriesNow DEF RowOf, RecordKeys, Writes!Init, Writes!Empty, Lost
<1>2. WInv /\ [Next]_vars => WInv'
  BY Inductive, RecordKeysStep DEF WInv, IInv
<1>3. Spec => []WInv
  BY <1>1, <1>2, InitIInv, PTL DEF Spec, WInv
<1> QED
  BY <1>1, <1>3, WritesStep, PTL DEF Spec, ImplementsWrites, Writes!Spec
============================================================================
