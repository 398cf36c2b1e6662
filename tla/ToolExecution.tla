--------------------------- MODULE ToolExecution ---------------------------
(* A write tool from the call at tool-hub to the row in the business        *)
(* database.                                                                *)
(*                                                                          *)
(* tool-hub reserves the idempotency key of a call in memory, posts the     *)
(* call to business-tools, tries again after a timeout or a refused         *)
(* connection, audits the answer and remembers it under the key.            *)
(* business-tools handles every post in a thread of its own: the builder of *)
(* the tool runs, then the gates (authorisation, confirmation), then the    *)
(* idempotency record is looked up and saved.  A post tool-hub has given up *)
(* on goes on.                                                              *)
EXTENDS Naturals, FiniteSets

CONSTANTS
  Calls,        \* calls that reach POST /tools/call
  Keys,         \* idempotency keys
  Bodies,       \* payloads that differ in their fingerprint
  MaxAttempts,  \* 1 + TOOL_RETRY_ATTEMPTS for a tool declared idempotent
  Asks,         \* the requests the calls may carry, all of them together
  NoAnswer,     \* nothing answered, replied or remembered
  NoRecord      \* no idempotency record

ASSUME MaxAttemptsAssumption == MaxAttempts \in Nat \ {0}

Attempts == 1..MaxAttempts

\* What stands between the call and its execution: nothing, an incomplete
\* auth context, or a confirmation the payload does not carry.
Gates == {"clear", "auth-required", "confirmation-required"}

\* The posts tool-hub may make.  A row of the business database is named
\* after the post that inserted it.
Posts == Calls \X Attempts

Requests == [key : Keys, body : Bodies, gate : Gates]

ASSUME AsksAssumption == Asks \subseteq [Calls -> Requests]

\* The answers of business-tools, and those tool-hub builds for itself.
Effects  == [kind : {"completed"}, row : Posts]
Failures == [kind : {"auth-required", "confirmation-required",
                     "idempotency-conflict", "failed", "timeout"}]
Answers  == Effects \cup Failures
Records  == [body : Bodies, row : Posts]

ASSUME NullsAssumption ==
  NoAnswer \notin Answers /\ NoRecord \notin Records /\ NoRecord \notin Posts

Failed(kind)  == [kind |-> kind]
Completed(r)  == [kind |-> "completed", row |-> r]

VARIABLES
  ask,        \* the request of a call
  pc,         \* where tool-hub is with a call
  tries,      \* posts made for a call
  answer,     \* what the caller of a call is told
  inflight,   \* tool-hub: keys reserved by a running call
  completed,  \* tool-hub: the answer remembered under a key
  thread,     \* business-tools: where the thread of a post is
  reply,      \* business-tools: what the thread of a post answered
  rows,       \* business database: rows inserted
  records,    \* business-tools: the idempotency record of a key
  abandoned,  \* history: keys of posts given up on while their thread ran
  forgotten   \* history: keys whose record has expired

hub      == <<inflight, completed>>
provider == <<thread, reply, rows, records>>
history  == <<abandoned, forgotten>>
vars     == <<ask, pc, tries, answer, inflight, completed, thread, reply,
              rows, records, abandoned, forgotten>>

Key(c) == ask[c].key

\* The posts whose thread has neither not begun nor ended.
Running == {p \in Posts : thread[p] \in {"begun", "written", "free"}}

Init ==
  /\ ask \in Asks
  /\ pc = [c \in Calls |-> "new"]
  /\ tries = [c \in Calls |-> 0]
  /\ answer = [c \in Calls |-> NoAnswer]
  /\ inflight = {}
  /\ completed = [k \in Keys |-> NoAnswer]
  /\ thread = [p \in Posts |-> "none"]
  /\ reply = [p \in Posts |-> NoAnswer]
  /\ rows = {}
  /\ records = [k \in Keys |-> NoRecord]
  /\ abandoned = {}
  /\ forgotten = {}
----------------------------------------------------------------------------
\* tool-hub

Goto(c, label) == pc' = [pc EXCEPT ![c] = label]

\* The call finds the answer of an earlier one under its key.
Replay(c) ==
  /\ pc[c] = "new"
  /\ completed[Key(c)] # NoAnswer
  /\ answer' = [answer EXCEPT ![c] = completed[Key(c)]]
  /\ Goto(c, "answered")
  /\ UNCHANGED <<ask, tries, hub, provider, history>>

\* Another call with the key is running: 409.
Refuse(c) ==
  /\ pc[c] = "new"
  /\ completed[Key(c)] = NoAnswer
  /\ Key(c) \in inflight
  /\ Goto(c, "refused")
  /\ UNCHANGED <<ask, tries, answer, hub, provider, history>>

\* (Mutant: the reservation does not look at the running calls.)
ReserveAnyway(c) ==
  /\ pc[c] = "new"
  /\ completed[Key(c)] = NoAnswer
  /\ inflight' = inflight \cup {Key(c)}
  /\ Goto(c, "open")
  /\ UNCHANGED <<ask, tries, answer, completed, provider, history>>

Reserve(c) ==
  /\ pc[c] = "new"
  /\ completed[Key(c)] = NoAnswer
  /\ Key(c) \notin inflight
  /\ inflight' = inflight \cup {Key(c)}
  /\ Goto(c, "open")
  /\ UNCHANGED <<ask, tries, answer, completed, provider, history>>

\* (Mutant: an attempt is counted twice.)
PostCountedTwice(c) ==
  /\ pc[c] = "open"
  /\ tries[c] < MaxAttempts
  /\ tries' = [tries EXCEPT ![c] = @ + 2]
  /\ thread' = [thread EXCEPT ![<<c, tries[c] + 1>>] = "begun"]
  /\ Goto(c, "posted")
  /\ UNCHANGED <<ask, answer, hub, reply, rows, records, history>>

\* The next attempt reaches business-tools, which begins a thread for it.
Post(c) ==
  /\ pc[c] = "open"
  /\ tries[c] < MaxAttempts
  /\ tries' = [tries EXCEPT ![c] = @ + 1]
  /\ thread' = [thread EXCEPT ![<<c, tries[c] + 1>>] = "begun"]
  /\ Goto(c, "posted")
  /\ UNCHANGED <<ask, answer, hub, reply, rows, records, history>>

\* A retryable failure: another attempt, or the failure is the answer.
RetryOr(c, failure, used) ==
  IF used < MaxAttempts
  THEN Goto(c, "open") /\ UNCHANGED answer
  ELSE Goto(c, "final") /\ answer' = [answer EXCEPT ![c] = failure]

\* The connection is refused: the attempt leaves no thread behind.
Unreached(c) ==
  /\ pc[c] = "open"
  /\ tries[c] < MaxAttempts
  /\ tries' = [tries EXCEPT ![c] = @ + 1]
  /\ RetryOr(c, Failed("failed"), tries[c] + 1)
  /\ UNCHANGED <<ask, hub, provider, history>>

\* The attempt times out, or a gateway answers 502, 503 or 504 for it, in
\* whatever state its thread is.
GiveUp(c) ==
  /\ pc[c] = "posted"
  /\ RetryOr(c, Failed("timeout"), tries[c])
  /\ abandoned' = IF <<c, tries[c]>> \in Running
                  THEN abandoned \cup {Key(c)} ELSE abandoned
  /\ UNCHANGED <<ask, tries, hub, provider, forgotten>>

\* The thread's answer arrives; none of those is retryable.
Receive(c) ==
  /\ pc[c] = "posted"
  /\ thread[<<c, tries[c]>>] = "ended"
  /\ answer' = [answer EXCEPT ![c] = reply[<<c, tries[c]>>]]
  /\ Goto(c, "final")
  /\ UNCHANGED <<ask, tries, hub, provider, history>>

\* The answer, a failure too, is audited, remembered and returned.
Finish(c) ==
  /\ pc[c] = "final"
  /\ completed' = [completed EXCEPT ![Key(c)] = answer[c]]
  /\ inflight' = inflight \ {Key(c)}
  /\ Goto(c, "answered")
  /\ UNCHANGED <<ask, tries, answer, provider, history>>

\* (Mutant: an exception does not release the key.)
FailKeepsKey(c) ==
  /\ \/ pc[c] = "open" /\ tries[c] = 0
     \/ pc[c] = "final"
  /\ answer' = [answer EXCEPT ![c] = NoAnswer]
  /\ Goto(c, "refused")
  /\ UNCHANGED <<ask, tries, hub, provider, history>>

\* An exception gives the key back: the catalogue cannot be read, or the
\* audit record cannot be written after the tool has run.
Fail(c) ==
  /\ \/ pc[c] = "open" /\ tries[c] = 0
     \/ pc[c] = "final"
  /\ inflight' = inflight \ {Key(c)}
  /\ answer' = [answer EXCEPT ![c] = NoAnswer]
  /\ Goto(c, "refused")
  /\ UNCHANGED <<ask, tries, completed, provider, history>>

\* _prune: an answer is remembered for ttl_seconds.  It drops a reservation
\* of that age too: a call, bounded by seconds for each of its attempts, is
\* over long before.
Forget(k) ==
  /\ completed[k] # NoAnswer
  /\ completed' = [completed EXCEPT ![k] = NoAnswer]
  /\ UNCHANGED <<ask, pc, tries, answer, inflight, provider, history>>

\* tool-hub restarts: the coordinator and the running calls are gone.
Open == {c \in Calls : pc[c] \in {"open", "posted", "final"}}

HubRestart ==
  /\ inflight # {}
  /\ inflight' = {}
  /\ completed' = [k \in Keys |-> NoAnswer]
  /\ pc' = [c \in Calls |-> IF c \in Open THEN "refused" ELSE pc[c]]
  /\ answer' = [c \in Calls |-> IF c \in Open THEN NoAnswer ELSE answer[c]]
  /\ abandoned' = abandoned \cup {Key(p[1]) : p \in Running}
  /\ UNCHANGED <<ask, tries, provider, forgotten>>
----------------------------------------------------------------------------
\* business-tools: the thread of post p

Move(p, label) == thread' = [thread EXCEPT ![p] = label]

Respond(p, what) ==
  /\ Move(p, "ended")
  /\ reply' = [reply EXCEPT ![p] = what]

\* The execute builder inserts its row before any gate is looked at.
Build(p) ==
  /\ thread[p] = "begun"
  /\ rows' = rows \cup {p}
  /\ Move(p, "written")
  /\ UNCHANGED <<ask, pc, tries, answer, hub, reply, records, history>>

\* No row: a PRE_TOOL_USE hook blocks the call, or the insert raises and
\* business-tools answers 500.
BuildFails(p) ==
  /\ thread[p] = "begun"
  /\ Respond(p, Failed("failed"))
  /\ UNCHANGED <<ask, pc, tries, answer, hub, rows, records, history>>

\* missing_auth and the confirmation check.
Gated(p) ==
  /\ thread[p] = "written"
  /\ ask[p[1]].gate # "clear"
  /\ Respond(p, Failed(ask[p[1]].gate))
  /\ UNCHANGED <<ask, pc, tries, answer, hub, rows, records, history>>

\* (Mutant: the fingerprint is not compared.)
LookupAnyBody(p) ==
  /\ thread[p] = "written"
  /\ ask[p[1]].gate = "clear"
  /\ LET rec == records[Key(p[1])] IN
       \/ rec = NoRecord /\ Move(p, "free") /\ UNCHANGED reply
       \/ rec # NoRecord /\ Respond(p, Completed(rec.row))
  /\ UNCHANGED <<ask, pc, tries, answer, hub, rows, records, history>>

\* ToolIdempotencyStore.get: the record of the key is returned, or refused
\* to another fingerprint.
Lookup(p) ==
  /\ thread[p] = "written"
  /\ ask[p[1]].gate = "clear"
  /\ LET rec == records[Key(p[1])] IN
       \/ rec = NoRecord /\ Move(p, "free") /\ UNCHANGED reply
       \/ /\ rec # NoRecord
          /\ Respond(p, IF rec.body = ask[p[1]].body
                           THEN Completed(rec.row)
                           ELSE Failed("idempotency-conflict"))
  /\ UNCHANGED <<ask, pc, tries, answer, hub, rows, records, history>>

\* The POST_TOOL_USE hook, and ToolIdempotencyStore.save.
Save(p) ==
  /\ thread[p] = "free"
  /\ records' = [records EXCEPT ![Key(p[1])] =
                   [body |-> ask[p[1]].body, row |-> p]]
  /\ Respond(p, Completed(p))
  /\ UNCHANGED <<ask, pc, tries, answer, hub, rows, history>>

\* A POST_TOOL_USE hook blocks: the result is withheld and nothing saved.
HookBlocks(p) ==
  /\ thread[p] = "free"
  /\ Respond(p, Failed("failed"))
  /\ UNCHANGED <<ask, pc, tries, answer, hub, rows, records, history>>

\* The record outlives its idempotency window, which is far longer than
\* tool-hub's memory of the answer.
RecordExpires(k) ==
  /\ records[k] # NoRecord
  /\ completed[k] = NoAnswer
  /\ records' = [records EXCEPT ![k] = NoRecord]
  /\ forgotten' = forgotten \cup {k}
  /\ UNCHANGED <<ask, pc, tries, answer, hub, thread, reply, rows, abandoned>>
----------------------------------------------------------------------------
CallStep(c) ==
  \/ Replay(c) \/ Refuse(c) \/ Reserve(c) \/ Post(c) \/ Unreached(c)
  \/ GiveUp(c) \/ Receive(c) \/ Finish(c) \/ Fail(c)

ThreadStep(p) ==
  \/ Build(p) \/ BuildFails(p) \/ Gated(p) \/ Lookup(p)
  \/ Save(p) \/ HookBlocks(p)

Next ==
  \/ \E c \in Calls : CallStep(c)
  \/ \E p \in Posts : ThreadStep(p)
  \/ \E k \in Keys : Forget(k) \/ RecordExpires(k)
  \/ HubRestart

Spec == Init /\ [][Next]_vars

\* The thread of a call keeps running; an attempt is bounded by the timeout
\* of the HTTP client, which GiveUp stands for.
Fairness == \A c \in Calls : WF_vars(CallStep(c))

FairSpec == Spec /\ Fairness
----------------------------------------------------------------------------
TypeOK ==
  /\ ask \in [Calls -> Requests]
  /\ pc \in [Calls -> {"new", "open", "posted", "final", "answered", "refused"}]
  /\ tries \in [Calls -> 0..MaxAttempts]
  /\ answer \in [Calls -> Answers \cup {NoAnswer}]
  /\ inflight \subseteq Keys
  /\ completed \in [Keys -> Answers \cup {NoAnswer}]
  /\ thread \in [Posts -> {"none", "begun", "written", "free", "ended"}]
  /\ reply \in [Posts -> Answers \cup {NoAnswer}]
  /\ rows \subseteq Posts
  /\ records \in [Keys -> Records \cup {NoRecord}]
  /\ abandoned \subseteq Keys
  /\ forgotten \subseteq Keys

\* Two callers that were told their write is done under one key were told
\* of one and the same row, unless a post of that key was still running when
\* tool-hub gave up on it (or restarted), or the record has expired: the
\* reservation of tool-hub is all that keeps two threads from looking up the
\* record before either saves it.
Told(c) == pc[c] = "answered" /\ answer[c] \in Effects

AnswersAgree ==
  \A c, d \in Calls :
    /\ Told(c) /\ Told(d) /\ Key(c) = Key(d)
    /\ Key(c) \notin abandoned \cup forgotten
    => answer[c].row = answer[d].row

\* business-tools never answers a call with a row that was written for
\* another payload, whatever was given up, replayed or expired; tool-hub's
\* own memory does not look at the payload.
RepliesMatchPayload ==
  \A p \in Posts :
    reply[p] \in Effects => ask[reply[p].row[1]].body = ask[p[1]].body

\* Every call that tool-hub has accepted is answered or fails, and its key
\* is free for another call again.
KeyIsFreed == \A k \in Keys : k \in inflight ~> k \notin inflight

\* What the class comment of StaticBusinessTool promises (authorisation
\* short-circuits, confirmation and idempotency are enforced so that the
\* builders need not): a row is inserted only for a call that passes the
\* gates and finds no record under its key.
GatedEffects ==
  [][\A p \in rows' \ rows :
       ask[p[1]].gate = "clear" /\ records[Key(p[1])] = NoRecord]_vars
----------------------------------------------------------------------------
\* A key as its callers know it, unless the exceptions of AnswersAgree apply.
RowOf(k) == IF records[k] = NoRecord THEN NoRecord ELSE records[k].row

ToldOf(k) == {<<c, answer[c].row>> : c \in {d \in Calls : Told(d) /\ Key(d) = k}}

Entries == [k \in Keys |-> IF k \in abandoned \cup forgotten
                           THEN [row |-> NoRecord, told |-> {}]
                           ELSE [row |-> RowOf(k), told |-> ToldOf(k)]]

Writes == INSTANCE KeyedWrites
            WITH Rows <- Posts, NoRow <- NoRecord, entry <- Entries,
                 lost <- abandoned \cup forgotten

\* tool-hub and business-tools together keep what an idempotency key promises,
\* although the record is looked up and saved by threads that know nothing of
\* each other: it is saved once, and replays, repetitions and first answers name
\* the row it was saved with.
ImplementsWrites == Writes!Spec
============================================================================
