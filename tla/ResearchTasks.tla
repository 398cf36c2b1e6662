---------------------------- MODULE ResearchTasks ----------------------------
(* The tasks of the research service, for one user.                         *)
(*                                                                          *)
(* The rows of the tasks and of the idempotency keys are in MySQL.  A       *)
(* request works through a store object, whose lock it holds from the       *)
(* SELECT of a transaction to its COMMIT; what it writes are the columns it *)
(* has changed of the row it has read.  The store of a process is made by   *)
(* its first request, or by several first requests at once, and fills an    *)
(* empty database with the bootstrap file.  Reading a task moves it on:     *)
(* from queued to running, and to completed once it is old enough.          *)
EXTENDS Naturals, FiniteSets

CONSTANTS
  Creates,    \* POST requests; a task is named after the one that inserts it
  Polls,      \* requests that read one task, or list them all
  Cancels,    \* cancel requests
  Archives,   \* DELETE requests
  Key,        \* the idempotency key of a create
  Payloads,   \* what may be asked for with it
  Procs,      \* processes of the service
  Home,       \* the process of a request
  None,       \* no store, no task, no row
  MaxCrashes  \* bound on crashes

Requests == Creates \cup Polls \cup Cancels \cup Archives
Tasks    == Creates

ASSUME RequestsAssumption ==
  /\ Creates \cap (Polls \cup Cancels \cup Archives) = {}
  /\ Polls \cap (Cancels \cup Archives) = {} /\ Cancels \cap Archives = {}
ASSUME HomeAssumption    == Home \in [Requests -> Procs]
ASSUME NoneAssumption    == None \notin Requests
ASSUME CrashesAssumption == MaxCrashes \in Nat

\* The status `failed' is reached from no route.
Ended == {"completed", "cancelled"}
Row   == [status : {"queued", "running"} \cup Ended, ready : BOOLEAN, deleted : BOOLEAN]

ASSUME NoRowAssumption == None \notin Row

Rows == [Tasks -> Row \cup {None}]

VARIABLES
  payload,     \* what a create asks for
  crashes,     \* crashes that may still happen
  rows,        \* the rows of the tasks
  keys,        \* the tasks with a row for their idempotency key
  due,         \* the tasks older than the time to auto-completion
  cached,      \* the store of a process (get_research_store)
  store,       \* the store of a request
  pc,          \* where a request is
  task,        \* the task that answers a create
  copy,        \* the rows as a request has read them
  dirty,       \* and as it has changed them
  overwritten, \* history: tasks whose row was written from an outdated copy
  wiped        \* history: tasks deleted by the making of a store

request == <<store, pc, task, copy, dirty>>
history == <<overwritten, wiped>>
vars    == <<payload, crashes, rows, keys, due, cached, request, history>>

\* (Mutant: a row begins with what the create is answered.)
AcceptedRow == [status |-> "accepted", ready |-> FALSE, deleted |-> FALSE]

NewRow == [status |-> "queued", ready |-> FALSE, deleted |-> FALSE]
Absent == [t \in Tasks |-> None]

Init ==
  /\ payload \in [Creates -> Payloads]
  /\ crashes = MaxCrashes
  /\ rows = Absent
  /\ keys = {}
  /\ due = {}
  /\ cached = [p \in Procs |-> None]
  /\ store = [r \in Requests |-> None]
  /\ pc = [r \in Requests |-> "new"]
  /\ task = [c \in Creates |-> None]
  /\ copy = [r \in Requests |-> Absent]
  /\ dirty = [r \in Requests |-> Absent]
  /\ overwritten = {} /\ wiped = {}

Goto(r, label) == pc' = [pc EXCEPT ![r] = label]

\* A transaction is over, and with it what the request knows of the rows.
Forget(r) ==
  /\ copy' = [copy EXCEPT ![r] = Absent]
  /\ dirty' = [dirty EXCEPT ![r] = Absent]

\* A request that holds the lock of its store between two steps.
Holds(r) == pc[r] \in {"insert", "commit"}

\* (Mutant: the transactions of a store do not exclude each other.)
FreeAnyway(r) == r \in Requests

Free(r) == \A q \in Requests \ {r} : store[q] = store[r] => ~Holds(q)

\* A row that a request can see.
Visible(t) == rows[t] # None /\ ~rows[t].deleted
----------------------------------------------------------------------------
\* get_research_store and the construction of a store

Enter(r) ==
  /\ pc[r] = "new"
  /\ IF cached[Home[r]] = None
     THEN store' = [store EXCEPT ![r] = r] /\ Goto(r, "check")
     ELSE store' = [store EXCEPT ![r] = cached[Home[r]]] /\ Goto(r, "ready")
  /\ UNCHANGED <<payload, crashes, rows, keys, due, cached, task, copy, dirty, history>>

\* The first store that is ready stays the one of the process.
Made(r) ==
  /\ cached' = [cached EXCEPT ![Home[r]] = IF @ = None THEN r ELSE @]
  /\ Goto(r, "ready")

\* _bootstrap_if_needed looks for rows, and if there are none
CheckRows(r) ==
  /\ pc[r] = "check"
  /\ IF rows = Absent /\ keys = {}
     THEN Goto(r, "wipe") /\ UNCHANGED cached
     ELSE Made(r)
  /\ UNCHANGED <<payload, crashes, rows, keys, due, store, task, copy, dirty, history>>

\* replaces them all by those of the file, which has none.
Wipe(r) ==
  /\ pc[r] = "wipe"
  /\ rows' = Absent
  /\ keys' = {}
  /\ wiped' = wiped \cup {t \in Tasks : rows[t] # None}
  /\ Made(r)
  /\ UNCHANGED <<payload, crashes, due, store, task, copy, dirty, overwritten>>
----------------------------------------------------------------------------
\* create_task

WithKey(c) == {t \in keys : Key[t] = Key[c]}

\* The answer to a create whose key is known: its task, unless payloads differ.
Replay(c, t) ==
  IF payload[t] = payload[c]
  THEN task' = [task EXCEPT ![c] = t] /\ Goto(c, "load")
  ELSE UNCHANGED task /\ Goto(c, "failed")

Look(c) ==
  /\ pc[c] = "ready" /\ Free(c)
  /\ IF WithKey(c) = {}
     THEN Goto(c, "insert") /\ UNCHANGED task
     ELSE \E t \in WithKey(c) : Replay(c, t)
  /\ UNCHANGED <<payload, crashes, rows, keys, due, cached, store, copy, dirty, history>>

\* (Mutant: the key is not unique in the database.)
InsertAnyway(c) ==
  /\ pc[c] = "insert"
  /\ rows' = [rows EXCEPT ![c] = NewRow]
  /\ keys' = keys \cup {c}
  /\ task' = [task EXCEPT ![c] = c]
  /\ Goto(c, "load")
  /\ UNCHANGED <<payload, crashes, due, cached, store, copy, dirty, history>>

\* The flush fails where another replica has inserted the key since.
Insert(c) ==
  /\ pc[c] = "insert"
  /\ IF WithKey(c) = {}
     THEN /\ rows' = [rows EXCEPT ![c] = NewRow]
          /\ keys' = keys \cup {c}
          /\ task' = [task EXCEPT ![c] = c]
          /\ Goto(c, "load")
     ELSE /\ \E t \in WithKey(c) : Replay(c, t)
          /\ UNCHANGED <<rows, keys>>
  /\ UNCHANGED <<payload, crashes, due, cached, store, copy, dirty, history>>

\* A create goes on with get_task_record.
Loads(r) == pc[r] = IF r \in Creates THEN "load" ELSE "ready"
----------------------------------------------------------------------------
\* What a request makes of the rows it has read

\* (Mutant: a read completes what was cancelled.)
MaybeCompleteAny(t, row) ==
  IF row.ready THEN row
  ELSE IF t \in due THEN [row EXCEPT !.status = "completed", !.ready = TRUE]
  ELSE IF row.status = "queued" THEN [row EXCEPT !.status = "running"]
  ELSE row

\* _maybe_complete
MaybeComplete(t, row) ==
  IF row.status \in Ended \/ row.ready THEN row
  ELSE IF t \in due THEN [row EXCEPT !.status = "completed", !.ready = TRUE]
  ELSE [row EXCEPT !.status = "running"]

\* (Mutant: a cancel does not look at the status.)
RefusesUnfinished(r, row) == r \in Archives /\ row.status \notin Ended

\* cancel_task and archive_task raise, and what was changed is rolled back.
Refuses(r, row) ==
  \/ r \in Cancels /\ row.status = "completed"
  \/ r \in Archives /\ row.status \notin Ended

Change(r, row) ==
  IF r \in Cancels THEN [row EXCEPT !.status = "cancelled"]
  ELSE IF r \in Archives THEN [row EXCEPT !.deleted = TRUE]
  ELSE row

\* The tasks a request may ask for.
Asked(r) ==
  IF r \in Creates THEN {{task[r]}}
  ELSE {{t} : t \in Tasks}
         \cup IF r \in Polls THEN {{t \in Tasks : Visible(t)}} ELSE {}

\* 404 for a task that is not there, 409 for one that must not be changed.
Denied(r, t) == Visible(t) => Refuses(r, MaybeComplete(t, rows[t]))

Select(r) ==
  /\ Loads(r) /\ Free(r)
  /\ \E S \in Asked(r) :
       \/ /\ \E t \in S : Denied(r, t)
          /\ Goto(r, "failed")
          /\ UNCHANGED <<copy, dirty>>
       \/ /\ \A t \in S : ~Denied(r, t)
          /\ copy' = [copy EXCEPT ![r] = [t \in Tasks |-> IF t \in S THEN rows[t] ELSE None]]
          /\ dirty' = [dirty EXCEPT ![r] =
               [t \in Tasks |-> IF t \in S THEN Change(r, MaybeComplete(t, rows[t])) ELSE None]]
          /\ Goto(r, "commit")
  /\ UNCHANGED <<payload, crashes, rows, keys, due, cached, store, task, history>>
----------------------------------------------------------------------------
\* The COMMIT: an UPDATE of the changed columns of every changed row

Changed(r) == {t \in Tasks : dirty[r][t] # copy[r][t]}

Merge(now, was, new) ==
  [column \in DOMAIN now |-> IF new[column] # was[column] THEN new[column] ELSE now[column]]

Commit(r) ==
  /\ pc[r] = "commit"
  /\ \A t \in Changed(r) : rows[t] # None
  /\ rows' = [t \in Tasks |-> IF t \in Changed(r)
                               THEN Merge(rows[t], copy[r][t], dirty[r][t]) ELSE rows[t]]
  /\ overwritten' = overwritten \cup {t \in Changed(r) : copy[r][t] # rows[t]}
  /\ Goto(r, "done") /\ Forget(r)
  /\ UNCHANGED <<payload, crashes, keys, due, cached, store, task, wiped>>

\* A row that is gone fails the transaction.
CommitFails(r) ==
  /\ pc[r] = "commit"
  /\ \E t \in Changed(r) : rows[t] = None
  /\ Goto(r, "failed") /\ Forget(r)
  /\ UNCHANGED <<payload, crashes, rows, keys, due, cached, store, task, history>>
----------------------------------------------------------------------------
\* Time passes, and processes die with their stores and requests.

Grow(t) ==
  /\ t \notin due /\ rows[t] # None
  /\ rows[t].status \notin Ended
  /\ due' = due \cup {t}
  /\ UNCHANGED <<payload, crashes, rows, keys, cached, request, history>>

Lost(r, p) == Home[r] = p /\ pc[r] \notin {"new", "done", "failed"}

Crash(p) ==
  /\ crashes > 0 /\ crashes' = crashes - 1
  /\ cached' = [cached EXCEPT ![p] = None]
  /\ pc' = [r \in Requests |-> IF Lost(r, p) THEN "failed" ELSE pc[r]]
  /\ copy' = [r \in Requests |-> IF Lost(r, p) THEN Absent ELSE copy[r]]
  /\ dirty' = [r \in Requests |-> IF Lost(r, p) THEN Absent ELSE dirty[r]]
  /\ UNCHANGED <<payload, rows, keys, due, store, task, history>>
----------------------------------------------------------------------------
Handle(r) ==
  \/ Enter(r) \/ CheckRows(r) \/ Wipe(r) \/ Select(r) \/ Commit(r) \/ CommitFails(r)

Next ==
  \/ \E r \in Requests : Handle(r)
  \/ \E c \in Creates : Look(c) \/ Insert(c)
  \/ \E t \in Tasks : Grow(t)
  \/ \E p \in Procs : Crash(p)

Spec == Init /\ [][Next]_vars
----------------------------------------------------------------------------
Labels == {"new", "check", "wipe", "ready", "insert", "load", "commit", "done",
           "failed"}

\* Every variable has its type.
TypeOK ==
  /\ payload \in [Creates -> Payloads]
  /\ crashes \in 0..MaxCrashes
  /\ rows \in Rows
  /\ keys \subseteq Tasks /\ due \subseteq Tasks
  /\ cached \in [Procs -> Requests \cup {None}]
  /\ store \in [Requests -> Requests \cup {None}]
  /\ pc \in [Requests -> Labels]
  /\ task \in [Creates -> Tasks \cup {None}]
  /\ copy \in [Requests -> Rows] /\ dirty \in [Requests -> Rows]
  /\ overwritten \subseteq Tasks /\ wiped \subseteq Tasks

\* An ended task keeps its status until its row is gone, unless two stores
\* have changed the row at the same time (cancel_task answers 409 for what is
\* completed, and _maybe_complete leaves alone what is cancelled).
EndedIsFinal ==
  [][\A t \in Tasks \ overwritten' :
       /\ rows[t] # None /\ rows'[t] # None
       /\ rows[t].status \in Ended
       => rows'[t].status = rows[t].status]_vars

\* With the same exception: a task has a result iff it is completed, and what
\* is archived has ended.
RowsAreCoherent ==
  \A t \in Tasks \ overwritten :
    rows[t] # None => /\ rows[t].ready <=> (rows[t].status = "completed")
                      /\ rows[t].deleted => rows[t].status \in Ended

\* Creates with one idempotency key are answered with one task, made for the
\* key and the payload they came with, and the task stays; unless the making
\* of a store has deleted it.
Answered(c) == pc[c] = "done" /\ task[c] \notin wiped

OneTaskPerKey ==
  /\ \A c \in Creates : Answered(c) =>
       /\ rows[task[c]] # None
       /\ Key[task[c]] = Key[c] /\ payload[task[c]] = payload[c]
  /\ \A c, d \in Creates :
       Answered(c) /\ Answered(d) /\ Key[c] = Key[d] => task[c] = task[d]

\* The lock of a store is enough for the requests that share it: as long as
\* there is one store, nothing is written from an outdated copy and the filling
\* of the empty database deletes no accepted task.
OneStore == \E s \in Requests : \A r \in Requests : store[r] \in {s, None}

SharedStoreIsSafe == OneStore => overwritten = {} /\ wiped = {}
----------------------------------------------------------------------------
\* A task as the clients know it.
AsTask(t) ==
  IF t \in overwritten \cup wiped THEN [status |-> "lost", archived |-> FALSE]
  ELSE IF rows[t] = None THEN [status |-> "absent", archived |-> FALSE]
  ELSE [status |-> rows[t].status, archived |-> rows[t].deleted]

Entries == [t \in Tasks |-> AsTask(t)]

Board == INSTANCE TaskBoard WITH board <- Entries

\* The requests of all replicas make one board of tasks, although each reads
\* rows, changes its copies and writes columns back later: no task is accepted
\* beside another one of its key, completed before its time, or brought back
\* from its end or from the archive, unless its row was written from an outdated
\* copy or deleted by the making of a store.
ImplementsBoard == Board!Spec
=============================================================================
