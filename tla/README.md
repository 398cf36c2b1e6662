# SmartCloud-X: TLA+ models of the orchestration core and its services

SmartCloud-X is a cloud-service assistant: a web client talks to a gateway,
the gateway to an orchestrator, the orchestrator routes a message to agents,
which call tools (tool hub, business tools), retrieval (RAG, knowledge) and
answer.  This directory specifies the parts of that system whose correctness
depends on order, concurrency and failure, checks them with TLC on small
instances and proves the central facts with TLAPS for instances of any size.

## 1. Inventory

| Part | State it keeps | Operations | What is hard |
|---|---|---|---|
| Run control (`run_control.py`) | per process: table `_runs` under an RLock, a Redis client or none; shared: a lease `active:<conv>`, a flag `cancel:<conv>:<msg>` | `start`, `ensure_not_cancelled`, `finish`, `cancel` | check-then-act over Redis, leases that lapse, fail-open and strict degradation, crashes |
| Message execution (`orchestration.py`, `orchestration_handoff.py`) | the status of a conversation, its messages, the pending handoff of its last snapshot | send, continue, retry, cancel, archive, restore, delete, rollback | requests of one conversation interleave with each other and with status changes; errors between two writes |
| Session state store (`state_store.py`) | snapshot with a version in MySQL, Redis, memory and a file | `save`, `get`, degrade, restore | four copies, no common lock; what survives a degraded period |
| Conversation store (`conversation_store.py` and mixins) | records, messages and contexts in MySQL, Mongo, Redis, memory, file | ensure, set status, store exchange, continuation, cancelled exchange | a saga over Mongo and MySQL; a cache that is preferred to the authority |
| SSE event store, streaming | event list per conversation and message | replace, page, replay | delete + push + expire is not atomic; replay from an event id |
| Tool-call loop, agent runtime | the plan of a turn | permission, confirmation, cancellation checkpoints | which calls run without confirmation |
| Session memory, compaction | extracted memory per conversation | background extraction | lost update between two extractions |
| Mailbox, coordinator | worker mailboxes in Redis, phases | send, read, run phases | messages dropped while degraded |
| Business tools | idempotency records, query cache, business rows | get, execute, save; invalidate; compensate | double execution, stale reads, double compensation |
| Tool hub | keys reserved and answers remembered in memory, audit log, MCP sessions | reserve, post, retry, replay, lifecycle | a retry beside the attempt it replaces; replay of a call in progress |
| Knowledge service | documents and chunks, an outbox file, a Redis list, two indexes | import, publish, claim, index, mark | a file rewritten by processes without a common lock; retries; partial indexing |
| Research service (`research-service/app/store.py`) | tasks and idempotency keys in MySQL, a store object per process | create, read, list, cancel, archive | a read that writes; a lock per store object, several stores per database |
| RAG, marketing, auth, gateway | caches, campaigns, tokens, settings | CRUD, rotation, rate limit | token rotation |
| Web clients, SDK, deployment, schemas | - | - | presentation and configuration |

### How the parts interact

* The gateway forwards every chat request to one of several orchestrator
  processes.  A request is handled on a thread of its own; nothing pins the
  requests of a conversation to a process or orders them.
* A turn (message, retry, continuation) first makes or checks the conversation
  record, then takes the conversation's *slot* with `run_control.start`, runs
  agents and tools, saves the session snapshot, stores the exchange, and gives
  the slot back in a `finally`.  Between `start` and `finish` it polls
  `ensure_not_cancelled` (a checkpoint) before and after tool calls.
* Archive, restore, delete, cancel and rollback do **not** take the slot.  They
  meet turns only in the stores.
* Every store method is one or two MySQL transactions.  A method that changes a
  record reads it in one and replaces the whole row in another.
* A write tool goes from the orchestrator to the tool hub, which reserves the
  call's idempotency key in memory, and from there, with time-outs and retries,
  to business-tools, where every post has a thread of its own.
* An ingestion saves a document and publishes an event in an outbox that worker
  processes of the knowledge service drain into the indexes.
* The research service keeps its tasks in a MySQL database its replicas share;
  a client polls, and reading is what moves a task on.
* Run control keeps a table per process under a lock; Redis keys (a lease and a
  cancel flag) couple the processes.  Without Redis a process is on its own
  (fail-open) or refuses (strict mode).

### What makes each part correct

| Part | Correct when |
|---|---|
| Run control | one process never runs two messages of a conversation; across processes that happens only to an execution that lost or never had its lease; strict mode never runs unclaimed; an accepted cancel is seen by the next checkpoint; no entry and no lease stays for ever |
| Message execution | turns do not lose each other's compensation steps and handoffs; a closed conversation is not reopened behind the back of the request that closed it; every turn gives its slot back; what a turn wrote can be compensated |
| Session state store | without faults the replicas share one register; what a save was acknowledged for survives outages and restarts |
| Conversation store | MySQL and Mongo agree after a failed step of the saga; a cache hit is never older than the last write the reader made |
| SSE events | a replay from an event id sees every later event once, in order |
| Business tools, tool hub | the callers of one idempotency key are told of one row, and of no other payload's; a key is given back; a write invalidates what it changed; a compensation is executed once |
| Knowledge service | an event is indexed by one worker at a time, completed only when indexed and then left alone; a published event is taken up |
| Research service | one task per idempotency key; an ended task stays as it ended; no accepted task disappears |
| Auth | a rotated token is not accepted again |

## 2. Modules

| Module | What it is | Source |
|---|---|---|
| `RunSlots` | abstract: one slot per process and conversation, begun when empty, ended by its own execution or a restart | the promise of `start` / `finish` |
| `KeyedWrites` | abstract: one row per idempotency key, written once, of which all callers are told | the promise of the idempotency records |
| `WorkQueue` | abstract: a waiting job is claimed by one worker, which alone says what has become of it | the promise of the outbox |
| `TaskBoard` | abstract: one task per key, from acceptance to its end and the archive | the promise of the research routes |
| `RunControl` | the run control, every Redis call a step | `services/run_control.py` |
| `ChatSession` | the requests of one conversation on one process, every transaction a step | `api/routes/orchestration*.py`, `conversation_store.py`, `conversation_mysql_*.py`, `state_store.py` |
| `SnapshotStore` | the four copies of one conversation's snapshot on several processes, with outages, crashes and starts | `services/state_store.py` |
| `ToolExecution` | a write tool from the tool hub's reservation to the business row, with retries, lost threads and restarts | tool hub `tools.py`, `idempotency.py`, `business_tools_client.py`; business-tools `_static_tool.py`, `idempotency.py`, `domains/billing.py` |
| `IndexingOutbox` | publication, claim, indexing and completion of outbox events by several processes | knowledge-service `runtime_sync.py`, `indexing_worker.py`, `store.py` |
| `ResearchTasks` | the tasks of a user on several replicas with one database | research-service `store.py`, `routes.py` |
| `X_proofs` | for each detailed module: its inductive invariant and its theorems | |
| `MC_X`, `X_*.cfg` | instances for TLC | |

`RunControl` and `ChatSession` are composed through `RunSlots`: `RunControl` is
shown to implement it for each process, and `ChatSession` uses the slot of one
process as `RunSlots` allows (both have `ImplementsSlots` as a property and a
theorem).  What `ChatSession` shows is therefore about the conversation's
requests on one process, or on several as long as none of them lost its lease.
`SnapshotStore` stands behind two of `ChatSession`'s steps, the read and the save
of the snapshot, which `ChatSession` takes for those of one register: that is
what `ReadsAreRegular` says while nothing fails and no get has refilled the
cache (`refilled`), and section 6 lists what happens otherwise.  `ToolExecution` is what stands behind the tool call of a
turn (`Work`).  The last two are services of their own.

`ToolExecution`, `IndexingOutbox` and `ResearchTasks` each implement an abstract
specification that knows nothing of reservations, files, lists, stores or
transactions.  The refinement mappings stand at the end of the detailed modules.
All three abstract specifications may lose an item, and then promise nothing of
it any more; the mapping says which items the code loses, by the same histories
that the exceptions of the invariants use (`abandoned` and `forgotten`, `raced`,
`overwritten` and `wiped`).  So each theorem says two things: what the service
promises its clients, and that nothing else than the named races breaks it.

### RunControl and the code

State: `up` (does Redis answer), `active` and `cancelKeys` (the two kinds of
key), `timed` (the leases that were written with a time to live), `conn` (`_redis_client` is not `None`), `lock` (the RLock), `runs`
(`_runs`), `flagged` (`ActiveRun.cancelled`), and per thread `pc`, `job`, `hit`.
`lease` and `stop` are history: no guard reads them.

| Method | Actions |
|---|---|
| `start` | `StartRequest` (first `_require_backend`), `StartLocked` (table), `SetNX`, `ReadOwner`, `ReclaimDelete`, `ReclaimSet` (`_claim_remote_run`), `Admit` (second `_require_backend`, registration) |
| `ensure_not_cancelled` | `CheckEnter`, `CheckRemote`, `RefreshRead`, `RefreshSet`, `Extend` (`_refresh_remote_run`) |
| `finish` | `FinishEnter`, `ReleaseRead`, `ReleaseDelete`, `ReleaseCancelKey` |
| `cancel` | `CancelRequest`, `CancelRead`, `CancelSet` |
| environment | `LeaseExpires`, `CancelKeyExpires`, `RedisSwitch`, `Crash` |

A failed Redis call degrades the process, `_maybe_restore_backend` may restore
it whenever Redis answers (its retry deadline is a nondeterministic choice).
Times are not counted: a lease with a time to live may lapse at any moment, and
`Prolongs` marks the steps that begin its time anew (`SET`, and the `EXPIRE` of
a checkpoint or of an accepted cancel).

### ChatSession and the code

State: the status of the conversation record, the messages whose exchange is
stored, the session snapshot (compensation stack and pending handoff), the slot
and the cancel flag, and per request its kind, its place, its plan (message,
task, tasks whose tool wrote, how the turn ends), the copy of the snapshot its
handler holds, and its answer.  `missed` and `caught` are history.

| Route | Steps |
|---|---|
| `chat_completions`, `orchestrate_message` | `Ensure`, `Create`, `ReadStatus`, `WriteStatus`, `Start`, then `AnswerFromFaq` or `Work`, `Respond`, `ReadSnap`, `SaveSnap`, then `ReadRecord`, `StoreExchange`, `Finish` |
| `retry_chat_session` | `Retry`, then as above |
| `continue_chat_session` | `Require`, `LookForHandoff`, then `Start` .. `Finish` with the handoff's message, or a new message |
| cancelled turn | `Stop`, `ReadRecord`, `StoreExchange`, `ReadSnap`, `SaveSnap`, `Finish`; a cancelled continuation goes from `Stop` to `Finish` |
| `archive`, `delete`, `restore` | (`Require`,) `ReadStatus`, `WriteStatus` |
| `rollback_session` | `Require`, `LookForStack`, `Compensate` per step, `SaveRollback` |
| `cancel_chat_session` | `Cancel` |

Abstractions: a tool's write is "the task is in `turn`" (a repeated write of the
same message and step is absorbed by the idempotency key); a compensation step
is its id, its message and its state, and the stack is a set; texts, agents,
contexts, events and memory are left out; every request carries a message id of
its own; one task runs per turn, since each route pauses on a handoff.

### SnapshotStore and the code

State: the MySQL `row`, the Redis `cache`, each process' `mirror` (`_snapshots`),
`spool` (its fallback file), `hasDb` (`_backend`) and `hasCache`
(`_redis_client`), and per call where it is, the version it has `seen` and the
snapshot it has `held`.  A snapshot is a version and the save it came from.

| Method | Actions |
|---|---|
| `save`, `get`: connections | `Begin`; `SkipCache`, `ConnectCache`, `Push`, `PushFails` (`_maybe_restore_runtime_cache`); `SkipDb`, `PingFails`, `ConnectDb` (`_maybe_restore_backend`) |
| `_bootstrap_backend_from_local_unlocked` | `Compare`, `CompareFails`, `Import`, `ImportFails`, by a call or a starting process |
| `save` | `Select`, `Replace`, `SaveFails`; `Spool` when degraded |
| `get` | `Lookup`, `LookupFails`, `Read`, `ReadFails`, `Local` |
| both | `Fill`, `FillFails` (Redis), `Mirror` (memory, file, answer) |
| process | `Crash`, then `configure_persistence`: `Compare` .. `Import`, `Started`, `StartedUncached` |

The lock of a process is held across calls only by a restoration (`Restoring`);
every step that needs the lock has `Free` as a guard.  A call that fails may have
been carried out.  The deadline of the next connection attempt is a
nondeterministic choice.  `crossed`, `refilled`, `regressed`, `reverted`,
`spread` and `behind` are history; each names one way in which the code loses or
hides a save.

### ToolExecution and the code

State: for a call its request (key, payload, what the gates say), its place in
the tool hub, the posts made and the answer; the hub's `inflight` and
`completed`; for a post its thread in business-tools and its reply; the rows and
the idempotency records.

| Code | Actions |
|---|---|
| `IdempotencyCoordinator.reserve` | `Replay`, `Refuse`, `Reserve` |
| `invoke_call`, `_invoke_via_http` | `Post`, `Unreached`, `GiveUp` (time-out or 502/503/504), `Receive` |
| `_invoke_call`: audit, store, release | `Finish`, `Fail`; `_prune` is `Forget` |
| `StaticBusinessTool.invoke` | `Build` or `BuildFails`, `Gated`, `Lookup`, `Save`, `HookBlocks` |
| environment | `RecordExpires`, `HubRestart` |

A post that the hub has given up on keeps its thread.  `Build` is the insert of
the `billing.create_invoice` builder, and the other `execute` builders have the
same place.  Confirmation, authorisation and hooks are one value of the request
or one nondeterministic outcome.

`ImplementsWrites` maps a key to the row of its record and to the callers that
were answered under it with a row (`Told`).  `Save` is the abstract `Write`,
`Finish` and `Replay` are `Tell`; everything else is invisible or loses keys.

### IndexingOutbox and the code

State: the catalogue as saved, each worker's copy of it, the two indexes, the
outbox `file` (ids in order, a status each), the Redis list `pending`, and per
process what it has read of the file and what it is about to write.

| Code | Actions |
|---|---|
| `save_document` / `replace_document_chunks`, then `enqueue` | `Save`, `EnqueueFails`, `Enqueue`, `Open`, `Flush`, `Push` |
| `claim_next_event` | `Pop`, `Claim`, `Scan`, then `Open`, `Flush` |
| `process_next_event` | `Load`, `Upsert` (per index), `PublishState`, `ConnectorFails`, `Mark`, `Open`, `Flush`, `Settle` |
| environment | `WorkerRestarts`, `RequestDies` |

`write_text` is two steps, the truncation and the lines.  `ideal` (the status an
event was last given), `raced` (events a process misread, or whose status was
overwritten) and `abandoned` (events whose worker died with them in hand) are
history.

In one case `Flush` is simpler than the code.  `write_text` truncates when it
opens the file and writes from its start, so of two processes that have both
opened it before either writes, the second overwrites the bytes of the first
one's lines; if it has fewer, the tail of those stays: a line cut in two, which
`_load_events_locked` skips, and after it whole lines with an event the second
one did not know, or an older line of one it did.  The model takes the second
one's lines for the whole file.  It takes two overlapping writers of files with
different lines, that is, two events; `outbox_workers` has one event and
`outbox_drain` two requests and a worker, so the drain run and the theorems are
about writers that replace the file.  An event the model then has as lost
(`raced`) may in truth survive with its status, or twice.

`ImplementsQueue` maps an event to its `ideal` status and the workers between
its claim and its mark.  The abstract step is taken when the file is written
(`Flush`), not when a process has decided on the change, and a worker that dies
abandons its job (the events in `abandoned`).

### ResearchTasks and the code

State: the `rows` of the tasks, the tasks with a row for their `keys`, the store
of each process (`cached`) and of each request, and per request the `copy` it
has read and the rows as it has changed them (`dirty`).

| Code | Actions |
|---|---|
| `get_research_store`, `_bootstrap_if_needed` | `Enter`, `CheckRows`, `Wipe` |
| `create_task` | `Look`, `Insert`, then `Select`, `Commit` as a read (`get_task_record`) |
| `get_task_record`, `list_tasks`, result, `cancel_task`, `archive_task` | `Select` (with `_maybe_complete` and the change), `Commit` or `CommitFails` |
| environment | `Grow` (time), `Crash` |

A request holds its store's lock from `Select` to `Commit` (`Holds`, `Free`).
The UPDATE carries the changed columns only (`Merge`).  The model allows a little
more than the service: the create and result routes are coroutines without an
await inside, so two creates of one process do not really interleave.  Every row
has the tenant and user of its request, since authentication always sets them.

`ImplementsBoard` maps a task to the status and the archive mark of its row.
`Insert` is the abstract `Accept`, and `Commit` is `Read`, `Cancel` or `Archive`
by the kind of its request: what was decided at `Select` is still right at
`Commit` if the row has not changed, and counts as lost if it has.

## 3. Runs

| Run | Instance | What it shows |
|---|---|---|
| `runcontrol_cross` | 2 processes, 3 workers, 2 messages, Redis up and down, leases lapse, crashes, fail-open | one execution per conversation and process, which implements `RunSlots`; overlaps across processes are explained by a lost or missing lease |
| `runcontrol_cancel` | 2 processes, a worker on each, canceller on the second, 3 messages, restarts, Redis up | an accepted cancel is not overlooked |
| `runcontrol_live` | 2 processes, a worker on each, no canceller, strict, all failures, fair | never unclaimed in strict mode; entries of the table and leases end |
| `runcontrol_replicas` (violation) | 2 processes, 3 workers, strict, nothing fails | the reclaim deletes a live lease: two executions |
| `session_turns` | 3 requests of any turn or rollback, 2 tasks, faults | turns see each other's saves, answered writes stay armed, an answered handoff is not resumed again by one that comes later, the slot is used as promised |
| `session_status` | a turn or rollback, a change, a change or message; 2 tasks, faults, fair | who reopens a closed conversation; the slot is freed, by the resume of a handoff too |
| `snapshot_calls` | 2 processes, 2 saves, 1 or 2 gets, up to 2 faults | reads are regular while nothing fails; every loss of an acknowledged save is explained |
| `toolexec_calls` | 2 calls, 1 key, 2 payloads, 2 attempts each, fair | callers are told of one row, of no other payload's; the key is given back; `KeyedWrites` is implemented |
| `toolexec_gates` (violation) | the same | a row is written for a call the gates or the record then stop |
| `outbox_drain` | 2 events of one document, 1 worker, 1 fault, fair | completions are indexed and final; a published event is taken up; `WorkQueue` is implemented |
| `outbox_workers` | 1 event, 2 workers, up to 3 faults | one worker per event, which keeps it until it is marked or the worker dies; `WorkQueue` is implemented |
| `research_requests` | 2 creates with one key, a read, a cancel and an archive on 2 replicas, an empty database, 1 crash | one task per key, ended tasks stay as they ended, and the exceptions need two stores; `TaskBoard` is implemented |

`CHECK_DEADLOCK FALSE` is set where each request or call is made once: when all
are answered the system rests.

**Bounds, and why they are enough to be interesting.**  One conversation, one
key or one document suffices wherever no code path touches two.

* Run control needs at most three actors: the holder of the lease, one that has
  read it and is about to delete it, and one that claims in between.  Two
  messages differ; a third one matters only where ids are not reused.
* In a conversation a lost update needs a reader, a writer in between and a
  save: two requests.  The third one is the rollback, or the change of status
  that closes what another opens.  Two tasks make a handoff, its continuation
  and the end of a route.
* `SnapshotStore`: `MaxFaults = 2` is an outage of MySQL and one more failure,
  or a crash in the outage.  Processes recover without a bound.  Two saves, one
  on each process, race, or lose one to the other's outage; the second get
  matters for the refill race only, which needs no fault, and the state
  constraint `SecondGetWithoutFaults` lets it begin only there.  Versions are
  bounded by the number of saves.  Three exceptions lose a save only beyond these
  bounds, and it is the proof that found them: a mirror overwritten by the slow
  save of its own process (3 saves on a process), a version put back (5 saves)
  and a snapshot spread through Redis (4 faults).  With 3 saves on a process TLC
  takes 8.4 million states, too many for a run kept beside the others; the
  theorem covers every size.
* `ToolExecution`: `MaxAttempts = 2` is one retry beside the attempt it
  replaces.  Two calls share a key, with the same payload or another.
* `IndexingOutbox`: `MaxFaults` bounds crashes and failing disks and Redis; the
  workers' retries after failed connectors are not bounded.  Two writers of the
  file suffice for a lost update: two requests, a request and a worker, or two
  workers.
* `ResearchTasks`: two stores race, on two replicas or in one process;
  `MaxCrashes = 1` brings a process back beside a running one.  The action
  constraint `NothingToRefuse` leaves out reads and cancels before there is a
  task and archives before one has ended, which find nothing; the store such a
  request might make, and the tasks it might wipe, are left to the creates.  The
  two payloads are symmetric.

Every unbounded counter is left out or bounded this way; threads and requests
are fixed sets.

## 4. Fairness

`RunControl!FairSpec`: a thread inside a method keeps running (weak fairness of
its steps outside the lock), gets the lock it waits for again and again (strong
fairness of `StartLocked` and `Finish`: the RLock is released after finitely
many steps and the interpreter switches threads), an execution ends (tools,
models and agents have timeouts: strong fairness of `EndRun`, which a checkpoint
may disable for a moment), and Redis drops a lease that was written with a time
to live, unless that time is begun anew again and again for ever.  Nothing is
assumed about requests, failures, recoveries or restarts.

The last assumption leaves `LeaseEnds` to the program: every `SET` of a lease
must carry its time to live (`EX`; the mutant of `SetKey` drops it), an execution
must stop prolonging its lease, and nothing but the execution that owns it may
prolong the lease of a dead process.  The last is true of `start`, of
checkpoints and of `finish`, and not of `cancel` (section 6), which is why the
run has no canceller.

`ChatSession!FairSpec`: a handler thread keeps running.  No fairness for
cancels, crashes or the kind of step it takes.

`ToolExecution!FairSpec`: a call inside the tool hub goes on, which its HTTP
time-out bounds (`GiveUp`).  Nothing is assumed of the threads of business-tools.

`IndexingOutbox!FairSpec`: a request is served to its end and a worker's loop
goes on (it has no exit).  Nothing is assumed of the connectors, which may fail
for ever; `PublishedIsTried` is about the events behind one that always fails.

`SnapshotStore` and `ResearchTasks` have safety properties only.

## 5. Proofs

All theorems hold for any sets of processes, threads, conversations, messages,
requests, calls, keys, payloads, documents and workers, any number of attempts,
faults and crashes and any setting of the switches.  The assumptions are the
ones named in the modules; they say that constants have their types, that the
"none" values are not members of the sets they are added to, and that actors of
different kinds are different.

**RunControl_proofs.**  `TypeCorrect` needs no strengthening (`TimedStep` is its
part for the times to live).
`LocalExclusionHolds` rests on the inductive invariant `IInv`: besides local
exclusion, an entry of the table belongs to an execution that runs where it is
registered (`Registered`), the lock is held by exactly the thread inside a
locked section (`LockHeld`), and a thread inside `start()` has an empty slot
(`SlotFree`).  The last two carry the check of the table over the Redis calls
to the registration.  Every action has a step of its own; nothing about Redis
is used, which is the point: exclusion in one process does not depend on it.
`SlotsImplemented` follows: the executions of a process are what its table
names (`OccupiedIsTable`), and a step changes one cell, or the row of a process
that restarts (`TableStep`).

`OverlapExplained` and `StrictNeverUnclaimed` are about the keys in Redis and
rest on `LInv`: an execution with an undisturbed lease owns the key of its
conversation (`HeldOwnsKey`), a thread that has not claimed yet has no lease
(`NotYetClaimed`), and in strict mode one that reaches the admission with a live
client has claimed (`ClaimedIfStrict`).  `KeyStep` says that a step leaves the
keys alone, claims one, deletes one or lets one lapse; a worker keeps its lease
through each of them unless the history says otherwise.

`CancelSeen` is `Dependable /\ Spec => CancelNotOverlooked`. `Dependable` says
that Redis answers, keys do not lapse and no two executions have the message id
in common; the run `runcontrol_cancel` sets the three switches the same way.
Each is needed because of what the code does: a process that is degraded cannot
read the cancel key, and a key that lapsed, or that the `finish()` of an
earlier execution of the same id deleted, is no longer there to be read. TLC
finds the property violated when any one of the three is lifted. Under them the
process is always connected (`Connected`), a canceller that matched locally has
flagged the worker of that message (`HitIsFlagged`), and a cancel that was
accepted is recorded where a checkpoint looks: in the flag or in the key
(`AcceptedIsRecorded`).

**ChatSession_proofs.**  The inductive invariant is the conjunction of the
types, `PauseHasNext` (a turn that hands over has a next task, else the stored
handoff would name none), `SlotIsExecution` (the slot names exactly the request
between `start()` and `finish()`), `UndoIsRollback`, `TurnsSeeEachOther`,
`CaughtByDelete` and `CaughtByArchive` (whoever will still write the record of a
closed conversation had read it before).  `TurnsSeeEachOtherHolds`: a save
between a turn's read and save would be another turn's, which would hold the
slot too, or a rollback's.  `ReopenedByCaughtOnlyHolds`: no read that opens a
window succeeds on a closed conversation, and a closing write catches everyone
inside.  `SlotsImplemented`: a step that changes the slot fills it when it is
empty or empties it.

`AnsweredStepsArmedHolds` and `HandoffIsConsumedHolds` follow the snapshot from
save to save.  Both properties leave rollbacks out in their own statement, since
a rollback takes no slot and saves a stale copy; the invariant is `NoRollback =>
Undisturbed`.  Its parts: the copy a turn is about to save over is the snapshot
as it stands (`CopyIsCurrent`, from `TurnsSeeEachOther`), a turn's steps are on
the stack before it works and after it has saved (`StepsOnStack`), a pending
handoff was handed over by a turn that has saved (`HandoffIsHanded`) and is not
one that an answered continuation has consumed, unless a further continuation of
the message handed it over again (`ConsumedNotPending`), and whoever has not
looked for a handoff has a plan of its own (`PlanIsFresh`).

**SnapshotStore_proofs.**  `TypeCorrect`, with versions that are never zero.
`ReadsAreRegularHolds`: as long as no fault has happened, every process keeps
its connections and no call is inside a restoration (`Calm`); the row tells of
every acknowledged save (`Acknowledged`, `RowKnows`), a save holds its own
snapshot (`OwnSnapshot`); and if no get has refilled the cache with a replaced
row, the cache and the snapshots gets hold tell of what was acknowledged before
they began (`CacheKnows`, `GetKnows`).

`LossIsExplainedHolds` holds through every outage and crash.  In every state the
lock admits one restoration per process (`OneRestores`), a starting process has
no calls (`StartsAlone`), and what must be noted is (`Noted`, `Acknowledged`).
As long as there is nothing to explain (`Led`), at most one process leads, that
is, has in memory a higher version than the row (`OneLeads`); what it has in
memory it also has in its file (`MirrorIsSpooled`), so that a crash loses
nothing; no other file is ahead of the row (`SpoolIsBehind`), so that nothing
old is brought back; and that file, or the row if no process leads, tells of
every acknowledged save (`Newest`).  The rest follows a restoration from the
comparison to the end of the import (`ImportLeads`, `StartFollows`) and a save
from the row it has replaced to its acknowledgement (`RowHasReplaced`,
`RowHasAcked`).

The first attempt failed, and for a good reason: the explanations `crossed`,
`reverted` and `behind`, which TLC had accepted, are not all there are.  The steps
at which the invariant broke are three further ways to lose a save (section 6,
*Snapshots*), which TLC then confirmed on larger instances; `regressed`,
`spread` and a wider `reverted` name them.

**ToolExecution_proofs.**  For keys no running post was given up on, the
reservation leaves one running thread per key (`Reservations`,
`RunningIsAwaited`); so what a thread looked up is still true when it saves
(`FreeIsFree`), and whatever callers, memory and replies say of a key names the
row of its record (`SaysTheRecord`).  `RepliesMatchPayloadHolds` needs
`RecordsMatch` only, and no exception.
`WritesImplemented`: a thread that saves for a kept key is the first one to do
so, nobody has been told of anything yet (`SaveStep`, from `FreeIsFree` and
`SaysTheRecord`), and no other key has its row (`RecordKeys`); a call that is
answered, at first or by a replay, is told of that row (`TellStep`); every other
step loses keys at most (`LoseStep`).

**IndexingOutbox_proofs.**  A rewrite that does not misread its event finds the
status the event was last given: a claim therefore takes an event nobody
processes (`ClaimsAreDue`, `InWork`), and nothing knows of an event before it is
in the file (`Unpublished`).  `OneWorkerEachHolds`, `DeathAbandonsHolds` and
`CompletedIsFinalHolds` follow; `CompletionsAreIndexedHolds` from what a worker
has written at each of its places (`Written`).
`QueueImplemented`: a step moves at most one event that is not lost with it
(`OneMoves`), an event in work is held by one worker or was abandoned
(`HeldByOne`), and an event moves as a job does (`EventMoves`).

**ResearchTasks_proofs.**  Three invariants.  Of the rows: what a request is
about to write is coherent and keeps the end of what it has read (`Planned`), and
the merge of a change into a row nobody else has written is that plan
(`MergeUnchanged`); `RowsAreCoherentHolds` and `EndedIsFinalHolds` follow, and a
create that has not inserted its task leaves no trace of it (`Fresh`).  Of the
keys: a key has one row (`KeysAreUnique`), and what answers a create is there and
has its key and payload (`AnswersAreKept`).  Of the lock: with one store, at most one request is between
SELECT and COMMIT (`LockIsExclusive`), so its copies are fresh (`CopiesAreFresh`)
and the filling finds the database as empty as it looked (`EmptyAtFirst`).
`BoardImplemented` needs a fourth invariant, which compares a plan with the
request behind it: what is about to be committed is the row as it was read,
moved on as far as time allows and then changed as the request asks, and the
request was not to be refused (`PlansAreMeant`); a cancel or an archive plans
for one task (`OneAsked`); and a task that is not inserted yet is neither
overwritten nor wiped (`NotYetLost`), so that its acceptance is no return.

**Only model-checked:** the liveness properties `RunIsUnregistered`,
`LeaseEnds`, `SlotIsFreed`, `KeyIsFreed` and `PublishedIsTried`, since
fairness and ENABLED are out of the proof system's reach.  Every invariant and
every action property of the passing runs is a theorem.

## 6. What the code does differently from what is said of it

Two are violation runs with a finding in `PROJECT.json`:

* Two healthy replicas in strict mode can run one conversation: a lease that is
  taken at `SET NX` and absent at the `GET` is deleted, whoever owns it by then
  (`runcontrol_replicas`).
* A write tool's builder inserts its row before authorisation, confirmation and
  the idempotency record are looked at (`toolexec_gates`).

The others are visible in the models as behaviours, or as the exceptions the
properties name.

*Run control.*  An accepted cancel begins the time to live of the lease anew
without asking whether its execution is alive (`run_control.py:247`): if the
process of a message is dead, repeated cancels of the message keep the
conversation locked for as long as they come (`CancelSet`; with a canceller in
the instance TLC finds `LeaseEnds` violated).  `finish()` deletes the cancel key
of its message after the lease, so a retry with the same message id that has
started elsewhere in between loses a cancel it was sent (`ReleaseCancelKey`; TLC
finds `CancelNotOverlooked` violated when `ReuseIds` is `TRUE`).

*Conversation.*  A turn that has read the record overwrites a delete or an
archive that was answered since, and the conversation is active again
(`ReopenedByCaughtOnly` names it; `docs/contracts/shared/api-conventions.md:148`
says that deleted sessions surface `CHAT_CONVERSATION_NOT_FOUND`).  The compensation step of a later write of the same agent is not
pushed, because step ids number the calls of a message and not of a conversation
(so `AnsweredStepsArmed` is about the id).  A turn that is cancelled after its
tool wrote has no step for that write.  A cancelled continuation of a handoff is
not reported as cancelled.  `start()` is called before the `try` that handles
`ActiveRunConflictError`, so a conflict leaves the handler as an unhandled error
with the status left at `running` (`Start`).  A failed compensation is never
retried (`Compensate`), an FAQ answer leaves an older handoff pending
(`AnswerFromFaq`), and a rollback saves a stale copy over what a turn has saved
meanwhile (`SaveRollback`).

*Snapshots.*  A get copies a row to Redis that a save may have replaced since;
the copy has no time to live and is read first from then on (`refilled`).  In an
outage of MySQL a get replaces the degraded mirror by the copy in Redis
(`state_store.py:224`), and a save that MySQL had answered before the outage
mirrors its older snapshot over a newer degraded save, in memory and in the file
(`:205`), so that the next restoration does not know of it (`reverted`).  A call
whose restoration fails raises with the backend in place, so that nothing is
restored until the next outage; the next get overwrites the memory, and that
outage the file (`reverted` too).  Since the version is read without a lock, a
slow save can put the version of the row back by more than one; a mirror that was
behind then seems to be ahead, and a later restoration imports it over what was
acknowledged (`regressed`).  A degraded process that reaches Redis again pushes
its snapshot there, a get of another process mirrors it, and both processes may
import it later (`spread`).  A degraded save counts on from its own mirror, and is dropped at
the restoration if that was behind the row (`behind`).  A restoration imports the
process' snapshot over what other replicas saved, a save that meets a restoration
of its own process is overwritten by the import, and a save that is spooled after
another thread has restored the backend stays in memory only (`crossed`).

*Tools.*  The tool hub's memory of answers is keyed by the idempotency key alone,
and keeps failures too: for 300 seconds a call of another tool, payload or user
with that key gets the first one's answer (`Replay`).  A retry runs beside the
attempt it replaces, and both insert (`abandoned`).

*Outbox.*  Writers of the file overwrite each other's events and statuses
(`raced`).  An event whose worker died stays `processing` for ever and is not
indexed (`DeathAbandons`).  A worker
indexes the catalogue it loaded when it started, and upserts never remove the
chunks of an older version.  Without Redis the scan takes the first due event, so
one that always fails keeps the others waiting; `PublishedIsTried` therefore
assumes Redis.

*Research.*  Across replicas a poll can write `completed` or `running` over a
cancel (`overwritten`).  A starting process that found the database empty deletes
what the other replica has accepted since, and two first requests of one process
can make two stores (`wiped`).  The agent provider is dispatched only if the task
is still queued after `get_task_record`, which has already moved it on, so it
never is.  A repeated create of an archived task is answered 404, and a cancel of
an overdue task 409 while the row stays running until the next read.

## 7. Not modelled

*Left out of the modelled components:* MySQL failing under a conversation, the
Redis cache and the Mongo half of the conversation store, streaming; `clear()` of
the stores, which tests call; the local transport and the degraded fallback of
the tool hub and calls without a key; the Redis copy, the mirror file and the
restoration of the idempotency records; text processing, duplicate detection and
the MySQL copy of the catalogue in an ingestion; progress, reports and their
Mongo copy in research, and a bootstrap file that holds tasks.

*Components not modelled:* see `components` in `PROJECT.json` for each: SSE
events, the LLM tool loop, session memory, mailbox and coordinator, the
configuration stores, query cache, the dispatch of compensations, MCP lifecycle,
knowledge search, RAG, auth, gateway, marketing.  Routing, prompts, rendering,
schemas and clients have no protocol to check.

*Most of the repository's lines are not of this kind.*  `business_tools/catalog.py`
(3 452 lines) is shadowed by the package `catalog/` and never imported; the
catalogue's other builders are queries and fixtures; `scripts/` checks
configuration and documents; the web clients present.  The modules cover the
files in which order, concurrency and failure decide whether the system is
correct, and those are a small part of its text.

## 8. Plan

In order of importance:

1. `ConversationStore`: the Redis cache that is preferred to MySQL, the
   Mongo-then-MySQL saga with its clean-up; `ChatSession`'s record as its
   abstract specification.
2. `IdempotencyStore`: the Redis copy, mirror and restoration of the records,
   below `ToolExecution`; the compensations of a rollback through it.
3. `ToolCallLoop`: permission and confirmation of a tool call.
4. `SseEventStore` (replay from an event id), `SessionMemory`, `Mailbox` and
   coordinator, query cache.
5. Refresh-token rotation, rate limit, marketing's poster tasks.
6. Proofs: every safety property of the runs is a theorem, and five of the six
   detailed modules implement an abstract specification.  Next, a register with
   named losses that `SnapshotStore` implements, and the record and the snapshot
   of a conversation as `ChatSession` promises them.
