--------------------------- MODULE IndexingOutbox ---------------------------
(* The indexing outbox of knowledge-service.                                *)
(*                                                                          *)
(* An ingestion or a reindexing saves the document, then publishes an event *)
(* in an outbox file that every process reads, changes and rewrites as a    *)
(* whole, and pushes the event's id to a list in Redis.  A worker pops an   *)
(* id, or takes the first event of the file that is due, marks the event    *)
(* "processing", writes the document's chunks to the two indexes and marks  *)
(* the event "completed" or "failed"; a failed event is due again.          *)
(* Every publication has a lock of its own, and so has every worker: no     *)
(* lock keeps two of them from rewriting the file at the same time.         *)
EXTENDS Naturals, Sequences, FiniteSets

CONSTANTS
  Events,    \* an event is named after the request that publishes it
  Workers,   \* processes running app.worker
  Docs,
  Doc,       \* the document of an event
  Old,       \* the chunks a document had before the first request
  NoDoc,     \* the document is not in the catalogue
  NoEvent,   \* a worker holds nothing
  MaxFaults  \* bound on the faults of a behaviour: crashes, Redis or the
             \* disk failing

ASSUME DocAssumption   == Doc \in [Events -> Docs]
ASSUME NamesAssumption == /\ Events \cap Workers = {}
                          /\ NoEvent \notin Events
                          /\ {Old, NoDoc} \cap Events = {} /\ Old # NoDoc
ASSUME FaultsAssumption == MaxFaults \in Nat

Procs    == Events \cup Workers
Indexes  == {"vector", "bm25"}
Statuses == {"queued", "processing", "failed", "completed"}

\* (Mutant: only an event in work is not due.)
DueUnlessTaken == Statuses \ {"processing"}

\* The statuses from which an event can be claimed.
Due == {"queued", "failed"}

\* Each ingestion and reindexing makes chunks with fresh ids.
Chunks == Events \cup {Old}

\* The outbox: the events in the order of their lines, and their status.
Files == [ids : Seq(Events), status : [Events -> Statuses \cup {"absent"}]]
Blank == [ids |-> <<>>, status |-> [e \in Events |-> "absent"]]

Put(f, e, s) ==
  [ids    |-> IF f.status[e] = "absent" THEN Append(f.ids, e) ELSE f.ids,
   status |-> [f.status EXCEPT ![e] = s]]

\* Position i holds the first event that is due.
FirstDue(f, i) ==
  /\ i \in DOMAIN f.ids /\ f.status[f.ids[i]] \in Due
  /\ \A j \in DOMAIN f.ids : f.status[f.ids[j]] \in Due => i <= j

VARIABLES
  faults,   \* faults that may still happen
  catalog,  \* the chunks of each document, as the API has saved them
  known,    \* a worker's copy of the catalogue
  index,    \* the chunks each index holds
  file,     \* the outbox file
  pending,  \* the Redis list <queue>:pending, head first
  pc,       \* where a request or a worker is
  job,      \* the event a worker has popped, claimed or is marking
  seen,     \* the file as a process has read it
  goal,     \* the status a process is about to write
  batch,    \* the chunks a worker is indexing
  ideal,    \* history: the status each event was last given
  raced,    \* history: events a process misread, or whose status was lost
  abandoned \* history: events whose worker died with them in hand

catalogs == <<faults, catalog>>
process  == <<job, seen, goal, batch>>
history  == <<ideal, raced, abandoned>>
vars     == <<faults, catalog, known, index, file, pending, pc, job, seen, goal,
              batch, ideal, raced, abandoned>>

Init ==
  /\ faults = MaxFaults
  /\ catalog \in [Docs -> {Old, NoDoc}]
  /\ known = [w \in Workers |-> catalog]
  /\ index = [i \in Indexes |-> {Old} \cap {catalog[d] : d \in Docs}]
  /\ file = Blank
  /\ pending = <<>>
  /\ pc = [x \in Procs |-> IF x \in Events THEN "new" ELSE "idle"]
  /\ job = [w \in Workers |-> NoEvent]
  /\ seen = [x \in Procs |-> Blank]
  /\ goal = [x \in Procs |-> "queued"]
  /\ batch = [w \in Workers |-> Old]
  /\ ideal = [e \in Events |-> "absent"]
  /\ raced = {}
  /\ abandoned = {}

Fault == faults > 0 /\ faults' = faults - 1

Goto(x, label) == pc' = [pc EXCEPT ![x] = label]

\* The event a process is about to write.
Subject(x) == IF x \in Events THEN x ELSE job[x]

\* A process that reads a status other than the one last given to the event,
\* from a file that is outdated or half written.
Misread(e) == IF file.status[e] = ideal[e] THEN {} ELSE {e}
----------------------------------------------------------------------------
\* Rewriting the outbox: _load_events_locked, a change, write_text.

Read(x)   == seen' = [seen EXCEPT ![x] = file]
Forget(x) == seen' = [seen EXCEPT ![x] = Blank]

\* write_text opens the file, which truncates it,
Open(x) ==
  /\ pc[x] = "open"
  /\ file' = Blank
  /\ Goto(x, "flush")
  /\ UNCHANGED <<catalogs, known, index, pending, process, history>>

\* Where a process goes on once it has written a status.
After(s) ==
  CASE s = "queued"     -> "push"
    [] s = "processing" -> "load"
    [] OTHER            -> "settle"

\* and writes every line, those of the other events as they were read.
\* (Of two writers that have both opened the file, the second overwrites the
\* bytes of the first from the start: if it has fewer, the last lines of the
\* first stay behind it, and a line cut in two is skipped by the readers.
\* Here the second replaces the file.  It takes two events to see the
\* difference, and that two writers overlap.)
Flush(x) ==
  LET e == Subject(x) IN
  /\ pc[x] = "flush"
  /\ file' = Put(seen[x], e, goal[x])
  /\ ideal' = [ideal EXCEPT ![e] = goal[x]]
  /\ raced' = raced \cup {f \in Events : file'.status[f] # ideal'[f]}
                    \cup (IF seen[x].status[e] # ideal[e] THEN {e} ELSE {})
  /\ Forget(x)
  /\ Goto(x, After(goal[x]))
  /\ UNCHANGED <<catalogs, known, index, pending, job, goal, batch, abandoned>>

\* lrem takes an id off the list, where it is at most once.
Without(e) ==
  IF \E i \in DOMAIN pending : pending[i] = e
  THEN LET i == CHOOSE i \in DOMAIN pending : pending[i] = e
       IN  SubSeq(pending, 1, i - 1) \o SubSeq(pending, i + 1, Len(pending))
  ELSE pending

\* (Mutant: pushed to the end ids are taken from.)
PushedLast(e) == Append(Without(e), e)

\* lrem, then lpush.
Pushed(e) == <<e>> \o Without(e)

\* The push that follows; an unreachable Redis is ignored.
PushOr(e) ==
  \/ pending' = Pushed(e) /\ UNCHANGED faults
  \/ Fault /\ UNCHANGED pending
----------------------------------------------------------------------------
\* The request that publishes e

\* save_document or replace_document_chunks.
Save(e) ==
  /\ pc[e] = "new"
  /\ catalog' = [catalog EXCEPT ![Doc[e]] = e]
  /\ Goto(e, "saved")
  /\ UNCHANGED <<faults, known, index, file, pending, process, history>>

\* The outbox cannot be written: the request succeeds with a warning.
EnqueueFails(e) ==
  /\ pc[e] = "saved"
  /\ Fault
  /\ Goto(e, "done")
  /\ UNCHANGED <<catalog, known, index, file, pending, process, history>>

Enqueue(e) ==
  /\ pc[e] = "saved"
  /\ Read(e)
  /\ Goto(e, "open")
  /\ UNCHANGED <<catalogs, known, index, file, pending, job, goal, batch, history>>

Push(e) ==
  /\ pc[e] = "push"
  /\ PushOr(e)
  /\ Goto(e, "done")
  /\ UNCHANGED <<catalog, known, index, file, process, history>>
----------------------------------------------------------------------------
\* Worker w

\* RPOPLPUSH takes the oldest id; with none, or without Redis, the file is
\* scanned.  (Nothing reads the list the id is moved to.)
Pop(w) ==
  /\ pc[w] = "idle"
  /\ \/ /\ pending # <<>>
        /\ job' = [job EXCEPT ![w] = pending[Len(pending)]]
        /\ pending' = SubSeq(pending, 1, Len(pending) - 1)
        /\ Goto(w, "popped")
        /\ UNCHANGED faults
     \/ /\ IF pending = <<>> THEN UNCHANGED faults ELSE Fault
        /\ Goto(w, "scan")
        /\ UNCHANGED <<job, pending>>
  /\ UNCHANGED <<catalog, known, index, file, seen, goal, batch, history>>

\* A process that sets out to write status s on the event it holds.
Rewrite(w, s) ==
  /\ Read(w)
  /\ goal' = [goal EXCEPT ![w] = s]
  /\ Goto(w, "open")

Idle(w) ==
  /\ job' = [job EXCEPT ![w] = NoEvent]
  /\ goal' = [goal EXCEPT ![w] = "queued"]
  /\ Goto(w, "idle")

\* (Mutant: the status is not read before the claim.)
ClaimAnyway(w) ==
  /\ pc[w] = "popped"
  /\ raced' = raced \cup Misread(job[w])
  /\ Rewrite(w, "processing")
  /\ UNCHANGED <<catalogs, known, index, file, pending, job, batch, ideal, abandoned>>

\* The event of the popped id is claimed if it is due; otherwise the id is
\* dropped and the next one popped.
Claim(w) ==
  /\ pc[w] = "popped"
  /\ raced' = raced \cup Misread(job[w])
  /\ \/ /\ file.status[job[w]] \in Due
        /\ Rewrite(w, "processing")
        /\ UNCHANGED job
     \/ /\ file.status[job[w]] \notin Due
        /\ Idle(w)
        /\ UNCHANGED seen
  /\ UNCHANGED <<catalogs, known, index, file, pending, batch, ideal, abandoned>>

\* The first event of the file that is due is claimed.
Scan(w) ==
  /\ pc[w] = "scan"
  /\ \/ \E i \in DOMAIN file.ids :
          /\ FirstDue(file, i)
          /\ job' = [job EXCEPT ![w] = file.ids[i]]
          /\ Rewrite(w, "processing")
     \/ /\ \A i \in DOMAIN file.ids : ~FirstDue(file, i)
        /\ Idle(w)
        /\ UNCHANGED seen
  /\ UNCHANGED <<catalogs, known, index, file, pending, batch, history>>

\* What becomes of the event is settled; the chunks are dropped.
Outcome(w, s) ==
  /\ goal' = [goal EXCEPT ![w] = s]
  /\ batch' = [batch EXCEPT ![w] = Old]
  /\ Goto(w, "mark")

\* (Mutants: an unknown document is indexed, or its event is put aside.)
LoadUnchecked(w) ==
  /\ pc[w] = "load"
  /\ batch' = [batch EXCEPT ![w] = known[w][Doc[job[w]]]]
  /\ Goto(w, "vector")
  /\ UNCHANGED <<catalogs, known, index, file, pending, job, seen, goal, history>>

LoadOrSkip(w) ==
  /\ pc[w] = "load"
  /\ \/ known[w][Doc[job[w]]] # NoDoc /\ LoadUnchecked(w)
     \/ /\ known[w][Doc[job[w]]] = NoDoc
        /\ Idle(w)
        /\ UNCHANGED <<catalogs, known, index, file, pending, seen, batch, history>>

\* _load_event_context reads the worker's own copy of the catalogue, which
\* is loaded when the process starts and not refreshed after that.
Load(w) ==
  LET c == known[w][Doc[job[w]]] IN
  /\ pc[w] = "load"
  /\ \/ c = NoDoc /\ Outcome(w, "failed")
     \/ /\ c # NoDoc
        /\ batch' = [batch EXCEPT ![w] = c]
        /\ Goto(w, "vector")
        /\ UNCHANGED goal
  /\ UNCHANGED <<catalogs, known, index, file, pending, job, seen, history>>

\* (Mutant: the first connector completes the event.)
UpsertOne(w) ==
  /\ pc[w] \in Indexes
  /\ index' = [index EXCEPT ![pc[w]] = @ \cup {batch[w]}]
  /\ Outcome(w, "completed")
  /\ UNCHANGED <<catalogs, known, file, pending, job, seen, history>>

\* The connectors run one after the other.  Those for the raw object and the
\* metadata table come first, and their stores are not read again: of them
\* the model keeps that they may fail, before anything is indexed.
Connectors == Indexes \cup {"publish"}

\* A connector adds the chunks to its index; none is ever removed.
Upsert(w) ==
  /\ pc[w] \in Indexes
  /\ index' = [index EXCEPT ![pc[w]] = @ \cup {batch[w]}]
  /\ Goto(w, IF pc[w] = "vector" THEN "bm25" ELSE "publish")
  /\ UNCHANGED <<catalogs, known, file, pending, process, history>>

\* The last connector announces the event; then all have succeeded.
PublishState(w) ==
  /\ pc[w] = "publish"
  /\ Outcome(w, "completed")
  /\ UNCHANGED <<catalogs, known, index, file, pending, job, seen, history>>

\* A connector raises, and those after it are not run.
ConnectorFails(w) ==
  /\ pc[w] \in Connectors
  /\ Outcome(w, "failed")
  /\ UNCHANGED <<catalogs, known, index, file, pending, job, seen, history>>

\* _update_event: an event that is not in the file is left alone.
Mark(w) ==
  /\ pc[w] = "mark"
  /\ raced' = raced \cup Misread(job[w])
  /\ \/ /\ file.status[job[w]] # "absent"
        /\ Rewrite(w, goal[w])
        /\ UNCHANGED job
     \/ /\ file.status[job[w]] = "absent"
        /\ Idle(w)
        /\ UNCHANGED seen
  /\ UNCHANGED <<catalogs, known, index, file, pending, batch, ideal, abandoned>>

\* A failed event goes back to the list.
Settle(w) ==
  /\ pc[w] = "settle"
  /\ IF goal[w] = "failed" THEN PushOr(job[w]) ELSE UNCHANGED <<faults, pending>>
  /\ Idle(w)
  /\ UNCHANGED <<catalog, known, index, file, seen, batch, history>>
----------------------------------------------------------------------------
\* A file that is truncated when its writer dies stays so.
Torn(x) ==
  IF pc[x] = "flush" THEN {e \in Events : file.status[e] # ideal[e]} ELSE {}

\* The event a worker is processing, from the claim to the mark.
Processing(w, e) ==
  /\ job[w] = e
  /\ \/ pc[w] \in Connectors \cup {"load", "mark"}
     \/ pc[w] \in {"open", "flush"} /\ goal[w] # "processing"

\* A worker restarts, and reads the catalogue; nothing is done about the
\* event it had in hand.
WorkerRestarts(w) ==
  /\ Fault
  /\ known' = [known EXCEPT ![w] = catalog]
  /\ batch' = [batch EXCEPT ![w] = Old]
  /\ raced' = raced \cup Torn(w)
  /\ abandoned' = abandoned \cup {e \in Events : Processing(w, e)}
  /\ Forget(w)
  /\ Idle(w)
  /\ UNCHANGED <<catalog, index, file, pending, ideal>>

\* The request dies with the API process.
RequestDies(e) ==
  /\ pc[e] \notin {"new", "done"}
  /\ Fault
  /\ raced' = raced \cup Torn(e)
  /\ Forget(e)
  /\ Goto(e, "done")
  /\ UNCHANGED <<catalog, known, index, file, pending, job, goal, batch, ideal,
                 abandoned>>
----------------------------------------------------------------------------
RequestStep(e) ==
  Save(e) \/ EnqueueFails(e) \/ Enqueue(e) \/ Open(e) \/ Flush(e) \/ Push(e)

WorkerStep(w) ==
  \/ Pop(w) \/ Claim(w) \/ Scan(w) \/ Load(w) \/ Upsert(w)
  \/ PublishState(w) \/ ConnectorFails(w) \/ Mark(w) \/ Open(w) \/ Flush(w) \/ Settle(w)

Next ==
  \/ \E e \in Events : RequestStep(e) \/ RequestDies(e)
  \/ \E w \in Workers : WorkerStep(w) \/ WorkerRestarts(w)

Spec == Init /\ [][Next]_vars

\* A request is served to its end, and the worker's loop has no exit.
Fairness ==
  /\ \A e \in Events : WF_vars(RequestStep(e))
  /\ \A w \in Workers : WF_vars(WorkerStep(w))

FairSpec == Spec /\ Fairness
----------------------------------------------------------------------------
PCs == Connectors \cup
       {"new", "saved", "open", "flush", "push", "done",
        "idle", "popped", "scan", "load", "mark", "settle"}

TypeOK ==
  /\ faults \in 0..MaxFaults
  /\ catalog \in [Docs -> Chunks \cup {NoDoc}]
  /\ known \in [Workers -> [Docs -> Chunks \cup {NoDoc}]]
  /\ index \in [Indexes -> SUBSET Chunks]
  /\ file \in Files
  /\ pending \in Seq(Events)
  /\ pc \in [Procs -> PCs]
  /\ job \in [Workers -> Events \cup {NoEvent}]
  /\ seen \in [Procs -> Files]
  /\ goal \in [Procs -> Statuses]
  /\ batch \in [Workers -> Chunks]
  /\ ideal \in [Events -> Statuses \cup {"absent"}]
  /\ raced \subseteq Events
  /\ abandoned \subseteq Events

\* Two workers process one event at the same time only if the file was
\* misread or overwritten in between: the status in the file, not a lock, is
\* what keeps an event that was both scanned and pushed from being indexed
\* twice.
OneWorkerEach ==
  \A v, w \in Workers, e \in Events :
    Processing(v, e) /\ Processing(w, e) /\ e \notin raced => v = w

\* An event marked "processing" is in the hands of a worker that will mark
\* it, through every failure of a connector, of Redis and of the disk, until
\* that worker dies; and then it stays "processing", in nobody's hands, for no
\* scan or pop takes it up again.
DeathAbandons ==
  \A e \in Events \ raced :
    /\ e \in abandoned => ideal[e] = "processing"
    /\ ideal[e] = "processing" =>
         (e \in abandoned <=> \A w \in Workers : ~Processing(w, e))

\* An event is completed only by a worker that has written the chunks it
\* knows of the document to both indexes, in this attempt or an earlier one.
CompletionsAreIndexed ==
  [][\A e \in Events :
       ideal'[e] = "completed" /\ ideal[e] # "completed" =>
         \E w \in Workers :
           /\ job[w] = e
           /\ known[w][Doc[e]] \in index["vector"] \cap index["bm25"]]_vars

\* A completed event is not taken up again, although its id may still be in
\* the list, unless its status was misread or lost.
CompletedIsFinal ==
  [][\A e \in Events :
       ideal[e] = "completed" /\ e \notin raced' => ideal'[e] = "completed"]_vars

\* With Redis, disk and processes in order, an event that is published is
\* taken up, however often others fail: the list is first in, first out.
PublishedIsTried ==
  \A e \in Events :
    ideal[e] = "queued" ~>
      \/ ideal[e] # "queued" \/ e \in raced \/ faults < MaxFaults

\* An event as a job of a queue: the status it was last given and the workers
\* that process it; one that was misread or overwritten is lost.
AsJob(e) ==
  IF e \in raced THEN [status |-> "lost", by |-> {}]
  ELSE [status |-> ideal[e], by |-> {w \in Workers : Processing(w, e)}]

JobStates == [e \in Events |-> AsJob(e)]

Queue == INSTANCE WorkQueue WITH Jobs <- Events, state <- JobStates

\* The file, the list and the workers make a queue of the events whose status
\* is not lost, although every status is read, changed and written back with
\* the whole file, and an id may be in the list when its event is taken from
\* the file.
ImplementsQueue == Queue!Spec
=============================================================================
