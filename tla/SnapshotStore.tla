--------------------------- MODULE SnapshotStore ---------------------------
(* The session state store of the orchestrator, for one conversation.       *)
(*                                                                          *)
(* Every process keeps the snapshot of the conversation in memory.  MySQL   *)
(* holds the authoritative row, Redis a copy that is read first.  A process *)
(* that cannot reach MySQL serves the conversation from its memory, which   *)
(* it spools to a file of its own; when MySQL answers again, the snapshot   *)
(* with the higher version wins.  A process that reaches Redis again pushes *)
(* its memory there.  Calls of a process run in threads of their own and    *)
(* share one lock, which is not held while the stores are called, except by *)
(* the call that restores a connection.                                     *)
EXTENDS Naturals, FiniteSets

CONSTANTS
  Procs,     \* orchestrator processes
  Saves,     \* calls of save(); a snapshot is named after its save
  Gets,      \* calls of get()
  Home,      \* the process of a call
  Old,       \* the save of the snapshot that was there before
  NoSnap,    \* no snapshot
  MaxFaults  \* bound on failing calls and crashes

Calls  == Saves \cup Gets
Agents == Calls \cup Procs

ASSUME HomeAssumption   == Home \in [Calls -> Procs]
ASSUME NamesAssumption  == /\ Calls \cap Procs = {} /\ Saves \cap Gets = {}
                           /\ Old \notin Saves
ASSUME FaultsAssumption == MaxFaults \in Nat

Snapshots == [ver : Nat \ {0}, by : Saves \cup {Old}]

ASSUME NoSnapAssumption == NoSnap \notin Snapshots

Maybe      == Snapshots \cup {NoSnap}
Snap(v, s) == [ver |-> v, by |-> s]
First      == Snap(1, Old)
Version(s) == IF s = NoSnap THEN 0 ELSE s.ver

VARIABLES
  faults,    \* faults that may still happen
  row,       \* MySQL: the row of the conversation
  cache,     \* Redis: its copy
  mirror,    \* a process' memory (_snapshots)
  spool,     \* a process' fallback file
  hasDb,     \* a process has a backend (_backend)
  hasCache,  \* a process has a Redis client (_redis_client)
  pc,        \* where a call or the start of a process is
  seen,      \* the version a save has read
  held,      \* the snapshot a call is about to mirror or return
  before,    \* history: the saves acknowledged when a call began
  acked,     \* history: the saves acknowledged
  crossed,   \* history: a save met an outage of another process or a restoration
  refilled,  \* history: a get copied to Redis a row replaced since it was read
  regressed, \* history: a save replaced the row by a lower version
  reverted,  \* history: a mirror the row had not received was overwritten
  spread,    \* history: a get mirrored a snapshot the row had not received
  behind     \* history: a degraded save began from an outdated mirror

process == <<mirror, spool, hasDb, hasCache>>
history == <<before, acked, refilled, regressed, reverted, spread, behind>>
vars    == <<faults, row, cache, mirror, spool, hasDb, hasCache, pc, seen, held,
             before, acked, crossed, refilled, regressed, reverted, spread, behind>>

P(x) == IF x \in Procs THEN x ELSE Home[x]

\* What an agent does while it holds the lock of its process across calls.
Restoring == {"push", "compare", "import"}

Free(x) == \A y \in Agents \ {x} : P(y) = P(x) => pc[y] \notin Restoring

Init ==
  /\ faults = MaxFaults
  /\ row \in {First, NoSnap}
  /\ cache \in {row, NoSnap}
  /\ mirror \in [Procs -> {row, NoSnap}]
  /\ spool = [p \in Procs |-> NoSnap]
  /\ hasDb = [p \in Procs |-> TRUE]
  /\ hasCache = [p \in Procs |-> TRUE]
  /\ pc = [x \in Agents |-> IF x \in Procs THEN "up" ELSE "new"]
  /\ seen = [s \in Saves |-> 0]
  /\ held = [o \in Calls |-> NoSnap]
  /\ before = [o \in Calls |-> {}]
  /\ acked = {}
  /\ crossed = FALSE /\ refilled = FALSE /\ regressed = FALSE
  /\ reverted = FALSE /\ spread = FALSE /\ behind = FALSE

\* The row has not received what the process has in memory.
Leads(p) == Version(mirror[p]) > Version(row)

Fault == faults > 0 /\ faults' = faults - 1

Goto(x, label) == pc' = [pc EXCEPT ![x] = label]

\* _persist_unlocked: without force, a process with a backend keeps no file.
Spooled(p, s)  == spool' = [spool EXCEPT ![p] = s]
Persisted(x, s) == Spooled(P(x), IF hasDb[P(x)] THEN NoSnap ELSE s)

\* _degrade_backend
DropDb(x) ==
  /\ hasDb' = [hasDb EXCEPT ![P(x)] = FALSE]
  /\ Spooled(P(x), mirror[P(x)])

\* _degrade_runtime_cache
DropCache(x) == hasCache' = [hasCache EXCEPT ![P(x)] = FALSE]
----------------------------------------------------------------------------
\* A call o begins

Begin(o) ==
  /\ pc[o] = "new" /\ pc[P(o)] = "up"
  /\ before' = [before EXCEPT ![o] = acked]
  /\ Goto(o, "redis")
  /\ UNCHANGED <<faults, row, cache, process, seen, held, acked,
                 refilled, regressed, reverted, spread, behind>>

\* _maybe_restore_runtime_cache: connected, unreachable or tried too recently,
SkipCache(o) ==
  /\ pc[o] = "redis"
  /\ Goto(o, "mysql")
  /\ UNCHANGED <<faults, row, cache, process, seen, held, history>>

\* or connected again, and the mirror is pushed.
ConnectCache(o) ==
  /\ pc[o] = "redis" /\ ~hasCache[P(o)] /\ Free(o)
  /\ hasCache' = [hasCache EXCEPT ![P(o)] = TRUE]
  /\ Goto(o, IF mirror[P(o)] = NoSnap THEN "mysql" ELSE "push")
  /\ UNCHANGED <<faults, row, cache, mirror, spool, hasDb, seen, held, history>>

Push(o) ==
  /\ o \in Calls /\ pc[o] = "push"
  /\ cache' = mirror[P(o)]
  /\ Goto(o, "mysql")
  /\ UNCHANGED <<faults, row, process, seen, held, history>>

\* A call that fails may have been carried out.
PushFails(o) ==
  /\ o \in Calls /\ pc[o] = "push"
  /\ Fault
  /\ cache' \in {cache, mirror[P(o)]}
  /\ DropCache(o)
  /\ Goto(o, "mysql")
  /\ UNCHANGED <<row, mirror, spool, hasDb, seen, held, history>>

\* Where a call goes on with the backend, and without it.
Work(o, withDb) ==
  Goto(o, IF o \in Gets THEN "lookup" ELSE IF withDb THEN "select" ELSE "spool")

\* _maybe_restore_backend: connected, or tried too recently,
SkipDb(o) ==
  /\ pc[o] = "mysql"
  /\ Work(o, hasDb[P(o)])
  /\ UNCHANGED <<faults, row, cache, process, seen, held, history>>

\* or still unreachable, and the mirror is spooled,
PingFails(o) ==
  /\ pc[o] = "mysql" /\ ~hasDb[P(o)] /\ Free(o)
  /\ Spooled(P(o), mirror[P(o)])
  /\ Work(o, FALSE)
  /\ UNCHANGED <<faults, row, cache, mirror, hasDb, hasCache, seen, held, history>>

\* or reachable again: from now on the other threads use it.
ConnectDb(o) ==
  /\ pc[o] = "mysql" /\ ~hasDb[P(o)] /\ Free(o)
  /\ hasDb' = [hasDb EXCEPT ![P(o)] = TRUE]
  /\ IF mirror[P(o)] = NoSnap
     THEN Spooled(P(o), NoSnap) /\ Work(o, TRUE)
     ELSE Goto(o, "compare") /\ UNCHANGED spool
  /\ UNCHANGED <<faults, row, cache, mirror, hasCache, seen, held, history>>
----------------------------------------------------------------------------
\* _bootstrap_backend_from_local_unlocked, by a call or a starting process x

\* The rest of the restoration: a starting process has the cache to fill.
Restored(x) ==
  IF x \in Procs THEN Goto(x, "push") /\ UNCHANGED spool
                 ELSE Work(x, TRUE) /\ Spooled(P(x), NoSnap)

\* A call raises, with the backend left in place; a starting process degrades.
Broken(x) ==
  IF x \in Procs THEN Goto(x, "push") /\ DropDb(x)
                 ELSE Goto(x, "raised") /\ UNCHANGED <<hasDb, spool>>

\* (Mutant: the row wins whatever its version.)
CompareRowFirst(x) ==
  /\ pc[x] = "compare"
  /\ \/ /\ row = NoSnap
        /\ Goto(x, "import")
        /\ UNCHANGED <<mirror, spool>>
     \/ /\ row # NoSnap
        /\ mirror' = [mirror EXCEPT ![P(x)] = row]
        /\ Restored(x)
  /\ UNCHANGED <<faults, row, cache, hasDb, hasCache, seen, held, history>>

\* The row is read; the snapshot with the higher version becomes both.
Compare(x) ==
  /\ pc[x] = "compare"
  /\ \/ /\ Version(mirror[P(x)]) > Version(row)
        /\ Goto(x, "import")
        /\ UNCHANGED <<mirror, spool>>
     \/ /\ Version(mirror[P(x)]) <= Version(row)
        /\ mirror' = [mirror EXCEPT ![P(x)] = row]
        /\ Restored(x)
  /\ UNCHANGED <<faults, row, cache, hasDb, hasCache, seen, held, history>>

CompareFails(x) ==
  /\ pc[x] = "compare"
  /\ Fault
  /\ Broken(x)
  /\ UNCHANGED <<row, cache, mirror, hasCache, seen, held, history>>

Import(x) ==
  /\ pc[x] = "import"
  /\ row' = mirror[P(x)]
  /\ Restored(x)
  /\ UNCHANGED <<faults, cache, mirror, hasDb, hasCache, seen, held, history>>

ImportFails(x) ==
  /\ pc[x] = "import"
  /\ Fault
  /\ row' \in {row, mirror[P(x)]}
  /\ Broken(x)
  /\ UNCHANGED <<cache, mirror, hasCache, seen, held, history>>
----------------------------------------------------------------------------
\* save()

\* _MySQLStateStoreBackend.save reads the version without a lock,
Select(s) ==
  /\ pc[s] = "select"
  /\ seen' = [seen EXCEPT ![s] = Version(row)]
  /\ Goto(s, "replace")
  /\ UNCHANGED <<faults, row, cache, process, held, history>>

\* and replaces the row.
Replace(s) ==
  /\ pc[s] = "replace"
  /\ row' = Snap(seen[s] + 1, s)
  /\ held' = [held EXCEPT ![s] = row']
  /\ regressed' = (regressed \/ Version(row') < Version(row))
  /\ Goto(s, "fill")
  /\ UNCHANGED <<faults, cache, process, seen,
                 before, acked, refilled, reverted, spread, behind>>

SaveFails(s) ==
  /\ pc[s] \in {"select", "replace"} /\ Free(s)
  /\ Fault
  /\ row' \in IF pc[s] = "replace" THEN {row, Snap(seen[s] + 1, s)} ELSE {row}
  /\ regressed' = (regressed \/ Version(row') < Version(row))
  /\ DropDb(s)
  /\ Goto(s, "spool")
  /\ UNCHANGED <<cache, mirror, hasCache, seen, held,
                 before, acked, refilled, reverted, spread, behind>>

\* (Mutant: the first degraded version is 0.)
SpoolFromZero(s) ==
  LET p    == P(s)
      snap == Snap(IF mirror[p] = NoSnap THEN 0 ELSE mirror[p].ver + 1, s)
  IN
  /\ pc[s] = "spool" /\ Free(s)
  /\ mirror' = [mirror EXCEPT ![p] = snap]
  /\ Persisted(s, snap)
  /\ held' = [held EXCEPT ![s] = snap]
  /\ acked' = acked \cup {s}
  /\ behind' = (behind \/ Version(mirror[p]) < Version(row))
  /\ Goto(s, "done")
  /\ UNCHANGED <<faults, row, cache, hasDb, hasCache, seen,
                 before, refilled, regressed, reverted, spread>>

\* The degraded save: the mirror's next version, mirrored and persisted.
Spool(s) ==
  LET p    == P(s)
      snap == Snap(Version(mirror[p]) + 1, s)
  IN
  /\ pc[s] = "spool" /\ Free(s)
  /\ mirror' = [mirror EXCEPT ![p] = snap]
  /\ Persisted(s, snap)
  /\ held' = [held EXCEPT ![s] = snap]
  /\ acked' = acked \cup {s}
  /\ behind' = (behind \/ Version(mirror[p]) < Version(row))
  /\ Goto(s, "done")
  /\ UNCHANGED <<faults, row, cache, hasDb, hasCache, seen,
                 before, refilled, regressed, reverted, spread>>
----------------------------------------------------------------------------
\* get()

\* The cache is read first; without a copy there, the row.
Lookup(g) ==
  /\ pc[g] = "lookup"
  /\ IF hasCache[P(g)] /\ cache # NoSnap
     THEN held' = [held EXCEPT ![g] = cache] /\ Goto(g, "mirror")
     ELSE UNCHANGED held /\ Goto(g, "read")
  /\ UNCHANGED <<faults, row, cache, process, seen, history>>

LookupFails(g) ==
  /\ pc[g] = "lookup" /\ hasCache[P(g)] /\ Free(g)
  /\ Fault
  /\ DropCache(g)
  /\ Goto(g, "read")
  /\ UNCHANGED <<row, cache, mirror, spool, hasDb, seen, held, history>>

Read(g) ==
  /\ pc[g] = "read"
  /\ IF hasDb[P(g)]
     THEN /\ held' = [held EXCEPT ![g] = row]
          /\ Goto(g, IF row = NoSnap THEN "done" ELSE "fill")
     ELSE UNCHANGED held /\ Goto(g, "local")
  /\ UNCHANGED <<faults, row, cache, process, seen, history>>

ReadFails(g) ==
  /\ pc[g] = "read" /\ hasDb[P(g)] /\ Free(g)
  /\ Fault
  /\ DropDb(g)
  /\ Goto(g, "local")
  /\ UNCHANGED <<row, cache, mirror, hasCache, seen, held, history>>

Local(g) ==
  /\ pc[g] = "local" /\ Free(g)
  /\ held' = [held EXCEPT ![g] = mirror[P(g)]]
  /\ Goto(g, "done")
  /\ UNCHANGED <<faults, row, cache, process, seen, history>>
----------------------------------------------------------------------------
\* Both end with the cache, if it was not read, and the mirror.

\* (Mutant: only a get copies what it has read to Redis.)
FillByGet(o) ==
  /\ pc[o] = "fill"
  /\ cache' = IF hasCache[P(o)] /\ o \in Gets THEN held[o] ELSE cache
  /\ refilled' = (refilled \/ (o \in Gets /\ hasCache[P(o)] /\ held[o] # row))
  /\ Goto(o, "mirror")
  /\ UNCHANGED <<faults, row, process, seen, held,
                 before, acked, regressed, reverted, spread, behind>>

Fill(o) ==
  /\ pc[o] = "fill"
  /\ cache' = IF hasCache[P(o)] THEN held[o] ELSE cache
  /\ refilled' = (refilled \/ (o \in Gets /\ hasCache[P(o)] /\ held[o] # row))
  /\ Goto(o, "mirror")
  /\ UNCHANGED <<faults, row, process, seen, held,
                 before, acked, regressed, reverted, spread, behind>>

FillFails(o) ==
  /\ pc[o] = "fill" /\ hasCache[P(o)] /\ Free(o)
  /\ Fault
  /\ cache' \in {cache, held[o]}
  /\ DropCache(o)
  /\ Goto(o, "mirror")
  /\ UNCHANGED <<row, mirror, spool, hasDb, seen, held, history>>

\* The snapshot that a get, or the save of a degraded process, is about to mirror
\* is another than the one in memory.
Overwrites(o) == mirror[P(o)] # held[o] /\ (o \in Gets \/ ~hasDb[P(o)])

\* The file is written, or removed, by a save only.
Mirror(o) ==
  /\ pc[o] = "mirror" /\ Free(o)
  /\ mirror' = [mirror EXCEPT ![P(o)] = held[o]]
  /\ IF o \in Saves
     THEN Persisted(o, held[o]) /\ acked' = acked \cup {o}
     ELSE UNCHANGED <<spool, acked>>
  /\ reverted' = (reverted \/ (Overwrites(o) /\ Leads(P(o))))
  /\ spread' = (spread \/ (o \in Gets /\ Overwrites(o) /\ Version(held[o]) > Version(row)))
  /\ Goto(o, "done")
  /\ UNCHANGED <<faults, row, cache, hasDb, hasCache, seen, held,
                 before, refilled, regressed, behind>>
----------------------------------------------------------------------------
\* A process dies, and starts with its file: configure_persistence.

Running(o) == pc[o] \notin {"new", "done", "raised"}

Crash(p) ==
  /\ Fault
  /\ mirror' = [mirror EXCEPT ![p] = spool[p]]
  /\ \E db, redis \in BOOLEAN :
       /\ hasDb' = [hasDb EXCEPT ![p] = db]
       /\ hasCache' = [hasCache EXCEPT ![p] = redis]
       /\ pc' = [x \in Agents |->
                   IF x = p THEN IF db /\ spool[p] # NoSnap THEN "compare" ELSE "push"
                   ELSE IF x \in Calls /\ P(x) = p /\ Running(x) THEN "raised"
                   ELSE pc[x]]
  /\ UNCHANGED <<row, cache, spool, seen, held, history>>

\* The mirror is pushed to Redis, and spooled or not.
Started(p) ==
  /\ p \in Procs /\ pc[p] = "push"
  /\ cache' = IF hasCache[p] /\ mirror[p] # NoSnap THEN mirror[p] ELSE cache
  /\ Persisted(p, mirror[p])
  /\ Goto(p, "up")
  /\ UNCHANGED <<faults, row, mirror, hasDb, hasCache, seen, held, history>>

StartedUncached(p) ==
  /\ p \in Procs /\ pc[p] = "push" /\ hasCache[p] /\ mirror[p] # NoSnap
  /\ Fault
  /\ cache' \in {cache, mirror[p]}
  /\ DropCache(p)
  /\ Persisted(p, mirror[p])
  /\ Goto(p, "up")
  /\ UNCHANGED <<row, mirror, hasDb, seen, held, history>>
----------------------------------------------------------------------------
Connect(o) ==
  \/ Begin(o) \/ SkipCache(o) \/ ConnectCache(o) \/ Push(o) \/ PushFails(o)
  \/ SkipDb(o) \/ PingFails(o) \/ ConnectDb(o)

Restore(x) == Compare(x) \/ CompareFails(x) \/ Import(x) \/ ImportFails(x)
Save(s)    == Select(s) \/ Replace(s) \/ SaveFails(s) \/ Spool(s)
Get(g)     == Lookup(g) \/ LookupFails(g) \/ Read(g) \/ ReadFails(g) \/ Local(g)
Conclude(o) == Fill(o) \/ FillFails(o) \/ Mirror(o)
Start(p)   == Crash(p) \/ Started(p) \/ StartedUncached(p)

\* A save is under way while a process of the others is degraded or being
\* restored, or another thread of its own process restores the backend or has
\* restored it before the save is spooled.
Settled(p) ==
  /\ hasDb[p] /\ spool[p] = NoSnap
  /\ \A x \in Agents : P(x) = p => pc[x] \notin {"compare", "import"}

Crossing ==
  \E s \in Saves :
    /\ Running(s)
    /\ \/ \E p \in Procs \ {P(s)} : ~Settled(p)
       \/ \E x \in Agents \ {s} : P(x) = P(s) /\ pc[x] \in {"compare", "import"}
       \/ pc[s] = "spool" /\ hasDb[P(s)]

Step ==
  \/ \E o \in Calls : Connect(o) \/ Conclude(o)
  \/ \E x \in Agents : Restore(x)
  \/ \E s \in Saves : Save(s)
  \/ \E g \in Gets : Get(g)
  \/ \E p \in Procs : Start(p)

Next == Step /\ crossed' = (crossed \/ Crossing')

Spec == Init /\ [][Next]_vars
----------------------------------------------------------------------------
Labels == {"new", "redis", "push", "mysql", "compare", "import", "select", "replace",
           "spool", "lookup", "read", "local", "fill", "mirror", "done", "raised", "up"}

\* Every variable has its type; no snapshot has version 0.
TypeOK ==
  /\ faults \in 0..MaxFaults
  /\ row \in Maybe /\ cache \in Maybe
  /\ mirror \in [Procs -> Maybe]
  /\ spool \in [Procs -> Maybe]
  /\ hasDb \in [Procs -> BOOLEAN]
  /\ hasCache \in [Procs -> BOOLEAN]
  /\ pc \in [Agents -> Labels]
  /\ seen \in [Saves -> Nat]
  /\ held \in [Calls -> Maybe]
  /\ before \in [Calls -> SUBSET Saves]
  /\ acked \subseteq Saves
  /\ crossed \in BOOLEAN /\ refilled \in BOOLEAN
  /\ regressed \in BOOLEAN /\ reverted \in BOOLEAN
  /\ spread \in BOOLEAN /\ behind \in BOOLEAN

\* Snapshot t tells nothing of save s: s began after it had been acknowledged.
Outdated(t, s) == t = NoSnap \/ t.by = Old \/ t.by \in before[s]

\* While nothing fails, the replicas share one register: a get answers no
\* snapshot that was outdated by a save acknowledged before the get began,
\* although saves overlap, write their row and their copy in two steps and
\* may do so in different orders; unless a get has copied to Redis a row that
\* a save had replaced since it was read.
ReadsAreRegular ==
  faults = MaxFaults /\ ~refilled =>
    \A g \in Gets : pc[g] = "done" => \A s \in before[g] : ~Outdated(held[g], s)

\* What is acknowledged is kept: the row or a file has the save or one that
\* did not come before it, through outages of MySQL and Redis and restarts,
\* unless a save met another process' outage or a restoration, a slow save put
\* the version of the row back, a call overwrote a mirror that MySQL had not
\* received, a get mirrored such a snapshot from Redis, or a degraded process
\* saved from a mirror that was behind the row.
Kept(s) == \/ ~Outdated(row, s)
           \/ \E p \in Procs : ~Outdated(spool[p], s)

LossIsExplained ==
  \A s \in acked :
    Kept(s) \/ crossed \/ regressed \/ reverted \/ spread \/ behind
============================================================================
