----------------------- MODULE SnapshotStore_proofs -----------------------
(* Theorems about SnapshotStore: the types of its variables, what a get may *)
(* answer while nothing fails, and that what is acknowledged is kept.       *)
EXTENDS SnapshotStore, TLAPS

\* Which agents are what.
LEMMA Names ==
  /\ \A x \in Agents : P(x) \in Procs
  /\ \A o \in Calls : o \notin Procs
  /\ \A s \in Saves : s \in Calls /\ s \in Agents /\ s \notin Gets /\ s # Old
  /\ \A g \in Gets : g \in Calls /\ g \in Agents /\ g \notin Saves
  /\ \A p \in Procs : p \in Agents
  /\ Calls \subseteq Agents
  BY HomeAssumption, NamesAssumption DEF P, Calls, Agents

\* Snapshots and their versions.
LEMMA Versions ==
  /\ \A t \in Maybe : Version(t) \in Nat
  /\ \A v \in Nat \ {0}, s \in Saves \cup {Old} : Snap(v, s) \in Snapshots
  /\ \A t \in Snapshots : t \in Maybe /\ t # NoSnap /\ t.by \in Saves \cup {Old}
  /\ NoSnap \in Maybe
  /\ \A v \in Nat, s \in Saves : Snap(v + 1, s) \in Maybe
  BY NoSnapAssumption DEF Maybe, Version, Snapshots, Snap
----------------------------------------------------------------------------
\* The initial states have the types.
LEMMA TypeInit == Init => TypeOK
<1> SUFFICES ASSUME Init PROVE TypeOK
  OBVIOUS
<1>1. First \in Snapshots /\ First \in Maybe /\ NoSnap \in Maybe
  BY Versions DEF First
<1>2. row \in Maybe /\ cache \in Maybe /\ mirror \in [Procs -> Maybe]
  BY <1>1 DEF Init
<1>3. pc \in [Agents -> Labels]
  BY DEF Init, Labels
<1>4. /\ hasDb \in [Procs -> BOOLEAN] /\ hasCache \in [Procs -> BOOLEAN]
      /\ spool \in [Procs -> Maybe] /\ held \in [Calls -> Maybe]
  BY <1>1 DEF Init
<1>5. /\ faults \in 0..MaxFaults /\ seen \in [Saves -> Nat]
      /\ before \in [Calls -> SUBSET Saves] /\ acked \subseteq Saves
  BY FaultsAssumption DEF Init
<1>6. /\ crossed \in BOOLEAN /\ refilled \in BOOLEAN /\ regressed \in BOOLEAN
      /\ reverted \in BOOLEAN /\ spread \in BOOLEAN /\ behind \in BOOLEAN
  BY DEF Init
<1>7. QED
  BY <1>2, <1>3, <1>4, <1>5, <1>6 DEF TypeOK

\* A fault uses up one of those that may still happen.
LEMMA FaultIsBounded ==
  ASSUME TypeOK, Fault
  PROVE  faults' \in 0..MaxFaults /\ faults' < MaxFaults
  BY FaultsAssumption DEF TypeOK, Fault

\* The steps of a call before its work are typed.
LEMMA TypeConnect ==
  ASSUME TypeOK, crossed' \in BOOLEAN, NEW o \in Calls, Connect(o)
  PROVE  TypeOK'
<1> USE Names
<1>1. CASE Begin(o)
  BY <1>1 DEF Begin, Goto, process, TypeOK, Labels
<1>2. CASE SkipCache(o)
  BY <1>2 DEF SkipCache, Goto, process, history, TypeOK, Labels
<1>3. CASE ConnectCache(o)
  BY <1>3 DEF ConnectCache, Goto, process, history, TypeOK, Labels
<1>4. CASE Push(o)
  BY <1>4 DEF Push, Goto, process, history, TypeOK, Labels
<1>5. CASE PushFails(o)
  BY <1>5, FaultIsBounded DEF PushFails, DropCache, Goto, process, history, TypeOK, Labels
<1>6. CASE SkipDb(o)
  BY <1>6 DEF SkipDb, Work, Goto, process, history, TypeOK, Labels
<1>7. CASE PingFails(o)
  BY <1>7 DEF PingFails, Spooled, Work, Goto, process, history, TypeOK, Labels
<1>8. CASE ConnectDb(o)
  BY <1>8 DEF ConnectDb, Spooled, Work, Goto, process, history, TypeOK, Labels, Maybe
<1>9. QED
  BY <1>1, <1>2, <1>3, <1>4, <1>5, <1>6, <1>7, <1>8 DEF Connect

\* The steps of a restoration are typed.
LEMMA TypeRestore ==
  ASSUME TypeOK, crossed' \in BOOLEAN, NEW x \in Agents, Restore(x)
  PROVE  TypeOK'
<1> USE Names
<1>1. ASSUME Restored(x)
      PROVE  pc' \in [Agents -> Labels] /\ spool' \in [Procs -> Maybe]
  <2>1. CASE x \in Procs
    BY <1>1, <2>1 DEF Restored, Goto, TypeOK, Labels
  <2>2. CASE x \notin Procs
    <3>1. Work(x, TRUE) /\ Spooled(P(x), NoSnap)
      BY <1>1, <2>2 DEF Restored
    <3>2. pc' \in [Agents -> Labels]
      BY <3>1 DEF Work, Goto, TypeOK, Labels
    <3>3. spool' \in [Procs -> Maybe]
      BY <3>1 DEF Spooled, TypeOK, Maybe
    <3>4. QED
      BY <3>2, <3>3
  <2>3. QED
    BY <2>1, <2>2
<1>2. ASSUME Broken(x)
      PROVE  /\ pc' \in [Agents -> Labels] /\ spool' \in [Procs -> Maybe]
             /\ hasDb' \in [Procs -> BOOLEAN]
  BY <1>2 DEF Broken, DropDb, Spooled, Goto, TypeOK, Labels
<1>3. CASE Compare(x)
  <2>1. mirror' \in [Procs -> Maybe]
    BY <1>3 DEF Compare, TypeOK
  <2>2. pc' \in [Agents -> Labels] /\ spool' \in [Procs -> Maybe]
    BY <1>3, <2>1, <1>1 DEF Compare, Goto, TypeOK, Labels
  <2>3. QED
    BY <1>3, <2>1, <2>2 DEF Compare, history, TypeOK
<1>4. CASE CompareFails(x)
  BY <1>4, <1>2, FaultIsBounded DEF CompareFails, history, TypeOK
<1>5. CASE Import(x)
  BY <1>5, <1>1 DEF Import, history, TypeOK
<1>6. CASE ImportFails(x)
  BY <1>6, <1>2, FaultIsBounded DEF ImportFails, history, TypeOK
<1>7. QED
  BY <1>3, <1>4, <1>5, <1>6 DEF Restore

\* The steps of a save are typed.
LEMMA TypeSave ==
  ASSUME TypeOK, crossed' \in BOOLEAN, NEW s \in Saves, Save(s)
  PROVE  TypeOK'
<1> USE Names, Versions
<1>1. CASE Select(s)
  BY <1>1 DEF Select, Goto, process, history, TypeOK, Labels
<1>2. CASE Replace(s)
  BY <1>2 DEF Replace, Goto, process, history, TypeOK, Labels
<1>3. CASE SaveFails(s)
  BY <1>3, FaultIsBounded DEF SaveFails, DropDb, Spooled, Goto, history, TypeOK, Labels
<1>4. CASE Spool(s)
  <2>1. Snap(Version(mirror[P(s)]) + 1, s) \in Maybe
    BY DEF TypeOK
  <2>2. QED
    BY <1>4, <2>1 DEF Spool, Persisted, Spooled, Goto, TypeOK, Labels
<1>5. QED
  BY <1>1, <1>2, <1>3, <1>4 DEF Save

\* The steps of a get are typed.
LEMMA TypeGet ==
  ASSUME TypeOK, crossed' \in BOOLEAN, NEW g \in Gets, Get(g)
  PROVE  TypeOK'
<1> USE Names
<1>1. CASE Lookup(g) \/ Read(g)
  BY <1>1 DEF Lookup, Read, Goto, process, history, TypeOK, Labels
<1>2. CASE LookupFails(g)
  BY <1>2, FaultIsBounded DEF LookupFails, DropCache, Goto, history, TypeOK, Labels
<1>3. CASE ReadFails(g)
  BY <1>3, FaultIsBounded DEF ReadFails, DropDb, Spooled, Goto, history, TypeOK, Labels
<1>4. CASE Local(g)
  BY <1>4 DEF Local, Goto, process, history, TypeOK, Labels
<1>5. QED
  BY <1>1, <1>2, <1>3, <1>4 DEF Get

\* The last steps of a call are typed.
LEMMA TypeConclude ==
  ASSUME TypeOK, crossed' \in BOOLEAN, NEW o \in Calls, Conclude(o)
  PROVE  TypeOK'
<1> USE Names
<1>1. CASE Fill(o)
  BY <1>1 DEF Fill, Goto, process, TypeOK, Labels
<1>2. CASE FillFails(o)
  BY <1>2, FaultIsBounded DEF FillFails, DropCache, Goto, history, TypeOK, Labels
<1>3. CASE Mirror(o)
  <2>1. spool' \in [Procs -> Maybe] /\ acked' \subseteq Saves
    BY <1>3 DEF Mirror, Persisted, Spooled, TypeOK, Maybe
  <2>2. QED
    BY <1>3, <2>1 DEF Mirror, Goto, TypeOK, Labels
<1>4. QED
  BY <1>1, <1>2, <1>3 DEF Conclude

\* A crash and a start are typed.
LEMMA TypeStart ==
  ASSUME TypeOK, crossed' \in BOOLEAN, NEW p \in Procs, Start(p)
  PROVE  TypeOK'
<1> USE Names
<1>1. CASE Crash(p)
  <2>1. pc' \in [Agents -> Labels]
    BY <1>1 DEF Crash, TypeOK, Labels
  <2>2. hasDb' \in [Procs -> BOOLEAN] /\ hasCache' \in [Procs -> BOOLEAN]
    BY <1>1 DEF Crash, TypeOK
  <2>3. QED
    BY <1>1, <2>1, <2>2, FaultIsBounded DEF Crash, history, TypeOK
<1>2. CASE Started(p)
  BY <1>2 DEF Started, Persisted, Spooled, Goto, history, TypeOK, Labels, Maybe
<1>3. CASE StartedUncached(p)
  BY <1>3, FaultIsBounded DEF StartedUncached, DropCache, Persisted, Spooled, Goto, history,
     TypeOK, Labels, Maybe
<1>4. QED
  BY <1>1, <1>2, <1>3 DEF Start

\* Every step is typed.
LEMMA TypeStep == TypeOK /\ [Next]_vars => TypeOK'
<1> SUFFICES ASSUME TypeOK, [Next]_vars PROVE TypeOK'
  OBVIOUS
<1>1. CASE Next
  <2>1. crossed' \in BOOLEAN
    BY <1>1 DEF Next
  <2>2. QED
    BY <1>1, <2>1, TypeConnect, TypeRestore, TypeSave, TypeGet, TypeConclude, TypeStart
       DEF Next, Step
<1>2. CASE UNCHANGED vars
  BY <1>2 DEF vars, TypeOK
<1>3. QED
  BY <1>1, <1>2

\* Every variable of the session state store keeps its type: versions are
\* positive, whatever is restored, imported, spooled or read from Redis.
THEOREM TypeCorrect == Spec => []TypeOK
<1>1. Init => TypeOK
  BY TypeInit
<1>2. TypeOK /\ [Next]_vars => TypeOK'
  BY TypeStep
<1>3. QED
  BY <1>1, <1>2, PTL DEF Spec
----------------------------------------------------------------------------
(* While nothing fails, every process uses MySQL and Redis, and a call goes *)
(* through few labels.                                                      *)
CalmLabels(o) ==
  {"new", "redis", "mysql", "fill", "mirror", "done"}
    \cup IF o \in Gets THEN {"lookup", "read"} ELSE {"select", "replace"}

Calm ==
  /\ \A p \in Procs : hasDb[p] /\ hasCache[p] /\ pc[p] = "up"
  /\ \A o \in Calls : pc[o] \in CalmLabels(o)

\* What began after an acknowledged save was known to be done.
Acknowledged ==
  /\ \A s \in acked : pc[s] = "done"
  /\ \A o \in Calls : before[o] \subseteq acked

\* A save that has replaced the row is not forgotten by the row, ...
RowKnows ==
  \A s \in Saves : pc[s] \in {"fill", "mirror", "done"} => ~Outdated(row, s)

\* what a save is about to copy is its own,
OwnSnapshot ==
  \A s \in Saves : pc[s] = "fill" => held[s] # NoSnap /\ held[s].by = s

\* ... one that has filled the cache is not forgotten by the cache,
CacheKnows == \A s \in Saves : pc[s] \in {"mirror", "done"} => ~Outdated(cache, s)

\* nor by what a get has read.
GetKnows ==
  \A g \in Gets : pc[g] \in {"fill", "mirror", "done"} =>
    \A s \in before[g] : ~Outdated(held[g], s)

QuietInv ==
  /\ Calm /\ Acknowledged /\ RowKnows /\ OwnSnapshot
  /\ ~refilled => CacheKnows /\ GetKnows

IInv == TypeOK /\ (faults = MaxFaults => QuietInv)

\* The inductive invariant, initially ...
LEMMA IInvInit == Init => IInv
<1> SUFFICES ASSUME Init PROVE IInv
  OBVIOUS
<1>1. Calm
  BY Names DEF Init, Calm, CalmLabels, Agents
<1>2. \A o \in Calls : pc[o] = "new"
  BY Names DEF Init
<1>3. Acknowledged
  BY DEF Init, Acknowledged
<1>4. RowKnows /\ OwnSnapshot /\ CacheKnows /\ GetKnows
  BY <1>2, Names DEF RowKnows, OwnSnapshot, CacheKnows, GetKnows
<1>5. QED
  BY <1>1, <1>3, <1>4, TypeInit DEF IInv, QuietInv

\* Faults are not given back.
LEMMA FaultsDecrease ==
  ASSUME TypeOK, [Next]_vars, faults' = MaxFaults
  PROVE  faults = MaxFaults
<1>1. faults \in 0..MaxFaults
  BY DEF TypeOK
<1>2. \A x \in Agents : Restore(x) => faults' = faults \/ faults' = faults - 1
  BY DEF Restore, Compare, CompareFails, Import, ImportFails, Fault
<1>3. \A o \in Calls : Connect(o) => faults' = faults \/ faults' = faults - 1
  BY DEF Connect, Begin, SkipCache, ConnectCache, Push, PushFails, SkipDb, PingFails,
     ConnectDb, Fault
<1>4. \A o \in Calls : Conclude(o) => faults' = faults \/ faults' = faults - 1
  BY DEF Conclude, Fill, FillFails, Mirror, Fault
<1>5. \A s \in Saves : Save(s) => faults' = faults \/ faults' = faults - 1
  BY DEF Save, Select, Replace, SaveFails, Spool, Fault
<1>6. \A g \in Gets : Get(g) => faults' = faults \/ faults' = faults - 1
  BY DEF Get, Lookup, LookupFails, Read, ReadFails, Local, Fault
<1>7. \A p \in Procs : Start(p) => faults' = faults \/ faults' = faults - 1
  BY DEF Start, Crash, Started, StartedUncached, Fault
<1>8. faults' = faults \/ faults' = faults - 1
  BY <1>2, <1>3, <1>4, <1>5, <1>6, <1>7 DEF Next, Step, vars
<1>9. QED
  BY <1>1, <1>8, FaultsAssumption

\* The steps that are left while nothing fails.
QuietStep ==
  \/ \E o \in Calls : Begin(o) \/ SkipCache(o) \/ SkipDb(o) \/ Fill(o) \/ Mirror(o)
  \/ \E s \in Saves : Select(s) \/ Replace(s)
  \/ \E g \in Gets : Lookup(g) \/ Read(g)

LEMMA OnlyQuietSteps ==
  ASSUME TypeOK, Calm, Next, faults' = MaxFaults
  PROVE  QuietStep
<1>1. ~Fault
  BY FaultIsBounded, FaultsAssumption
<1>2. \A p \in Procs : hasDb[p] /\ hasCache[p] /\ pc[p] = "up"
  BY DEF Calm
<1>3. \A o \in Calls : pc[o] \notin {"push", "compare", "import", "spool", "local"}
  BY DEF Calm, CalmLabels
<1>4. \A x \in Agents : ~Restore(x)
  BY <1>1, <1>2, <1>3 DEF Restore, Compare, CompareFails, Import, ImportFails, Agents
<1>5. \A p \in Procs : ~Start(p)
  BY <1>1, <1>2 DEF Start, Crash, Started, StartedUncached
<1>6. \A o \in Calls : Connect(o) => Begin(o) \/ SkipCache(o) \/ SkipDb(o)
  BY <1>1, <1>2, <1>3, Names DEF Connect, ConnectCache, Push, PushFails, PingFails, ConnectDb
<1>7. \A o \in Calls : Conclude(o) => Fill(o) \/ Mirror(o)
  BY <1>1 DEF Conclude, FillFails
<1>8. \A s \in Saves : Save(s) => Select(s) \/ Replace(s)
  BY <1>1, <1>3, Names DEF Save, SaveFails, Spool
<1>9. \A g \in Gets : Get(g) => Lookup(g) \/ Read(g)
  BY <1>1, <1>3, Names DEF Get, LookupFails, ReadFails, Local
<1>10. QED
  BY <1>4, <1>5, <1>6, <1>7, <1>8, <1>9 DEF Next, Step, QuietStep

\* What a quiet step does to the labels.
LEMMA CalmStep ==
  ASSUME TypeOK, Calm, QuietStep
  PROVE  Calm'
<1> USE Names
<1>1. UNCHANGED <<hasDb, hasCache>>
  BY DEF QuietStep, Begin, SkipCache, SkipDb, Fill, Mirror, Select, Replace, Lookup, Read,
     process
<1>2. \E o \in Calls : \E l \in CalmLabels(o) : pc' = [pc EXCEPT ![o] = l]
  <2>1. ASSUME NEW o \in Calls,
               Begin(o) \/ SkipCache(o) \/ SkipDb(o) \/ Fill(o) \/ Mirror(o)
        PROVE  \E l \in CalmLabels(o) : pc' = [pc EXCEPT ![o] = l]
    BY <2>1 DEF Begin, SkipCache, SkipDb, Fill, Mirror, Work, Goto, CalmLabels, Calm
  <2>2. ASSUME NEW s \in Saves, Select(s) \/ Replace(s)
        PROVE  \E l \in CalmLabels(s) : pc' = [pc EXCEPT ![s] = l]
    BY <2>2 DEF Select, Replace, Goto, CalmLabels
  <2>3. ASSUME NEW g \in Gets, Lookup(g) \/ Read(g)
        PROVE  \E l \in CalmLabels(g) : pc' = [pc EXCEPT ![g] = l]
    BY <2>3 DEF Lookup, Read, Goto, CalmLabels, Calm
  <2>4. QED
    BY <2>1, <2>2, <2>3 DEF QuietStep
<1>3. QED
  BY <1>1, <1>2 DEF Calm, TypeOK

Known == Acknowledged /\ RowKnows /\ OwnSnapshot /\ (~refilled => CacheKnows /\ GetKnows)

\* The steps before a call has read or replaced the row.
LEMMA EarlyKeeps ==
  ASSUME TypeOK, Known, NEW o \in Calls, NEW l \in {"redis", "mysql", "select", "replace", "lookup"},
         pc[o] \in {"new", "redis", "mysql", "select"}, pc' = [pc EXCEPT ![o] = l],
         NEW b \in SUBSET acked, before' = [before EXCEPT ![o] = b],
         UNCHANGED <<acked, row, cache, held, refilled>>
  PROVE  Known'
<1> USE Names DEF TypeOK
<1>1. Acknowledged'
  BY DEF Acknowledged, Known
<1>2. RowKnows'
  BY DEF RowKnows, Outdated, Known
<1>3. OwnSnapshot'
  BY DEF OwnSnapshot, Known
<1>4. ~refilled => CacheKnows'
  BY DEF CacheKnows, Outdated, Known
<1>5. ~refilled => GetKnows'
  <2> SUFFICES ASSUME ~refilled, NEW g \in Gets, (pc[g] \in {"fill", "mirror", "done"})',
                      NEW s \in before'[g]
               PROVE  ~Outdated(held[g], s)'
    BY DEF GetKnows
  <2>1. g # o /\ pc[g] \in {"fill", "mirror", "done"} /\ s \in before[g]
    OBVIOUS
  <2>2. ~Outdated(held[g], s)
    BY <2>1 DEF GetKnows, Known
  <2>3. s \in acked /\ s \in Saves /\ s # o
    BY <2>1 DEF Acknowledged, Known
  <2>4. QED
    BY <2>2, <2>3 DEF Outdated
<1>6. QED
  BY <1>1, <1>2, <1>3, <1>4, <1>5 DEF Known

LEMMA ReplaceKeeps ==
  ASSUME TypeOK, Known, NEW s \in Saves, Replace(s)
  PROVE  Known'
<1> USE Names DEF TypeOK
<1>1. /\ pc[s] = "replace" /\ pc' = [pc EXCEPT ![s] = "fill"]
      /\ held' = [held EXCEPT ![s] = row'] /\ row' = Snap(seen[s] + 1, s)
      /\ UNCHANGED <<before, acked, cache, refilled>>
  BY DEF Replace, Goto, history
<1>2. row' # NoSnap /\ row'.by = s
  <2>1. Snap(seen[s] + 1, s) \in Snapshots
    BY Versions
  <2>2. QED
    BY <1>1, <2>1, NoSnapAssumption DEF Snap
<1>3. Acknowledged'
  BY <1>1 DEF Acknowledged, Known
<1>4. RowKnows'
  <2>1. \A t \in Saves : s \notin before[t]
    BY <1>1 DEF Acknowledged, Known
  <2>2. \A t \in Saves : ~Outdated(row', t)
    BY <1>2, <2>1 DEF Outdated
  <2>3. QED
    BY <1>1, <2>2 DEF RowKnows, Outdated
<1>5. OwnSnapshot'
  BY <1>1, <1>2 DEF OwnSnapshot, Known
<1>6. ~refilled => CacheKnows'
  BY <1>1 DEF CacheKnows, Outdated, Known
<1>7. ~refilled => GetKnows'
  BY <1>1 DEF GetKnows, Outdated, Known
<1>8. QED
  BY <1>1, <1>3, <1>4, <1>5, <1>6, <1>7 DEF Known

LEMMA LookupKeeps ==
  ASSUME TypeOK, Known, NEW g \in Gets, Lookup(g)
  PROVE  Known'
<1> USE Names DEF TypeOK
<1>1. /\ pc[g] = "lookup"
      /\ \/ pc' = [pc EXCEPT ![g] = "mirror"] /\ held' = [held EXCEPT ![g] = cache]
         \/ pc' = [pc EXCEPT ![g] = "read"] /\ held' = held
      /\ UNCHANGED <<before, acked, row, cache, refilled>>
  BY DEF Lookup, Goto, history
<1>2. Acknowledged'
  BY <1>1 DEF Acknowledged, Known
<1>3. RowKnows' /\ OwnSnapshot'
  BY <1>1 DEF RowKnows, OwnSnapshot, Outdated, Known
<1>4. ~refilled => CacheKnows'
  BY <1>1 DEF CacheKnows, Outdated, Known
<1>5. ~refilled => GetKnows'
  <2> SUFFICES ASSUME ~refilled, NEW h \in Gets, (pc[h] \in {"fill", "mirror", "done"})',
                      NEW s \in before[h]
               PROVE  ~Outdated(held'[h], s)
    BY <1>1 DEF GetKnows, Outdated
  <2>1. CASE h = g
    <3>1. pc[s] = "done" /\ s \in Saves
      BY DEF Acknowledged, Known
    <3>2. ~Outdated(cache, s)
      BY <3>1 DEF CacheKnows, Known
    <3>3. QED
      BY <1>1, <2>1, <3>2
  <2>2. CASE h # g
    BY <1>1, <2>2 DEF GetKnows, Known
  <2>3. QED
    BY <2>1, <2>2
<1>6. QED
  BY <1>1, <1>2, <1>3, <1>4, <1>5 DEF Known

LEMMA ReadKeeps ==
  ASSUME TypeOK, Calm, Known, NEW g \in Gets, Read(g)
  PROVE  Known'
<1> USE Names DEF TypeOK
<1>1. /\ pc[g] = "read" /\ held' = [held EXCEPT ![g] = row]
      /\ \E l \in {"done", "fill"} : pc' = [pc EXCEPT ![g] = l]
      /\ UNCHANGED <<before, acked, row, cache, refilled>>
  BY DEF Read, Goto, history, Calm
<1>2. Acknowledged'
  BY <1>1 DEF Acknowledged, Known
<1>3. RowKnows' /\ OwnSnapshot'
  BY <1>1 DEF RowKnows, OwnSnapshot, Outdated, Known
<1>4. ~refilled => CacheKnows'
  BY <1>1 DEF CacheKnows, Outdated, Known
<1>5. ~refilled => GetKnows'
  <2> SUFFICES ASSUME ~refilled, NEW h \in Gets, (pc[h] \in {"fill", "mirror", "done"})',
                      NEW s \in before[h]
               PROVE  ~Outdated(held'[h], s)
    BY <1>1 DEF GetKnows, Outdated
  <2>1. CASE h = g
    <3>1. pc[s] = "done" /\ s \in Saves
      BY DEF Acknowledged, Known
    <3>2. ~Outdated(row, s)
      BY <3>1 DEF RowKnows, Known
    <3>3. QED
      BY <1>1, <2>1, <3>2
  <2>2. CASE h # g
    BY <1>1, <2>2 DEF GetKnows, Known
  <2>3. QED
    BY <2>1, <2>2
<1>6. QED
  BY <1>1, <1>2, <1>3, <1>4, <1>5 DEF Known

LEMMA FillKeeps ==
  ASSUME TypeOK, Calm, Known, NEW o \in Calls, Fill(o)
  PROVE  Known'
<1> USE Names DEF TypeOK
<1>1. /\ pc[o] = "fill" /\ pc' = [pc EXCEPT ![o] = "mirror"]
      /\ cache' = held[o]
      /\ refilled' = (refilled \/ (o \in Gets /\ held[o] # row))
      /\ UNCHANGED <<before, acked, row, held>>
  BY DEF Fill, Goto, Calm
<1>2. Acknowledged'
  BY <1>1 DEF Acknowledged, Known
<1>3. RowKnows' /\ OwnSnapshot'
  BY <1>1 DEF RowKnows, OwnSnapshot, Outdated, Known
<1>4. ~refilled' => CacheKnows'
  <2> SUFFICES ASSUME ~refilled', NEW s \in Saves, (pc[s] \in {"mirror", "done"})'
               PROVE  ~Outdated(held[o], s)
    BY <1>1 DEF CacheKnows, Outdated
  <2>1. CASE o \in Gets
    <3>1. held[o] = row /\ pc[s] \in {"fill", "mirror", "done"}
      BY <1>1, <2>1
    <3>2. QED
      BY <3>1 DEF RowKnows, Known
  <2>2. CASE o \in Saves
    <3>1. held[o] # NoSnap /\ held[o].by = o
      BY <1>1, <2>2 DEF OwnSnapshot, Known
    <3>2. o \notin before[s]
      BY <1>1 DEF Acknowledged, Known
    <3>3. QED
      BY <2>2, <3>1, <3>2 DEF Outdated
  <2>3. QED
    BY <2>1, <2>2 DEF Calls
<1>5. ~refilled' => GetKnows'
  BY <1>1 DEF GetKnows, Outdated, Known
<1>6. QED
  BY <1>2, <1>3, <1>4, <1>5 DEF Known

LEMMA MirrorKeeps ==
  ASSUME TypeOK, Known, NEW o \in Calls, Mirror(o)
  PROVE  Known'
<1> USE Names DEF TypeOK
<1>1. /\ pc[o] = "mirror" /\ pc' = [pc EXCEPT ![o] = "done"]
      /\ acked \subseteq acked' /\ acked' \subseteq acked \cup {o}
      /\ UNCHANGED <<before, cache, row, held, refilled>>
  BY DEF Mirror, Goto
<1>2. Acknowledged'
  BY <1>1 DEF Acknowledged, Known
<1>3. RowKnows' /\ OwnSnapshot'
  BY <1>1 DEF RowKnows, OwnSnapshot, Outdated, Known
<1>4. ~refilled => CacheKnows'
  BY <1>1 DEF CacheKnows, Outdated, Known
<1>5. ~refilled => GetKnows'
  BY <1>1 DEF GetKnows, Outdated, Known
<1>6. QED
  BY <1>1, <1>2, <1>3, <1>4, <1>5 DEF Known

LEMMA QuietKeeps ==
  ASSUME TypeOK, Calm, Known, QuietStep
  PROVE  Known'
<1> USE Names
<1>1. ASSUME NEW o \in Calls, Begin(o) PROVE Known'
  BY <1>1, EarlyKeeps DEF Begin, Goto
<1>2. ASSUME NEW o \in Calls, SkipCache(o) \/ SkipDb(o) PROVE Known'
  <2>1. before' = [before EXCEPT ![o] = before[o]] /\ before[o] \in SUBSET acked
    BY <1>2 DEF SkipCache, SkipDb, history, TypeOK, Acknowledged, Known
  <2>2. /\ pc[o] \in {"redis", "mysql"}
        /\ \E l \in {"mysql", "lookup", "select"} : pc' = [pc EXCEPT ![o] = l]
        /\ UNCHANGED <<acked, row, cache, held, refilled>>
    BY <1>2 DEF SkipCache, SkipDb, Work, Goto, Calm, history
  <2>3. QED
    BY <2>1, <2>2, EarlyKeeps
<1>3. ASSUME NEW s \in Saves, Select(s) PROVE Known'
  <2>1. before' = [before EXCEPT ![s] = before[s]] /\ before[s] \in SUBSET acked
    BY <1>3 DEF Select, history, TypeOK, Acknowledged, Known
  <2>2. /\ pc[s] = "select" /\ pc' = [pc EXCEPT ![s] = "replace"]
        /\ UNCHANGED <<acked, row, cache, held, refilled>>
    BY <1>3 DEF Select, Goto, history
  <2>3. QED
    BY <2>1, <2>2, EarlyKeeps
<1>4. QED
  BY <1>1, <1>2, <1>3, ReplaceKeeps, LookupKeeps, ReadKeeps, FillKeeps, MirrorKeeps
     DEF QuietStep

\* ... and after every step.
LEMMA IInvStep == IInv /\ [Next]_vars => IInv'
<1> SUFFICES ASSUME IInv, [Next]_vars PROVE IInv'
  OBVIOUS
<1>1. TypeOK /\ TypeOK'
  BY TypeStep DEF IInv
<1>2. ASSUME faults' = MaxFaults PROVE QuietInv'
  <2>1. Calm /\ Known
    BY <1>1, <1>2, FaultsDecrease DEF IInv, QuietInv, Known
  <2>2. CASE Next
    <3>1. QuietStep
      BY <1>1, <1>2, <2>1, <2>2, OnlyQuietSteps
    <3>2. QED
      BY <1>1, <2>1, <3>1, CalmStep, QuietKeeps DEF QuietInv, Known
  <2>3. CASE UNCHANGED vars
    BY <2>1, <2>3 DEF vars, QuietInv, Known, Calm, Acknowledged, RowKnows, OwnSnapshot,
       CacheKnows, GetKnows, Outdated
  <2>4. QED
    BY <2>2, <2>3
<1>3. QED
  BY <1>1, <1>2 DEF IInv

LEMMA IInvReads == IInv => ReadsAreRegular
<1> SUFFICES ASSUME IInv, faults = MaxFaults, ~refilled, NEW g \in Gets, pc[g] = "done",
                    NEW s \in before[g]
             PROVE  ~Outdated(held[g], s)
  BY DEF ReadsAreRegular
<1>1. QED
  BY DEF IInv, QuietInv, GetKnows

\* While nothing fails the replicas share one register, however many calls
\* overlap, as long as no get copies a replaced row to Redis.
THEOREM ReadsAreRegularHolds == Spec => []ReadsAreRegular
<1>1. Init => IInv
  BY IInvInit
<1>2. IInv /\ [Next]_vars => IInv'
  BY IInvStep
<1>3. IInv => ReadsAreRegular
  BY IInvReads
<1>4. QED
  BY <1>1, <1>2, <1>3, PTL DEF Spec
----------------------------------------------------------------------------
(* What is acknowledged is kept.  At most one process leads the row, and    *)
(* what it has in memory it has in its file; that tells of every            *)
(* acknowledged save, and if no process leads, the row does.                *)
Explained == crossed \/ regressed \/ reverted \/ spread \/ behind

\* A crossing is noted,
Noted == Crossing => crossed

\* one agent of a process restores at a time,
OneRestores ==
  \A x, y \in Agents :
    P(x) = P(y) /\ pc[x] \in Restoring /\ pc[y] \in Restoring => x = y

\* and a process that starts has no calls.
StartsAlone ==
  \A p \in Procs : pc[p] # "up" => \A o \in Calls : P(o) = p => ~Running(o)

MirrorIsSpooled == \A p \in Procs : Leads(p) => spool[p] = mirror[p]
SpoolIsBehind   == \A p \in Procs : Leads(p) \/ Version(spool[p]) <= Version(row)
OneLeads        == \A p, q \in Procs : Leads(p) /\ Leads(q) => p = q
ImportLeads     == \A x \in Agents : pc[x] = "import" => Leads(P(x))
StartFollows    == \A p \in Procs : pc[p] = "push" /\ hasDb[p] => ~Leads(p)

\* A save that has replaced the row is not forgotten by it; and unless its process
\* has lost the backend since, neither is an acknowledged one.
Replaced == {s \in Saves : pc[s] \in {"fill", "mirror"}}

RowHasReplaced ==
  \A s \in Replaced : Version(held[s]) <= Version(row) /\ ~Outdated(row, s)

RowHasAcked ==
  \A s \in Replaced : hasDb[P(s)] => \A t \in acked : ~Outdated(row, t)

\* What was acknowledged is in the leading file, or in the row.
Newest ==
  \A t \in acked :
    /\ \A p \in Procs : Leads(p) => ~Outdated(spool[p], t)
    /\ (\A p \in Procs : ~Leads(p)) => ~Outdated(row, t)

Led == /\ MirrorIsSpooled /\ SpoolIsBehind /\ OneLeads /\ ImportLeads /\ StartFollows
       /\ RowHasReplaced /\ RowHasAcked /\ Newest

\* The conditions of every state, and those of the states with nothing to explain.
Base    == TypeOK /\ Acknowledged /\ Noted /\ OneRestores /\ StartsAlone
LossInv == Base /\ (~Explained => Led)
----------------------------------------------------------------------------
\* An explanation is not taken back.
LEMMA ExplainedStays ==
  ASSUME [Next]_vars, ~Explained'
  PROVE  ~Explained
<1>1. CASE UNCHANGED vars
  BY <1>1 DEF vars, Explained
<1>2. CASE Next
  <2> DEFINE Stays == ~(regressed \/ reverted \/ spread \/ behind)
  <2>1. ASSUME NEW o \in Calls, Connect(o) \/ Conclude(o) PROVE Stays
    BY <2>1 DEF Connect, Begin, SkipCache, ConnectCache, Push, PushFails, SkipDb, PingFails,
       ConnectDb, Conclude, Fill, FillFails, Mirror, history, Explained
  <2>2. ASSUME NEW x \in Agents, Restore(x) PROVE Stays
    BY <2>2 DEF Restore, Compare, CompareFails, Import, ImportFails, history, Explained
  <2>3. ASSUME NEW s \in Saves, Save(s) PROVE Stays
    BY <2>3 DEF Save, Select, Replace, SaveFails, Spool, history, Explained
  <2>4. ASSUME NEW g \in Gets, Get(g) PROVE Stays
    BY <2>4 DEF Get, Lookup, LookupFails, Read, ReadFails, Local, history, Explained
  <2>5. ASSUME NEW p \in Procs, Start(p) PROVE Stays
    BY <2>5 DEF Start, Crash, Started, StartedUncached, history, Explained
  <2>6. QED
    BY <1>2, <2>1, <2>2, <2>3, <2>4, <2>5 DEF Next, Step, Explained
<1>3. QED
  BY <1>1, <1>2

\* A step moves one agent, or a process dies.  What starts to restore has the lock
\* or held it; a process moves only while it starts, a call begins only when its
\* process is up.
LEMMA AgentMoves ==
  ASSUME TypeOK, [Next]_vars
  PROVE  \/ pc' = pc
         \/ \E p \in Procs : Crash(p)
         \/ \E x \in Agents, l \in Labels :
              /\ pc' = [pc EXCEPT ![x] = l]
              /\ l \in Restoring => pc[x] \in Restoring \/ Free(x)
              /\ x \in Procs => pc[x] # "up"
              /\ x \in Calls => Running(x) \/ (pc[x] = "new" /\ pc[P(x)] = "up")
              /\ (pc[x] = "mirror" /\ x \in Calls) \/ pc[x] = "spool" \/ acked' = acked
<1> DEFINE Moved ==
      \E x \in Agents, l \in Labels :
        /\ pc' = [pc EXCEPT ![x] = l]
        /\ l \in Restoring => pc[x] \in Restoring \/ Free(x)
        /\ x \in Procs => pc[x] # "up"
        /\ x \in Calls => Running(x) \/ (pc[x] = "new" /\ pc[P(x)] = "up")
        /\ (pc[x] = "mirror" /\ x \in Calls) \/ pc[x] = "spool" \/ acked' = acked
<1> USE Names DEF Goto, Labels, Restoring, Running
<1>1. ASSUME NEW o \in Calls, Connect(o) PROVE Moved
  <2>1. CASE Begin(o)
    BY <2>1 DEF Begin
  <2>2. CASE SkipCache(o) \/ ConnectCache(o) \/ Push(o) \/ PushFails(o)
    BY <2>2 DEF SkipCache, ConnectCache, Push, PushFails, history
  <2>3. CASE SkipDb(o) \/ PingFails(o)
    BY <2>3 DEF SkipDb, PingFails, Work, history
  <2>4. CASE ConnectDb(o)
    BY <2>4 DEF ConnectDb, Work, history
  <2>5. QED
    BY <1>1, <2>1, <2>2, <2>3, <2>4 DEF Connect
<1>2. ASSUME NEW x \in Agents, Restore(x) PROVE Moved
  <2>1. CASE Compare(x) \/ Import(x)
    BY <2>1 DEF Compare, Import, Restored, Work, history
  <2>2. CASE CompareFails(x) \/ ImportFails(x)
    BY <2>2 DEF CompareFails, ImportFails, Broken, history
  <2>3. QED
    BY <1>2, <2>1, <2>2 DEF Restore
<1>3. ASSUME NEW s \in Saves, Save(s) PROVE Moved
  BY <1>3 DEF Save, Select, Replace, SaveFails, Spool, history
<1>4. ASSUME NEW g \in Gets, Get(g) PROVE Moved
  BY <1>4 DEF Get, Lookup, LookupFails, Read, ReadFails, Local, history
<1>5. ASSUME NEW o \in Calls, Conclude(o) PROVE Moved
  BY <1>5 DEF Conclude, Fill, FillFails, Mirror, history
<1>6. ASSUME NEW p \in Procs, Started(p) \/ StartedUncached(p) PROVE Moved
  BY <1>6 DEF Started, StartedUncached, history
<1>7. QED
  BY <1>1, <1>2, <1>3, <1>4, <1>5, <1>6 DEF Next, Step, Start, vars

\* A save is acknowledged by its last step.
LEMMA AckMoves ==
  ASSUME TypeOK, [Next]_vars
  PROVE  \/ acked' = acked
         \/ \E s \in Saves : (Mirror(s) \/ Spool(s)) /\ acked' = acked \cup {s}
                             /\ pc' = [pc EXCEPT ![s] = "done"]
<1>1. ASSUME NEW o \in Calls, Connect(o) PROVE acked' = acked
  BY <1>1 DEF Connect, Begin, SkipCache, ConnectCache, Push, PushFails, SkipDb, PingFails,
     ConnectDb, history
<1>2. ASSUME NEW x \in Agents, Restore(x) PROVE acked' = acked
  BY <1>2 DEF Restore, Compare, CompareFails, Import, ImportFails, history
<1>3. ASSUME NEW s \in Saves, Save(s), ~Spool(s) PROVE acked' = acked
  BY <1>3 DEF Save, Select, Replace, SaveFails, history
<1>4. ASSUME NEW g \in Gets, Get(g) PROVE acked' = acked
  BY <1>4 DEF Get, Lookup, LookupFails, Read, ReadFails, Local, history
<1>5. ASSUME NEW o \in Calls, Conclude(o), ~(o \in Saves /\ Mirror(o)) PROVE acked' = acked
  BY <1>5 DEF Conclude, Fill, FillFails, Mirror, history
<1>6. ASSUME NEW p \in Procs, Start(p) PROVE acked' = acked
  BY <1>6 DEF Start, Crash, Started, StartedUncached, history
<1>7. ASSUME NEW s \in Saves, Mirror(s) \/ Spool(s)
      PROVE  acked' = acked \cup {s} /\ pc' = [pc EXCEPT ![s] = "done"]
  BY <1>7 DEF Mirror, Spool, Goto
<1>8. QED
  BY <1>1, <1>2, <1>3, <1>4, <1>5, <1>6, <1>7 DEF Next, Step, vars

\* A call is told what was acknowledged when it begins.
LEMMA BeforeMoves ==
  ASSUME TypeOK, [Next]_vars, NEW o \in Calls
  PROVE  before'[o] = before[o] \/ (pc[o] = "new" /\ before'[o] = acked /\ acked' = acked)
<1>1. ASSUME NEW q \in Calls, Connect(q), ~Begin(q) PROVE before' = before
  BY <1>1 DEF Connect, SkipCache, ConnectCache, Push, PushFails, SkipDb, PingFails,
     ConnectDb, history
<1>2. ASSUME NEW x \in Agents, Restore(x) PROVE before' = before
  BY <1>2 DEF Restore, Compare, CompareFails, Import, ImportFails, history
<1>3. ASSUME NEW s \in Saves, Save(s) PROVE before' = before
  BY <1>3 DEF Save, Select, Replace, SaveFails, Spool, history
<1>4. ASSUME NEW g \in Gets, Get(g) PROVE before' = before
  BY <1>4 DEF Get, Lookup, LookupFails, Read, ReadFails, Local, history
<1>5. ASSUME NEW q \in Calls, Conclude(q) PROVE before' = before
  BY <1>5 DEF Conclude, Fill, FillFails, Mirror, history
<1>6. ASSUME NEW p \in Procs, Start(p) PROVE before' = before
  BY <1>6 DEF Start, Crash, Started, StartedUncached, history
<1>7. ASSUME NEW q \in Calls, Begin(q)
      PROVE  before'[o] = before[o] \/ (pc[o] = "new" /\ before'[o] = acked /\ acked' = acked)
  BY <1>7 DEF Begin, TypeOK
<1>8. QED
  BY <1>1, <1>2, <1>3, <1>4, <1>5, <1>6, <1>7 DEF Next, Step, vars

\* What a save that is not acknowledged writes forgets nobody's save.
LEMMA OwnIsFresh ==
  ASSUME TypeOK, Acknowledged, NEW s \in Saves, pc[s] # "done"
  PROVE  s \notin acked /\ \A o \in Calls : s \notin before[o]
BY DEF Acknowledged

\* Acknowledged saves are done, and what a call was told was acknowledged.
LEMMA AcknowledgedStep ==
  ASSUME TypeOK, Acknowledged, [Next]_vars
  PROVE  Acknowledged'
<1> USE Names
<1>1. acked \subseteq acked'
  BY AckMoves
<1>2. ASSUME NEW o \in Calls PROVE before'[o] \subseteq acked'
  BY <1>1, BeforeMoves DEF Acknowledged
<1>3. ASSUME NEW s \in acked' PROVE pc'[s] = "done"
  <2>1. CASE s \in acked
    <3>1. pc[s] = "done" /\ s \in Calls
      BY <2>1 DEF Acknowledged, TypeOK
    <3>2. QED
      BY <3>1, AgentMoves DEF Crash, Running, TypeOK
  <2>2. CASE s \notin acked
    BY <1>3, <2>2, AckMoves DEF TypeOK
  <2>3. QED
    BY <2>1, <2>2
<1>4. QED
  BY <1>2, <1>3 DEF Acknowledged

\* Every crossing is noted when it comes about.
LEMMA NotedStep ==
  ASSUME Noted, [Next]_vars
  PROVE  Noted'
<1>1. CASE Next
  BY <1>1 DEF Next, Noted
<1>2. CASE UNCHANGED vars
  BY <1>2 DEF vars, Noted, Crossing, Settled, Running
<1>3. QED
  BY <1>1, <1>2

\* A process starts alone: its calls died, and none begins.
LEMMA StartsAloneStep ==
  ASSUME TypeOK, StartsAlone, [Next]_vars
  PROVE  StartsAlone'
<1> USE Names
<1> SUFFICES ASSUME NEW p \in Procs, pc'[p] # "up", NEW o \in Calls, P(o) = p
             PROVE  pc'[o] \in {"new", "done", "raised"}
  BY DEF StartsAlone, Running, P
<1>1. CASE pc' = pc
  BY <1>1 DEF StartsAlone, Running
<1>2. ASSUME NEW q \in Procs, Crash(q) PROVE pc'[o] \in {"new", "done", "raised"}
  <2>1. CASE q = p
    BY <1>2, <2>1 DEF Crash, Running, TypeOK
  <2>2. CASE q # p
    BY <1>2, <2>2 DEF Crash, Running, StartsAlone, TypeOK
  <2>3. QED
    BY <2>1, <2>2
<1>3. ASSUME NEW x \in Agents, NEW l \in Labels, pc' = [pc EXCEPT ![x] = l],
             x \in Procs => pc[x] # "up",
             x \in Calls => Running(x) \/ (pc[x] = "new" /\ pc[P(x)] = "up")
      PROVE  pc'[o] \in {"new", "done", "raised"}
  <2>1. pc[p] # "up"
    BY <1>3 DEF TypeOK
  <2>2. ~Running(o)
    BY <2>1 DEF StartsAlone
  <2>3. x # o
    BY <1>3, <2>1, <2>2
  <2>4. QED
    BY <1>3, <2>2, <2>3 DEF Running, TypeOK
<1>4. QED
  BY <1>1, <1>2, <1>3, AgentMoves

\* Whoever restores holds the lock of the process.
LEMMA OneRestoresStep ==
  ASSUME TypeOK, StartsAlone, OneRestores, [Next]_vars
  PROVE  OneRestores'
<1> USE Names
<1> SUFFICES ASSUME NEW x \in Agents, NEW y \in Agents, P(x) = P(y),
                    pc'[x] \in Restoring, pc'[y] \in Restoring
             PROVE  x = y
  BY DEF OneRestores, P, Restoring
<1>1. CASE pc' = pc
  BY <1>1 DEF OneRestores
<1>2. ASSUME NEW p \in Procs, Crash(p) PROVE x = y
  <2>1. CASE P(x) = p
    <3>1. ASSUME NEW z \in Agents, P(z) = p, z # p PROVE pc'[z] \notin Restoring
      BY <1>2, <3>1 DEF Crash, Running, Restoring, TypeOK, Agents, P
    <3>2. QED
      BY <2>1, <3>1
  <2>2. CASE P(x) # p
    <3>1. x # p /\ y # p
      BY <2>2 DEF P
    <3>2. pc'[x] = pc[x] /\ pc'[y] = pc[y]
      BY <1>2, <2>2, <3>1 DEF Crash, TypeOK
    <3>3. QED
      BY <3>2 DEF OneRestores
  <2>3. QED
    BY <2>1, <2>2
<1>3. ASSUME NEW z \in Agents, NEW l \in Labels, pc' = [pc EXCEPT ![z] = l],
             l \in Restoring => pc[z] \in Restoring \/ Free(z)
      PROVE  x = y
  BY <1>3 DEF OneRestores, Free, TypeOK
<1>4. QED
  BY <1>1, <1>2, <1>3, AgentMoves

\* What holds in every state is kept by every step.
LEMMA BaseStep == Base /\ [Next]_vars => Base'
BY TypeStep, AcknowledgedStep, NotedStep, StartsAloneStep, OneRestoresStep DEF Base
----------------------------------------------------------------------------
\* With nothing to explain, a save runs beside settled processes only, which do
\* not lead; no other agent restores, and it spools without a backend.
LEMMA SaveIsAlone ==
  ASSUME TypeOK, Noted, ~Explained, MirrorIsSpooled, NEW s \in Saves, Running(s)
  PROVE  /\ \A p \in Procs \ {P(s)} : Settled(p) /\ ~Leads(p)
         /\ \A x \in Agents \ {s} : pc[x] \notin {"compare", "import"}
         /\ pc[s] = "spool" => ~hasDb[P(s)]
<1> USE Names
<1>1. ~Crossing
  BY DEF Noted, Explained
<1>2. ASSUME NEW p \in Procs \ {P(s)} PROVE Settled(p) /\ ~Leads(p)
  <2>1. Settled(p)
    BY <1>1 DEF Crossing
  <2>2. Leads(p) => mirror[p] # NoSnap
    BY Versions DEF Leads, Version, TypeOK
  <2>3. QED
    BY <2>1, <2>2 DEF Settled, MirrorIsSpooled
<1>3. ASSUME NEW x \in Agents \ {s} PROVE pc[x] \notin {"compare", "import"}
  <2>1. CASE P(x) = P(s)
    BY <1>1, <2>1 DEF Crossing
  <2>2. CASE P(x) # P(s)
    BY <1>2, <2>2 DEF Settled
  <2>3. QED
    BY <2>1, <2>2
<1>4. pc[s] = "spool" => ~hasDb[P(s)]
  BY <1>1 DEF Crossing
<1>5. QED
  BY <1>2, <1>3, <1>4

\* The row is replaced by a save, or by the import of a mirror.
LEMMA RowMoves ==
  ASSUME TypeOK, [Next]_vars
  PROVE  \/ row' = row
         \/ \E s \in Saves : /\ Replace(s) \/ SaveFails(s)
                             /\ pc[s] = "replace" /\ row' = Snap(seen[s] + 1, s)
         \/ \E x \in Agents : /\ Import(x) \/ ImportFails(x)
                              /\ row' = mirror[P(x)]
<1>1. ASSUME NEW o \in Calls, Connect(o) PROVE row' = row
  BY <1>1 DEF Connect, Begin, SkipCache, ConnectCache, Push, PushFails, SkipDb, PingFails,
     ConnectDb
<1>2. ASSUME NEW x \in Agents, Restore(x)
      PROVE  row' = row \/ ((Import(x) \/ ImportFails(x)) /\ row' = mirror[P(x)])
  BY <1>2 DEF Restore, Compare, CompareFails, Import, ImportFails
<1>3. ASSUME NEW s \in Saves, Save(s)
      PROVE  row' = row \/ (/\ Replace(s) \/ SaveFails(s)
                            /\ pc[s] = "replace" /\ row' = Snap(seen[s] + 1, s))
  BY <1>3 DEF Save, Select, Replace, SaveFails, Spool
<1>4. ASSUME NEW g \in Gets, Get(g) PROVE row' = row
  BY <1>4 DEF Get, Lookup, LookupFails, Read, ReadFails, Local
<1>5. ASSUME NEW o \in Calls, Conclude(o) PROVE row' = row
  BY <1>5 DEF Conclude, Fill, FillFails, Mirror
<1>6. ASSUME NEW p \in Procs, Start(p) PROVE row' = row
  BY <1>6 DEF Start, Crash, Started, StartedUncached
<1>7. QED
  BY <1>1, <1>2, <1>3, <1>4, <1>5, <1>6 DEF Next, Step, vars

\* What replaces the row: a save's own snapshot, or that of the leading file.
LEMMA RowRises ==
  ASSUME Base, Led, ~Explained, ~Explained', [Next]_vars, row' # row
  PROVE  /\ Version(row) <= Version(row')
         /\ \/ \E s \in Saves : /\ Replace(s) \/ SaveFails(s)
                                /\ pc[s] = "replace"
                                /\ row' # NoSnap /\ row'.by = s
            \/ \E x \in Agents : /\ Import(x) \/ ImportFails(x)
                                 /\ pc[x] = "import" /\ Leads(P(x))
                                 /\ row' = spool[P(x)]
<1> USE Names
<1>0. TypeOK /\ MirrorIsSpooled /\ ImportLeads
  BY DEF Base, Led
<1>1. ASSUME NEW s \in Saves, Replace(s) \/ SaveFails(s), pc[s] = "replace",
             row' = Snap(seen[s] + 1, s)
      PROVE  Version(row) <= Version(row') /\ row' # NoSnap /\ row'.by = s
  <2>1. Snap(seen[s] + 1, s) \in Snapshots
    BY <1>0, Versions DEF TypeOK
  <2>2. ~(Version(row') < Version(row))
    BY <1>1 DEF Replace, SaveFails, Explained
  <2>3. Version(row) \in Nat /\ Version(row') \in Nat
    BY <1>0, <1>1, <2>1, Versions DEF TypeOK
  <2>4. QED
    BY <1>1, <2>1, <2>2, <2>3, NoSnapAssumption DEF Snap
<1>2. ASSUME NEW x \in Agents, Import(x) \/ ImportFails(x), row' = mirror[P(x)]
      PROVE  /\ Version(row) <= Version(row')
             /\ pc[x] = "import" /\ Leads(P(x)) /\ row' = spool[P(x)]
  <2>1. pc[x] = "import" /\ Leads(P(x))
    BY <1>0, <1>2 DEF Import, ImportFails, ImportLeads
  <2>2. Version(row) \in Nat /\ Version(mirror[P(x)]) \in Nat
    BY <1>0, Versions DEF TypeOK
  <2>3. QED
    BY <1>0, <1>2, <2>1, <2>2 DEF Leads, MirrorIsSpooled
<1>3. QED
  BY <1>0, <1>1, <1>2, RowMoves

\* How a process without a new save of its own may go on, beside a row that rises:
\* as it was, with its memory spooled or not; at most as far as the row; or back to
\* its file.
Goes(p) ==
  \/ mirror'[p] = mirror[p] /\ spool'[p] \in {spool[p], mirror[p]}
  \/ Version(mirror'[p]) <= Version(row') /\ Version(spool'[p]) <= Version(row')
  \/ mirror'[p] = spool[p] /\ spool'[p] = spool[p]

\* It does not come to lead.
LEMMA GoesBehind ==
  ASSUME TypeOK, TypeOK', MirrorIsSpooled, SpoolIsBehind,
         Version(row) <= Version(row'), NEW p \in Procs, Goes(p)
  PROVE  /\ Leads(p)' => /\ Leads(p) /\ spool'[p] = mirror'[p]
                         /\ spool'[p] = spool[p] /\ mirror'[p] = mirror[p]
         /\ Leads(p)' \/ Version(spool'[p]) <= Version(row')
<1>1. /\ Version(row) \in Nat /\ Version(row') \in Nat
      /\ Version(mirror[p]) \in Nat /\ Version(mirror'[p]) \in Nat
      /\ Version(spool[p]) \in Nat /\ Version(spool'[p]) \in Nat
  BY Versions DEF TypeOK
<1>2. /\ Version(mirror[p]) > Version(row) => spool[p] = mirror[p]
      /\ Version(mirror[p]) > Version(row) \/ Version(spool[p]) <= Version(row)
  BY DEF MirrorIsSpooled, SpoolIsBehind, Leads
<1>3. Leads(p)' <=> Version(mirror'[p]) > Version(row')
  BY DEF Leads
<1>4. Leads(p) <=> Version(mirror[p]) > Version(row)
  BY DEF Leads
<1>5. CASE mirror'[p] = mirror[p] /\ spool'[p] \in {spool[p], mirror[p]}
  BY <1>1, <1>2, <1>3, <1>4, <1>5
<1>6. CASE Version(mirror'[p]) <= Version(row') /\ Version(spool'[p]) <= Version(row')
  BY <1>1, <1>3, <1>6
<1>7. CASE mirror'[p] = spool[p] /\ spool'[p] = spool[p]
  BY <1>1, <1>2, <1>3, <1>4, <1>7
<1>8. QED
  BY <1>5, <1>6, <1>7 DEF Goes

\* The steps of a call before its work spool the memory at most.
LEMMA GoesConnect ==
  ASSUME TypeOK, NEW o \in Calls, Connect(o)
  PROVE  \A p \in Procs : Goes(p)
<1> USE Names
<1>1. CASE Begin(o) \/ SkipCache(o) \/ ConnectCache(o) \/ Push(o) \/ PushFails(o) \/ SkipDb(o)
  BY <1>1 DEF Begin, SkipCache, ConnectCache, Push, PushFails, SkipDb, process, Goes
<1>2. CASE PingFails(o)
  BY <1>2 DEF PingFails, Spooled, TypeOK, Goes
<1>3. CASE ConnectDb(o)
  BY <1>3 DEF ConnectDb, Spooled, TypeOK, Goes
<1>4. QED
  BY <1>1, <1>2, <1>3 DEF Connect

\* A restoration makes row and memory equal, and forgets a file that does not lead.
LEMMA GoesRestore ==
  ASSUME Base, Led, TypeOK', NEW x \in Agents, Restore(x)
  PROVE  \A p \in Procs : Goes(p)
<1> USE Names
<1>0. /\ TypeOK /\ MirrorIsSpooled /\ SpoolIsBehind
      /\ Version(NoSnap) = 0 /\ Version(row) \in Nat
  BY Versions DEF Base, Led, Version, TypeOK
<1>1. ASSUME CompareFails(x) \/ ImportFails(x) PROVE \A p \in Procs : Goes(p)
  BY <1>0, <1>1 DEF CompareFails, ImportFails, Broken, DropDb, Spooled, TypeOK, Goes
<1>2. ASSUME Compare(x), NEW p \in Procs PROVE Goes(p)
  <2>1. CASE UNCHANGED <<mirror, spool>>
    BY <2>1 DEF Goes
  <2>2. CASE /\ Version(mirror[P(x)]) <= Version(row) /\ row' = row
             /\ mirror' = [mirror EXCEPT ![P(x)] = row] /\ Restored(x)
    <3>0. spool' = spool \/ spool' = [spool EXCEPT ![P(x)] = NoSnap]
      BY <2>2 DEF Restored, Spooled
    <3>a. mirror \in [Procs -> Maybe] /\ spool \in [Procs -> Maybe]
      BY <1>0 DEF TypeOK
    <3>1. CASE p # P(x)
      <4>1. mirror'[p] = mirror[p] /\ spool'[p] = spool[p]
        BY <2>2, <3>0, <3>a, <3>1
      <4>2. QED
        BY <4>1 DEF Goes
    <3>2. CASE p = P(x)
      <4>1. mirror'[p] = row /\ row' = row /\ spool'[p] \in {NoSnap, spool[p]}
        BY <2>2, <3>0, <3>a, <3>2
      <4>2. ~Leads(p)
        BY <1>0, <2>2, <3>2, Versions DEF Leads, TypeOK
      <4>3. Version(spool[p]) <= Version(row)
        BY <1>0, <4>2 DEF SpoolIsBehind
      <4>4. QED
        BY <1>0, <4>1, <4>3 DEF Goes
    <3>3. QED
      BY <3>1, <3>2
  <2>3. QED
    BY <1>2, <2>1, <2>2 DEF Compare
<1>3. ASSUME Import(x), NEW p \in Procs PROVE Goes(p)
  <2>1. row' = mirror[P(x)] /\ mirror' = mirror /\ Restored(x)
    BY <1>3 DEF Import
  <2>2. CASE p # P(x) \/ x \in Procs
    BY <1>0, <2>1, <2>2 DEF Restored, Spooled, TypeOK, Goes
  <2>3. CASE p = P(x) /\ x \notin Procs
    <3>1. mirror'[p] = row' /\ spool'[p] = NoSnap
      BY <1>0, <2>1, <2>3 DEF Restored, Spooled, TypeOK
    <3>2. Version(row') \in Nat
      BY Versions DEF TypeOK
    <3>3. QED
      BY <1>0, <3>1, <3>2 DEF Goes
  <2>4. QED
    BY <2>2, <2>3
<1>4. QED
  BY <1>1, <1>2, <1>3 DEF Restore

\* The steps of a save with the backend and those of a get spool the memory at most.
LEMMA GoesWork ==
  ASSUME TypeOK, NEW o \in Calls,
         (o \in Saves /\ Save(o) /\ ~Spool(o)) \/ (o \in Gets /\ Get(o))
  PROVE  \A p \in Procs : Goes(p)
<1> USE Names
<1>1. ASSUME o \in Saves, Save(o), ~Spool(o) PROVE \A p \in Procs : Goes(p)
  BY <1>1 DEF Save, Select, Replace, SaveFails, DropDb, Spooled, process, TypeOK, Goes
<1>2. ASSUME o \in Gets, Get(o) PROVE \A p \in Procs : Goes(p)
  BY <1>2 DEF Get, Lookup, LookupFails, Read, ReadFails, Local, DropDb, Spooled, process,
     TypeOK, Goes
<1>3. QED
  BY <1>1, <1>2

\* With nothing to explain, what a call mirrors at last is not newer than the row,
\* or the same as before; and it overwrites a leading mirror only as a save whose
\* process has a backend.
LEMMA MirrorIsBehind ==
  ASSUME TypeOK, RowHasReplaced, ~Explained', NEW o \in Calls, Mirror(o)
  PROVE  /\ row' = row
         /\ \/ mirror' = mirror /\ o \in Gets
            \/ /\ mirror' = [mirror EXCEPT ![P(o)] = held[o]]
               /\ Version(held[o]) <= Version(row)
               /\ Leads(P(o)) => o \in Saves /\ hasDb[P(o)]
<1> USE Names
<1>1. /\ row' = row /\ mirror' = [mirror EXCEPT ![P(o)] = held[o]]
      /\ ~(Overwrites(o) /\ Leads(P(o)))
      /\ ~(o \in Gets /\ Overwrites(o) /\ Version(held[o]) > Version(row))
  BY DEF Mirror, Explained
<1>2. /\ Version(row) \in Nat /\ Version(held[o]) \in Nat /\ Version(mirror[P(o)]) \in Nat
  BY Versions DEF TypeOK
<1>3. CASE o \in Gets /\ mirror[P(o)] = held[o]
  BY <1>1, <1>3 DEF TypeOK
<1>4. CASE o \in Gets /\ mirror[P(o)] # held[o]
  BY <1>1, <1>2, <1>4 DEF Overwrites
<1>5. CASE o \in Saves
  <2>1. Version(held[o]) <= Version(row)
    BY <1>5 DEF RowHasReplaced, Replaced, Mirror
  <2>2. Leads(P(o)) => mirror[P(o)] # held[o]
    BY <1>2, <2>1 DEF Leads
  <2>3. QED
    BY <1>1, <1>5, <2>1, <2>2 DEF Overwrites
<1>6. QED
  BY <1>3, <1>4, <1>5 DEF Calls

\* The last steps of a call.
LEMMA GoesConclude ==
  ASSUME Base, Led, ~Explained', NEW o \in Calls, Conclude(o)
  PROVE  \A p \in Procs : Goes(p)
<1> USE Names
<1>0. /\ TypeOK /\ RowHasReplaced /\ SpoolIsBehind
      /\ Version(NoSnap) = 0 /\ Version(row) \in Nat
  BY Versions DEF Base, Led, Version, TypeOK
<1>1. CASE Fill(o) \/ FillFails(o)
  BY <1>1 DEF Fill, FillFails, process, Goes
<1>2. ASSUME Mirror(o), NEW p \in Procs PROVE Goes(p)
  <2>1. CASE mirror' = mirror /\ o \in Gets
    BY <1>2, <2>1 DEF Mirror, Goes
  <2>2. CASE /\ mirror' = [mirror EXCEPT ![P(o)] = held[o]]
             /\ Version(held[o]) <= Version(row) /\ row' = row
             /\ Leads(P(o)) => o \in Saves /\ hasDb[P(o)]
    <3>1. CASE p # P(o)
      BY <1>0, <1>2, <2>2, <3>1 DEF Mirror, Persisted, Spooled, TypeOK, Goes
    <3>2. CASE p = P(o)
      <4>1. mirror'[p] = held[o]
        BY <1>0, <2>2, <3>2 DEF TypeOK
      <4>2. CASE o \in Saves
        <5>1. spool'[p] \in {NoSnap, held[o]}
          BY <1>0, <1>2, <3>2, <4>2 DEF Mirror, Persisted, Spooled, TypeOK
        <5>2. QED
          BY <1>0, <2>2, <4>1, <5>1 DEF Goes
      <4>3. CASE o \notin Saves
        <5>1. spool'[p] = spool[p] /\ ~Leads(p)
          BY <1>2, <2>2, <3>2, <4>3 DEF Mirror
        <5>2. Version(spool[p]) <= Version(row)
          BY <1>0, <5>1 DEF SpoolIsBehind
        <5>3. QED
          BY <2>2, <4>1, <5>1, <5>2 DEF Goes
      <4>4. QED
        BY <4>2, <4>3
    <3>3. QED
      BY <3>1, <3>2
  <2>3. QED
    BY <1>0, <1>2, <2>1, <2>2, MirrorIsBehind
<1>3. QED
  BY <1>1, <1>2 DEF Conclude

\* A process that dies comes back with its file, which it keeps while it leads.
LEMMA GoesStart ==
  ASSUME Base, Led, NEW q \in Procs, Start(q)
  PROVE  \A p \in Procs : Goes(p)
<1>0. /\ TypeOK /\ StartFollows /\ Version(NoSnap) = 0 /\ Version(row) \in Nat
      /\ Version(mirror[q]) \in Nat
  BY Versions DEF Base, Led, Version, TypeOK
<1>1. CASE Crash(q)
  BY <1>0, <1>1 DEF Crash, TypeOK, Goes
<1>2. ASSUME Started(q) \/ StartedUncached(q), NEW p \in Procs PROVE Goes(p)
  <2>1. /\ pc[q] = "push" /\ row' = row /\ mirror' = mirror
        /\ spool' = [spool EXCEPT ![q] = IF hasDb[q] THEN NoSnap ELSE mirror[q]]
    BY <1>2, Names DEF Started, StartedUncached, Persisted, Spooled, P
  <2>2. CASE p = q /\ hasDb[q]
    <3>1. ~Leads(q)
      BY <1>0, <2>1, <2>2 DEF StartFollows
    <3>2. Version(mirror[q]) <= Version(row)
      BY <1>0, <3>1 DEF Leads
    <3>3. QED
      BY <1>0, <2>1, <2>2, <3>2 DEF Goes, TypeOK
  <2>3. CASE p # q \/ ~hasDb[q]
    BY <1>0, <2>1, <2>3 DEF Goes, TypeOK
  <2>4. QED
    BY <2>2, <2>3
<1>3. QED
  BY <1>1, <1>2 DEF Start

\* Every step but a degraded save.
LEMMA GoesStep ==
  ASSUME Base, Led, ~Explained', [Next]_vars, \A s \in Saves : ~Spool(s)
  PROVE  \A p \in Procs : Goes(p)
<1>1. TypeOK /\ TypeOK'
  BY TypeStep DEF Base
<1>2. CASE UNCHANGED vars
  BY <1>2 DEF vars, Goes
<1>3. CASE Next
  BY <1>1, <1>3, Names, GoesConnect, GoesRestore, GoesWork, GoesConclude, GoesStart
     DEF Next, Step
<1>4. QED
  BY <1>2, <1>3

\* A degraded save leads the row, alone: the other processes are settled.
LEMMA SpoolLeads ==
  ASSUME Base, Led, ~Explained, ~Explained', NEW s \in Saves, Spool(s)
  PROVE  /\ row' = row /\ hasDb' = hasDb /\ before' = before /\ ~hasDb[P(s)]
         /\ acked' = acked \cup {s} /\ pc' = [pc EXCEPT ![s] = "done"] /\ Running(s)
         /\ Leads(P(s))' /\ spool'[P(s)] = mirror'[P(s)]
         /\ spool'[P(s)] # NoSnap /\ spool'[P(s)].by = s
         /\ \A p \in Procs \ {P(s)} : /\ mirror'[p] = mirror[p] /\ spool'[p] = spool[p]
                                      /\ ~Leads(p) /\ ~Leads(p)'
<1> USE Names
<1> DEFINE snap == Snap(Version(mirror[P(s)]) + 1, s)
<1>0. TypeOK /\ Noted /\ MirrorIsSpooled
  BY DEF Base, Led
<1>1. /\ row' = row /\ hasDb' = hasDb /\ before' = before /\ acked' = acked \cup {s}
      /\ pc' = [pc EXCEPT ![s] = "done"] /\ pc[s] = "spool"
      /\ mirror' = [mirror EXCEPT ![P(s)] = snap]
      /\ spool' = [spool EXCEPT ![P(s)] = IF hasDb[P(s)] THEN NoSnap ELSE snap]
      /\ ~(Version(mirror[P(s)]) < Version(row))
  BY DEF Spool, Persisted, Spooled, Goto, Explained
<1>2. /\ Running(s) /\ ~hasDb[P(s)]
      /\ \A p \in Procs \ {P(s)} : ~Leads(p)
  BY <1>0, <1>1, SaveIsAlone DEF Running
<1>3. mirror'[P(s)] = snap /\ spool'[P(s)] = snap
  BY <1>0, <1>1, <1>2 DEF TypeOK
<1>4. Version(mirror[P(s)]) \in Nat /\ Version(row) \in Nat
  BY <1>0, Versions DEF TypeOK
<1>5. snap # NoSnap /\ snap.by = s /\ Version(snap) = Version(mirror[P(s)]) + 1
  <2>1. snap \in Snapshots
    BY <1>4, Versions
  <2>2. snap # NoSnap
    BY <2>1, NoSnapAssumption
  <2>3. QED
    BY <2>2 DEF Version, Snap
<1>6. Leads(P(s))'
  BY <1>1, <1>3, <1>4, <1>5 DEF Leads
<1>7. ASSUME NEW p \in Procs \ {P(s)}
      PROVE  mirror'[p] = mirror[p] /\ spool'[p] = spool[p] /\ ~Leads(p) /\ ~Leads(p)'
  <2>1. mirror'[p] = mirror[p] /\ spool'[p] = spool[p]
    BY <1>0, <1>1 DEF TypeOK
  <2>2. QED
    BY <1>1, <1>2, <2>1 DEF Leads
<1>8. QED
  BY <1>1, <1>2, <1>3, <1>5, <1>6, <1>7

\* One leader at most, and what leads is in its file.
LEMMA LeaderStep ==
  ASSUME Base, Led, ~Explained, ~Explained', [Next]_vars
  PROVE  MirrorIsSpooled' /\ SpoolIsBehind' /\ OneLeads'
<1>0. /\ TypeOK /\ TypeOK' /\ MirrorIsSpooled /\ SpoolIsBehind /\ OneLeads
      /\ Version(row) \in Nat
  BY TypeStep, Versions DEF Base, Led, TypeOK
<1>1. ASSUME NEW s \in Saves, Spool(s)
      PROVE  MirrorIsSpooled' /\ SpoolIsBehind' /\ OneLeads'
  <2>1. /\ row' = row /\ Leads(P(s))' /\ spool'[P(s)] = mirror'[P(s)]
        /\ \A p \in Procs \ {P(s)} : spool'[p] = spool[p] /\ ~Leads(p) /\ ~Leads(p)'
    BY <1>1, SpoolLeads
  <2>2. \A p \in Procs \ {P(s)} : Version(spool'[p]) <= Version(row')
    BY <1>0, <2>1 DEF SpoolIsBehind
  <2>3. QED
    BY <2>1, <2>2 DEF MirrorIsSpooled, SpoolIsBehind, OneLeads
<1>2. ASSUME \A s \in Saves : ~Spool(s)
      PROVE  MirrorIsSpooled' /\ SpoolIsBehind' /\ OneLeads'
  <2>1. Version(row) <= Version(row')
    BY <1>0, RowRises
  <2>2. \A p \in Procs : Goes(p)
    BY <1>2, GoesStep
  <2>3. \A p \in Procs : /\ Leads(p)' => Leads(p) /\ spool'[p] = mirror'[p]
                         /\ Leads(p)' \/ Version(spool'[p]) <= Version(row')
    BY <1>0, <2>1, <2>2, GoesBehind
  <2>4. QED
    BY <1>0, <2>3 DEF MirrorIsSpooled, SpoolIsBehind, OneLeads
<1>3. QED
  BY <1>1, <1>2

\* What changes a process' memory.
LEMMA MemoryMoves ==
  ASSUME TypeOK, [Next]_vars, NEW p \in Procs
  PROVE  \/ mirror'[p] = mirror[p]
         \/ \E x \in Agents : P(x) = p /\ Compare(x) /\ ~Leads(p)
         \/ \E o \in Calls : P(o) = p /\ Mirror(o)
         \/ \E s \in Saves : P(s) = p /\ Spool(s)
         \/ Crash(p)
<1> USE Names DEF TypeOK
<1>1. ASSUME NEW o \in Calls, Connect(o) PROVE mirror' = mirror
  BY <1>1 DEF Connect, Begin, SkipCache, ConnectCache, Push, PushFails, SkipDb, PingFails,
     ConnectDb, process
<1>2. ASSUME NEW x \in Agents, Restore(x)
      PROVE  mirror'[p] = mirror[p] \/ (P(x) = p /\ Compare(x) /\ ~Leads(p))
  <2>1. CASE Compare(x)
    <3>1. \/ mirror' = mirror
          \/ /\ mirror' = [mirror EXCEPT ![P(x)] = row]
             /\ Version(mirror[P(x)]) <= Version(row)
      BY <2>1 DEF Compare
    <3>2. Version(mirror[P(x)]) \in Nat /\ Version(row) \in Nat
      BY Versions
    <3>3. QED
      BY <2>1, <3>1, <3>2 DEF Leads
  <2>2. CASE CompareFails(x) \/ Import(x) \/ ImportFails(x)
    BY <2>2 DEF CompareFails, Import, ImportFails
  <2>3. QED
    BY <1>2, <2>1, <2>2 DEF Restore
<1>3. ASSUME NEW s \in Saves, Save(s) PROVE mirror'[p] = mirror[p] \/ (P(s) = p /\ Spool(s))
  BY <1>3 DEF Save, Select, Replace, SaveFails, Spool, process
<1>4. ASSUME NEW g \in Gets, Get(g) PROVE mirror' = mirror
  BY <1>4 DEF Get, Lookup, LookupFails, Read, ReadFails, Local, process
<1>5. ASSUME NEW o \in Calls, Conclude(o)
      PROVE  mirror'[p] = mirror[p] \/ (P(o) = p /\ Mirror(o))
  BY <1>5 DEF Conclude, Fill, FillFails, Mirror, process
<1>6. ASSUME NEW q \in Procs, Start(q) PROVE mirror'[p] = mirror[p] \/ (q = p /\ Crash(q))
  BY <1>6 DEF Start, Crash, Started, StartedUncached
<1>7. QED
  BY <1>1, <1>2, <1>3, <1>4, <1>5, <1>6 DEF Next, Step, vars

\* An import is of a mirror that still leads: no save and no other import meets it.
LEMMA ImportLeadsStep ==
  ASSUME Base, Led, ~Explained, ~Explained', [Next]_vars
  PROVE  ImportLeads'
<1> USE Names
<1>0. TypeOK /\ Noted /\ MirrorIsSpooled /\ OneLeads /\ ImportLeads /\ OneRestores
  BY DEF Base, Led
<1> SUFFICES ASSUME NEW x \in Agents, pc'[x] = "import" PROVE Leads(P(x))'
  BY DEF ImportLeads, P
<1>1. CASE pc[x] # "import"
  <2>1. CASE pc' = pc
    BY <1>1, <2>1
  <2>2. ASSUME NEW p \in Procs, Crash(p) PROVE FALSE
    BY <1>0, <1>1, <2>2 DEF Crash, TypeOK
  <2>3. CASE Next /\ \A p \in Procs : ~Crash(p)
    <3>1. ASSUME NEW o \in Calls, Connect(o) PROVE pc'[x] # "import"
      BY <1>0, <1>1, <3>1 DEF Connect, Begin, SkipCache, ConnectCache, Push, PushFails, SkipDb,
         PingFails, ConnectDb, Work, Goto, TypeOK
    <3>2. ASSUME NEW s \in Saves, Save(s) PROVE pc'[x] # "import"
      BY <1>0, <1>1, <3>2 DEF Save, Select, Replace, SaveFails, Spool, Goto, TypeOK
    <3>3. ASSUME NEW g \in Gets, Get(g) PROVE pc'[x] # "import"
      BY <1>0, <1>1, <3>3 DEF Get, Lookup, LookupFails, Read, ReadFails, Local, Goto, TypeOK
    <3>4. ASSUME NEW o \in Calls, Conclude(o) PROVE pc'[x] # "import"
      BY <1>0, <1>1, <3>4 DEF Conclude, Fill, FillFails, Mirror, Goto, TypeOK
    <3>5. ASSUME NEW p \in Procs, Started(p) \/ StartedUncached(p) PROVE pc'[x] # "import"
      BY <1>0, <1>1, <3>5 DEF Started, StartedUncached, Goto, TypeOK
    <3>6. PICK y \in Agents : Restore(y)
      BY <2>3, <3>1, <3>2, <3>3, <3>4, <3>5 DEF Next, Step, Start
    <3>7. ~(CompareFails(y) \/ Import(y) \/ ImportFails(y))
      BY <1>0, <1>1 DEF CompareFails, Import, ImportFails, Restored, Broken, Work, Goto, TypeOK
    <3>8. y = x /\ UNCHANGED <<row, mirror>> /\ Version(mirror[P(x)]) > Version(row)
      BY <1>0, <1>1, <3>6, <3>7 DEF Restore, Compare, Restored, Work, Goto, TypeOK
    <3>9. QED
      BY <3>8 DEF Leads
  <2>4. QED
    BY <2>1, <2>2, <2>3 DEF vars
<1>2. CASE pc[x] = "import"
  <2>1. Leads(P(x))
    BY <1>0, <1>2 DEF ImportLeads
  <2>2. ASSUME NEW s \in Saves, Running(s), s # x PROVE FALSE
    BY <1>0, <1>2, <2>2, SaveIsAlone
  <2>3. row' = row
    <3>1. ASSUME NEW s \in Saves, pc[s] = "replace" PROVE FALSE
      BY <1>2, <2>2, <3>1 DEF Running
    <3>2. ASSUME NEW y \in Agents, Import(y) \/ ImportFails(y), Leads(P(y)) PROVE FALSE
      <4>1. y # x
        BY <1>0, <3>2 DEF Import, ImportFails, Restored, Broken, Work, Goto, TypeOK
      <4>2. pc[y] = "import" /\ P(y) = P(x)
        BY <1>0, <2>1, <3>2 DEF Import, ImportFails, OneLeads
      <4>3. QED
        BY <1>0, <1>2, <4>1, <4>2 DEF OneRestores, Restoring
    <3>3. QED
      BY <3>1, <3>2, RowRises
  <2>4. mirror'[P(x)] = mirror[P(x)]
    <3>1. ASSUME NEW y \in Agents, P(y) = P(x), Compare(y), ~Leads(P(x)) PROVE FALSE
      BY <2>1, <3>1
    <3>2. ASSUME NEW o \in Calls, P(o) = P(x), Mirror(o) PROVE FALSE
      <4>1. Free(o) /\ pc[o] = "mirror"
        BY <3>2 DEF Mirror
      <4>2. QED
        BY <1>2, <3>2, <4>1 DEF Free, Restoring
    <3>3. ASSUME NEW s \in Saves, Spool(s) PROVE FALSE
      BY <1>2, <2>2, <3>3 DEF Spool, Running
    <3>4. ASSUME Crash(P(x)) PROVE FALSE
      BY <1>0, <1>2, <3>4 DEF Crash, Running, TypeOK, P, Agents
    <3>5. QED
      BY <1>0, <3>1, <3>2, <3>3, <3>4, MemoryMoves
  <2>5. QED
    BY <2>1, <2>3, <2>4 DEF Leads
<1>3. QED
  BY <1>1, <1>2

\* A process regains a backend by a call that connects, or by its start.
LEMMA DbMoves ==
  ASSUME TypeOK, [Next]_vars, NEW p \in Procs, hasDb'[p], ~hasDb[p]
  PROVE  Crash(p) \/ \E o \in Calls : P(o) = p /\ ConnectDb(o)
<1> USE Names DEF TypeOK
<1> DEFINE Same == hasDb'[p] = hasDb[p] \/ ~hasDb'[p]
<1>1. ASSUME NEW o \in Calls, Connect(o) PROVE Same \/ (P(o) = p /\ ConnectDb(o))
  BY <1>1 DEF Connect, Begin, SkipCache, ConnectCache, Push, PushFails, SkipDb, PingFails,
     ConnectDb, process
<1>2. ASSUME NEW x \in Agents, Restore(x) PROVE Same
  BY <1>2 DEF Restore, Compare, CompareFails, Import, ImportFails, Broken, DropDb
<1>3. ASSUME NEW s \in Saves, Save(s) PROVE Same
  BY <1>3 DEF Save, Select, Replace, SaveFails, Spool, DropDb, process
<1>4. ASSUME NEW g \in Gets, Get(g) PROVE Same
  BY <1>4 DEF Get, Lookup, LookupFails, Read, ReadFails, Local, DropDb, process
<1>5. ASSUME NEW o \in Calls, Conclude(o) PROVE Same
  BY <1>5 DEF Conclude, Fill, FillFails, Mirror, process
<1>6. ASSUME NEW q \in Procs, Start(q) PROVE Same \/ (q = p /\ Crash(q))
  BY <1>6 DEF Start, Crash, Started, StartedUncached
<1>7. QED
  BY <1>1, <1>2, <1>3, <1>4, <1>5, <1>6 DEF Next, Step, vars

\* A process comes to push its memory as it starts: with nothing in its file, with
\* the row, or without a backend.
LEMMA PushMoves ==
  ASSUME TypeOK, [Next]_vars, NEW p \in Procs, pc[p] # "push", pc'[p] = "push", hasDb'[p]
  PROVE  mirror'[p] = NoSnap \/ mirror'[p] = row'
<1> USE Names DEF TypeOK
<1>1. ASSUME NEW o \in Calls, Connect(o) \/ Conclude(o) PROVE pc'[p] = pc[p]
  BY <1>1 DEF Connect, Begin, SkipCache, ConnectCache, Push, PushFails, SkipDb, PingFails,
     ConnectDb, Conclude, Fill, FillFails, Mirror, Work, Goto
<1>2. ASSUME NEW x \in Agents, Restore(x)
      PROVE  pc'[p] = pc[p] \/ mirror'[p] = NoSnap \/ mirror'[p] = row'
             \/ (x = p /\ (pc'[p] # "push" \/ ~hasDb'[p]))
  <2>1. CASE x # p
    BY <1>2, <2>1 DEF Restore, Compare, CompareFails, Import, ImportFails, Restored, Broken,
       Work, Goto
  <2>2. CASE x = p
    BY <1>2, <2>2 DEF Restore, Compare, CompareFails, Import, ImportFails, Restored, Broken,
       DropDb, Goto, P
  <2>3. QED
    BY <2>1, <2>2
<1>3. ASSUME NEW s \in Saves, Save(s) PROVE pc'[p] = pc[p]
  BY <1>3 DEF Save, Select, Replace, SaveFails, Spool, Goto
<1>4. ASSUME NEW g \in Gets, Get(g) PROVE pc'[p] = pc[p]
  BY <1>4 DEF Get, Lookup, LookupFails, Read, ReadFails, Local, Goto
<1>5. ASSUME NEW q \in Procs, Started(q) \/ StartedUncached(q) PROVE pc'[p] # "push"
  BY <1>5 DEF Started, StartedUncached, Goto
<1>6. ASSUME NEW q \in Procs, Crash(q) PROVE q = p /\ mirror'[p] = NoSnap
  BY <1>6 DEF Crash, P
<1>7. QED
  BY <1>1, <1>2, <1>3, <1>4, <1>5, <1>6 DEF Next, Step, Start, vars

\* What a starting process with a backend pushes does not lead.
LEMMA StartFollowsStep ==
  ASSUME Base, Led, ~Explained, ~Explained', [Next]_vars
  PROVE  StartFollows'
<1> USE Names
<1>0. /\ TypeOK /\ TypeOK' /\ MirrorIsSpooled /\ SpoolIsBehind /\ StartFollows /\ StartsAlone
      /\ Version(NoSnap) = 0 /\ Version(row) \in Nat /\ Version(row') \in Nat
  BY TypeStep, Versions DEF Base, Led, Version, TypeOK
<1> SUFFICES ASSUME NEW p \in Procs, pc'[p] = "push", hasDb'[p], Leads(p)' PROVE FALSE
  BY DEF StartFollows
<1>1. pc[p] = "push"
  <2>1. mirror'[p] = NoSnap \/ mirror'[p] = row' => ~Leads(p)'
    BY <1>0 DEF Leads
  <2>2. QED
    BY <1>0, <2>1, PushMoves
<1>2. hasDb[p]
  <2>1. ASSUME Crash(p) PROVE FALSE
    <3>1. mirror'[p] = NoSnap
      BY <1>0, <2>1 DEF Crash, TypeOK
    <3>2. QED
      BY <1>0, <3>1 DEF Leads
  <2>2. ASSUME NEW o \in Calls, P(o) = p, ConnectDb(o) PROVE FALSE
    BY <1>0, <1>1, <2>2 DEF ConnectDb, StartsAlone, Running
  <2>3. QED
    BY <1>0, <2>1, <2>2, DbMoves
<1>3. CASE \E s \in Saves : Spool(s)
  <2>1. PICK s \in Saves : Spool(s)
    BY <1>3
  <2>2. P(s) = p /\ hasDb' = hasDb /\ ~hasDb[P(s)]
    BY <2>1, SpoolLeads
  <2>3. QED
    BY <1>2, <2>2
<1>4. CASE \A s \in Saves : ~Spool(s)
  <2>1. Version(row) <= Version(row')
    BY <1>0, RowRises
  <2>2. Leads(p)
    BY <1>0, <1>4, <2>1, GoesStep, GoesBehind
  <2>3. QED
    BY <1>0, <1>1, <1>2, <2>2 DEF StartFollows
<1>5. QED
  BY <1>3, <1>4

\* A save holds what it has replaced the row by until it is done.
LEMMA ReplacedMoves ==
  ASSUME TypeOK, [Next]_vars, NEW s \in Saves, s \in Replaced'
  PROVE  Replace(s) \/ (s \in Replaced /\ held'[s] = held[s])
<1> USE Names DEF TypeOK
<1>0. pc'[s] \in {"fill", "mirror"}
  BY DEF Replaced
<1> DEFINE Still == pc[s] \in {"fill", "mirror"} /\ held'[s] = held[s]
<1>1. ASSUME NEW o \in Calls, Connect(o) PROVE Still
  BY <1>0, <1>1 DEF Connect, Begin, SkipCache, ConnectCache, Push, PushFails, SkipDb,
     PingFails, ConnectDb, Work, Goto
<1>2. ASSUME NEW x \in Agents, Restore(x) PROVE Still
  BY <1>0, <1>2 DEF Restore, Compare, CompareFails, Import, ImportFails, Restored, Broken,
     Work, Goto
<1>3. ASSUME NEW q \in Saves, Save(q), ~Replace(s) PROVE Still
  BY <1>0, <1>3 DEF Save, Select, Replace, SaveFails, Spool, Goto
<1>4. ASSUME NEW g \in Gets, Get(g) PROVE Still
  BY <1>0, <1>4 DEF Get, Lookup, LookupFails, Read, ReadFails, Local, Goto
<1>5. ASSUME NEW o \in Calls, Conclude(o) PROVE Still
  BY <1>0, <1>5 DEF Conclude, Fill, FillFails, Mirror, Goto
<1>6. ASSUME NEW p \in Procs, Started(p) \/ StartedUncached(p) PROVE Still
  BY <1>0, <1>6 DEF Started, StartedUncached, Goto
<1>7. ASSUME NEW p \in Procs, Crash(p) PROVE Still
  BY <1>0, <1>7 DEF Crash
<1>8. ASSUME UNCHANGED vars PROVE Still
  BY <1>0, <1>8 DEF vars
<1>9. Replace(s) \/ Still
  <2> HIDE DEF Still, TypeOK
  <2> QED
    BY <1>1, <1>2, <1>3, <1>4, <1>5, <1>6, <1>7, <1>8 DEF Next, Step, Start, vars
<1>10. QED
  BY <1>0, <1>9 DEF Replaced

\* A row that a save has replaced forgets nobody's save that was acknowledged, or
\* under way, before.
LEMMA FreshRow ==
  ASSUME Base, [Next]_vars, NEW s \in Saves, pc[s] # "done", row' # NoSnap, row'.by = s,
         NEW t \in Saves, pc[t] # "new"
  PROVE  ~Outdated(row, t)'
<1> USE Names
<1>1. s \notin before[t]
  BY OwnIsFresh DEF Base
<1>2. before'[t] = before[t]
  BY BeforeMoves DEF Base
<1>3. QED
  BY <1>1, <1>2 DEF Outdated

\* What a row tells of does not change while it stays.
LEMMA SameRow ==
  ASSUME TypeOK, [Next]_vars, row' = row, NEW t \in Saves, pc[t] # "new", ~Outdated(row, t)
  PROVE  ~Outdated(row, t)'
BY BeforeMoves, Names DEF Outdated

\* A save that has replaced the row is not forgotten by it.
LEMMA RowHasReplacedStep ==
  ASSUME Base, Led, ~Explained, ~Explained', [Next]_vars
  PROVE  RowHasReplaced'
<1> USE Names
<1>0. /\ TypeOK /\ TypeOK' /\ Noted /\ MirrorIsSpooled /\ RowHasReplaced
      /\ Version(row) \in Nat /\ Version(row') \in Nat
  BY TypeStep, Versions DEF Base, Led, TypeOK
<1> SUFFICES ASSUME NEW s \in Replaced'
             PROVE  Version(held'[s]) <= Version(row') /\ ~Outdated(row, s)'
  BY DEF RowHasReplaced
<1>1. CASE Replace(s) /\ s \in Saves
  <2>1. row' = Snap(seen[s] + 1, s) /\ pc[s] = "replace" /\ held'[s] = row'
    BY <1>0, <1>1 DEF Replace, TypeOK
  <2>2. row' \in Snapshots
    BY <1>0, <1>1, <2>1, Versions DEF TypeOK
  <2>3. row' # NoSnap /\ row'.by = s
    BY <2>1, <2>2, NoSnapAssumption DEF Snap
  <2>4. QED
    BY <1>0, <1>1, <2>1, <2>3, FreshRow
<1>2. CASE s \in Replaced /\ held'[s] = held[s]
  <2>1. /\ s \in Saves /\ pc[s] \in {"fill", "mirror"}
        /\ Version(held[s]) <= Version(row) /\ ~Outdated(row, s)
    BY <1>0, <1>2 DEF Replaced, RowHasReplaced
  <2>2. CASE row' = row
    BY <1>0, <1>2, <2>1, <2>2, SameRow
  <2>3. CASE row' # row
    <3>1. Version(row) <= Version(row')
      BY <2>3, RowRises
    <3>2. Version(held'[s]) <= Version(row')
      <4>1. Version(held[s]) \in Nat
        BY <1>0, <2>1, Versions DEF TypeOK
      <4>2. QED
        BY <1>0, <1>2, <2>1, <3>1, <4>1
    <3>3. ASSUME NEW x \in Agents, pc[x] = "import" PROVE FALSE
      BY <1>0, <2>1, <3>3, SaveIsAlone DEF Running
    <3>4. PICK q \in Saves : pc[q] = "replace" /\ row' # NoSnap /\ row'.by = q
      BY <2>3, <3>3, RowRises
    <3>5. ~Outdated(row, s)'
      BY <2>1, <3>4, FreshRow
    <3>6. QED
      BY <3>2, <3>5
  <2>4. QED
    BY <2>2, <2>3
<1>3. QED
  BY <1>0, <1>1, <1>2, ReplacedMoves DEF Replaced

\* As long as its process has a backend, neither is an acknowledged one.
LEMMA RowHasAckedStep ==
  ASSUME Base, Led, ~Explained, ~Explained', [Next]_vars
  PROVE  RowHasAcked'
<1> USE Names
<1>0. /\ TypeOK /\ TypeOK' /\ Noted /\ Noted' /\ Acknowledged /\ MirrorIsSpooled
      /\ RowHasReplaced /\ RowHasAcked /\ Newest
  BY BaseStep DEF Base, Led
<1> SUFFICES ASSUME NEW s \in Replaced', hasDb'[P(s)], NEW t \in acked'
             PROVE  ~Outdated(row, t)'
  BY DEF RowHasAcked, P
<1>a. s \in Saves /\ pc'[s] \in {"fill", "mirror"} /\ t \in Saves
  BY <1>0 DEF Replaced, TypeOK
<1>b. pc[t] # "new"
  BY <1>0, AckMoves DEF Acknowledged, Mirror, Spool
<1>1. CASE row' # row
  <2>1. CASE Replace(s)
    <3>1. pc[s] = "replace"
      BY <2>1 DEF Replace
    <3>2. ASSUME NEW x \in Agents, pc[x] = "import" PROVE FALSE
      BY <1>0, <1>a, <3>1, <3>2, SaveIsAlone DEF Running
    <3>3. PICK q \in Saves : pc[q] = "replace" /\ row' # NoSnap /\ row'.by = q
      BY <1>1, <3>2, RowRises
    <3>4. QED
      BY <1>a, <1>b, <3>3, FreshRow
  <2>2. CASE s \in Replaced
    <3>1. Running(s)
      BY <2>2 DEF Replaced, Running
    <3>2. ASSUME NEW x \in Agents, pc[x] = "import" PROVE FALSE
      BY <1>0, <1>a, <2>2, <3>1, <3>2, SaveIsAlone DEF Replaced
    <3>3. PICK q \in Saves : pc[q] = "replace" /\ row' # NoSnap /\ row'.by = q
      BY <1>1, <3>2, RowRises
    <3>4. QED
      BY <1>a, <1>b, <3>3, FreshRow
  <2>3. QED
    BY <1>0, <2>1, <2>2, ReplacedMoves DEF Replaced
<1>2. CASE row' = row
  <2>1. CASE Replace(s)
    <3>1. row' = Snap(seen[s] + 1, s) /\ pc[s] = "replace"
      BY <2>1 DEF Replace
    <3>2. row' \in Snapshots
      BY <1>0, <1>a, <3>1, Versions DEF TypeOK
    <3>3. row' # NoSnap /\ row'.by = s
      BY <3>1, <3>2, NoSnapAssumption DEF Snap
    <3>4. QED
      BY <1>a, <1>b, <3>1, <3>3, FreshRow
  <2>2. CASE s \in Replaced /\ ~Replace(s)
    <3>0. Running(s) /\ Running(s)'
      BY <1>a, <2>2 DEF Running, Replaced
    <3>1. CASE t \notin acked
      <4>1. ASSUME Mirror(t) PROVE t \in Replaced
        BY <1>a, <4>1 DEF Mirror, Replaced
      <4>2. ASSUME Spool(t) PROVE FALSE
        <5>1. ~hasDb'[P(t)]
          BY <1>a, <4>2, SpoolLeads
        <5>2. P(t) # P(s)
          BY <5>1
        <5>3. ~hasDb[P(t)]
          BY <1>a, <4>2, SpoolLeads
        <5>4. Settled(P(t))
          BY <1>0, <1>a, <3>0, <5>2, SaveIsAlone
        <5>5. QED
          BY <5>3, <5>4 DEF Settled
      <4>3. Mirror(t) \/ Spool(t)
        BY <1>0, <3>1, AckMoves
      <4>4. ~Outdated(row, t)
        BY <1>0, <4>1, <4>2, <4>3 DEF RowHasReplaced
      <4>5. QED
        BY <1>0, <1>2, <1>a, <1>b, <4>4, SameRow
    <3>2. CASE t \in acked
      <4>1. CASE hasDb[P(s)]
        BY <1>0, <1>2, <1>a, <1>b, <2>2, <3>2, <4>1, SameRow DEF RowHasAcked
      <4>2. CASE ~hasDb[P(s)]
        <5>1. ~Crash(P(s))
          BY <1>0, <1>a, <3>0 DEF Crash, TypeOK, Running
        <5>2. PICK o \in Calls : P(o) = P(s) /\ ConnectDb(o)
          BY <1>0, <1>a, <4>2, <5>1, DbMoves
        <5>3. pc[o] = "mysql" /\ o # s
          BY <2>2, <5>2 DEF ConnectDb, Replaced
        <5>4. mirror[P(s)] = NoSnap
          <6>1. ASSUME mirror[P(s)] # NoSnap PROVE FALSE
            <7>1. pc'[o] = "compare"
              BY <1>0, <5>2, <6>1 DEF ConnectDb, Goto, TypeOK
            <7>2. Crossing'
              BY <1>a, <3>0, <5>2, <5>3, <7>1 DEF Crossing, P
            <7>3. QED
              BY <1>0, <7>2 DEF Noted, Explained
          <6>2. QED
            BY <6>1
        <5>5. ~Leads(P(s))
          BY <1>0, <5>4, Versions DEF Leads, Version, TypeOK
        <5>6. \A p \in Procs : ~Leads(p)
          BY <1>0, <1>a, <3>0, <5>5, SaveIsAlone
        <5>7. ~Outdated(row, t)
          BY <1>0, <3>2, <5>6 DEF Newest
        <5>8. QED
          BY <1>0, <1>2, <1>a, <1>b, <5>7, SameRow
      <4>3. QED
        BY <4>1, <4>2
    <3>3. QED
      BY <3>1, <3>2
  <2>3. QED
    BY <1>0, <2>1, <2>2, ReplacedMoves DEF Replaced
<1>3. QED
  BY <1>1, <1>2

\* Where a process that led leads no more and the row stays, a save has brought the
\* memory back to the row, and its process has a backend.
LEMMA LeadLost ==
  ASSUME Base, Led, ~Explained', [Next]_vars, row' = row,
         NEW p \in Procs, Leads(p), ~Leads(p)'
  PROVE  \E s \in Saves : Mirror(s) /\ P(s) = p /\ hasDb[p]
<1> USE Names
<1>0. TypeOK /\ MirrorIsSpooled /\ RowHasReplaced
  BY DEF Base, Led
<1>1. mirror'[p] # mirror[p]
  BY DEF Leads
<1>2. ASSUME NEW o \in Calls, P(o) = p, Mirror(o) PROVE o \in Saves /\ hasDb[p]
  <2>1. mirror' # mirror
    BY <1>1
  <2>2. QED
    BY <1>0, <1>2, <2>1, MirrorIsBehind
<1>3. ASSUME Crash(p) PROVE FALSE
  BY <1>0, <1>1, <1>3 DEF Crash, MirrorIsSpooled, TypeOK
<1>4. ASSUME NEW s \in Saves, P(s) = p, Spool(s) PROVE FALSE
  <2>1. /\ mirror' = [mirror EXCEPT ![p] = Snap(Version(mirror[p]) + 1, s)]
        /\ row' = row
    BY <1>4 DEF Spool
  <2>2. Version(mirror[p]) \in Nat /\ Version(row) \in Nat
    BY <1>0, Versions DEF TypeOK
  <2>3. Snap(Version(mirror[p]) + 1, s) # NoSnap
    BY <2>2, Versions, NoSnapAssumption
  <2>4. Version(mirror'[p]) = Version(mirror[p]) + 1
    BY <1>0, <2>1, <2>3 DEF TypeOK, Version, Snap
  <2>5. QED
    BY <2>1, <2>2, <2>4 DEF Leads
<1>5. QED
  BY <1>0, <1>1, <1>2, <1>3, <1>4, MemoryMoves

\* What was acknowledged stays in the leading file, or in the row.
LEMMA NewestStep ==
  ASSUME Base, Led, ~Explained, ~Explained', [Next]_vars
  PROVE  Newest'
<1> USE Names
<1>0. /\ TypeOK /\ TypeOK' /\ Noted /\ Acknowledged /\ MirrorIsSpooled /\ SpoolIsBehind
      /\ RowHasReplaced /\ RowHasAcked /\ Newest
      /\ Version(row) \in Nat
  BY TypeStep, Versions DEF Base, Led, TypeOK
<1> SUFFICES ASSUME NEW t \in acked'
             PROVE  /\ \A p \in Procs : Leads(p)' => ~Outdated(spool[p], t)'
                    /\ (\A p \in Procs : ~Leads(p)') => ~Outdated(row, t)'
  BY DEF Newest
<1>a. /\ t \in Saves /\ pc[t] # "new"
      /\ t \in acked \/ Mirror(t) \/ Spool(t)
      /\ before'[t] = before[t]
  <2>1. t \in Saves /\ (t \in acked \/ Mirror(t) \/ Spool(t))
    BY <1>0, AckMoves DEF TypeOK
  <2>2. pc[t] # "new"
    BY <2>1, <1>0 DEF Acknowledged, Mirror, Spool
  <2>3. QED
    BY <1>0, <2>1, <2>2, BeforeMoves
<1>b. Mirror(t) => t \in Replaced /\ Running(t)
  BY <1>a DEF Mirror, Replaced, Running
<1>1. CASE \E s \in Saves : Spool(s)
  <2>1. PICK s \in Saves : Spool(s)
    BY <1>1
  <2>2. /\ Leads(P(s))' /\ \A p \in Procs \ {P(s)} : ~Leads(p)'
        /\ spool'[P(s)] # NoSnap /\ spool'[P(s)].by = s
    BY <2>1, SpoolLeads
  <2>3. s \notin before[t]
    <3>1. pc[s] # "done"
      BY <2>1 DEF Spool
    <3>2. QED
      BY <1>0, <1>a, <3>1, OwnIsFresh
  <2>4. ~Outdated(spool[P(s)], t)'
    BY <1>a, <2>2, <2>3 DEF Outdated, P
  <2>5. \A p \in Procs : Leads(p)' => ~Outdated(spool[p], t)'
    BY <2>2, <2>4 DEF P
  <2>6. QED
    BY <2>2, <2>5 DEF P
<1>2. CASE \A s \in Saves : ~Spool(s)
  <2>1. Version(row) <= Version(row')
    BY <1>0, RowRises
  <2>2. \A p \in Procs : Leads(p)' => Leads(p) /\ spool'[p] = spool[p]
    BY <1>0, <1>2, <2>1, GoesStep, GoesBehind
  <2>3. ASSUME NEW p \in Procs, Leads(p)' PROVE ~Outdated(spool[p], t)'
    <3>1. Leads(p) /\ spool'[p] = spool[p]
      BY <2>2, <2>3
    <3>2. ASSUME Mirror(t) PROVE FALSE
      <4>1. P(t) = p
        BY <1>0, <1>a, <1>b, <3>1, <3>2, SaveIsAlone
      <4>2. row' = row /\ mirror'[p] = held[t] /\ Version(held[t]) <= Version(row)
        BY <1>0, <1>a, <3>2, <4>1, MirrorIsBehind DEF TypeOK
      <4>3. Version(held[t]) \in Nat
        BY <1>0, <1>a, Versions DEF TypeOK
      <4>4. QED
        BY <1>0, <2>3, <4>2, <4>3 DEF Leads
    <3>3. ~Outdated(spool[p], t)
      BY <1>0, <1>2, <1>a, <3>1, <3>2 DEF Newest
    <3>4. QED
      BY <1>a, <3>1, <3>3 DEF Outdated
  <2>4. ASSUME \A p \in Procs : ~Leads(p)' PROVE ~Outdated(row, t)'
    <3>1. CASE row' = row
      <4>1. CASE Mirror(t)
        BY <1>0, <1>a, <1>b, <3>1, <4>1, SameRow DEF RowHasReplaced
      <4>2. CASE t \in acked /\ \A p \in Procs : ~Leads(p)
        BY <1>0, <1>a, <3>1, <4>2, SameRow DEF Newest
      <4>3. CASE t \in acked /\ \E p \in Procs : Leads(p)
        <5>1. PICK p \in Procs : Leads(p)
          BY <4>3
        <5>2. PICK s \in Saves : Mirror(s) /\ P(s) = p /\ hasDb[p]
          BY <2>4, <3>1, <5>1, LeadLost
        <5>3. s \in Replaced
          BY <5>2 DEF Mirror, Replaced
        <5>4. ~Outdated(row, t)
          BY <1>0, <4>3, <5>2, <5>3 DEF RowHasAcked
        <5>5. QED
          BY <1>0, <1>a, <3>1, <5>4, SameRow
      <4>4. QED
        BY <1>2, <1>a, <4>1, <4>2, <4>3
    <3>2. CASE row' # row
      <4>1. ASSUME NEW s \in Saves, pc[s] = "replace", row' # NoSnap, row'.by = s
            PROVE  ~Outdated(row, t)'
        BY <1>a, <4>1, FreshRow
      <4>2. ASSUME NEW x \in Agents, pc[x] = "import", Import(x) \/ ImportFails(x),
                   Leads(P(x)), row' = spool[P(x)]
            PROVE  ~Outdated(row, t)'
        <5>1. ~Mirror(t)
          <6>1. Mirror(t) => t # x
            BY <4>2 DEF Mirror
          <6>2. QED
            BY <1>0, <1>a, <1>b, <4>2, <6>1, SaveIsAlone
        <5>2. ~Outdated(spool[P(x)], t)
          BY <1>0, <1>2, <1>a, <4>2, <5>1 DEF Newest
        <5>3. QED
          BY <1>a, <4>2, <5>2 DEF Outdated
      <4>3. QED
        BY <3>2, <4>1, <4>2, RowRises
    <3>3. QED
      BY <3>1, <3>2
  <2>5. QED
    BY <2>3, <2>4
<1>3. QED
  BY <1>1, <1>2

\* All of it holds initially,
LEMMA LossInit == Init => LossInv
<1> SUFFICES ASSUME Init PROVE LossInv
  OBVIOUS
<1> USE Names
<1>1. TypeOK /\ Acknowledged
  BY TypeInit DEF Init, Acknowledged
<1>2. /\ \A o \in Calls : pc[o] = "new"
      /\ \A p \in Procs : pc[p] = "up"
      /\ \A x \in Agents : pc[x] \in {"new", "up"}
  BY DEF Init
<1>3. Noted /\ OneRestores /\ StartsAlone
  BY <1>2 DEF Noted, Crossing, Running, OneRestores, Restoring, StartsAlone
<1>4. \A p \in Procs : ~Leads(p) /\ spool[p] = NoSnap
  <2>1. \A p \in Procs : mirror[p] \in {row, NoSnap} /\ spool[p] = NoSnap
    BY DEF Init
  <2>2. Version(NoSnap) = 0 /\ Version(row) \in Nat
    BY <1>1, Versions DEF Version, TypeOK
  <2>3. QED
    BY <2>1, <2>2 DEF Leads
<1>5. MirrorIsSpooled /\ SpoolIsBehind /\ OneLeads /\ StartFollows
  <2>1. Version(NoSnap) = 0 /\ Version(row) \in Nat
    BY <1>1, Versions DEF Version, TypeOK
  <2>2. QED
    BY <1>4, <2>1 DEF MirrorIsSpooled, SpoolIsBehind, OneLeads, StartFollows
<1>6. ImportLeads /\ RowHasReplaced /\ RowHasAcked
  BY <1>2 DEF ImportLeads, RowHasReplaced, RowHasAcked, Replaced
<1>7. Newest
  BY DEF Init, Newest
<1>8. QED
  BY <1>1, <1>3, <1>5, <1>6, <1>7 DEF LossInv, Base, Led

\* and after every step.
LEMMA LossStep == LossInv /\ [Next]_vars => LossInv'
<1> SUFFICES ASSUME LossInv, [Next]_vars PROVE LossInv'
  OBVIOUS
<1>1. Base /\ Base'
  BY BaseStep DEF LossInv
<1>2. ASSUME ~Explained' PROVE Led'
  <2>1. ~Explained /\ Led
    BY <1>2, ExplainedStays DEF LossInv
  <2>2. QED
    BY <1>1, <1>2, <2>1, LeaderStep, ImportLeadsStep, StartFollowsStep, RowHasReplacedStep,
       RowHasAckedStep, NewestStep DEF Led
<1>3. QED
  BY <1>1, <1>2 DEF LossInv

\* A save that was acknowledged is kept by the row or by a process' file through
\* outages, restarts and restorations, for any number of processes, calls and
\* faults, unless one of the five explanations has come about.
THEOREM LossIsExplainedHolds == Spec => []LossIsExplained
<1>1. LossInv => LossIsExplained
  BY DEF LossInv, Explained, Led, Newest, LossIsExplained, Kept
<1>2. QED
  BY <1>1, LossInit, LossStep, PTL DEF Spec
=============================================================================
