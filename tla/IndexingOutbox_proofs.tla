----------------------- MODULE IndexingOutbox_proofs -----------------------
(* The safety of IndexingOutbox for any number of requests, workers and     *)
(* documents.  The argument: a rewrite of the outbox that does not misread  *)
(* the event it is about finds the status the event was last given; so a    *)
(* claim takes an event nobody processes, and only the worker that has an   *)
(* event in hand moves it on.                                               *)
EXTENDS IndexingOutbox, SequenceTheorems, TLAPS

\* Where a request can be, before and after its event is in the outbox.
Before == {"new", "saved", "open", "flush"}
Past == {"push", "done"}

\* Where a worker has an event in hand.
Holding == Connectors \cup {"popped", "open", "flush", "load", "mark", "settle"}

Places ==
  /\ \A e \in Events : pc[e] \in Before \cup Past /\ goal[e] = "queued"
  /\ \A w \in Workers :
       /\ pc[w] \in Holding \cup {"idle", "scan"}
       /\ pc[w] \in Holding => job[w] \in Events
       /\ pc[w] \in Connectors \cup {"load"} => goal[w] = "processing"
       /\ pc[w] \in {"mark", "settle"} => goal[w] \in {"failed", "completed"}
       /\ pc[w] \in {"open", "flush"} =>
            goal[w] \in {"processing", "failed", "completed"}

\* A worker about to write "processing" has read that the event was due.
ClaimsAreDue ==
  \A w \in Workers :
    pc[w] \in {"open", "flush"} /\ goal[w] = "processing" =>
      seen[w].status[job[w]] \in Due

\* Before its request has written it, nothing knows of an event.
Hidden(e) ==
  /\ ideal[e] = "absent"
  /\ file.status[e] = "absent"
  /\ \A x \in Procs : seen[x].status[e] = "absent"
  /\ \A i \in DOMAIN pending : pending[i] # e
  /\ \A w \in Workers : job[w] # e

Unpublished == \A e \in Events : pc[e] \in Before => Hidden(e)

\* An event in work has the status that says so.
InWork ==
  \A w \in Workers, e \in Events :
    Processing(w, e) /\ e \notin raced => ideal[e] = "processing"

\* What a worker has written to the indexes by the time it says so.
Has(w) ==
  LET c == known[w][Doc[job[w]]] IN
  /\ pc[w] \in Connectors => batch[w] = c
  /\ pc[w] \in {"bm25", "publish"} => c \in index["vector"]
  /\ pc[w] = "publish" => c \in index["bm25"]
  /\ pc[w] \in {"mark", "open", "flush"} /\ goal[w] = "completed" =>
       c \in index["vector"] \cap index["bm25"]

Written == \A w \in Workers : Has(w)

IInv ==
  /\ TypeOK
  /\ Places
  /\ ClaimsAreDue
  /\ Unpublished
  /\ InWork
  /\ OneWorkerEach
  /\ DeathAbandons
  /\ Written
----------------------------------------------------------------------------
\* The file and the list, as the type invariant sees them.
LEMMA BlankFile ==
  /\ Blank \in Files
  /\ \A e \in Events : Blank.status[e] = "absent"
BY DEF Blank, Files

LEMMA PutFile ==
  ASSUME NEW f \in Files, NEW e \in Events, NEW s \in Statuses
  PROVE  /\ Put(f, e, s) \in Files
         /\ Put(f, e, s).status = [f.status EXCEPT ![e] = s]
<1>1. f.ids \in Seq(Events) /\ Append(f.ids, e) \in Seq(Events)
  BY DEF Files
<1>2. [f.status EXCEPT ![e] = s] \in [Events -> Statuses \cup {"absent"}]
  BY DEF Files
<1> QED
  BY <1>1, <1>2 DEF Put, Files

LEMMA WithoutId ==
  ASSUME TypeOK, NEW e \in Events
  PROVE  /\ Without(e) \in Seq(Events)
         /\ \A i \in DOMAIN Without(e) :
              \E j \in DOMAIN pending : Without(e)[i] = pending[j]
<1> DEFINE Here(i) == i \in DOMAIN pending /\ pending[i] = e
<1>1. pending \in Seq(Events)
  BY DEF TypeOK
<1>2. CASE ~\E i \in DOMAIN pending : pending[i] = e
  <2>1. Without(e) = pending
    BY <1>2 DEF Without
  <2> QED
    BY <1>1, <2>1
<1>3. CASE \E i \in DOMAIN pending : pending[i] = e
  <2> DEFINE i == CHOOSE i \in DOMAIN pending : pending[i] = e
             a == SubSeq(pending, 1, i - 1)
             b == SubSeq(pending, i + 1, Len(pending))
  <2>1. i \in 1..Len(pending)
    BY <1>1, <1>3
  <2>2. Without(e) = a \o b
    BY <1>3 DEF Without
  <2> HIDE DEF i
  <2>3. /\ a \in Seq(Events) /\ Len(a) = i - 1
        /\ \A k \in 1..(i - 1) : a[k] = pending[k]
    BY <1>1, <2>1
  <2>4. /\ b \in Seq(Events) /\ Len(b) = Len(pending) - i
        /\ \A k \in 1..(Len(pending) - i) : b[k] = pending[k + i]
    BY <1>1, <2>1
  <2> HIDE DEF a, b
  <2>5. /\ a \o b \in Seq(Events)
        /\ Len(a \o b) = Len(pending) - 1
    <3>1. a \o b \in Seq(Events) /\ Len(a \o b) = Len(a) + Len(b)
      BY <2>3, <2>4, ConcatProperties
    <3>2. Len(pending) \in Nat
      BY <1>1
    <3> QED
      BY <2>1, <2>3, <2>4, <3>1, <3>2
  <2>6. \A k \in 1..(Len(pending) - 1) :
          (a \o b)[k] = IF k < i THEN pending[k] ELSE pending[k + 1]
    <3> SUFFICES ASSUME NEW k \in 1..(Len(pending) - 1)
                 PROVE  (a \o b)[k] = IF k < i THEN pending[k] ELSE pending[k + 1]
      OBVIOUS
    <3>1. (a \o b)[k] = IF k <= Len(a) THEN a[k] ELSE b[k - Len(a)]
      BY <1>1, <2>1, <2>3, <2>4
    <3>2. CASE k < i
      BY <1>1, <2>1, <2>3, <3>1, <3>2
    <3>3. CASE ~(k < i)
      <4>1. k - Len(a) \in 1..(Len(pending) - i) /\ k - Len(a) + i = k + 1
        BY <1>1, <2>1, <2>3, <3>3
      <4> QED
        BY <1>1, <2>1, <2>3, <2>4, <3>1, <3>3, <4>1
    <3> QED
      BY <3>2, <3>3
  <2>7. ASSUME NEW k \in 1..(Len(pending) - 1)
        PROVE  \E j \in DOMAIN pending : (a \o b)[k] = pending[j]
    <3>1. k \in DOMAIN pending /\ k + 1 \in DOMAIN pending
      BY <1>1, <2>7
    <3>2. (a \o b)[k] = pending[k] \/ (a \o b)[k] = pending[k + 1]
      BY <2>6
    <3> QED
      BY <3>1, <3>2
  <2>8. DOMAIN (a \o b) = 1..(Len(pending) - 1)
    BY <2>5
  <2> QED
    BY <2>2, <2>5, <2>7, <2>8
<1> QED
  BY <1>2, <1>3

LEMMA PushedId ==
  ASSUME TypeOK, NEW e \in Events
  PROVE  /\ Pushed(e) \in Seq(Events)
         /\ \A i \in DOMAIN Pushed(e) :
              \/ Pushed(e)[i] = e
              \/ \E j \in DOMAIN pending : Pushed(e)[i] = pending[j]
<1> DEFINE t == Without(e)
<1>1. /\ t \in Seq(Events)
      /\ \A i \in DOMAIN t : \E j \in DOMAIN pending : t[i] = pending[j]
  BY WithoutId
<1> HIDE DEF t
<1>2. Pushed(e) = <<e>> \o t
  BY DEF Pushed, t
<1>3. <<e>> \o t \in Seq(Events) /\ Len(<<e>> \o t) = Len(t) + 1
  BY <1>1
<1>4. \A i \in 1..(Len(t) + 1) :
        (<<e>> \o t)[i] = IF i = 1 THEN e ELSE t[i - 1]
  BY <1>1
<1> QED
  BY <1>1, <1>2, <1>3, <1>4
----------------------------------------------------------------------------
\* Rewrites keep the type of what they change.
LEMMA Subjects ==
  ASSUME TypeOK, Places
  PROVE  /\ \A e \in Events : e \in Procs /\ e \notin Workers /\ Subject(e) = e
         /\ \A w \in Workers : w \in Procs /\ w \notin Events /\ Subject(w) = job[w]
         /\ \A x \in Procs : pc[x] = "flush" =>
              Subject(x) \in Events /\ goal[x] \in Statuses
  <1>1. Events \cap Workers = {}
    BY NamesAssumption
  <1>2. goal \in [Procs -> Statuses]
    BY DEF TypeOK
  <1> QED
    BY <1>1, <1>2 DEF Procs, Subject, Places, Holding, Statuses

\* What a worker's steps do to the state they share.
LEMMA IdleType ==
  ASSUME TypeOK, NEW w \in Workers, Idle(w)
  PROVE  /\ job' \in [Workers -> Events \cup {NoEvent}]
         /\ goal' \in [Procs -> Statuses]
         /\ pc' \in [Procs -> PCs]
BY DEF TypeOK, Idle, Goto, Statuses, PCs

LEMMA RewriteType ==
  ASSUME TypeOK, NEW w \in Workers, NEW s \in Statuses, Rewrite(w, s)
  PROVE  /\ seen' \in [Procs -> Files]
         /\ goal' \in [Procs -> Statuses]
         /\ pc' \in [Procs -> PCs]
BY DEF TypeOK, Rewrite, Read, Goto, PCs

LEMMA OutcomeType ==
  ASSUME TypeOK, NEW w \in Workers, NEW s \in Statuses, Outcome(w, s)
  PROVE  /\ batch' \in [Workers -> Chunks]
         /\ goal' \in [Procs -> Statuses]
         /\ pc' \in [Procs -> PCs]
BY DEF TypeOK, Outcome, Goto, Chunks, PCs

LEMMA TypeStep ==
  ASSUME TypeOK, Places, [Next]_vars
  PROVE  TypeOK'
<1> USE Subjects
<1> USE DEF Procs
<1>1. ASSUME NEW x \in Procs, Open(x) PROVE TypeOK'
  BY <1>1, BlankFile DEF Open, TypeOK, PCs, Goto, catalogs, process, history
<1>2. ASSUME NEW x \in Procs, Flush(x) PROVE TypeOK'
  <2>1. Subject(x) \in Events /\ goal[x] \in Statuses /\ seen[x] \in Files
    BY <1>2 DEF Flush, TypeOK
  <2>2. file' \in Files
    BY <1>2, <2>1, PutFile DEF Flush
  <2>3. ideal' \in [Events -> Statuses \cup {"absent"}] /\ raced' \subseteq Events
    BY <1>2, <2>1 DEF Flush, TypeOK
  <2>4. seen' \in [Procs -> Files]
    BY <1>2, BlankFile DEF Flush, Forget, TypeOK
  <2> QED
    BY <1>2, <2>2, <2>3, <2>4 DEF Flush, TypeOK, Goto, PCs, After, catalogs
<1>3. ASSUME NEW e \in Events, Save(e) PROVE TypeOK'
  BY <1>3, DocAssumption DEF Save, TypeOK, PCs, Chunks, Goto, process, history
<1>4. ASSUME NEW e \in Events, EnqueueFails(e) PROVE TypeOK'
  BY <1>4, FaultsAssumption DEF EnqueueFails, Fault, TypeOK, PCs, Goto, process, history
<1>5. ASSUME NEW e \in Events, Enqueue(e) PROVE TypeOK'
  BY <1>5 DEF Enqueue, Read, TypeOK, PCs, Goto, catalogs, history
<1>6. ASSUME NEW e \in Events, PushOr(e) PROVE pending' \in Seq(Events) /\ faults' \in 0..MaxFaults
  BY <1>6, PushedId, FaultsAssumption DEF PushOr, Fault, TypeOK
<1>7. ASSUME NEW e \in Events, Push(e) PROVE TypeOK'
  BY <1>6, <1>7 DEF Push, TypeOK, PCs, Goto, process, history
<1>8. ASSUME NEW w \in Workers, Pop(w) PROVE TypeOK'
  <2>1. CASE Len(pending) > 0 /\ pc' = [pc EXCEPT ![w] = "popped"]
    <3>1. pending[Len(pending)] \in Events
          /\ SubSeq(pending, 1, Len(pending) - 1) \in Seq(Events)
      BY <2>1 DEF TypeOK
    <3>2. job' \in [Workers -> Events \cup {NoEvent}] /\ pending' \in Seq(Events)
      BY <1>8, <2>1, <3>1 DEF Pop, Goto, TypeOK
    <3>3. faults' \in 0..MaxFaults /\ pc' \in [Procs -> PCs]
      BY <1>8, <2>1, FaultsAssumption DEF Pop, Fault, TypeOK, PCs
    <3> QED
      BY <1>8, <3>2, <3>3 DEF Pop, TypeOK, history, PCs
  <2>2. CASE UNCHANGED <<job, pending>> /\ pc' = [pc EXCEPT ![w] = "scan"]
    <3>1. faults' \in 0..MaxFaults /\ pc' \in [Procs -> PCs]
      BY <1>8, <2>2, FaultsAssumption DEF Pop, Fault, TypeOK, PCs
    <3> QED
      BY <1>8, <2>2, <3>1 DEF Pop, TypeOK, history, PCs
  <2>3. pending # <<>> => Len(pending) > 0
    BY DEF TypeOK
  <2> QED
    BY <1>8, <2>1, <2>2, <2>3 DEF Pop, Goto
<1>9. ASSUME NEW w \in Workers, Claim(w) PROVE TypeOK'
  <2>1. job[w] \in Events /\ raced' \subseteq Events
    BY <1>9 DEF Claim, Places, Holding, Misread, TypeOK
  <2>2. CASE Idle(w) /\ UNCHANGED seen
    BY <1>9, <2>1, <2>2, IdleType DEF Claim, TypeOK, PCs, catalogs
  <2>3. CASE Rewrite(w, "processing") /\ UNCHANGED job
    BY <1>9, <2>1, <2>3, RewriteType DEF Claim, TypeOK, PCs, catalogs, Statuses
  <2> QED
    BY <1>9, <2>2, <2>3 DEF Claim
<1>10. ASSUME NEW w \in Workers, Scan(w) PROVE TypeOK'
  <2>1. CASE Idle(w) /\ UNCHANGED seen
    BY <1>10, <2>1, IdleType DEF Scan, TypeOK, PCs, catalogs, history
  <2>2. ASSUME NEW i \in DOMAIN file.ids, Rewrite(w, "processing"),
               job' = [job EXCEPT ![w] = file.ids[i]]
        PROVE  TypeOK'
    <3>1. file.ids[i] \in Events
      BY DEF TypeOK, Files
    <3>2. job' \in [Workers -> Events \cup {NoEvent}]
      BY <2>2, <3>1 DEF TypeOK
    <3> QED
      BY <1>10, <2>2, <3>2, RewriteType
      DEF Scan, TypeOK, PCs, catalogs, history, Statuses
  <2> QED
    BY <1>10, <2>1, <2>2 DEF Scan
<1>11. ASSUME NEW w \in Workers, Load(w) PROVE TypeOK'
  <2> DEFINE c == known[w][Doc[job[w]]]
  <2>1. c \in Chunks \cup {NoDoc}
    BY <1>11, DocAssumption DEF Load, Places, Holding, TypeOK
  <2>2. CASE Outcome(w, "failed")
    BY <1>11, <2>2, OutcomeType DEF Load, TypeOK, PCs, catalogs, history, Statuses
  <2>3. CASE c # NoDoc /\ batch' = [batch EXCEPT ![w] = c] /\ Goto(w, "vector")
             /\ UNCHANGED goal
    <3>1. batch' \in [Workers -> Chunks] /\ pc' \in [Procs -> PCs]
      BY <2>1, <2>3 DEF TypeOK, Goto, PCs, Connectors, Indexes
    <3> QED
      BY <1>11, <2>3, <3>1 DEF Load, TypeOK, PCs, catalogs, history
  <2> QED
    BY <1>11, <2>2, <2>3 DEF Load
<1>12. ASSUME NEW w \in Workers, Upsert(w) PROVE TypeOK'
  BY <1>12 DEF Upsert, TypeOK, Goto, PCs, Connectors, Indexes, catalogs, process, history
<1>13. ASSUME NEW w \in Workers, PublishState(w) \/ ConnectorFails(w) PROVE TypeOK'
  <2>1. batch' \in [Workers -> Chunks] /\ goal' \in [Procs -> Statuses]
        /\ pc' \in [Procs -> PCs]
    BY <1>13, OutcomeType DEF PublishState, ConnectorFails, Statuses
  <2> QED
    BY <1>13, <2>1 DEF PublishState, ConnectorFails, TypeOK, PCs, catalogs, history
<1>14. ASSUME NEW w \in Workers, Mark(w) PROVE TypeOK'
  <2>1. job[w] \in Events /\ goal[w] \in Statuses /\ raced' \subseteq Events
    BY <1>14 DEF Mark, Places, Holding, Misread, TypeOK
  <2>2. CASE Idle(w) /\ UNCHANGED seen
    BY <1>14, <2>1, <2>2, IdleType DEF Mark, TypeOK, PCs, catalogs
  <2>3. CASE Rewrite(w, goal[w]) /\ UNCHANGED job
    BY <1>14, <2>1, <2>3, RewriteType DEF Mark, TypeOK, PCs, catalogs
  <2> QED
    BY <1>14, <2>2, <2>3 DEF Mark
<1>15. ASSUME NEW w \in Workers, Settle(w) PROVE TypeOK'
  <2>1. job[w] \in Events
    BY <1>15 DEF Settle, Places, Holding
  <2>2. pending' \in Seq(Events) /\ faults' \in 0..MaxFaults
    BY <1>6, <1>15, <2>1 DEF Settle, TypeOK
  <2> QED
    BY <1>15, <2>2, IdleType DEF Settle, TypeOK, PCs, history
<1>16. ASSUME NEW w \in Workers, WorkerRestarts(w) PROVE TypeOK'
  BY <1>16, BlankFile, FaultsAssumption
  DEF WorkerRestarts, Fault, Forget, Torn, Idle, TypeOK, PCs, Chunks, Goto,
      Statuses
<1>17. ASSUME NEW e \in Events, RequestDies(e) PROVE TypeOK'
  BY <1>17, BlankFile, FaultsAssumption
  DEF RequestDies, Fault, Forget, Torn, TypeOK, PCs, Goto
<1>18. CASE UNCHANGED vars
  BY <1>18 DEF vars, TypeOK
<1> QED
  BY <1>1, <1>2, <1>3, <1>4, <1>5, <1>7, <1>8, <1>9, <1>10, <1>11, <1>12, <1>13,
     <1>14, <1>15, <1>16, <1>17, <1>18
  DEF Next, RequestStep, WorkerStep
----------------------------------------------------------------------------
\* Each action leaves every process in a place of the program.
LEMMA PlacesStep ==
  ASSUME TypeOK, Places, [Next]_vars
  PROVE  Places'
<1> USE Subjects DEF Procs
<1>1. ASSUME NEW x \in Procs, Open(x) PROVE Places'
  BY <1>1
  DEF Open, Goto, catalogs, process, history, TypeOK, Places, Before, Past,
      Holding, Connectors, Indexes
<1>2. ASSUME NEW x \in Procs, Flush(x) PROVE Places'
  BY <1>2
  DEF Flush, Forget, After, Goto, catalogs, process, history, TypeOK, Places,
      Before, Past, Holding, Connectors, Indexes
<1>3. ASSUME NEW e \in Events, Save(e) PROVE Places'
  BY <1>3
  DEF Save, Goto, catalogs, process, history, TypeOK, Places, Before, Past,
      Holding, Connectors, Indexes
<1>4. ASSUME NEW e \in Events, EnqueueFails(e) PROVE Places'
  BY <1>4
  DEF EnqueueFails, Goto, catalogs, process, history, TypeOK, Places, Before,
      Past, Holding, Connectors, Indexes
<1>5. ASSUME NEW e \in Events, Enqueue(e) PROVE Places'
  BY <1>5
  DEF Enqueue, Read, Goto, catalogs, process, history, TypeOK, Places, Before,
      Past, Holding, Connectors, Indexes
<1>6. ASSUME NEW e \in Events, Push(e) PROVE Places'
  BY <1>6
  DEF Push, PushOr, Goto, catalogs, process, history, TypeOK, Places, Before,
      Past, Holding, Connectors, Indexes
<1>7. ASSUME NEW e \in Events, RequestDies(e) PROVE Places'
  BY <1>7
  DEF RequestDies, Forget, Goto, catalogs, process, history, TypeOK, Places,
      Before, Past, Holding, Connectors, Indexes
<1>8. ASSUME NEW w \in Workers, Pop(w) PROVE Places'
  <2>1. pending # <<>> => pending[Len(pending)] \in Events
    BY DEF TypeOK
  <2>2. UNCHANGED goal
    BY <1>8 DEF Pop
  <2>3. CASE Goto(w, "popped") /\ pending # <<>>
             /\ job' = [job EXCEPT ![w] = pending[Len(pending)]]
    BY <2>1, <2>2, <2>3 DEF Pop, Goto, TypeOK, Places, Before, Past, Holding,
                           Connectors, Indexes
  <2>4. CASE Goto(w, "scan") /\ UNCHANGED job
    BY <2>2, <2>4 DEF Pop, Goto, TypeOK, Places, Before, Past, Holding,
                     Connectors, Indexes
  <2> QED
    BY <1>8, <2>3, <2>4 DEF Pop
<1>9. ASSUME NEW w \in Workers, Claim(w) PROVE Places'
  <2>1. CASE Idle(w)
    BY <1>9, <2>1
    DEF Claim, Idle, Goto, TypeOK, Places, Before, Past,
      Holding, Connectors, Indexes
  <2>2. CASE Rewrite(w, "processing") /\ UNCHANGED job
    BY <1>9, <2>2
    DEF Claim, Rewrite, Goto, TypeOK, Places, Before, Past,
      Holding, Connectors, Indexes
  <2> QED
    BY <1>9, <2>1, <2>2 DEF Claim
<1>10. ASSUME NEW w \in Workers, Scan(w) PROVE Places'
  <2>1. CASE Idle(w)
    BY <1>10, <2>1
    DEF Scan, Idle, Goto, TypeOK, Places, Before, Past,
      Holding, Connectors, Indexes
  <2>2. ASSUME NEW i \in DOMAIN file.ids, Rewrite(w, "processing"),
               job' = [job EXCEPT ![w] = file.ids[i]], FirstDue(file, i)
        PROVE  Places'
    <3>1. file.ids[i] \in Events
      BY DEF TypeOK, Files
    <3> QED
      BY <1>10, <2>2, <3>1
      DEF Scan, FirstDue, Rewrite, Goto, TypeOK, Places, Before, Past,
      Holding, Connectors, Indexes
  <2> QED
    BY <1>10, <2>1, <2>2 DEF Scan
<1>11. ASSUME NEW w \in Workers, Load(w) PROVE Places'
  <2>1. CASE Outcome(w, "failed")
    BY <1>11, <2>1
    DEF Load, Outcome, Goto, TypeOK, Places, Before, Past,
      Holding, Connectors, Indexes
  <2>2. CASE Goto(w, "vector") /\ UNCHANGED goal
    BY <1>11, <2>2
    DEF Load, Goto, TypeOK, Places, Before, Past,
      Holding, Connectors, Indexes
  <2> QED
    BY <1>11, <2>1, <2>2 DEF Load
<1>12. ASSUME NEW w \in Workers, Upsert(w) PROVE Places'
  BY <1>12
  DEF Upsert, Goto, catalogs, process, history, TypeOK, Places, Before, Past,
      Holding, Connectors, Indexes
<1>13. ASSUME NEW w \in Workers, PublishState(w) PROVE Places'
  BY <1>13
  DEF PublishState, Outcome, Goto, catalogs, process, history, TypeOK, Places,
      Before, Past, Holding, Connectors, Indexes
<1>14. ASSUME NEW w \in Workers, ConnectorFails(w) PROVE Places'
  BY <1>14
  DEF ConnectorFails, Outcome, Goto, catalogs, process, history, TypeOK, Places,
      Before, Past, Holding, Connectors, Indexes
<1>15. ASSUME NEW w \in Workers, Mark(w) PROVE Places'
  BY <1>15
  DEF Mark, Rewrite, Read, Idle, Goto, catalogs, process, history, TypeOK,
      Places, Before, Past, Holding, Connectors, Indexes
<1>16. ASSUME NEW w \in Workers, Settle(w) PROVE Places'
  BY <1>16
  DEF Settle, Idle, PushOr, Goto, catalogs, process, history, TypeOK, Places,
      Before, Past, Holding, Connectors, Indexes
<1>17. ASSUME NEW w \in Workers, WorkerRestarts(w) PROVE Places'
  BY <1>17
  DEF WorkerRestarts, Forget, Idle, Goto, catalogs, process, history, TypeOK,
      Places, Before, Past, Holding, Connectors, Indexes
<1>18. CASE UNCHANGED vars
  BY <1>18 DEF vars, TypeOK, Places, Before, Past, Holding, Connectors, Indexes
<1> QED
  BY <1>1, <1>2, <1>3, <1>4, <1>5, <1>6, <1>7, <1>8, <1>9, <1>10, <1>11,
     <1>12, <1>13, <1>14, <1>15, <1>16, <1>17, <1>18
  DEF Next, RequestStep, WorkerStep

\* A claim is written only after the event was read as due.
LEMMA ClaimsStep ==
  ASSUME TypeOK, Places, ClaimsAreDue, [Next]_vars
  PROVE  ClaimsAreDue'
<1> USE Subjects DEF Procs
<1>1. ASSUME NEW x \in Procs, Open(x) PROVE ClaimsAreDue'
  BY <1>1
  DEF Open, Goto, catalogs, process, history, TypeOK, Places, ClaimsAreDue,
      Before, Past, Holding, Connectors, Indexes
<1>2. ASSUME NEW x \in Procs, Flush(x) PROVE ClaimsAreDue'
  BY <1>2
  DEF Flush, Forget, After, Goto, catalogs, process, history, TypeOK, Places,
      ClaimsAreDue, Before, Past, Holding, Connectors, Indexes
<1>3. ASSUME NEW e \in Events, Save(e) PROVE ClaimsAreDue'
  BY <1>3
  DEF Save, Goto, catalogs, process, history, TypeOK, Places, ClaimsAreDue,
      Before, Past, Holding, Connectors, Indexes
<1>4. ASSUME NEW e \in Events, EnqueueFails(e) PROVE ClaimsAreDue'
  BY <1>4
  DEF EnqueueFails, Goto, catalogs, process, history, TypeOK, Places,
      ClaimsAreDue, Before, Past, Holding, Connectors, Indexes
<1>5. ASSUME NEW e \in Events, Enqueue(e) PROVE ClaimsAreDue'
  BY <1>5
  DEF Enqueue, Read, Goto, catalogs, process, history, TypeOK, Places,
      ClaimsAreDue, Before, Past, Holding, Connectors, Indexes
<1>6. ASSUME NEW e \in Events, Push(e) PROVE ClaimsAreDue'
  BY <1>6
  DEF Push, PushOr, Goto, catalogs, process, history, TypeOK, Places,
      ClaimsAreDue, Before, Past, Holding, Connectors, Indexes
<1>7. ASSUME NEW e \in Events, RequestDies(e) PROVE ClaimsAreDue'
  BY <1>7
  DEF RequestDies, Forget, Goto, catalogs, process, history, TypeOK, Places,
      ClaimsAreDue, Before, Past, Holding, Connectors, Indexes
<1>8. ASSUME NEW w \in Workers, Pop(w) PROVE ClaimsAreDue'
  BY <1>8
  DEF Pop, Goto, catalogs, process, history, TypeOK, Places, ClaimsAreDue,
      Before, Past, Holding, Connectors, Indexes
<1>9. ASSUME NEW w \in Workers, Claim(w) PROVE ClaimsAreDue'
  <2>1. CASE Idle(w) /\ UNCHANGED seen
    BY <1>9, <2>1 DEF Idle, Goto, TypeOK, Places, ClaimsAreDue
  <2>2. CASE /\ Rewrite(w, "processing") /\ UNCHANGED job
             /\ file.status[job[w]] \in Due
    BY <1>9, <2>2 DEF Rewrite, Read, Goto, TypeOK, Places, ClaimsAreDue
  <2> QED
    BY <1>9, <2>1, <2>2 DEF Claim
<1>10. ASSUME NEW w \in Workers, Scan(w) PROVE ClaimsAreDue'
  <2>1. CASE Idle(w) /\ UNCHANGED seen
    BY <1>10, <2>1 DEF Idle, Goto, TypeOK, Places, ClaimsAreDue
  <2>2. ASSUME NEW i \in DOMAIN file.ids, Rewrite(w, "processing"),
               job' = [job EXCEPT ![w] = file.ids[i]], FirstDue(file, i)
        PROVE  ClaimsAreDue'
    <3>1. file.ids[i] \in Events
      BY DEF TypeOK, Files
    <3> QED
      BY <1>10, <2>2, <3>1
      DEF Scan, FirstDue, Rewrite, Read, Goto, TypeOK, Places, ClaimsAreDue, Before,
      Past, Holding, Connectors, Indexes
  <2> QED
    BY <1>10, <2>1, <2>2 DEF Scan
<1>11. ASSUME NEW w \in Workers, Load(w) PROVE ClaimsAreDue'
  BY <1>11
  DEF Load, Outcome, Goto, catalogs, process, history, TypeOK, Places,
      ClaimsAreDue, Before, Past, Holding, Connectors, Indexes
<1>12. ASSUME NEW w \in Workers, Upsert(w) PROVE ClaimsAreDue'
  BY <1>12
  DEF Upsert, Goto, catalogs, process, history, TypeOK, Places, ClaimsAreDue,
      Before, Past, Holding, Connectors, Indexes
<1>13. ASSUME NEW w \in Workers, PublishState(w) PROVE ClaimsAreDue'
  BY <1>13
  DEF PublishState, Outcome, Goto, catalogs, process, history, TypeOK, Places,
      ClaimsAreDue, Before, Past, Holding, Connectors, Indexes
<1>14. ASSUME NEW w \in Workers, ConnectorFails(w) PROVE ClaimsAreDue'
  BY <1>14
  DEF ConnectorFails, Outcome, Goto, catalogs, process, history, TypeOK, Places,
      ClaimsAreDue, Before, Past, Holding, Connectors, Indexes
<1>15. ASSUME NEW w \in Workers, Mark(w) PROVE ClaimsAreDue'
  BY <1>15
  DEF Mark, Rewrite, Read, Idle, Goto, catalogs, process, history, TypeOK,
      Places, ClaimsAreDue, Before, Past, Holding, Connectors, Indexes
<1>16. ASSUME NEW w \in Workers, Settle(w) PROVE ClaimsAreDue'
  BY <1>16
  DEF Settle, Idle, PushOr, Goto, catalogs, process, history, TypeOK, Places,
      ClaimsAreDue, Before, Past, Holding, Connectors, Indexes
<1>17. ASSUME NEW w \in Workers, WorkerRestarts(w) PROVE ClaimsAreDue'
  BY <1>17
  DEF WorkerRestarts, Forget, Idle, Goto, catalogs, process, history, TypeOK,
      Places, ClaimsAreDue, Before, Past, Holding, Connectors, Indexes
<1>18. CASE UNCHANGED vars
  BY <1>18 DEF vars, TypeOK, Places, ClaimsAreDue, Before, Past, Holding, Connectors, Indexes
<1> QED
  BY <1>1, <1>2, <1>3, <1>4, <1>5, <1>6, <1>7, <1>8, <1>9, <1>10, <1>11,
     <1>12, <1>13, <1>14, <1>15, <1>16, <1>17, <1>18
  DEF Next, RequestStep, WorkerStep

\* An event stays hidden until its own request has written it.
LEMMA UnpublishedStep ==
  ASSUME TypeOK, Places, Unpublished, [Next]_vars
  PROVE  Unpublished'
<1> USE Subjects DEF Procs
<1> SUFFICES ASSUME NEW u \in Events, pc'[u] \in Before
             PROVE  Hidden(u)'
  BY DEF Unpublished
<1>0. ASSUME pc[u] \in Before PROVE Hidden(u)
  BY <1>0 DEF Unpublished
<1>1. ASSUME NEW x \in Procs, Open(x) PROVE Hidden(u)'
  BY <1>1, <1>0, BlankFile, NamesAssumption
  DEF Open, Goto, catalogs, process, history, TypeOK, Before, Hidden
<1>2. ASSUME NEW x \in Procs, Flush(x) PROVE Hidden(u)'
  <2>1. x # u
    BY <1>2 DEF Flush, Goto, After, TypeOK, Places, Before
  <2>2. pc[u] \in Before /\ Hidden(u)
    BY <1>0, <1>2, <2>1 DEF Flush, Goto, TypeOK
  <2>3. Subject(x) \in Events /\ Subject(x) # u /\ goal[x] \in Statuses
        /\ seen[x] \in Files
    BY <1>2, <2>1, <2>2 DEF Flush, Hidden, TypeOK
  <2>4. file'.status[u] = "absent"
    <3>1. file'.status = [seen[x].status EXCEPT ![Subject(x)] = goal[x]]
      BY <1>2, <2>3, PutFile DEF Flush
    <3>2. seen[x].status[u] = "absent" /\ DOMAIN seen[x].status = Events
      BY <2>2, <2>3 DEF Hidden, Files
    <3> QED
      BY <2>3, <3>1, <3>2
  <2>5. ideal'[u] = "absent"
    BY <1>2, <2>2, <2>3 DEF Flush, Hidden, TypeOK
  <2>6. \A y \in Procs : seen'[y].status[u] = "absent"
    BY <1>2, <2>2, BlankFile DEF Flush, Forget, Hidden, TypeOK
  <2> QED
    BY <1>2, <2>2, <2>4, <2>5, <2>6 DEF Flush, Hidden
<1>3. ASSUME NEW e \in Events, Save(e) PROVE Hidden(u)'
  BY <1>3, <1>0, BlankFile, NamesAssumption
  DEF Save, Goto, catalogs, process, history, TypeOK, Before, Hidden
<1>4. ASSUME NEW e \in Events, EnqueueFails(e) PROVE Hidden(u)'
  BY <1>4, <1>0, BlankFile, NamesAssumption
  DEF EnqueueFails, Goto, catalogs, process, history, TypeOK, Before, Hidden
<1>5. ASSUME NEW e \in Events, Enqueue(e) PROVE Hidden(u)'
  BY <1>5, <1>0, BlankFile, NamesAssumption
  DEF Enqueue, Read, Goto, catalogs, process, history, TypeOK, Before, Hidden
<1>6. ASSUME NEW e \in Events, Push(e) PROVE Hidden(u)'
  <2>1. pc[u] \in Before /\ e # u
    BY <1>6 DEF Push, Goto, TypeOK, Before
  <2>2. \A i \in DOMAIN pending' : pending'[i] # u
    BY <1>0, <1>6, <2>1, PushedId DEF Push, PushOr, Hidden
  <2> QED
    BY <1>0, <1>6, <2>1, <2>2 DEF Push, Hidden, process, history
<1>7. ASSUME NEW e \in Events, RequestDies(e) PROVE Hidden(u)'
  BY <1>7, <1>0, BlankFile, NamesAssumption
  DEF RequestDies, Forget, Goto, catalogs, process, history, TypeOK, Before,
      Hidden
<1>8. ASSUME NEW w \in Workers, Pop(w) PROVE Hidden(u)'
  <2>1. pc[u] \in Before
    BY <1>8 DEF Pop, Goto, TypeOK, Before
  <2>2. CASE UNCHANGED <<job, pending>>
    BY <1>0, <1>8, <2>1, <2>2 DEF Pop, Hidden, history
  <2>3. CASE /\ Len(pending) > 0
             /\ job' = [job EXCEPT ![w] = pending[Len(pending)]]
             /\ pending' = SubSeq(pending, 1, Len(pending) - 1)
    <3>1. pending[Len(pending)] # u
      BY <1>0, <2>1, <2>3 DEF Hidden, TypeOK
    <3>2. \A i \in DOMAIN pending' : pending'[i] # u
      BY <1>0, <2>1, <2>3 DEF Hidden, TypeOK
    <3>3. \A v \in Workers : job'[v] # u
      BY <1>0, <2>1, <2>3, <3>1 DEF Hidden, TypeOK
    <3> QED
      BY <1>0, <1>8, <2>1, <3>2, <3>3 DEF Pop, Hidden, history
  <2>4. pending # <<>> => Len(pending) > 0
    BY DEF TypeOK
  <2> QED
    BY <1>8, <2>2, <2>3, <2>4 DEF Pop
<1>9. ASSUME NEW w \in Workers, Claim(w) PROVE Hidden(u)'
  <2>1. pc[u] \in Before
    BY <1>9 DEF Claim, Idle, Rewrite, Goto, TypeOK, Before
  <2>2. CASE Idle(w) /\ UNCHANGED seen
    BY <1>0, <1>9, <2>1, <2>2, NamesAssumption
    DEF Claim, Idle, Hidden, TypeOK
  <2>3. CASE Rewrite(w, "processing") /\ UNCHANGED job
    BY <1>0, <1>9, <2>1, <2>3 DEF Claim, Rewrite, Read, Hidden, TypeOK
  <2> QED
    BY <1>9, <2>2, <2>3 DEF Claim
<1>10. ASSUME NEW w \in Workers, Scan(w) PROVE Hidden(u)'
  <2>1. pc[u] \in Before
    BY <1>10 DEF Scan, Idle, Rewrite, Goto, TypeOK, Before
  <2>2. CASE Idle(w) /\ UNCHANGED seen
    BY <1>0, <1>10, <2>1, <2>2, NamesAssumption
    DEF Scan, Idle, Hidden, history, TypeOK
  <2>3. ASSUME NEW i \in DOMAIN file.ids, Rewrite(w, "processing"),
               job' = [job EXCEPT ![w] = file.ids[i]], FirstDue(file, i)
        PROVE  Hidden(u)'
    <3>1. file.ids[i] # u
      BY <1>0, <2>1, <2>3 DEF FirstDue, Hidden, Due
    <3>2. \A v \in Workers : job'[v] # u
      BY <1>0, <2>1, <2>3, <3>1 DEF Hidden, TypeOK
    <3> QED
      BY <1>0, <1>10, <2>1, <2>3, <3>2
      DEF Scan, Rewrite, Read, Hidden, history, TypeOK
  <2> QED
    BY <1>10, <2>2, <2>3 DEF Scan
<1>11. ASSUME NEW w \in Workers, Load(w) PROVE Hidden(u)'
  BY <1>11, <1>0, BlankFile, NamesAssumption
  DEF Load, Outcome, Goto, catalogs, process, history, TypeOK, Before, Hidden
<1>12. ASSUME NEW w \in Workers, Upsert(w) PROVE Hidden(u)'
  BY <1>12, <1>0, BlankFile, NamesAssumption
  DEF Upsert, Goto, catalogs, process, history, TypeOK, Before, Hidden
<1>13. ASSUME NEW w \in Workers, PublishState(w) PROVE Hidden(u)'
  BY <1>13, <1>0, BlankFile, NamesAssumption
  DEF PublishState, Outcome, Goto, catalogs, process, history, TypeOK, Before,
      Hidden
<1>14. ASSUME NEW w \in Workers, ConnectorFails(w) PROVE Hidden(u)'
  BY <1>14, <1>0, BlankFile, NamesAssumption
  DEF ConnectorFails, Outcome, Goto, catalogs, process, history, TypeOK, Before,
      Hidden
<1>15. ASSUME NEW w \in Workers, Mark(w) PROVE Hidden(u)'
  <2>1. pc[u] \in Before
    BY <1>15 DEF Mark, Idle, Rewrite, Goto, TypeOK, Before
  <2>2. CASE Idle(w) /\ UNCHANGED seen
    BY <1>0, <1>15, <2>1, <2>2, NamesAssumption
    DEF Mark, Idle, Hidden, TypeOK
  <2>3. CASE Rewrite(w, goal[w]) /\ UNCHANGED job
    BY <1>0, <1>15, <2>1, <2>3 DEF Mark, Rewrite, Read, Hidden, TypeOK
  <2> QED
    BY <1>15, <2>2, <2>3 DEF Mark
<1>16. ASSUME NEW w \in Workers, Settle(w) PROVE Hidden(u)'
  <2>1. pc[u] \in Before /\ job[w] \in Events
    BY <1>16 DEF Settle, Idle, Goto, TypeOK, Places, Before, Holding
  <2>2. \A i \in DOMAIN pending' : pending'[i] # u
    BY <1>0, <1>16, <2>1, PushedId DEF Settle, PushOr, Hidden
  <2> QED
    BY <1>0, <1>16, <2>1, <2>2, NamesAssumption
    DEF Settle, Idle, Hidden, history, TypeOK
<1>17. ASSUME NEW w \in Workers, WorkerRestarts(w) PROVE Hidden(u)'
  BY <1>17, <1>0, BlankFile, NamesAssumption
  DEF WorkerRestarts, Forget, Idle, Goto, catalogs, process, history, TypeOK,
      Before, Hidden
<1>18. CASE UNCHANGED vars
  BY <1>0, <1>18 DEF vars, Hidden
<1> QED
  BY <1>1, <1>2, <1>3, <1>4, <1>5, <1>6, <1>7, <1>8, <1>9, <1>10, <1>11,
     <1>12, <1>13, <1>14, <1>15, <1>16, <1>17, <1>18
  DEF Next, RequestStep, WorkerStep
----------------------------------------------------------------------------
\* A worker takes an event in hand by writing that it does,
LEMMA EnterWork ==
  ASSUME TypeOK, Places, [Next]_vars,
         NEW w \in Workers, NEW e \in Events, Processing(w, e)'
  PROVE  \/ Processing(w, e)
         \/ Flush(w) /\ goal[w] = "processing" /\ job[w] = e
<1> DEFINE Entered == \/ Processing(w, e)
                      \/ Flush(w) /\ goal[w] = "processing" /\ job[w] = e
<1> USE Subjects DEF Procs
<1> HIDE DEF Entered
<1>1. ASSUME NEW x \in Procs, Open(x) PROVE Entered
  BY <1>1
  DEF Open, Goto, catalogs, process, history, TypeOK, Places, Processing,
      Before, Past, Holding, Connectors, Indexes, Entered
<1>2. ASSUME NEW x \in Procs, Flush(x) PROVE Entered
  <2>1. CASE x = w
    <3>1. pc'[w] = After(goal[w]) /\ job' = job /\ goal' = goal
      BY <1>2, <2>1 DEF Flush, Goto, TypeOK
    <3>2. goal[w] \in {"processing", "failed", "completed"}
      BY <1>2, <2>1 DEF Flush, Places
    <3>3. goal[w] = "processing" /\ job[w] = e
      BY <3>1, <3>2 DEF After, Processing, Connectors, Indexes
    <3> QED
      BY <1>2, <2>1, <3>3 DEF Entered
  <2>2. CASE x # w
    BY <1>2, <2>2 DEF Flush, Goto, TypeOK, Processing, Entered
  <2> QED
    BY <2>1, <2>2
<1>3. ASSUME NEW f \in Events, Save(f) PROVE Entered
  BY <1>3
  DEF Save, Goto, catalogs, process, history, TypeOK, Places, Processing,
      Before, Past, Holding, Connectors, Indexes, Entered
<1>4. ASSUME NEW f \in Events, EnqueueFails(f) PROVE Entered
  BY <1>4
  DEF EnqueueFails, Goto, catalogs, process, history, TypeOK, Places,
      Processing, Before, Past, Holding, Connectors, Indexes, Entered
<1>5. ASSUME NEW f \in Events, Enqueue(f) PROVE Entered
  BY <1>5
  DEF Enqueue, Read, Goto, catalogs, process, history, TypeOK, Places,
      Processing, Before, Past, Holding, Connectors, Indexes, Entered
<1>6. ASSUME NEW f \in Events, Push(f) PROVE Entered
  BY <1>6
  DEF Push, PushOr, Goto, catalogs, process, history, TypeOK, Places,
      Processing, Before, Past, Holding, Connectors, Indexes, Entered
<1>7. ASSUME NEW f \in Events, RequestDies(f) PROVE Entered
  BY <1>7
  DEF RequestDies, Forget, Goto, catalogs, process, history, TypeOK, Places,
      Processing, Before, Past, Holding, Connectors, Indexes, Entered
<1>8. ASSUME NEW v \in Workers, Pop(v) PROVE Entered
  BY <1>8
  DEF Pop, Goto, catalogs, process, history, TypeOK, Places, Processing, Before,
      Past, Holding, Connectors, Indexes, Entered
<1>9. ASSUME NEW v \in Workers, Claim(v) PROVE Entered
  BY <1>9
  DEF Claim, Rewrite, Read, Idle, Goto, catalogs, process, history, TypeOK,
      Places, Processing, Before, Past, Holding, Connectors, Indexes, Entered
<1>10. ASSUME NEW v \in Workers, Scan(v) PROVE Entered
  BY <1>10
  DEF Scan, Rewrite, Read, Idle, Goto, catalogs, process, history, TypeOK,
      Places, Processing, Before, Past, Holding, Connectors, Indexes, Entered
<1>11. ASSUME NEW v \in Workers, Load(v) PROVE Entered
  BY <1>11
  DEF Load, Outcome, Goto, catalogs, process, history, TypeOK, Places,
      Processing, Before, Past, Holding, Connectors, Indexes, Entered
<1>12. ASSUME NEW v \in Workers, Upsert(v) PROVE Entered
  BY <1>12
  DEF Upsert, Goto, catalogs, process, history, TypeOK, Places, Processing,
      Before, Past, Holding, Connectors, Indexes, Entered
<1>13. ASSUME NEW v \in Workers, PublishState(v) PROVE Entered
  BY <1>13
  DEF PublishState, Outcome, Goto, catalogs, process, history, TypeOK, Places,
      Processing, Before, Past, Holding, Connectors, Indexes, Entered
<1>14. ASSUME NEW v \in Workers, ConnectorFails(v) PROVE Entered
  BY <1>14
  DEF ConnectorFails, Outcome, Goto, catalogs, process, history, TypeOK, Places,
      Processing, Before, Past, Holding, Connectors, Indexes, Entered
<1>15. ASSUME NEW v \in Workers, Mark(v) PROVE Entered
  BY <1>15
  DEF Mark, Rewrite, Read, Idle, Goto, catalogs, process, history, TypeOK,
      Places, Processing, Before, Past, Holding, Connectors, Indexes, Entered
<1>16. ASSUME NEW v \in Workers, Settle(v) PROVE Entered
  BY <1>16
  DEF Settle, Idle, PushOr, Goto, catalogs, process, history, TypeOK, Places,
      Processing, Before, Past, Holding, Connectors, Indexes, Entered
<1>17. ASSUME NEW v \in Workers, WorkerRestarts(v) PROVE Entered
  BY <1>17
  DEF WorkerRestarts, Forget, Idle, Goto, catalogs, process, history, TypeOK,
      Places, Processing, Before, Past, Holding, Connectors, Indexes, Entered
<1>18. CASE UNCHANGED vars
  BY <1>18 DEF vars, TypeOK, Places, Processing, Before, Past, Holding, Connectors, Indexes, Entered
<1> QED
  BY <1>1, <1>2, <1>3, <1>4, <1>5, <1>6, <1>7, <1>8, <1>9, <1>10, <1>11,
     <1>12, <1>13, <1>14, <1>15, <1>16, <1>17, <1>18
  DEF Next, RequestStep, WorkerStep, Entered

\* and lets go of it by writing another status, unless the event is gone
\* from the file or the worker dies.
LEMMA LeaveWork ==
  ASSUME TypeOK, Places, [Next]_vars,
         NEW w \in Workers, NEW e \in Events, Processing(w, e)
  PROVE  \/ Processing(w, e)'
         \/ Flush(w) /\ goal[w] # "processing"
         \/ file.status[e] # ideal[e] /\ e \in raced'
         \/ ideal[e] = "absent"
         \/ e \in abandoned'
<1> DEFINE Left == \/ Processing(w, e)'
                   \/ Flush(w) /\ goal[w] # "processing"
                   \/ file.status[e] # ideal[e] /\ e \in raced'
                   \/ ideal[e] = "absent"
                   \/ e \in abandoned'
<1> USE Subjects DEF Procs
<1> HIDE DEF Left
<1>1. ASSUME NEW x \in Procs, Open(x) PROVE Left
  BY <1>1
  DEF Open, Goto, catalogs, process, history, TypeOK, Places, Processing,
      Before, Past, Holding, Connectors, Indexes, Left
<1>2. ASSUME NEW x \in Procs, Flush(x) PROVE Left
  BY <1>2
  DEF Flush, Forget, After, Goto, catalogs, process, history, TypeOK, Places,
      Processing, Before, Past, Holding, Connectors, Indexes, Left
<1>3. ASSUME NEW f \in Events, Save(f) PROVE Left
  BY <1>3
  DEF Save, Goto, catalogs, process, history, TypeOK, Places, Processing,
      Before, Past, Holding, Connectors, Indexes, Left
<1>4. ASSUME NEW f \in Events, EnqueueFails(f) PROVE Left
  BY <1>4
  DEF EnqueueFails, Goto, catalogs, process, history, TypeOK, Places,
      Processing, Before, Past, Holding, Connectors, Indexes, Left
<1>5. ASSUME NEW f \in Events, Enqueue(f) PROVE Left
  BY <1>5
  DEF Enqueue, Read, Goto, catalogs, process, history, TypeOK, Places,
      Processing, Before, Past, Holding, Connectors, Indexes, Left
<1>6. ASSUME NEW f \in Events, Push(f) PROVE Left
  BY <1>6
  DEF Push, PushOr, Goto, catalogs, process, history, TypeOK, Places,
      Processing, Before, Past, Holding, Connectors, Indexes, Left
<1>7. ASSUME NEW f \in Events, RequestDies(f) PROVE Left
  BY <1>7
  DEF RequestDies, Forget, Goto, catalogs, process, history, TypeOK, Places,
      Processing, Before, Past, Holding, Connectors, Indexes, Left
<1>8. ASSUME NEW v \in Workers, Pop(v) PROVE Left
  BY <1>8
  DEF Pop, Goto, catalogs, process, history, TypeOK, Places, Processing, Before,
      Past, Holding, Connectors, Indexes, Left
<1>9. ASSUME NEW v \in Workers, Claim(v) PROVE Left
  BY <1>9
  DEF Claim, Rewrite, Read, Idle, Goto, catalogs, process, history, TypeOK,
      Places, Processing, Before, Past, Holding, Connectors, Indexes, Left
<1>10. ASSUME NEW v \in Workers, Scan(v) PROVE Left
  BY <1>10
  DEF Scan, Rewrite, Read, Idle, Goto, catalogs, process, history, TypeOK,
      Places, Processing, Before, Past, Holding, Connectors, Indexes, Left
<1>11. ASSUME NEW v \in Workers, Load(v) PROVE Left
  BY <1>11
  DEF Load, Outcome, Goto, catalogs, process, history, TypeOK, Places,
      Processing, Before, Past, Holding, Connectors, Indexes, Left
<1>12. ASSUME NEW v \in Workers, Upsert(v) PROVE Left
  BY <1>12
  DEF Upsert, Goto, catalogs, process, history, TypeOK, Places, Processing,
      Before, Past, Holding, Connectors, Indexes, Left
<1>13. ASSUME NEW v \in Workers, PublishState(v) PROVE Left
  BY <1>13
  DEF PublishState, Outcome, Goto, catalogs, process, history, TypeOK, Places,
      Processing, Before, Past, Holding, Connectors, Indexes, Left
<1>14. ASSUME NEW v \in Workers, ConnectorFails(v) PROVE Left
  BY <1>14
  DEF ConnectorFails, Outcome, Goto, catalogs, process, history, TypeOK, Places,
      Processing, Before, Past, Holding, Connectors, Indexes, Left
<1>15. ASSUME NEW v \in Workers, Mark(v) PROVE Left
  BY <1>15
  DEF Mark, Misread, Rewrite, Idle, Goto, TypeOK, Places, Processing,
      Connectors,
      Indexes, Left
<1>16. ASSUME NEW v \in Workers, Settle(v) PROVE Left
  BY <1>16
  DEF Settle, Idle, PushOr, Goto, catalogs, process, history, TypeOK, Places,
      Processing, Before, Past, Holding, Connectors, Indexes, Left
<1>17. ASSUME NEW v \in Workers, WorkerRestarts(v) PROVE Left
  BY <1>17, FaultsAssumption
  DEF WorkerRestarts, Fault, Idle, Goto, TypeOK, Processing, Left
<1>18. CASE UNCHANGED vars
  BY <1>18 DEF vars, TypeOK, Places, Processing, Before, Past, Holding, Connectors, Indexes, Left
<1> QED
  BY <1>1, <1>2, <1>3, <1>4, <1>5, <1>6, <1>7, <1>8, <1>9, <1>10, <1>11,
     <1>12, <1>13, <1>14, <1>15, <1>16, <1>17, <1>18
  DEF Next, RequestStep, WorkerStep, Left

\* The status of an event changes only where a process writes it; the history
\* remembers a writer that had not read the last one, and a worker that died.
LEMMA StatusWritten ==
  ASSUME TypeOK, Places, [Next]_vars, NEW e \in Events
  PROVE
      /\ raced \subseteq raced'
      /\ abandoned \subseteq abandoned'
      /\ e \in abandoned' \ abandoned =>
           \E v \in Workers : WorkerRestarts(v) /\ Processing(v, e)
      /\ \/ ideal'[e] = ideal[e]
         \/ \E x \in Procs :
              /\ Flush(x)
              /\ Subject(x) = e
              /\ ideal'[e] = goal[x]
              /\ e \notin raced' => seen[x].status[e] = ideal[e]
<1> DEFINE Step ==
      /\ raced \subseteq raced'
      /\ abandoned \subseteq abandoned'
      /\ e \in abandoned' \ abandoned =>
           \E v \in Workers : WorkerRestarts(v) /\ Processing(v, e)
      /\ \/ ideal'[e] = ideal[e]
         \/ \E x \in Procs :
              /\ Flush(x)
              /\ Subject(x) = e
              /\ ideal'[e] = goal[x]
              /\ e \notin raced' => seen[x].status[e] = ideal[e]
<1>0. faults \in Nat
  BY FaultsAssumption DEF TypeOK
<1> USE DEF Procs
<1> HIDE DEF Step
<1>1. ASSUME NEW x \in Procs, Open(x) PROVE Step
  BY <1>1, <1>0
  DEF Open, Goto, catalogs, process, history, Fault, Step
<1>2. ASSUME NEW x \in Procs, Flush(x) PROVE Step
  <2>1. /\ Subject(x) \in Events
        /\ ideal' = [ideal EXCEPT ![Subject(x)] = goal[x]]
        /\ raced \subseteq raced' /\ UNCHANGED abandoned
        /\ Subject(x) \notin raced' =>
             seen[x].status[Subject(x)] = ideal[Subject(x)]
    BY <1>2, Subjects DEF Flush, catalogs
  <2>2. CASE Subject(x) = e
    BY <1>0, <1>2, <2>1, <2>2 DEF Step, TypeOK
  <2>3. CASE Subject(x) # e
    BY <1>0, <2>1, <2>3 DEF Step, TypeOK
  <2> QED
    BY <2>2, <2>3
<1>3. ASSUME NEW f \in Events, Save(f) PROVE Step
  BY <1>3, <1>0
  DEF Save, Goto, catalogs, process, history, Fault, Step
<1>4. ASSUME NEW f \in Events, EnqueueFails(f) PROVE Step
  BY <1>4, <1>0
  DEF EnqueueFails, Goto, catalogs, process, history, Fault, Step
<1>5. ASSUME NEW f \in Events, Enqueue(f) PROVE Step
  BY <1>5, <1>0
  DEF Enqueue, Read, Goto, catalogs, process, history, Fault, Step
<1>6. ASSUME NEW f \in Events, Push(f) PROVE Step
  BY <1>6, <1>0
  DEF Push, PushOr, Goto, catalogs, process, history, Fault, Step
<1>7. ASSUME NEW f \in Events, RequestDies(f) PROVE Step
  BY <1>7, <1>0
  DEF RequestDies, Forget, Goto, catalogs, process, history, Fault, Step
<1>8. ASSUME NEW v \in Workers, Pop(v) PROVE Step
  BY <1>8, <1>0
  DEF Pop, Goto, catalogs, process, history, Fault, Step
<1>9. ASSUME NEW v \in Workers, Claim(v) PROVE Step
  BY <1>9, <1>0
  DEF Claim, Rewrite, Read, Idle, Goto, catalogs, process, history, Fault, Step
<1>10. ASSUME NEW v \in Workers, Scan(v) PROVE Step
  BY <1>10, <1>0
  DEF Scan, Rewrite, Read, Idle, Goto, catalogs, process, history, Fault, Step
<1>11. ASSUME NEW v \in Workers, Load(v) PROVE Step
  BY <1>11, <1>0
  DEF Load, Outcome, Goto, catalogs, process, history, Fault, Step
<1>12. ASSUME NEW v \in Workers, Upsert(v) PROVE Step
  BY <1>12, <1>0
  DEF Upsert, Goto, catalogs, process, history, Fault, Step
<1>13. ASSUME NEW v \in Workers, PublishState(v) PROVE Step
  BY <1>13, <1>0
  DEF PublishState, Outcome, Goto, catalogs, process, history, Fault, Step
<1>14. ASSUME NEW v \in Workers, ConnectorFails(v) PROVE Step
  BY <1>14, <1>0
  DEF ConnectorFails, Outcome, Goto, catalogs, process, history, Fault, Step
<1>15. ASSUME NEW v \in Workers, Mark(v) PROVE Step
  BY <1>15, <1>0
  DEF Mark, Rewrite, Read, Idle, Goto, catalogs, process, history, Fault, Step
<1>16. ASSUME NEW v \in Workers, Settle(v) PROVE Step
  BY <1>16, <1>0
  DEF Settle, Idle, PushOr, Goto, catalogs, process, history, Fault, Step
<1>17. ASSUME NEW v \in Workers, WorkerRestarts(v) PROVE Step
  BY <1>17, <1>0
  DEF WorkerRestarts, Forget, Idle, Goto, catalogs, process, history, Fault,
      Step
<1>18. CASE UNCHANGED vars
  BY <1>18, <1>0 DEF vars, Fault, Step
<1> QED
  BY <1>1, <1>2, <1>3, <1>4, <1>5, <1>6, <1>7, <1>8, <1>9, <1>10, <1>11,
     <1>12, <1>13, <1>14, <1>15, <1>16, <1>17, <1>18
  DEF Next, RequestStep, WorkerStep, Step

\* Who can write the status of an event that was not misread: its request,
\* while it is hidden; a worker that read it as due; the worker that has it.
LEMMA Writers ==
  ASSUME TypeOK, Places, ClaimsAreDue, Unpublished, InWork, [Next]_vars,
         NEW e \in Events, NEW x \in Procs, Flush(x), Subject(x) = e,
         e \notin raced', raced \subseteq raced', seen[x].status[e] = ideal[e]
  PROVE  \/ x = e /\ ideal[e] = "absent" /\ goal[x] = "queued"
         \/ x \in Workers /\ goal[x] = "processing" /\ ideal[e] \in Due
         \/ x \in Workers /\ goal[x] # "processing" /\ Processing(x, e)
            /\ ideal[e] = "processing"
<1>1. pc[x] = "flush"
  BY DEF Flush
<1>2. CASE x \in Events
  <2>1. x = e /\ goal[x] = "queued"
    BY <1>2, Subjects DEF Places
  <2> QED
    BY <1>1, <2>1 DEF Unpublished, Hidden, Before
<1>3. CASE x \in Workers
  <2>1. job[x] = e
    BY <1>3, Subjects
  <2>2. CASE goal[x] = "processing"
    BY <1>1, <1>3, <2>1, <2>2 DEF ClaimsAreDue
  <2>3. CASE goal[x] # "processing"
    BY <1>1, <1>3, <2>1, <2>3 DEF Processing, InWork
  <2> QED
    BY <2>2, <2>3
<1> QED
  BY <1>2, <1>3 DEF Procs
----------------------------------------------------------------------------
\* An event in work keeps its status, and no second worker.
LEMMA InWorkStep ==
  ASSUME TypeOK, Places, ClaimsAreDue, Unpublished, InWork, OneWorkerEach,
         [Next]_vars
  PROVE  InWork' /\ OneWorkerEach'
<1>1. ASSUME NEW w \in Workers, NEW e \in Events, Processing(w, e)', e \notin raced'
      PROVE  ideal'[e] = "processing"
  <2>1. CASE Flush(w) /\ goal[w] = "processing" /\ job[w] = e
    BY <2>1, Subjects DEF Flush, TypeOK
  <2>2. CASE Processing(w, e)
    <3>1. e \notin raced /\ ideal[e] = "processing"
      BY <1>1, <2>2, StatusWritten DEF InWork
    <3>2. ASSUME NEW x \in Procs, Flush(x), Subject(x) = e, ideal'[e] = goal[x],
                 seen[x].status[e] = ideal[e]
          PROVE  ideal'[e] = "processing"
      <4>1. CASE goal[x] = "processing"
        BY <3>2, <4>1
      <4>2. CASE goal[x] # "processing"
        <5>1. x \in Workers /\ Processing(x, e)
          BY <1>1, <3>1, <3>2, <4>2, Writers, StatusWritten DEF Due
        <5>2. x = w
          BY <2>2, <3>1, <5>1 DEF OneWorkerEach
        <5>3. goal[w] \in {"failed", "completed"} /\ pc'[w] = After(goal[w])
          BY <3>2, <4>2, <5>1, <5>2 DEF Flush, Goto, Places, TypeOK, Procs
        <5> QED
          BY <1>1, <5>3 DEF After, Processing, Connectors, Indexes
      <4> QED
        BY <4>1, <4>2
    <3> QED
      BY <1>1, <3>1, <3>2, StatusWritten
  <2> QED
    BY <1>1, <2>1, <2>2, EnterWork
<1>2. ASSUME NEW v \in Workers, NEW w \in Workers, NEW e \in Events,
             Processing(v, e)', Processing(w, e)', e \notin raced'
      PROVE  v = w
  <2>1. e \notin raced
    BY <1>2, StatusWritten
  <2>2. ASSUME NEW x \in Workers, Flush(x), goal[x] = "processing", job[x] = e
        PROVE  ideal[e] \in Due /\ pc'[x] = "load"
    <3>1. x \in Procs /\ Subject(x) = e
      BY <2>2, Subjects
    <3>2. seen[x].status[e] = ideal[e]
      BY <1>2, <2>2, <3>1 DEF Flush
    <3> QED
      BY <2>2, <3>1, <3>2 DEF Flush, Goto, After, ClaimsAreDue, TypeOK
  <2>3. \/ Processing(v, e)
        \/ Flush(v) /\ goal[v] = "processing" /\ job[v] = e
    BY <1>2, EnterWork
  <2>4. \/ Processing(w, e)
        \/ Flush(w) /\ goal[w] = "processing" /\ job[w] = e
    BY <1>2, EnterWork
  <2>5. CASE Processing(v, e) /\ Processing(w, e)
    BY <2>1, <2>5 DEF OneWorkerEach
  <2>6. CASE Processing(v, e) \/ Processing(w, e)
    <3>1. ideal[e] = "processing"
      BY <2>1, <2>6 DEF InWork
    <3> QED
      BY <2>2, <2>3, <2>4, <2>5, <3>1 DEF Due
  <2>7. CASE Flush(v) /\ goal[v] = "processing" /\ job[v] = e
             /\ Flush(w) /\ goal[w] = "processing" /\ job[w] = e
    <3>1. pc'[w] = "load" /\ pc[w] = "flush"
      BY <2>2, <2>7 DEF Flush
    <3>2. pc' = [pc EXCEPT ![v] = After(goal[v])]
      BY <2>7 DEF Flush, Goto
    <3> QED
      BY <3>1, <3>2 DEF TypeOK, Procs
  <2> QED
    BY <2>3, <2>4, <2>6, <2>7
<1> QED
  BY <1>1, <1>2 DEF InWork, OneWorkerEach

\* An event in work stays in the hands of a worker until that one dies, and
\* then nobody takes it up: a claim has read that its event is due.
LEMMA DeathAbandonsStep ==
  ASSUME TypeOK, Places, ClaimsAreDue, Unpublished, InWork, OneWorkerEach,
         DeathAbandons, [Next]_vars
  PROVE  DeathAbandons'
<1> SUFFICES ASSUME NEW e \in Events, e \notin raced'
             PROVE  /\ e \in abandoned' => ideal'[e] = "processing"
                    /\ ideal'[e] = "processing" =>
                         (e \in abandoned' <=> \A w \in Workers : ~Processing(w, e)')
  BY DEF DeathAbandons
<1>0. e \notin raced /\ abandoned \subseteq abandoned'
  BY StatusWritten
<1>1. ASSUME e \in abandoned
      PROVE  /\ ideal'[e] = "processing"
             /\ \A w \in Workers : ~Processing(w, e)'
  <2>1. ideal[e] = "processing" /\ \A w \in Workers : ~Processing(w, e)
    BY <1>0, <1>1 DEF DeathAbandons
  <2>2. ASSUME NEW x \in Procs, Flush(x), Subject(x) = e,
               seen[x].status[e] = ideal[e]
        PROVE  FALSE
    BY <1>0, <2>1, <2>2, Writers, StatusWritten DEF Due
  <2>3. ideal'[e] = "processing"
    BY <2>1, <2>2, StatusWritten
  <2>4. ASSUME NEW w \in Workers, Flush(w), job[w] = e PROVE FALSE
    <3>1. w \in Procs /\ Subject(w) = e
      BY <2>4, Subjects
    <3>2. seen[w].status[e] = ideal[e]
      BY <2>4, <3>1 DEF Flush
    <3> QED
      BY <2>2, <2>4, <3>1, <3>2
  <2> QED
    BY <2>1, <2>3, <2>4, EnterWork
<1>2. ASSUME e \in abandoned', e \notin abandoned
      PROVE  /\ ideal'[e] = "processing"
             /\ \A w \in Workers : ~Processing(w, e)'
  <2>1. PICK v \in Workers : WorkerRestarts(v) /\ Processing(v, e)
    BY <1>2, StatusWritten
  <2>2. ideal'[e] = "processing"
    BY <1>0, <2>1 DEF InWork, WorkerRestarts
  <2>3. ASSUME NEW w \in Workers, Processing(w, e)' PROVE FALSE
    <3>1. CASE w = v
      BY <2>1, <2>3, <3>1, Subjects
      DEF WorkerRestarts, Idle, Goto, Processing, TypeOK, Connectors, Indexes
    <3>2. CASE w # v
      <4>1. ~Processing(w, e)
        BY <1>0, <2>1, <3>2 DEF OneWorkerEach
      <4> QED
        BY <2>1, <2>3, <3>2, <4>1, Subjects
        DEF WorkerRestarts, Idle, Goto, Processing, TypeOK
    <3> QED
      BY <3>1, <3>2
  <2> QED
    BY <2>2, <2>3
<1>3. ASSUME ideal'[e] = "processing", e \notin abandoned'
      PROVE  \E w \in Workers : Processing(w, e)'
  <2>1. CASE ideal[e] = "processing"
    <3>1. PICK w \in Workers : Processing(w, e)
      BY <1>0, <1>3, <2>1 DEF DeathAbandons
    <3>2. ~(Flush(w) /\ goal[w] # "processing")
      <4>1. ASSUME Flush(w), goal[w] # "processing" PROVE FALSE
        <5>1. Subject(w) = e
          BY <3>1, Subjects DEF Processing
        <5>2. ideal'[e] = goal[w]
          BY <4>1, <5>1 DEF Flush, TypeOK
        <5> QED
          BY <1>3, <4>1, <5>2
      <4> QED
        BY <4>1
    <3> QED
      BY <1>3, <2>1, <3>1, <3>2, LeaveWork
  <2>2. CASE ideal[e] # "processing"
    <3>1. PICK x \in Procs : Flush(x) /\ Subject(x) = e /\ goal[x] = "processing"
      BY <1>3, <2>2, StatusWritten
    <3>2. x \in Workers /\ job[x] = e
      BY <3>1, Subjects DEF Places, Procs
    <3>3. pc'[x] = "load" /\ job'[x] = e
      BY <3>1, <3>2 DEF Flush, Goto, After, TypeOK
    <3> QED
      BY <3>2, <3>3 DEF Processing
  <2> QED
    BY <2>1, <2>2
<1> QED
  BY <1>1, <1>2, <1>3

\* A worker that says "completed" has written both indexes.
LEMMA WrittenStep ==
  ASSUME TypeOK, Places, Written, [Next]_vars
  PROVE  Written'
<1> USE Subjects DEF Procs
<1> SUFFICES ASSUME NEW u \in Workers
             PROVE  Has(u)'
  BY DEF Written
<1>0. Has(u)
  BY DEF Written
<1>1. ASSUME NEW x \in Procs, Open(x) PROVE Has(u)'
  BY <1>1, <1>0
  DEF Open, Goto, catalogs, process, history, TypeOK, Places, Has, Holding,
      Connectors, Indexes
<1>2. ASSUME NEW x \in Procs, Flush(x) PROVE Has(u)'
  BY <1>2, <1>0
  DEF Flush, Forget, After, Goto, catalogs, process, history, TypeOK, Places,
      Has, Holding, Connectors, Indexes
<1>3. ASSUME NEW e \in Events, Save(e) PROVE Has(u)'
  BY <1>3, <1>0
  DEF Save, Goto, catalogs, process, history, TypeOK, Places, Has, Holding,
      Connectors, Indexes
<1>4. ASSUME NEW e \in Events, EnqueueFails(e) PROVE Has(u)'
  BY <1>4, <1>0
  DEF EnqueueFails, Goto, catalogs, process, history, TypeOK, Places, Has,
      Holding, Connectors, Indexes
<1>5. ASSUME NEW e \in Events, Enqueue(e) PROVE Has(u)'
  BY <1>5, <1>0
  DEF Enqueue, Read, Goto, catalogs, process, history, TypeOK, Places, Has,
      Holding, Connectors, Indexes
<1>6. ASSUME NEW e \in Events, Push(e) PROVE Has(u)'
  BY <1>6, <1>0
  DEF Push, PushOr, Goto, catalogs, process, history, TypeOK, Places, Has,
      Holding, Connectors, Indexes
<1>7. ASSUME NEW e \in Events, RequestDies(e) PROVE Has(u)'
  BY <1>7, <1>0
  DEF RequestDies, Forget, Goto, catalogs, process, history, TypeOK, Places,
      Has, Holding, Connectors, Indexes
<1>8. ASSUME NEW w \in Workers, Pop(w) PROVE Has(u)'
  BY <1>8, <1>0
  DEF Pop, Goto, catalogs, process, history, TypeOK, Places, Has, Holding,
      Connectors, Indexes
<1>9. ASSUME NEW w \in Workers, Claim(w) PROVE Has(u)'
  BY <1>9, <1>0
  DEF Claim, Rewrite, Read, Idle, Goto, catalogs, process, history, TypeOK,
      Places, Has, Holding, Connectors, Indexes
<1>10. ASSUME NEW w \in Workers, Scan(w) PROVE Has(u)'
  BY <1>10, <1>0
  DEF Scan, Rewrite, Read, Idle, Goto, catalogs, process, history, TypeOK,
      Places, Has, Holding, Connectors, Indexes
<1>11. ASSUME NEW w \in Workers, Load(w) PROVE Has(u)'
  BY <1>11, <1>0
  DEF Load, Outcome, Goto, catalogs, process, history, TypeOK, Places, Has,
      Holding, Connectors, Indexes
<1>12. ASSUME NEW w \in Workers, Upsert(w) PROVE Has(u)'
  BY <1>12, <1>0
  DEF Upsert, Goto, catalogs, process, history, TypeOK, Places, Has, Holding,
      Connectors, Indexes
<1>13. ASSUME NEW w \in Workers, PublishState(w) PROVE Has(u)'
  BY <1>13, <1>0
  DEF PublishState, Outcome, Goto, catalogs, process, history, TypeOK, Places,
      Has, Holding, Connectors, Indexes
<1>14. ASSUME NEW w \in Workers, ConnectorFails(w) PROVE Has(u)'
  BY <1>14, <1>0
  DEF ConnectorFails, Outcome, Goto, catalogs, process, history, TypeOK, Places,
      Has, Holding, Connectors, Indexes
<1>15. ASSUME NEW w \in Workers, Mark(w) PROVE Has(u)'
  BY <1>15, <1>0
  DEF Mark, Rewrite, Read, Idle, Goto, catalogs, process, history, TypeOK,
      Places, Has, Holding, Connectors, Indexes
<1>16. ASSUME NEW w \in Workers, Settle(w) PROVE Has(u)'
  BY <1>16, <1>0
  DEF Settle, Idle, PushOr, Goto, catalogs, process, history, TypeOK, Places,
      Has, Holding, Connectors, Indexes
<1>17. ASSUME NEW w \in Workers, WorkerRestarts(w) PROVE Has(u)'
  BY <1>17, <1>0
  DEF WorkerRestarts, Forget, Idle, Goto, catalogs, process, history, TypeOK,
      Places, Has, Holding, Connectors, Indexes
<1>18. CASE UNCHANGED vars
  BY <1>0, <1>18 DEF vars, Has
<1> QED
  BY <1>1, <1>2, <1>3, <1>4, <1>5, <1>6, <1>7, <1>8, <1>9, <1>10, <1>11,
     <1>12, <1>13, <1>14, <1>15, <1>16, <1>17, <1>18
  DEF Next, RequestStep, WorkerStep
----------------------------------------------------------------------------
LEMMA InitIInv == Init => IInv
<1> SUFFICES ASSUME Init PROVE IInv
  OBVIOUS
<1> USE NamesAssumption DEF Procs
<1>1. \A w \in Workers : w \notin Events /\ pc[w] = "idle"
  BY DEF Init
<1>2. \A e \in Events : pc[e] = "new"
  BY DEF Init
<1>3. TypeOK
  <2>1. catalog \in [Docs -> Chunks \cup {NoDoc}]
    BY DEF Init, Chunks
  <2>2. index \in [Indexes -> SUBSET Chunks]
    BY DEF Init, Chunks
  <2>3. pending \in Seq(Events)
    BY DEF Init
  <2> QED
    BY <2>1, <2>2, <2>3, BlankFile, FaultsAssumption
    DEF Init, TypeOK, Chunks, PCs, Statuses
<1>4. Places
  BY <1>1, <1>2 DEF Init, Places, Before, Holding, Connectors, Indexes
<1>5. ClaimsAreDue
  BY <1>1 DEF ClaimsAreDue
<1>6. Unpublished
  BY BlankFile DEF Init, Unpublished, Hidden
<1>7. InWork /\ OneWorkerEach
  BY <1>1 DEF InWork, OneWorkerEach, Processing, Connectors, Indexes
<1>8. DeathAbandons
  BY DEF Init, DeathAbandons
<1>9. Written
  BY <1>1 DEF Written, Has, Connectors, Indexes
<1> QED
  BY <1>3, <1>4, <1>5, <1>6, <1>7, <1>8, <1>9 DEF IInv

LEMMA StepIInv == IInv /\ [Next]_vars => IInv'
BY TypeStep, PlacesStep, ClaimsStep, UnpublishedStep, InWorkStep,
   DeathAbandonsStep, WrittenStep DEF IInv

LEMMA Inductive == Spec => []IInv
BY InitIInv, StepIInv, PTL DEF Spec

\* The state of the outbox, its list, the indexes and every process keeps its
\* type through any rewrite, push, fault and restart.
THEOREM TypeCorrect == Spec => []TypeOK
<1>1. IInv => TypeOK
  BY DEF IInv
<1> QED
  BY <1>1, Inductive, PTL

\* Two workers never process one event at the same time, unless its status
\* was misread or lost in the file: the claim of claim_next_event is a lock
\* although no lock spans its two halves.
THEOREM OneWorkerEachHolds == Spec => []OneWorkerEach
<1>1. IInv => OneWorkerEach
  BY DEF IInv
<1> QED
  BY <1>1, Inductive, PTL

\* An event marked "processing" is in the hands of a worker, which marks it on
\* every path of process_next_event, or its worker has died; then it stays so
\* for ever, since claim_next_event does not accept it.
THEOREM DeathAbandonsHolds == Spec => []DeathAbandons
<1>1. IInv => DeathAbandons
  BY DEF IInv
<1> QED
  BY <1>1, Inductive, PTL

\* A completed event is not taken up again by a stale id in the list or by a
\* scan of the file, unless its status was misread or lost.
THEOREM CompletedIsFinalHolds == Spec => CompletedIsFinal
<1>1. IInv /\ [Next]_vars =>
        \A e \in Events :
          ideal[e] = "completed" /\ e \notin raced' => ideal'[e] = "completed"
  <2> SUFFICES ASSUME IInv, [Next]_vars, NEW e \in Events,
                      ideal[e] = "completed", e \notin raced',
                      ideal'[e] # "completed"
               PROVE  FALSE
    OBVIOUS
  <2>1. TypeOK /\ Places /\ ClaimsAreDue /\ Unpublished /\ InWork
    BY DEF IInv
  <2>2. PICK x \in Procs : /\ Flush(x) /\ Subject(x) = e
                           /\ seen[x].status[e] = ideal[e]
    BY <2>1, StatusWritten
  <2> QED
    BY <2>1, <2>2, Writers, StatusWritten DEF Due
<1>2. IInv /\ [Next]_vars =>
        [\A e \in Events :
           ideal[e] = "completed" /\ e \notin raced' => ideal'[e] = "completed"]_vars
  BY <1>1
<1> QED
  BY <1>2, Inductive, PTL DEF Spec, CompletedIsFinal

\* Only a worker that has written the chunks it knows to both indexes
\* completes an event, whichever connectors failed before.
THEOREM CompletionsAreIndexedHolds == Spec => CompletionsAreIndexed
<1> DEFINE Indexed ==
      \A e \in Events :
        ideal'[e] = "completed" /\ ideal[e] # "completed" =>
          \E w \in Workers :
            /\ job[w] = e
            /\ known[w][Doc[e]] \in index["vector"] \cap index["bm25"]
<1>1. IInv /\ [Next]_vars => Indexed
  <2> SUFFICES ASSUME IInv, [Next]_vars, NEW e \in Events,
                      ideal'[e] = "completed", ideal[e] # "completed"
               PROVE  \E w \in Workers :
                        /\ job[w] = e
                        /\ known[w][Doc[e]] \in index["vector"] \cap index["bm25"]
    OBVIOUS
  <2>1. TypeOK /\ Places /\ Written
    BY DEF IInv
  <2>2. PICK x \in Procs : Flush(x) /\ Subject(x) = e /\ goal[x] = "completed"
    BY <2>1, StatusWritten
  <2>3. x \in Workers /\ job[x] = e /\ pc[x] = "flush"
    BY <2>1, <2>2, Subjects DEF Places, Procs, Flush
  <2> QED
    BY <2>1, <2>2, <2>3 DEF Written, Has
<1>2. IInv /\ [Next]_vars => [Indexed]_vars
  BY <1>1
<1> QED
  BY <1>2, Inductive, PTL DEF Spec, CompletionsAreIndexed
----------------------------------------------------------------------------
(* The outbox implements the queue: an event whose status is not lost moves *)
(* as a job does, and a step moves one event.                               *)
Held(e) == {w \in Workers : Processing(w, e)}

Unmoved(e) == ideal'[e] = ideal[e] /\ Held(e)' = Held(e)

\* A step moves the event of the process that takes it, and no other.
LEMMA OneMoves ==
  ASSUME TypeOK, Places, [Next]_vars
  PROVE  \E f \in Events \cup {NoEvent} : \A e \in Events \ {f} : Unmoved(e)
<1> DEFINE Alone(f) ==
      \A e \in Events \ {f} :
        /\ ideal'[e] = ideal[e]
        /\ \A w \in Workers : Processing(w, e)' <=> Processing(w, e)
<1> USE Subjects DEF Procs
<1>1. ASSUME NEW x \in Procs, Open(x) PROVE Alone(NoEvent)
  BY <1>1
  DEF Open, Goto, catalogs, process, history, TypeOK, Places, Processing,
      Before, Past, Holding, Connectors, Indexes
<1>2. ASSUME NEW x \in Procs, Flush(x) PROVE Alone(Subject(x))
  <2>1. /\ Subject(x) \in Events /\ job' = job /\ goal' = goal
        /\ ideal' = [ideal EXCEPT ![Subject(x)] = goal[x]]
        /\ pc' = [pc EXCEPT ![x] = After(goal[x])]
    BY <1>2 DEF Flush, Goto
  <2>2. ASSUME NEW e \in Events \ {Subject(x)} PROVE ideal'[e] = ideal[e]
    BY <2>1, <2>2 DEF TypeOK
  <2>3. ASSUME NEW e \in Events \ {Subject(x)}, NEW w \in Workers
        PROVE  Processing(w, e)' <=> Processing(w, e)
    <3>1. CASE w = x
      BY <2>1, <2>3, <3>1 DEF Processing
    <3>2. CASE w # x
      BY <2>1, <3>2 DEF Processing, TypeOK
    <3>3. QED
      BY <3>1, <3>2
  <2>4. QED
    BY <2>2, <2>3
<1>3. ASSUME NEW f \in Events, Save(f) PROVE Alone(NoEvent)
  BY <1>3
  DEF Save, Goto, catalogs, process, history, TypeOK, Places, Processing,
      Before, Past, Holding, Connectors, Indexes
<1>4. ASSUME NEW f \in Events, EnqueueFails(f) PROVE Alone(NoEvent)
  BY <1>4
  DEF EnqueueFails, Goto, catalogs, process, history, TypeOK, Places,
      Processing, Before, Past, Holding, Connectors, Indexes
<1>5. ASSUME NEW f \in Events, Enqueue(f) PROVE Alone(NoEvent)
  BY <1>5
  DEF Enqueue, Read, Goto, catalogs, process, history, TypeOK, Places,
      Processing, Before, Past, Holding, Connectors, Indexes
<1>6. ASSUME NEW f \in Events, Push(f) PROVE Alone(NoEvent)
  BY <1>6
  DEF Push, PushOr, Goto, catalogs, process, history, TypeOK, Places,
      Processing, Before, Past, Holding, Connectors, Indexes
<1>7. ASSUME NEW f \in Events, RequestDies(f) PROVE Alone(NoEvent)
  BY <1>7
  DEF RequestDies, Forget, Goto, catalogs, process, history, TypeOK, Places,
      Processing, Before, Past, Holding, Connectors, Indexes
<1>8. ASSUME NEW v \in Workers, Pop(v) PROVE Alone(job[v])
  BY <1>8
  DEF Pop, Goto, catalogs, process, history, TypeOK, Places, Processing,
      Before, Past, Holding, Connectors, Indexes
<1>9. ASSUME NEW v \in Workers, Claim(v) PROVE Alone(job[v])
  BY <1>9
  DEF Claim, Rewrite, Read, Idle, Goto, catalogs, process, history, TypeOK,
      Places, Processing, Before, Past, Holding, Connectors, Indexes
<1>10. ASSUME NEW v \in Workers, Scan(v) PROVE Alone(job[v])
  BY <1>10
  DEF Scan, Rewrite, Read, Idle, Goto, catalogs, process, history, TypeOK,
      Places, Processing, Before, Past, Holding, Connectors, Indexes
<1>11. ASSUME NEW v \in Workers, Load(v) PROVE Alone(job[v])
  BY <1>11
  DEF Load, Outcome, Goto, catalogs, process, history, TypeOK, Places,
      Processing, Before, Past, Holding, Connectors, Indexes
<1>12. ASSUME NEW v \in Workers, Upsert(v) PROVE Alone(job[v])
  BY <1>12
  DEF Upsert, Goto, catalogs, process, history, TypeOK, Places, Processing,
      Before, Past, Holding, Connectors, Indexes
<1>13. ASSUME NEW v \in Workers, PublishState(v) PROVE Alone(job[v])
  BY <1>13
  DEF PublishState, Outcome, Goto, catalogs, process, history, TypeOK,
      Places, Processing, Before, Past, Holding, Connectors, Indexes
<1>14. ASSUME NEW v \in Workers, ConnectorFails(v) PROVE Alone(job[v])
  BY <1>14
  DEF ConnectorFails, Outcome, Goto, catalogs, process, history, TypeOK,
      Places, Processing, Before, Past, Holding, Connectors, Indexes
<1>15. ASSUME NEW v \in Workers, Mark(v) PROVE Alone(job[v])
  BY <1>15
  DEF Mark, Rewrite, Read, Idle, Goto, catalogs, process, history, TypeOK,
      Places, Processing, Before, Past, Holding, Connectors, Indexes
<1>16. ASSUME NEW v \in Workers, Settle(v) PROVE Alone(job[v])
  BY <1>16
  DEF Settle, Idle, PushOr, Goto, catalogs, process, history, TypeOK,
      Places, Processing, Before, Past, Holding, Connectors, Indexes
<1>17. ASSUME NEW v \in Workers, WorkerRestarts(v) PROVE Alone(job[v])
  BY <1>17
  DEF WorkerRestarts, Forget, Idle, Goto, catalogs, process, history,
      TypeOK, Places, Processing, Before, Past, Holding, Connectors, Indexes
<1>18. CASE UNCHANGED vars
  <2>1. Alone(NoEvent)
    BY <1>18 DEF vars, Processing
  <2>2. QED
    BY <2>1 DEF Unmoved, Held
<1>19. CASE Next
  <2> DEFINE Found == \E f \in Events \cup {NoEvent} : Alone(f)
  <2>0. \A v \in Workers : job[v] \in Events \cup {NoEvent}
    BY DEF TypeOK
  <2> HIDE DEF Alone
  <2>1. ASSUME NEW f \in Events, RequestStep(f) \/ RequestDies(f) PROVE Found
    <3>1. ASSUME Flush(f) PROVE Found
      BY <3>1, <1>2
    <3>2. QED
      BY <2>1, <3>1, <1>1, <1>3, <1>4, <1>5, <1>6, <1>7 DEF RequestStep
  <2>2. ASSUME NEW v \in Workers, WorkerStep(v) \/ WorkerRestarts(v) PROVE Found
    <3>1. ASSUME Flush(v) PROVE Found
      BY <3>1, <1>2, <2>0
    <3>2. QED
      BY <2>0, <2>2, <3>1, <1>1, <1>8, <1>9, <1>10, <1>11, <1>12, <1>13, <1>14, <1>15,
         <1>16, <1>17 DEF WorkerStep
  <2>3. PICK f \in Events \cup {NoEvent} : Alone(f)
    BY <1>19, <2>1, <2>2 DEF Next
  <2>4. QED
    BY <2>3 DEF Alone, Unmoved, Held
<1>20. QED
  BY <1>18, <1>19

\* At most one worker has an event in hand, and then the status says so.
LEMMA HeldByOne ==
  ASSUME InWork, OneWorkerEach, NEW e \in Events, e \notin raced
  PROVE  /\ Held(e) = {} \/ \E w \in Workers : Held(e) = {w}
         /\ ideal[e] # "processing" => Held(e) = {}
         /\ \A w \in Workers : Processing(w, e) => Held(e) = {w}
BY DEF InWork, OneWorkerEach, Held

\* An event that is not lost is published, claimed, settled or abandoned.
LEMMA EventMoves ==
  ASSUME IInv, IInv', [Next]_vars, NEW e \in Events, e \notin raced'
  PROVE  \/ Unmoved(e)
         \/ /\ ideal[e] = "absent" /\ Held(e) = {}
            /\ ideal'[e] = "queued" /\ Held(e)' = {}
         \/ \E w \in Workers :
              /\ ideal[e] \in Due /\ Held(e) = {}
              /\ ideal'[e] = "processing" /\ Held(e)' = {w}
         \/ \E w \in Workers :
              /\ ideal[e] = "processing" /\ Held(e) = {w}
              /\ ideal'[e] \in {"failed", "completed"} /\ Held(e)' = {}
         \/ \E w \in Workers :
              /\ ideal[e] = "processing" /\ Held(e) = {w}
              /\ ideal'[e] = "processing" /\ Held(e)' = {}
<1>0. /\ TypeOK /\ Places /\ ClaimsAreDue /\ Unpublished /\ InWork /\ OneWorkerEach
      /\ InWork' /\ OneWorkerEach' /\ TypeOK' /\ Places'
  BY DEF IInv
<1>1. e \notin raced /\ raced \subseteq raced'
  BY <1>0, StatusWritten
<1>2. /\ Held(e) = {} \/ \E w \in Workers : Held(e) = {w}
      /\ ideal[e] # "processing" => Held(e) = {}
      /\ \A w \in Workers : Processing(w, e) => Held(e) = {w}
  BY <1>0, <1>1, HeldByOne
<1>3. /\ Held(e)' = {} \/ \E w \in Workers : Held(e)' = {w}
      /\ ideal'[e] # "processing" => Held(e)' = {}
      /\ \A w \in Workers : Processing(w, e)' => Held(e)' = {w}
  BY <1>0 DEF InWork, OneWorkerEach, Held
<1>4. CASE ideal'[e] # ideal[e]
  <2>1. PICK x \in Procs : /\ Flush(x) /\ Subject(x) = e /\ ideal'[e] = goal[x]
                           /\ seen[x].status[e] = ideal[e]
    BY <1>0, <1>4, StatusWritten
  <2>2. CASE x = e /\ ideal[e] = "absent" /\ goal[x] = "queued"
    BY <1>2, <1>3, <2>1, <2>2
  <2>3. CASE x \in Workers /\ goal[x] = "processing" /\ ideal[e] \in Due
    <3>1. pc'[x] = "load" /\ job'[x] = e
      BY <1>0, <2>1, <2>3, Subjects DEF Flush, Goto, After, TypeOK
    <3>2. Processing(x, e)'
      BY <3>1 DEF Processing
    <3>3. QED
      BY <1>2, <1>3, <2>1, <2>3, <3>2 DEF Due
  <2>4. CASE x \in Workers /\ goal[x] # "processing" /\ Processing(x, e)
             /\ ideal[e] = "processing"
    <3>1. goal[x] \in {"failed", "completed"}
      BY <1>0, <2>1, <2>4 DEF Flush, Places
    <3>2. QED
      BY <1>2, <1>3, <2>1, <2>4, <3>1
  <2>5. QED
    BY <1>0, <1>1, <2>1, <2>2, <2>3, <2>4, Writers
<1>5. CASE ideal'[e] = ideal[e]
  <2>1. ASSUME NEW w \in Workers, Processing(w, e)' PROVE Processing(w, e)
    <3>1. ASSUME Flush(w), goal[w] = "processing", job[w] = e PROVE FALSE
      <4>1. Subject(w) = e /\ w \in Procs
        BY <1>0, <3>1, Subjects
      <4>2. ideal'[e] = "processing" /\ seen[w].status[e] = ideal[e]
        BY <1>0, <3>1, <4>1 DEF Flush, TypeOK
      <4>3. ideal[e] \in Due \/ ideal[e] = "absent"
        BY <1>0, <1>1, <3>1, <4>1, <4>2, Writers
      <4>4. QED
        BY <1>5, <4>2, <4>3 DEF Due
    <3>2. QED
      BY <1>0, <2>1, <3>1, EnterWork
  <2>2. Held(e)' \subseteq Held(e)
    BY <2>1 DEF Held
  <2>3. CASE Held(e)' = Held(e)
    BY <1>5, <2>3 DEF Unmoved
  <2>4. CASE Held(e)' # Held(e)
    <3>1. PICK w \in Workers : Held(e) = {w}
      BY <1>2, <2>2, <2>4
    <3>2. Held(e)' = {}
      BY <2>2, <2>4, <3>1
    <3>3. ideal[e] = "processing"
      BY <1>2, <3>1
    <3>4. QED
      BY <1>5, <3>1, <3>2, <3>3
  <2>5. QED
    BY <2>3, <2>4
<1>6. QED
  BY <1>4, <1>5

\* So the events step as the jobs of a queue; those that are misread or
\* overwritten in the step are lost with it.
LEMMA QueueStep == IInv /\ IInv' /\ [Next]_vars => [Queue!Next]_JobStates
<1> SUFFICES ASSUME IInv, IInv', [Next]_vars PROVE Queue!Next
  OBVIOUS
<1>0. TypeOK /\ TypeOK' /\ Places
  BY DEF IInv
<1>1. raced \subseteq raced' /\ raced' \in SUBSET Events
  BY <1>0, StatusWritten DEF TypeOK
<1>2. PICK f \in Events \cup {NoEvent} : \A e \in Events \ {f} : Unmoved(e)
  BY <1>0, OneMoves
<1>3. /\ \A e \in Events : e \notin raced =>
           JobStates[e] = [status |-> ideal[e], by |-> Held(e)]
      /\ JobStates' = [e \in Events |->
           IF e \in raced' THEN Queue!Lost
           ELSE [status |-> ideal'[e], by |-> Held(e)']]
  BY DEF JobStates, AsJob, Held, Queue!Lost, Queue!At
<1>4. ASSUME NEW e \in Events, e \notin raced', Unmoved(e)
      PROVE  JobStates[e] = [status |-> ideal'[e], by |-> Held(e)']
  BY <1>1, <1>3, <1>4 DEF Unmoved
<1>5. CASE f \notin Events \/ f \in raced' \/ Unmoved(f)
  <2>1. JobStates' = [e \in Events |-> IF e \in raced' THEN Queue!Lost ELSE JobStates[e]]
    BY <1>2, <1>3, <1>4, <1>5
  <2>2. QED
    BY <1>1, <2>1 DEF Queue!Next, Queue!Lose
<1>6. CASE f \in Events /\ f \notin raced' /\ ~Unmoved(f)
  <2> DEFINE new == [status |-> ideal'[f], by |-> Held(f)']
  <2>1. JobStates' = [e \in Events |-> IF e \in raced' THEN Queue!Lost
                                       ELSE IF e = f THEN new ELSE JobStates[e]]
    BY <1>2, <1>3, <1>4, <1>6
  <2>2. Queue!Becomes(f, new, raced')
    BY <2>1 DEF Queue!Becomes
  <2>3. JobStates[f] = [status |-> ideal[f], by |-> Held(f)]
    BY <1>1, <1>3, <1>6
  <2> HIDE DEF new
  <2>4. \/ Queue!Publish(f, raced')
        \/ \E w \in Workers : \/ Queue!Claim(f, w, raced') \/ Queue!Settle(f, w, raced')
                              \/ Queue!Abandon(f, w, raced')
    <3>1. CASE /\ ideal[f] = "absent" /\ Held(f) = {}
               /\ ideal'[f] = "queued" /\ Held(f)' = {}
      BY <2>2, <2>3, <3>1 DEF new, Queue!Publish, Queue!At
    <3>2. CASE \E w \in Workers :
                 /\ ideal[f] \in Due /\ Held(f) = {}
                 /\ ideal'[f] = "processing" /\ Held(f)' = {w}
      BY <2>2, <2>3, <3>2 DEF new, Due, Queue!Claim, Queue!At, Queue!Waiting
    <3>3. CASE \E w \in Workers :
                 /\ ideal[f] = "processing" /\ Held(f) = {w}
                 /\ ideal'[f] \in {"failed", "completed"} /\ Held(f)' = {}
      BY <2>2, <2>3, <3>3 DEF new, Queue!Settle, Queue!At
    <3>4. CASE \E w \in Workers :
                 /\ ideal[f] = "processing" /\ Held(f) = {w}
                 /\ ideal'[f] = "processing" /\ Held(f)' = {}
      BY <2>2, <2>3, <3>4 DEF new, Queue!Abandon, Queue!At
    <3>5. QED
      BY <1>6, <3>1, <3>2, <3>3, <3>4, EventMoves
  <2>5. QED
    BY <1>1, <1>6, <2>4 DEF Queue!Next
<1>7. QED
  BY <1>5, <1>6

\* The outbox implements the queue, for any number of events and workers and
\* through every fault: of an event whose status was neither misread nor
\* overwritten, only the worker that claimed it says what has become of it.
THEOREM QueueImplemented == Spec => ImplementsQueue
<1>1. Init => Queue!Init
  <2> SUFFICES ASSUME Init PROVE Queue!Init
    OBVIOUS
  <2>1. \A w \in Workers, e \in Events : ~Processing(w, e)
    BY NamesAssumption DEF Init, Processing
  <2>2. QED
    BY <2>1 DEF Init, Queue!Init, Queue!At, JobStates, AsJob
<1>2. QED
  BY <1>1, QueueStep, Inductive, PTL DEF Spec, ImplementsQueue, Queue!Spec
============================================================================
