------------------------- MODULE RunControl_proofs --------------------------
(* Proofs about RunControl, for every set of processes, threads,            *)
(* conversations and message ids and every setting of the switches.         *)
EXTENDS RunControl, TLAPS

StartLockedSteps == {"setnx", "owner", "reclaim", "reset", "admit"}

AllSteps == {"idle", "start"} \cup Locked \cup Running \cup Cancelling

\* A registered execution runs where it is registered.
Registered ==
  \A p \in Procs, c \in Convs : runs[p][c] # NoRun =>
    /\ runs[p][c] \in Workers
    /\ pc[runs[p][c]] \in Running
    /\ P(runs[p][c]) = p
    /\ Conv(runs[p][c]) = c

\* The lock is held by exactly the thread that is inside a locked section.
LockHeld ==
  /\ \A w \in Workers : pc[w] \in Locked => lock[P(w)] = w
  /\ \A p \in Procs : lock[p] # NoRun => P(lock[p]) = p /\ pc[lock[p]] \in Locked

\* Inside start() the slot is still empty, because the lock is held.
SlotFree ==
  \A w \in Workers : pc[w] \in StartLockedSteps => runs[P(w)][Conv(w)] = NoRun

IInv == TypeOK /\ LocalExclusion /\ Registered /\ LockHeld /\ SlotFree

-----------------------------------------------------------------------------
\* Updating one cell of a two-level table keeps its type and its other cells.
LEMMA TableUpdate ==
  ASSUME NEW S, NEW T, NEW V, NEW f \in [S -> [T -> V]],
         NEW s \in S, NEW t \in T, NEW v \in V
  PROVE  /\ [f EXCEPT ![s][t] = v] \in [S -> [T -> V]]
         /\ \A x \in S, y \in T :
              [f EXCEPT ![s][t] = v][x][y] = IF x = s /\ y = t THEN v ELSE f[x][y]
<1>1. f[s] \in [T -> V]
  OBVIOUS
<1>2. [f[s] EXCEPT ![t] = v] \in [T -> V]
  BY <1>1
<1>3. QED
  BY <1>1, <1>2

\* The same for the table of executions.
LEMMA RegisterCell ==
  ASSUME TypeOK, NEW p \in Procs, NEW c \in Convs, NEW e \in Workers \cup {NoRun}
  PROVE  /\ [runs EXCEPT ![p][c] = e] \in [Procs -> [Convs -> Workers \cup {NoRun}]]
         /\ \A q \in Procs, d \in Convs :
              [runs EXCEPT ![p][c] = e][q][d] = IF q = p /\ d = c THEN e ELSE runs[q][d]
<1> DEFINE Entry == Workers \cup {NoRun}
<1>1. runs \in [Procs -> [Convs -> Entry]] /\ e \in Entry
  BY DEF TypeOK
<1> HIDE DEF Entry
<1>2. /\ [runs EXCEPT ![p][c] = e] \in [Procs -> [Convs -> Entry]]
      /\ \A q \in Procs, d \in Convs :
           [runs EXCEPT ![p][c] = e][q][d] = IF q = p /\ d = c THEN e ELSE runs[q][d]
  BY <1>1, TableUpdate
<1>3. QED
  BY <1>2 DEF Entry

\* A time to live is given to keys of conversations only.
LEMMA TimedStep ==
  ASSUME TypeOK, [Next]_vars
  PROVE  timed' \in SUBSET Convs
<1>a. \A t \in Threads : Conv(t) \in Convs
  BY DEF TypeOK, Job, Conv
<1>b. timed \in SUBSET Convs /\ Workers \subseteq Threads /\ Cancellers \subseteq Threads
  BY DEF TypeOK, Threads
<1> USE <1>a, <1>b DEF redis
<1>1. ASSUME NEW w \in Workers, Start(w) PROVE timed' \in SUBSET Convs
  BY <1>1 DEF Start, StartLocked, SetNX, ReadOwner, ReclaimDelete, ReclaimSet, Admit,
              TryClaim, SetKey, DeleteKey
<1>2. ASSUME NEW w \in Workers, Check(w) PROVE timed' \in SUBSET Convs
  BY <1>2 DEF Check, CheckRemote, RefreshRead, RefreshSet, Extend, SetKey, Prolong
<1>3. ASSUME NEW w \in Workers, Finish(w) PROVE timed' \in SUBSET Convs
  BY <1>3 DEF Finish, FinishEnter, ReleaseRead, ReleaseDelete, ReleaseCancelKey, DeleteKey
<1>4. ASSUME NEW k \in Cancellers, Cancel(k) PROVE timed' \in SUBSET Convs
  BY <1>4 DEF Cancel, CancelRead, CancelSet, Prolong
<1>5. ASSUME \/ \E w \in Workers, c \in Convs, m \in Msgs : StartRequest(w, c, m)
             \/ \E w \in Workers : CheckEnter(w) \/ EndRun(w)
             \/ \E k \in Cancellers, c \in Convs, m \in Msgs : CancelRequest(k, c, m)
             \/ \E c \in Convs : LeaseExpires(c)
             \/ \E j \in Job : CancelKeyExpires(j)
             \/ RedisSwitch
             \/ \E p \in Procs : Crash(p)
             \/ UNCHANGED vars
      PROVE  timed' \in SUBSET Convs
  BY <1>5 DEF StartRequest, CheckEnter, EndRun, CancelRequest, LeaseExpires, CancelKeyExpires,
              RedisSwitch, Crash, vars
<1>6. QED
  BY <1>1, <1>2, <1>3, <1>4, <1>5 DEF Next

\* Every step keeps the types.
LEMMA TypeStep == TypeOK /\ [Next]_vars => TypeOK'
<1> SUFFICES ASSUME TypeOK, [Next]_vars PROVE TypeOK'
  OBVIOUS
<1>a. \A t \in Threads : P(t) \in Procs /\ Conv(t) \in Convs /\ Msg(t) \in Msgs
  BY HomeAssumption DEF TypeOK, Job, P, Conv, Msg
<1>b. \A w \in Workers : Payload(w) \in Lease
  BY <1>a DEF Payload, Lease, Threads
<1>c. /\ \A w \in Workers : w \in Threads
      /\ \A k \in Cancellers : k \in Threads
      /\ \A c \in Convs, m \in Msgs : <<c, m>> \in Job
  BY DEF Threads, Job
<1>d. \A w \in Workers, e \in Workers \cup {NoRun} :
        [runs EXCEPT ![P(w)][Conv(w)] = e] \in [Procs -> [Convs -> Workers \cup {NoRun}]]
  BY <1>a, <1>c, RegisterCell
<1>e. timed' \in SUBSET Convs
  BY TimedStep
<1> USE <1>a, <1>b, <1>c, <1>e DEF TypeOK, Goto, Locked, Running, Checking, Cancelling,
            redis, process, history, Ping, Degrade, MaybeRestore
<1>1. ASSUME NEW w \in Workers, NEW c \in Convs, NEW m \in Msgs, StartRequest(w, c, m)
      PROVE  TypeOK'
  BY <1>1 DEF StartRequest
<1>2. ASSUME NEW w \in Workers, StartLocked(w) PROVE TypeOK'
  BY <1>2 DEF StartLocked, Lock
<1>3. ASSUME NEW w \in Workers, SetNX(w) PROVE TypeOK'
  BY <1>3 DEF SetNX, TryClaim, SetKey, Payload
<1>4. ASSUME NEW w \in Workers, ReadOwner(w) PROVE TypeOK'
  BY <1>4 DEF ReadOwner, Unlock
<1>5. ASSUME NEW w \in Workers, ReclaimDelete(w) PROVE TypeOK'
  BY <1>5 DEF ReclaimDelete, DeleteKey
<1>6. ASSUME NEW w \in Workers, ReclaimSet(w) PROVE TypeOK'
  BY <1>6 DEF ReclaimSet, TryClaim, SetKey, Payload, Unlock
<1>7. ASSUME NEW w \in Workers, Admit(w) PROVE TypeOK'
  <2>1. runs' \in [Procs -> [Convs -> Workers \cup {NoRun}]]
    <3>1. runs' = runs \/ runs' = [runs EXCEPT ![P(w)][Conv(w)] = w]
      BY <1>7 DEF Admit
    <3>2. [runs EXCEPT ![P(w)][Conv(w)] = w] \in [Procs -> [Convs -> Workers \cup {NoRun}]]
      BY <1>d, Zenon
    <3>3. QED
      BY <3>1, <3>2, Zenon
  <2>2. lock' \in [Procs -> Workers \cup {NoRun}]
    BY <1>7 DEF Admit, Unlock
  <2>3. QED
    BY <1>7, <2>1, <2>2 DEF Admit, Leave, Stay
<1>8. ASSUME NEW w \in Workers, CheckEnter(w) PROVE TypeOK'
  BY <1>8 DEF CheckEnter
<1>9. ASSUME NEW w \in Workers, CheckRemote(w) PROVE TypeOK'
  BY <1>9 DEF CheckRemote, Pass
<1>10. ASSUME NEW w \in Workers, RefreshRead(w) PROVE TypeOK'
  BY <1>10 DEF RefreshRead, Pass
<1>11. ASSUME NEW w \in Workers, RefreshSet(w) PROVE TypeOK'
  <2>1. active' \in [Convs -> Lease \cup {NoLease}]
    BY <1>11 DEF RefreshSet, SetKey
  <2>2. lease' \in [Workers -> {"none", "held", "lapsed", "deleted"}]
    BY <1>11 DEF RefreshSet, SetKey
  <2>3. pc' \in [Threads -> AllSteps]
    BY <1>11 DEF RefreshSet, Pass, AllSteps
  <2>4. cancelKeys' \in SUBSET Job /\ conn' \in SUBSET Procs
    BY <1>11 DEF RefreshSet
  <2>5. QED
    BY <1>11, <2>1, <2>2, <2>3, <2>4 DEF RefreshSet, AllSteps
<1>12. ASSUME NEW w \in Workers, EndRun(w) PROVE TypeOK'
  BY <1>12 DEF EndRun
<1>13. ASSUME NEW w \in Workers, FinishEnter(w) PROVE TypeOK'
  <2>1. runs' \in [Procs -> [Convs -> Workers \cup {NoRun}]]
    <3>1. runs' = runs \/ runs' = [runs EXCEPT ![P(w)][Conv(w)] = NoRun]
      BY <1>13 DEF FinishEnter
    <3>2. [runs EXCEPT ![P(w)][Conv(w)] = NoRun] \in [Procs -> [Convs -> Workers \cup {NoRun}]]
      BY <1>d, Zenon
    <3>3. QED
      BY <3>1, <3>2, Zenon
  <2>2. lock' \in [Procs -> Workers \cup {NoRun}]
    BY <1>13 DEF FinishEnter, Lock
  <2>3. pc' \in [Threads -> AllSteps] /\ lease' \in [Workers -> {"none", "held", "lapsed", "deleted"}]
    BY <1>13 DEF FinishEnter, Leave, Stay, AllSteps
  <2>4. stop' \in [Workers -> {"no", "accepted", "due"}] /\ flagged' \in SUBSET Workers
    BY <1>13 DEF FinishEnter, Leave, Stay
  <2>5. QED
    BY <1>13, <2>1, <2>2, <2>3, <2>4 DEF FinishEnter, AllSteps
<1>14. ASSUME NEW w \in Workers, ReleaseRead(w) PROVE TypeOK'
  BY <1>14 DEF ReleaseRead, Leave, Stay, Unlock
<1>15. ASSUME NEW w \in Workers, ReleaseDelete(w) PROVE TypeOK'
  BY <1>15 DEF ReleaseDelete, DeleteKey, Leave, Unlock
<1>16. ASSUME NEW w \in Workers, ReleaseCancelKey(w) PROVE TypeOK'
  BY <1>16 DEF ReleaseCancelKey, Leave, Unlock
<1>17. ASSUME NEW k \in Cancellers, NEW c \in Convs, NEW m \in Msgs, CancelRequest(k, c, m)
       PROVE  TypeOK'
  BY <1>17 DEF CancelRequest, Answer
<1>18. ASSUME NEW k \in Cancellers, CancelRead(k) PROVE TypeOK'
  BY <1>18 DEF CancelRead, Answer
<1>19. ASSUME NEW k \in Cancellers, CancelSet(k) PROVE TypeOK'
  <2>1. /\ pc' = [pc EXCEPT ![k] = "idle"] /\ hit' = hit \ {k}
        /\ cancelKeys' \in SUBSET Job /\ conn' \in SUBSET Procs
    BY <1>19 DEF CancelSet, Answer
  <2>2. stop' \in [Workers -> {"no", "accepted", "due"}]
    BY <1>19 DEF CancelSet, Answer
  <2>3. QED
    BY <1>19, <2>1, <2>2 DEF CancelSet
<1>20. ASSUME NEW c \in Convs, LeaseExpires(c) PROVE TypeOK'
  BY <1>20 DEF LeaseExpires
<1>21. ASSUME NEW j \in Job, CancelKeyExpires(j) PROVE TypeOK'
  BY <1>21 DEF CancelKeyExpires
<1>22. CASE RedisSwitch
  BY <1>22 DEF RedisSwitch
<1>23. ASSUME NEW p \in Procs, Crash(p) PROVE TypeOK'
  BY <1>23 DEF Crash
<1>24. ASSUME NEW w \in Workers, Extend(w) PROVE TypeOK'
  BY <1>24 DEF Extend, Pass
<1>25. CASE UNCHANGED vars
  BY <1>25 DEF vars
<1>26. QED
  BY <1>1, <1>2, <1>3, <1>4, <1>5, <1>6, <1>7, <1>8, <1>9, <1>10, <1>11, <1>12,
     <1>13, <1>14, <1>15, <1>16, <1>17, <1>18, <1>19, <1>20, <1>21, <1>22, <1>23,
     <1>24, <1>25 DEF Next, Start, Check, Finish, Cancel

\* Every variable keeps its type: the shape of keys, tables and positions.
THEOREM TypeCorrect == Spec => []TypeOK
<1>1. Init => TypeOK
  BY HomeAssumption, NoneAssumption DEF Init, TypeOK, Threads, Job, Lease
<1>2. QED
  BY <1>1, TypeStep, PTL DEF Spec

-----------------------------------------------------------------------------
\* What every step of the exclusion proof needs about the threads and steps.
LEMMA ThreadFacts ==
  ASSUME TypeOK
  PROVE  /\ Workers \subseteq Threads /\ Cancellers \subseteq Threads
         /\ NoRun \notin Workers
         /\ \A k \in Cancellers : k \notin Workers
         /\ \A t \in Threads : P(t) \in Procs /\ Conv(t) \in Convs
BY HomeAssumption, NoneAssumption, RolesAssumption DEF Threads, TypeOK, Job, P, Conv

\* A step that moves one thread within its class of positions and leaves the
\* table, the locks and the jobs of the workers in flight alone keeps IInv.
LEMMA QuietStep ==
  ASSUME IInv, TypeOK', UNCHANGED <<runs, lock>>, NEW t \in Threads,
         \A u \in Threads : u # t => pc'[u] = pc[u] /\ job'[u] = job[u],
         pc[t] \in Running <=> pc'[t] \in Running,
         pc[t] \in Locked <=> pc'[t] \in Locked,
         pc'[t] \in StartLockedSteps => pc[t] \in StartLockedSteps,
         pc[t] \in Locked \cup Running => job'[t] = job[t]
  PROVE  IInv'
<1> USE DEF P
<1>1. \A w \in Workers : /\ pc'[w] \in Running <=> pc[w] \in Running
                         /\ pc'[w] \in Locked <=> pc[w] \in Locked
                         /\ pc'[w] \in StartLockedSteps => pc[w] \in StartLockedSteps
                         /\ pc[w] \in Locked \cup Running => Conv(w)' = Conv(w)
  BY ThreadFacts DEF IInv, Conv
<1>2. StartLockedSteps \subseteq Locked
  BY DEF StartLockedSteps, Locked
<1>3. LocalExclusion'
  BY <1>1 DEF IInv, LocalExclusion
<1>4. Registered'
  BY <1>1 DEF IInv, Registered
<1>5. LockHeld'
  BY <1>1, ThreadFacts DEF IInv, TypeOK, LockHeld
<1>6. SlotFree'
  BY <1>1, <1>2 DEF IInv, SlotFree
<1>7. QED
  BY <1>3, <1>4, <1>5, <1>6 DEF IInv

\* So does a step in which a worker leaves its locked section and its request.
LEMMA UnlockStep ==
  ASSUME IInv, TypeOK', UNCHANGED <<runs, job>>, NEW w \in Workers,
         pc[w] \in Locked, Goto(w, "idle"), Unlock(w)
  PROVE  IInv'
<1> USE DEF P, Conv
<1>1. \A v \in Workers : pc'[v] = IF v = w THEN "idle" ELSE pc[v]
  BY ThreadFacts DEF IInv, TypeOK, Goto
<1>2. \A p \in Procs : lock'[p] = IF p = P(w) THEN NoRun ELSE lock[p]
  BY ThreadFacts DEF IInv, TypeOK, Unlock
<1>3. /\ "idle" \notin Locked \cup Running \cup StartLockedSteps
      /\ pc[w] \notin Running
      /\ StartLockedSteps \subseteq Locked
  BY DEF Locked, Running, Checking, StartLockedSteps
<1>4. \A v \in Workers : v # w /\ pc[v] \in Locked => P(v) # P(w)
  BY DEF IInv, LockHeld
<1>5. LocalExclusion'
  BY <1>1, <1>3 DEF IInv, LocalExclusion
<1>6. Registered'
  BY <1>1, <1>3 DEF IInv, Registered
<1>7. LockHeld'
  <2>1. \A v \in Workers : pc'[v] \in Locked => lock'[P(v)] = v
    BY <1>1, <1>2, <1>3, <1>4, ThreadFacts DEF IInv, LockHeld
  <2>2. \A p \in Procs : lock'[p] # NoRun => P(lock'[p]) = p /\ pc'[lock'[p]] \in Locked
    BY <1>1, <1>2, ThreadFacts DEF IInv, LockHeld, TypeOK
  <2>3. QED
    BY <2>1, <2>2 DEF LockHeld
<1>8. SlotFree'
  BY <1>1, <1>3 DEF IInv, SlotFree
<1>9. QED
  BY <1>5, <1>6, <1>7, <1>8 DEF IInv

\* StartLocked and SetNX, ReadOwner, ReclaimDelete, ReclaimSet up to Admit.
LEMMA StartKeepsIInv ==
  ASSUME IInv, TypeOK', NEW w \in Workers, Start(w)
  PROVE  IInv'
<1> USE DEF Locked, Running, Checking, StartLockedSteps
<1>1. CASE StartLocked(w)
  <2>1. CASE runs[P(w)][Conv(w)] # NoRun
    <3>1. /\ \A u \in Threads : u # w => pc'[u] = pc[u] /\ job'[u] = job[u]
          /\ pc[w] = "start" /\ pc'[w] = "idle" /\ UNCHANGED <<runs, lock>>
      BY <1>1, <2>1, ThreadFacts DEF StartLocked, Goto, IInv, TypeOK
    <3>2. QED
      BY <3>1, QuietStep, ThreadFacts DEF IInv
  <2>2. CASE runs[P(w)][Conv(w)] = NoRun
    <3>1. /\ \A v \in Workers : pc'[v] = IF v = w THEN pc'[w] ELSE pc[v]
          /\ pc'[w] \in {"setnx", "admit"}
          /\ \A p \in Procs : lock'[p] = IF p = P(w) THEN w ELSE lock[p]
          /\ lock[P(w)] = NoRun /\ pc[w] = "start"
          /\ UNCHANGED <<runs, job>>
      BY <1>1, <2>2, ThreadFacts DEF StartLocked, Goto, Lock, IInv, TypeOK
    <3>2. \A v \in Workers : v # w /\ pc[v] \in Locked => P(v) # P(w)
      BY <3>1, ThreadFacts DEF IInv, LockHeld
    <3>3. LocalExclusion'
      BY <3>1 DEF IInv, LocalExclusion, P, Conv
    <3>4. Registered'
      BY <3>1 DEF IInv, Registered, P, Conv
    <3>5. LockHeld'
      <4>1. \A v \in Workers : pc'[v] \in Locked => lock'[P(v)] = v
        BY <3>1, <3>2, ThreadFacts DEF IInv, LockHeld
      <4>2. \A p \in Procs : lock'[p] # NoRun => P(lock'[p]) = p /\ pc'[lock'[p]] \in Locked
        BY <3>1, ThreadFacts DEF IInv, LockHeld, TypeOK
      <4>3. QED
        BY <4>1, <4>2 DEF LockHeld, P
    <3>6. SlotFree'
      BY <3>1, <2>2 DEF IInv, SlotFree, P, Conv
    <3>7. QED
      BY <3>3, <3>4, <3>5, <3>6 DEF IInv
  <2>3. QED
    BY <2>1, <2>2
<1>2. CASE SetNX(w)
  BY <1>2, QuietStep, ThreadFacts DEF SetNX, TryClaim, Goto, IInv, TypeOK
<1>3. CASE ReadOwner(w)
  <2>1. CASE UNCHANGED lock
    <3>1. /\ \A u \in Threads : u # w => pc'[u] = pc[u] /\ job'[u] = job[u]
          /\ pc[w] = "owner" /\ pc'[w] \in {"idle", "reclaim"} /\ UNCHANGED <<runs, lock, job>>
      BY <1>3, <2>1, ThreadFacts DEF ReadOwner, Goto, IInv, TypeOK
    <3>2. lock[P(w)] = w /\ w # NoRun /\ P(w) \in Procs
      BY <3>1, ThreadFacts DEF IInv, LockHeld
    <3>3. pc'[w] = "reclaim"
      BY <1>3, <3>1, <3>2, <2>1, ThreadFacts DEF ReadOwner, Goto, Unlock, IInv, TypeOK
    <3>4. QED
      BY <3>1, <3>3, QuietStep, ThreadFacts DEF IInv
  <2>2. CASE Goto(w, "idle") /\ Unlock(w)
    BY <1>3, <2>2, UnlockStep DEF ReadOwner
  <2>3. QED
    BY <1>3, <2>1, <2>2 DEF ReadOwner
<1>4. CASE ReclaimDelete(w)
  BY <1>4, QuietStep, ThreadFacts DEF ReclaimDelete, Goto, IInv, TypeOK
<1>5. CASE ReclaimSet(w)
  <2>1. CASE Taken(w)
    BY <1>5, <2>1, UnlockStep DEF ReclaimSet, TryClaim
  <2>2. CASE ~Taken(w)
    <3>1. /\ pc[w] = "reset" /\ Goto(w, "admit") /\ UNCHANGED <<runs, lock, job>>
      BY <1>5, <2>2 DEF ReclaimSet, TryClaim
    <3>2. /\ \A u \in Threads : u # w => pc'[u] = pc[u] /\ job'[u] = job[u]
          /\ pc'[w] = "admit"
      BY <3>1, ThreadFacts DEF Goto, IInv, TypeOK
    <3>3. QED
      BY <3>1, <3>2, QuietStep, ThreadFacts DEF IInv
  <2>3. QED
    BY <2>1, <2>2
<1>6. CASE Admit(w)
  <2>1. CASE Refuses(P(w), conn)
    BY <1>6, <2>1, UnlockStep DEF Admit, Leave
  <2>2. CASE ~Refuses(P(w), conn)
    <3>1. runs' = [runs EXCEPT ![P(w)][Conv(w)] = w]
      BY <1>6, <2>2 DEF Admit
    <3>2. \A p \in Procs, c \in Convs :
            runs'[p][c] = IF p = P(w) /\ c = Conv(w) THEN w ELSE runs[p][c]
      BY <3>1, RegisterCell, ThreadFacts DEF IInv
    <3>3. /\ \A v \in Workers : pc'[v] = IF v = w THEN "run" ELSE pc[v]
          /\ \A p \in Procs : lock'[p] = IF p = P(w) THEN NoRun ELSE lock[p]
          /\ pc[w] = "admit" /\ job' = job
      BY <1>6, <2>2, ThreadFacts DEF Admit, Stay, Goto, Unlock, IInv, TypeOK
    <3>4. \A v \in Workers : v # w /\ pc[v] \in Locked => P(v) # P(w)
      BY <3>3 DEF IInv, LockHeld
    <3>5. runs[P(w)][Conv(w)] = NoRun
      BY <3>3 DEF IInv, SlotFree
    <3>6. LocalExclusion'
      BY <3>2, <3>3, <3>5, ThreadFacts DEF IInv, LocalExclusion, P, Conv
    <3>7. Registered'
      BY <3>2, <3>3, ThreadFacts DEF IInv, Registered, P, Conv
    <3>8. LockHeld'
      <4>1. \A v \in Workers : pc'[v] \in Locked => lock'[P(v)] = v
        BY <3>3, <3>4, ThreadFacts DEF IInv, LockHeld
      <4>2. ASSUME NEW p \in Procs, lock'[p] # NoRun
            PROVE  P(lock'[p]) = p /\ pc'[lock'[p]] \in Locked
        <5>1. p # P(w) /\ lock'[p] = lock[p] /\ lock[p] \in Workers
          BY <3>3, <4>2 DEF IInv, TypeOK
        <5>2. P(lock[p]) = p /\ pc[lock[p]] \in Locked
          BY <4>2, <5>1 DEF IInv, LockHeld
        <5>3. lock[p] # w
          BY <5>1, <5>2
        <5>4. QED
          BY <3>3, <5>1, <5>2, <5>3
      <4>3. QED
        BY <4>1, <4>2 DEF LockHeld, P
    <3>9. SlotFree'
      BY <3>2, <3>3, <3>4, ThreadFacts DEF IInv, SlotFree, P, Conv
    <3>10. QED
      BY <3>6, <3>7, <3>8, <3>9 DEF IInv
  <2>3. QED
    BY <2>1, <2>2
<1>7. QED
  BY <1>1, <1>2, <1>3, <1>4, <1>5, <1>6 DEF Start

\* A step that only moves a thread between checkpoint positions.
LEMMA CheckKeepsIInv ==
  ASSUME IInv, TypeOK', NEW w \in Workers, CheckEnter(w) \/ Check(w) \/ EndRun(w)
  PROVE  IInv'
<1>1. /\ \A u \in Threads : u # w => pc'[u] = pc[u] /\ job'[u] = job[u]
      /\ pc[w] \in Running /\ pc'[w] \in Running
      /\ UNCHANGED <<runs, lock, job>>
  <2> USE ThreadFacts DEF IInv, TypeOK, Goto, Pass, Running, Checking, process
  <2>1. CASE CheckEnter(w)
    BY <2>1 DEF CheckEnter
  <2>2. CASE CheckRemote(w)
    BY <2>2 DEF CheckRemote
  <2>3. CASE RefreshRead(w)
    BY <2>3 DEF RefreshRead
  <2>4. CASE RefreshSet(w)
    BY <2>4 DEF RefreshSet
  <2>5. CASE Extend(w)
    BY <2>5 DEF Extend
  <2>6. CASE EndRun(w)
    BY <2>6 DEF EndRun
  <2>7. QED
    BY <2>1, <2>2, <2>3, <2>4, <2>5, <2>6 DEF Check
<1>2. /\ pc[w] \notin Locked /\ pc'[w] \notin Locked
      /\ pc'[w] \notin StartLockedSteps
  BY <1>1 DEF Locked, Running, Checking, StartLockedSteps
<1>3. QED
  BY <1>1, <1>2, QuietStep, ThreadFacts DEF IInv

\* The steps of finish() keep the inductive invariant: the entry is removed by the
\* thread that executes, or not at all.
LEMMA FinishKeepsIInv ==
  ASSUME IInv, TypeOK', NEW w \in Workers, Finish(w)
  PROVE  IInv'
<1> USE DEF Locked, Running, Checking, StartLockedSteps
<1>1. CASE FinishEnter(w)
  <2>1. runs[P(w)][Conv(w)] = w /\ w # NoRun
    BY <1>1, ThreadFacts DEF FinishEnter, IInv, LocalExclusion
  <2>2. /\ runs' = [runs EXCEPT ![P(w)][Conv(w)] = NoRun]
        /\ job' = job /\ lock[P(w)] = NoRun /\ pc[w] = "finish"
        /\ \/ Lock(w) /\ Goto(w, "relread")
           \/ UNCHANGED lock /\ Goto(w, "idle")
    BY <1>1, <2>1 DEF FinishEnter, Stay, Leave
  <2>3. \A p \in Procs, c \in Convs :
          runs'[p][c] = IF p = P(w) /\ c = Conv(w) THEN NoRun ELSE runs[p][c]
    BY <2>2, RegisterCell, ThreadFacts DEF IInv
  <2>4. /\ \A v \in Workers : pc'[v] = IF v = w THEN pc'[w] ELSE pc[v]
        /\ \/ pc'[w] = "relread" /\ \A p \in Procs : lock'[p] = IF p = P(w) THEN w ELSE lock[p]
           \/ pc'[w] = "idle" /\ lock' = lock
    BY <2>2, ThreadFacts DEF Lock, Goto, IInv, TypeOK
  <2>5. \A v \in Workers : v # w /\ pc[v] \in Locked => P(v) # P(w)
    BY <2>2, ThreadFacts DEF IInv, LockHeld
  <2>6. LocalExclusion'
    BY <2>1, <2>2, <2>3, <2>4, ThreadFacts DEF IInv, LocalExclusion, P, Conv
  <2>7. Registered'
    <3> SUFFICES ASSUME NEW p \in Procs, NEW c \in Convs, runs'[p][c] # NoRun
                 PROVE  /\ runs'[p][c] \in Workers /\ pc'[runs'[p][c]] \in Running
                        /\ P(runs'[p][c]) = p /\ job'[runs'[p][c]][1] = c
      BY DEF Registered, P, Conv
    <3>1. ~(p = P(w) /\ c = Conv(w)) /\ runs'[p][c] = runs[p][c]
      BY <2>3
    <3>2. /\ runs[p][c] \in Workers /\ pc[runs[p][c]] \in Running
          /\ P(runs[p][c]) = p /\ Conv(runs[p][c]) = c
      BY <3>1 DEF IInv, Registered
    <3>3. runs[p][c] # w
      BY <3>1, <3>2
    <3>4. QED
      BY <3>1, <3>2, <3>3, <2>2, <2>4 DEF Conv
  <2>8. LockHeld'
    <3>1. \A v \in Workers : pc'[v] \in Locked => lock'[P(v)] = v
      BY <2>2, <2>4, <2>5, ThreadFacts DEF IInv, LockHeld
    <3>2. \A p \in Procs : lock'[p] # NoRun => P(lock'[p]) = p /\ pc'[lock'[p]] \in Locked
      BY <2>2, <2>4, ThreadFacts DEF IInv, LockHeld, TypeOK
    <3>3. QED
      BY <3>1, <3>2 DEF LockHeld, P
  <2>9. SlotFree'
    BY <2>2, <2>3, <2>4, ThreadFacts DEF IInv, SlotFree, P, Conv
  <2>10. QED
    BY <2>6, <2>7, <2>8, <2>9 DEF IInv
<1>2. ASSUME ReleaseRead(w) \/ ReleaseDelete(w) \/ ReleaseCancelKey(w) PROVE IInv'
  <2>1. UNCHANGED <<runs, job>> /\ pc[w] \in {"relread", "reldel", "relcancel"}
    BY <1>2 DEF ReleaseRead, ReleaseDelete, ReleaseCancelKey
  <2>2. \/ Goto(w, "idle") /\ Unlock(w)
        \/ UNCHANGED lock /\ \E l \in {"reldel", "relcancel"} : Goto(w, l)
    BY <1>2 DEF ReleaseRead, ReleaseDelete, ReleaseCancelKey, Leave, Stay
  <2>3. CASE Goto(w, "idle") /\ Unlock(w)
    BY <2>1, <2>3, UnlockStep
  <2>4. CASE UNCHANGED lock /\ \E l \in {"reldel", "relcancel"} : Goto(w, l)
    <3>1. /\ \A u \in Threads : u # w => pc'[u] = pc[u] /\ job'[u] = job[u]
          /\ pc'[w] \in {"reldel", "relcancel"}
      BY <2>1, <2>4, ThreadFacts DEF Goto, IInv, TypeOK
    <3>2. QED
      BY <2>1, <2>4, <3>1, QuietStep, ThreadFacts DEF IInv
  <2>5. QED
    BY <2>2, <2>3, <2>4
<1>3. QED
  BY <1>1, <1>2 DEF Finish

\* The steps of cancel() keep it: they touch flags and keys only.
LEMMA CancelKeepsIInv ==
  ASSUME IInv, TypeOK', NEW k \in Cancellers,
         Cancel(k) \/ \E c \in Convs, m \in Msgs : CancelRequest(k, c, m)
  PROVE  IInv'
<1>1. /\ \A u \in Threads : u # k => pc'[u] = pc[u] /\ job'[u] = job[u]
      /\ pc[k] \in {"idle", "cread", "cset"} /\ pc'[k] \in {"idle", "cread", "cset"}
      /\ UNCHANGED <<runs, lock>>
  <2> USE ThreadFacts DEF IInv, TypeOK, Goto, Answer
  <2>1. CASE CancelRead(k)
    BY <2>1 DEF CancelRead
  <2>2. CASE CancelSet(k)
    BY <2>2 DEF CancelSet
  <2>3. ASSUME NEW c \in Convs, NEW m \in Msgs, CancelRequest(k, c, m) PROVE <1>1!:
    BY <2>3 DEF CancelRequest
  <2>4. QED
    BY <2>1, <2>2, <2>3 DEF Cancel
<1>2. QED
  BY <1>1, QuietStep, ThreadFacts DEF IInv, Locked, Running, Checking, StartLockedSteps

\* Expiry, Redis and restarts keep it: a restart empties table, lock and threads of
\* one process together.
LEMMA EnvironmentKeepsIInv ==
  ASSUME IInv, TypeOK',
         \/ UNCHANGED <<pc, job, runs, lock>>
         \/ \E p \in Procs : Crash(p)
  PROVE  IInv'
<1>1. CASE UNCHANGED <<pc, job, runs, lock>>
  BY <1>1 DEF IInv, LocalExclusion, Registered, LockHeld, SlotFree, P, Conv
<1>2. ASSUME NEW p \in Procs, Crash(p) PROVE IInv'
  <2>1. /\ \A w \in Workers : pc'[w] = IF P(w) = p THEN "idle" ELSE pc[w]
        /\ \A q \in Procs : lock'[q] = IF q = p THEN NoRun ELSE lock[q]
        /\ \A q \in Procs, c \in Convs : runs'[q][c] = IF q = p THEN NoRun ELSE runs[q][c]
        /\ job' = job
    BY <1>2, ThreadFacts DEF Crash, IInv, TypeOK
  <2>2. "idle" \notin Running \cup Locked \cup StartLockedSteps
    BY DEF Running, Checking, Locked, StartLockedSteps
  <2>3. LocalExclusion'
    BY <2>1, <2>2, ThreadFacts DEF IInv, LocalExclusion, P, Conv
  <2>4. Registered'
    BY <2>1, ThreadFacts DEF IInv, Registered, P, Conv
  <2>5. LockHeld'
    BY <2>1, <2>2, ThreadFacts DEF IInv, LockHeld, TypeOK, P
  <2>6. SlotFree'
    BY <2>1, <2>2, ThreadFacts DEF IInv, SlotFree, P, Conv
  <2>7. QED
    BY <2>3, <2>4, <2>5, <2>6 DEF IInv
<1>3. QED
  BY <1>1, <1>2

\* Every step keeps the inductive invariant.
LEMMA ExclusionStep == IInv /\ [Next]_vars => IInv'
<1> SUFFICES ASSUME IInv, [Next]_vars PROVE IInv'
  OBVIOUS
<1>1. TypeOK'
  BY TypeStep DEF IInv
<1>2. ASSUME NEW w \in Workers, NEW c \in Convs, NEW m \in Msgs, StartRequest(w, c, m)
      PROVE  IInv'
  <2>1. /\ \A u \in Threads : u # w => pc'[u] = pc[u] /\ job'[u] = job[u]
        /\ pc[w] = "idle" /\ pc'[w] \in {"idle", "start"}
        /\ UNCHANGED <<runs, lock>>
    BY <1>2, ThreadFacts DEF StartRequest, Goto, IInv, TypeOK
  <2>2. QED
    BY <1>1, <2>1, QuietStep, ThreadFacts
       DEF IInv, Locked, Running, Checking, StartLockedSteps
<1>3. ASSUME NEW w \in Workers, Start(w) PROVE IInv'
  BY <1>1, <1>3, StartKeepsIInv
<1>4. ASSUME NEW w \in Workers, CheckEnter(w) \/ Check(w) \/ EndRun(w) PROVE IInv'
  BY <1>1, <1>4, CheckKeepsIInv
<1>5. ASSUME NEW w \in Workers, Finish(w) PROVE IInv'
  BY <1>1, <1>5, FinishKeepsIInv
<1>6. ASSUME NEW k \in Cancellers,
             Cancel(k) \/ \E c \in Convs, m \in Msgs : CancelRequest(k, c, m)
      PROVE  IInv'
  BY <1>1, <1>6, CancelKeepsIInv
<1>7. ASSUME \/ \E c \in Convs : LeaseExpires(c)
             \/ \E j \in Job : CancelKeyExpires(j)
             \/ RedisSwitch
             \/ \E p \in Procs : Crash(p)
             \/ UNCHANGED vars
      PROVE  IInv'
  BY <1>1, <1>7, EnvironmentKeepsIInv
     DEF LeaseExpires, CancelKeyExpires, RedisSwitch, vars, process
<1>8. QED
  BY <1>2, <1>3, <1>4, <1>5, <1>6, <1>7 DEF Next

\* It holds initially.
LEMMA ExclusionInit == Init => IInv
BY HomeAssumption, NoneAssumption
   DEF Init, IInv, TypeOK, LocalExclusion, Registered, LockHeld, SlotFree, Threads, Job, Lease,
       P, Conv, Locked, Running, Checking, StartLockedSteps

\* The inductive invariant holds in every reachable state.
LEMMA Inductive == Spec => []IInv
BY ExclusionInit, ExclusionStep, PTL DEF Spec

\* A running execution is the one its process has registered for the
\* conversation, so a process never runs a conversation twice: whatever Redis,
\* the leases and the retry clock do, in both strict and degraded mode.
THEOREM LocalExclusionHolds == Spec => []LocalExclusion
<1>1. IInv => LocalExclusion
  BY DEF IInv
<1>2. QED
  BY <1>1, Inductive, PTL

-----------------------------------------------------------------------------
(* Refinement: the executions of a process fill the slots of RunSlots.      *)

Entry(e) == IF e = NoRun THEN {} ELSE {e}

\* The table read as slots.
Table == [p \in Procs |-> [c \in Convs |-> Entry(runs[p][c])]]

\* What a process executes is what its table names.
LEMMA OccupiedIsTable == IInv => Occupied = Table
<1> SUFFICES ASSUME IInv, NEW p \in Procs, NEW c \in Convs
             PROVE  Executing(p, c) = Entry(runs[p][c])
  BY DEF Occupied, Table
<1>1. CASE runs[p][c] = NoRun
  BY <1>1, ThreadFacts DEF Executing, Entry, IInv, LocalExclusion
<1>2. CASE runs[p][c] # NoRun
  BY <1>2 DEF Executing, Entry, IInv, LocalExclusion, Registered
<1>3. QED
  BY <1>1, <1>2

\* A change of the table is a change of one cell, or of the row of a process
\* that restarts.
LEMMA TableStep ==
  ASSUME IInv, [Next]_vars
  PROVE  \/ UNCHANGED runs
         \/ \E w \in Workers : /\ runs[P(w)][Conv(w)] = NoRun
                              /\ runs' = [runs EXCEPT ![P(w)][Conv(w)] = w]
         \/ \E w \in Workers : /\ runs[P(w)][Conv(w)] # NoRun
                              /\ runs' = [runs EXCEPT ![P(w)][Conv(w)] = NoRun]
         \/ \E p \in Procs : runs' = [runs EXCEPT ![p] = [c \in Convs |-> NoRun]]
<1>1. ASSUME NEW w \in Workers, Admit(w)
      PROVE  \/ UNCHANGED runs
             \/ /\ runs[P(w)][Conv(w)] = NoRun
                /\ runs' = [runs EXCEPT ![P(w)][Conv(w)] = w]
  BY <1>1 DEF Admit, IInv, SlotFree, StartLockedSteps
<1>2. ASSUME NEW w \in Workers, FinishEnter(w)
      PROVE  \/ UNCHANGED runs
             \/ /\ runs[P(w)][Conv(w)] # NoRun
                /\ runs' = [runs EXCEPT ![P(w)][Conv(w)] = NoRun]
  BY <1>2 DEF FinishEnter
<1>3. ASSUME NEW p \in Procs, Crash(p)
      PROVE  runs' = [runs EXCEPT ![p] = [c \in Convs |-> NoRun]]
  BY <1>3 DEF Crash
<1>4. ASSUME NEW w \in Workers,
             \/ Start(w) /\ ~Admit(w)
             \/ CheckEnter(w) \/ Check(w) \/ EndRun(w)
             \/ Finish(w) /\ ~FinishEnter(w)
      PROVE  UNCHANGED runs
  BY <1>4 DEF Start, StartLocked, SetNX, TryClaim, ReadOwner, ReclaimDelete, ReclaimSet,
     CheckEnter, Check, CheckRemote, RefreshRead, RefreshSet, Extend, EndRun, process,
     Finish, ReleaseRead, ReleaseDelete, ReleaseCancelKey
<1>5. ASSUME NEW w \in Workers, NEW c \in Convs, NEW m \in Msgs, StartRequest(w, c, m)
      PROVE  UNCHANGED runs
  BY <1>5 DEF StartRequest
<1>6. ASSUME NEW k \in Cancellers,
             Cancel(k) \/ \E c \in Convs, m \in Msgs : CancelRequest(k, c, m)
      PROVE  UNCHANGED runs
  BY <1>6 DEF Cancel, CancelRead, CancelSet, CancelRequest
<1>7. ASSUME \/ \E c \in Convs : LeaseExpires(c)
             \/ \E j \in Job : CancelKeyExpires(j)
             \/ RedisSwitch
             \/ UNCHANGED vars
      PROVE  UNCHANGED runs
  BY <1>7 DEF LeaseExpires, CancelKeyExpires, RedisSwitch, vars, process
<1>8. QED
  BY <1>1, <1>2, <1>3, <1>4, <1>5, <1>6, <1>7 DEF Next, Start, Finish

\* Two tables with the same cells are equal.
LEMMA TableEqual ==
  ASSUME NEW S, NEW T, NEW V, NEW f \in [S -> [T -> V]], NEW g \in [S -> [T -> V]],
         \A x \in S, y \in T : f[x][y] = g[x][y]
  PROVE  f = g
<1>1. \A x \in S : f[x] = g[x]
  OBVIOUS
<1>2. QED
  BY <1>1

\* Changing a cell of the table of executions changes that slot.
LEMMA SlotUpdate ==
  ASSUME IInv, IInv', NEW p \in Procs, NEW c \in Convs, NEW e \in Workers \cup {NoRun},
         runs' = [runs EXCEPT ![p][c] = e]
  PROVE  Table' = [Table EXCEPT ![p][c] = Entry(e)]
<1> DEFINE Slot == SUBSET Workers
<1>1. Table \in [Procs -> [Convs -> Slot]] /\ Table' \in [Procs -> [Convs -> Slot]]
  BY DEF Table, Entry, IInv, TypeOK
<1>2. Entry(e) \in Slot
  BY DEF Entry
<1>3. \A q \in Procs, d \in Convs :
        runs'[q][d] = IF q = p /\ d = c THEN e ELSE runs[q][d]
  BY RegisterCell DEF IInv
<1>4. \A q \in Procs, d \in Convs :
        Table'[q][d] = IF q = p /\ d = c THEN Entry(e) ELSE Table[q][d]
  BY <1>3 DEF Table
<1> HIDE DEF Slot
<1>5. /\ [Table EXCEPT ![p][c] = Entry(e)] \in [Procs -> [Convs -> Slot]]
      /\ \A q \in Procs, d \in Convs :
           [Table EXCEPT ![p][c] = Entry(e)][q][d]
             = IF q = p /\ d = c THEN Entry(e) ELSE Table[q][d]
  BY <1>1, <1>2, TableUpdate
<1>6. QED
  BY <1>1, <1>4, <1>5, TableEqual

\* A step of the run control is a step of one slot, or none.
LEMMA SlotsStep == IInv /\ IInv' /\ [Next]_vars => [Slots!Next]_Occupied
<1> SUFFICES ASSUME IInv, IInv', [Next]_vars PROVE [Slots!Next]_Occupied
  OBVIOUS
<1>1. Occupied = Table
  BY OccupiedIsTable
<1>2. Occupied' = Table'
  <2>1. (Occupied = Table)'
    BY OccupiedIsTable, PTL
  <2>2. QED
    BY <2>1
<1>3. CASE UNCHANGED runs
  BY <1>1, <1>2, <1>3 DEF Table
<1>4. ASSUME NEW w \in Workers, runs[P(w)][Conv(w)] = NoRun,
             runs' = [runs EXCEPT ![P(w)][Conv(w)] = w]
      PROVE  Slots!Begin(P(w), Conv(w), {w})
  <2>1. P(w) \in Procs /\ Conv(w) \in Convs /\ w # NoRun
    BY ThreadFacts DEF IInv
  <2>2. Table[P(w)][Conv(w)] = {}
    BY <1>4, <2>1 DEF Table, Entry
  <2>3. Table' = [Table EXCEPT ![P(w)][Conv(w)] = Entry(w)]
    BY <1>4, <2>1, SlotUpdate
  <2>4. Entry(w) = {w}
    BY <2>1 DEF Entry
  <2>5. QED
    BY <1>1, <1>2, <2>2, <2>3, <2>4 DEF Slots!Begin
<1>5. ASSUME NEW w \in Workers, runs[P(w)][Conv(w)] # NoRun,
             runs' = [runs EXCEPT ![P(w)][Conv(w)] = NoRun]
      PROVE  Slots!End(P(w), Conv(w))
  <2>1. P(w) \in Procs /\ Conv(w) \in Convs
    BY ThreadFacts DEF IInv
  <2>2. Table[P(w)][Conv(w)] # {}
    BY <1>5, <2>1 DEF Table, Entry
  <2>3. Table' = [Table EXCEPT ![P(w)][Conv(w)] = Entry(NoRun)]
    BY <1>5, <2>1, SlotUpdate
  <2>4. Entry(NoRun) = {}
    BY DEF Entry
  <2>5. QED
    BY <1>1, <1>2, <2>2, <2>3, <2>4 DEF Slots!End
<1>6. ASSUME NEW p \in Procs, runs' = [runs EXCEPT ![p] = [c \in Convs |-> NoRun]]
      PROVE  Slots!Restart(p)
  <2>1. \A q \in Procs, c \in Convs : runs'[q][c] = IF q = p THEN NoRun ELSE runs[q][c]
    BY <1>6 DEF IInv, TypeOK
  <2>2. Table' = [Table EXCEPT ![p] = [c \in Convs |-> {}]]
    BY <2>1 DEF Table, Entry
  <2>3. QED
    BY <1>1, <1>2, <2>2 DEF Slots!Restart
<1>7. \A w \in Workers : P(w) \in Procs /\ Conv(w) \in Convs /\ {w} \in {{v} : v \in Workers}
  BY ThreadFacts DEF IInv
<1>8. QED
  BY <1>3, <1>4, <1>5, <1>6, <1>7, TableStep DEF Slots!Next

\* Each process keeps its promise about slots: an execution begins only in an
\* empty slot and ends in its own, or with its process.
THEOREM SlotsImplemented == Spec => ImplementsSlots
<1>1. Init => Slots!Init
  BY DEF Init, Slots!Init, Occupied, Executing, Running, Checking, Threads
<1>2. QED
  BY <1>1, SlotsStep, Inductive, PTL DEF Spec, ImplementsSlots, Slots!Spec

-----------------------------------------------------------------------------
(* The lease: who may own the key of a conversation.                        *)

Unclaimed == {"idle", "start", "setnx", "owner", "reclaim", "reset"}

\* A worker whose lease is "held" is the writer of the key of its conversation.
HeldOwnsKey == \A w \in Workers : lease[w] = "held" => active[Conv(w)] = Payload(w)

\* Before the claim succeeds a worker has no lease, and no request leaves one.
NotYetClaimed == \A w \in Workers : pc[w] \in Unclaimed => lease[w] = "none"

\* In strict mode a worker that reaches admission with a live client has claimed.
\* The client cannot come back in between: that takes the lock the worker holds.
ClaimedIfStrict ==
  Strict => \A w \in Workers :
    pc[w] \in Running \/ (pc[w] = "admit" /\ P(w) \in conn) => lease[w] # "none"

LInv == IInv /\ HeldOwnsKey /\ NotYetClaimed /\ ClaimedIfStrict

\* Every step treats the keys in one of four ways: it leaves them alone and gives
\* no worker a lease, it claims one, it deletes one, or one expires.
LEMMA KeyStep ==
  ASSUME LInv, [Next]_vars
  PROVE  \/ /\ UNCHANGED active
            /\ \A v \in Workers : lease'[v] = "held" => lease[v] = "held" /\ job'[v] = job[v]
         \/ \E w \in Workers : SetKey(w) /\ UNCHANGED job
         \/ \E w \in Workers : DeleteKey(w) /\ UNCHANGED job
         \/ \E c \in Convs : LeaseExpires(c) /\ UNCHANGED job
<1> DEFINE Quiet == /\ UNCHANGED active
                    /\ \A v \in Workers : lease'[v] = "held" => lease[v] = "held" /\ job'[v] = job[v]
<1>1. ASSUME NEW w \in Workers, NEW c \in Convs, NEW m \in Msgs, StartRequest(w, c, m)
      PROVE  Quiet
  <2>1. lease[w] = "none"
    BY <1>1 DEF StartRequest, LInv, NotYetClaimed, Unclaimed
  <2>2. QED
    BY <1>1, <2>1 DEF StartRequest, redis, history, LInv, IInv, TypeOK, Threads
<1>2. ASSUME NEW w \in Workers, StartLocked(w) \/ ReadOwner(w) \/ CheckEnter(w) \/ CheckRemote(w)
                                \/ RefreshRead(w) \/ Extend(w) \/ EndRun(w)
      PROVE  Quiet
  BY <1>2 DEF StartLocked, ReadOwner, CheckEnter, CheckRemote, RefreshRead, Extend, EndRun, redis, history
<1>3. ASSUME NEW w \in Workers, SetNX(w) \/ ReclaimSet(w) \/ RefreshSet(w)
      PROVE  Quiet \/ (SetKey(w) /\ UNCHANGED job)
  BY <1>3 DEF SetNX, ReclaimSet, RefreshSet, TryClaim
<1>4. ASSUME NEW w \in Workers, ReclaimDelete(w)
      PROVE  Quiet \/ (DeleteKey(w) /\ UNCHANGED job)
  BY <1>4 DEF ReclaimDelete
<1>5. ASSUME NEW w \in Workers, Admit(w) \/ FinishEnter(w) \/ ReleaseRead(w) \/ ReleaseCancelKey(w)
      PROVE  Quiet
  BY <1>5 DEF Admit, FinishEnter, ReleaseRead, ReleaseCancelKey, Leave, Stay, redis, history,
              LInv, IInv, TypeOK
<1>6. ASSUME NEW w \in Workers, ReleaseDelete(w)
      PROVE  Quiet \/ (DeleteKey(w) /\ UNCHANGED job)
  BY <1>6 DEF ReleaseDelete, Leave, LInv, IInv, TypeOK
<1>7. ASSUME NEW k \in Cancellers, NEW c \in Convs, NEW m \in Msgs, CancelRequest(k, c, m)
      PROVE  Quiet
  BY <1>7, ThreadFacts DEF CancelRequest, redis, LInv, IInv, TypeOK
<1>8. ASSUME NEW k \in Cancellers, Cancel(k) PROVE Quiet
  BY <1>8 DEF Cancel, CancelRead, CancelSet, redis
<1>9. ASSUME \/ \E j \in Job : CancelKeyExpires(j)
             \/ RedisSwitch
             \/ UNCHANGED vars
      PROVE  Quiet
  BY <1>9 DEF CancelKeyExpires, RedisSwitch, vars, redis, history
<1>10. ASSUME NEW p \in Procs, Crash(p) PROVE Quiet
  BY <1>10 DEF Crash, redis, LInv, IInv, TypeOK
<1>11. ASSUME NEW c \in Convs, LeaseExpires(c) PROVE UNCHANGED job
  BY <1>11 DEF LeaseExpires
<1>12. QED
  BY <1>1, <1>2, <1>3, <1>4, <1>5, <1>6, <1>7, <1>8, <1>9, <1>10, <1>11
     DEF Next, Start, Check, Finish

\* The owner of a key stays the one whose lease is held: a key is only written
\* when there is none, and whoever removes it takes the lease of its writer.
LEMMA OwnerStep ==
  ASSUME LInv, [Next]_vars
  PROVE  HeldOwnsKey'
<1> USE DEF Conv, Msg, Payload
<1>a. /\ active \in [Convs -> Lease \cup {NoLease}]
      /\ lease \in [Workers -> {"none", "held", "lapsed", "deleted"}]
      /\ \A v \in Workers : Conv(v) \in Convs /\ Payload(v) \in Lease /\ Payload(v) # NoLease
  BY ThreadFacts, NoneAssumption DEF LInv, IInv, TypeOK, Lease, Threads, Job
<1>1. CASE /\ UNCHANGED active
           /\ \A v \in Workers : lease'[v] = "held" => lease[v] = "held" /\ job'[v] = job[v]
  BY <1>1 DEF LInv, HeldOwnsKey
<1>2. ASSUME NEW w \in Workers, SetKey(w), UNCHANGED job PROVE HeldOwnsKey'
  BY <1>a, <1>2 DEF SetKey, LInv, HeldOwnsKey
<1>3. ASSUME NEW w \in Workers, DeleteKey(w), UNCHANGED job PROVE HeldOwnsKey'
  BY <1>a, <1>3 DEF DeleteKey, Holds, LInv, HeldOwnsKey
<1>4. ASSUME NEW c \in Convs, LeaseExpires(c), UNCHANGED job PROVE HeldOwnsKey'
  BY <1>a, <1>4 DEF LeaseExpires, Holds, LInv, HeldOwnsKey
<1>5. QED
  BY <1>1, <1>2, <1>3, <1>4, KeyStep

\* A worker that does not move keeps its lease, or loses one that was held: only
\* its own steps claim it or end it.
LEMMA BystanderLease ==
  ASSUME LInv, [Next]_vars, NEW v \in Workers, pc'[v] = pc[v]
  PROVE  \/ lease'[v] = lease[v]
         \/ lease[v] = "held" /\ lease'[v] \in {"lapsed", "deleted"}
<1> DEFINE Kept == \/ lease'[v] = lease[v]
                   \/ lease[v] = "held" /\ lease'[v] \in {"lapsed", "deleted"}
<1>a. /\ pc \in [Threads -> AllSteps] /\ v \in Threads
      /\ lease \in [Workers -> {"none", "held", "lapsed", "deleted"}]
      /\ \A w \in Workers : w \in Threads /\ w # NoRun
  BY ThreadFacts DEF LInv, IInv, TypeOK, AllSteps
<1> USE <1>a DEF AllSteps, Locked, Running, Checking, Cancelling
<1>1. ASSUME NEW w \in Workers, NEW c \in Convs, NEW m \in Msgs, StartRequest(w, c, m)
      PROVE  Kept
  BY <1>1 DEF StartRequest, history
<1>2. ASSUME NEW w \in Workers, StartLocked(w) \/ ReadOwner(w) \/ CheckEnter(w) \/ CheckRemote(w)
                                \/ RefreshRead(w) \/ Extend(w) \/ EndRun(w)
      PROVE  Kept
  BY <1>2 DEF StartLocked, ReadOwner, CheckEnter, CheckRemote, RefreshRead, Extend, EndRun, history
<1>3. ASSUME NEW w \in Workers, SetNX(w) \/ ReclaimSet(w) \/ RefreshSet(w)
      PROVE  Kept
  BY <1>3 DEF SetNX, ReclaimSet, RefreshSet, TryClaim, SetKey, Goto, Pass
<1>4. ASSUME NEW w \in Workers, ReclaimDelete(w) PROVE Kept
  BY <1>4 DEF ReclaimDelete, DeleteKey, Holds, Goto
<1>5. ASSUME NEW w \in Workers, Admit(w) \/ FinishEnter(w) \/ ReleaseRead(w) \/ ReleaseCancelKey(w)
      PROVE  Kept
  BY <1>5 DEF Admit, FinishEnter, ReleaseRead, ReleaseCancelKey, Leave, Stay, Goto, history
<1>6. ASSUME NEW w \in Workers, ReleaseDelete(w) PROVE Kept
  BY <1>6 DEF ReleaseDelete, DeleteKey, Holds, Leave, Goto
<1>7. ASSUME \/ \E k \in Cancellers : Cancel(k)
             \/ \E k \in Cancellers, c \in Convs, m \in Msgs : CancelRequest(k, c, m)
             \/ \E j \in Job : CancelKeyExpires(j)
             \/ RedisSwitch
             \/ UNCHANGED vars
      PROVE  Kept
  BY <1>7 DEF Cancel, CancelRead, CancelSet, CancelRequest, CancelKeyExpires, RedisSwitch,
              vars, history
<1>8. ASSUME NEW p \in Procs, Crash(p) PROVE Kept
  BY <1>8 DEF Crash, LInv, NotYetClaimed, Unclaimed
<1>9. ASSUME NEW c \in Convs, LeaseExpires(c) PROVE Kept
  BY <1>9 DEF LeaseExpires, Holds
<1>10. QED
  BY <1>1, <1>2, <1>3, <1>4, <1>5, <1>6, <1>7, <1>8, <1>9
     DEF Next, Start, Check, Finish

\* A process does not get its client back while a worker holds its lock.
LEMMA ClientStaysAway ==
  ASSUME LInv, [Next]_vars, NEW v \in Workers, pc[v] \in Locked, pc'[v] \in Locked,
         P(v) \in conn'
  PROVE  P(v) \in conn
<1>1. lock[P(v)] # NoRun
  BY ThreadFacts DEF LInv, IInv, LockHeld
<1>2. \A p \in Procs : Crash(p) => p # P(v)
  BY ThreadFacts DEF Crash, Locked, LInv, IInv, TypeOK
<1> USE <1>1 DEF MaybeRestore, Ping, Degrade
<1>3. ASSUME NEW w \in Workers,
             \/ \E c \in Convs, m \in Msgs : StartRequest(w, c, m)
             \/ Start(w) \/ CheckEnter(w) \/ EndRun(w)
      PROVE  P(v) \in conn
  BY <1>3 DEF StartRequest, Start, StartLocked, SetNX, ReadOwner, ReclaimDelete, ReclaimSet,
              TryClaim, Admit, CheckEnter, EndRun, process
<1>4. ASSUME NEW w \in Workers, Check(w) \/ Finish(w) PROVE P(v) \in conn
  BY <1>4 DEF Check, CheckRemote, RefreshRead, RefreshSet, Extend,
              Finish, FinishEnter, ReleaseRead, ReleaseDelete, ReleaseCancelKey
<1>5. ASSUME NEW k \in Cancellers,
             Cancel(k) \/ \E c \in Convs, m \in Msgs : CancelRequest(k, c, m)
      PROVE  P(v) \in conn
  BY <1>5 DEF Cancel, CancelRead, CancelSet, CancelRequest
<1>6. ASSUME \/ \E c \in Convs : LeaseExpires(c)
             \/ \E j \in Job : CancelKeyExpires(j)
             \/ RedisSwitch
             \/ UNCHANGED vars
      PROVE  P(v) \in conn
  BY <1>6 DEF LeaseExpires, CancelKeyExpires, RedisSwitch, vars, process
<1>7. ASSUME NEW p \in Procs, Crash(p) PROVE P(v) \in conn
  BY <1>2, <1>7 DEF Crash
<1>8. QED
  BY <1>3, <1>4, <1>5, <1>6, <1>7 DEF Next

\* A worker that moves does so by a step of its own, or with its process.
LEMMA OwnMove ==
  ASSUME IInv, [Next]_vars, NEW v \in Workers, pc'[v] # pc[v]
  PROVE  \/ \E c \in Convs, m \in Msgs : StartRequest(v, c, m)
         \/ Start(v) \/ CheckEnter(v) \/ Check(v) \/ EndRun(v) \/ Finish(v)
         \/ \E p \in Procs : Crash(p) /\ P(v) = p
<1>a. pc \in [Threads -> AllSteps] /\ v \in Threads /\ v \notin Cancellers
  BY ThreadFacts DEF IInv, TypeOK, AllSteps
<1>1. ASSUME NEW w \in Workers, w # v,
             \/ \E c \in Convs, m \in Msgs : StartRequest(w, c, m)
             \/ Start(w) \/ CheckEnter(w) \/ EndRun(w)
      PROVE  FALSE
  BY <1>a, <1>1 DEF StartRequest, Start, StartLocked, SetNX, ReadOwner, ReclaimDelete, ReclaimSet,
     TryClaim, Admit, CheckEnter, EndRun, Goto, Leave, Stay
<1>2. ASSUME NEW w \in Workers, w # v, Check(w) \/ Finish(w) PROVE FALSE
  BY <1>a, <1>2 DEF Check, CheckRemote, RefreshRead, RefreshSet, Extend, Pass, Goto, Leave, Stay,
     Finish, FinishEnter, ReleaseRead, ReleaseDelete, ReleaseCancelKey
<1>3. ASSUME NEW k \in Cancellers,
             Cancel(k) \/ \E c \in Convs, m \in Msgs : CancelRequest(k, c, m)
      PROVE  FALSE
  BY <1>a, <1>3 DEF Cancel, CancelRead, CancelSet, CancelRequest, Answer, Goto
<1>4. ASSUME \/ \E c \in Convs : LeaseExpires(c)
             \/ \E j \in Job : CancelKeyExpires(j)
             \/ RedisSwitch
             \/ UNCHANGED vars
      PROVE  FALSE
  BY <1>4 DEF LeaseExpires, CancelKeyExpires, RedisSwitch, vars
<1>5. ASSUME NEW p \in Procs, Crash(p), P(v) # p PROVE FALSE
  BY <1>a, <1>5 DEF Crash
<1>6. QED
  BY <1>1, <1>2, <1>3, <1>4, <1>5 DEF Next

\* What a worker's own move says about its lease: it is "none" up to the claim and
\* after the request, and a strict worker is not admitted without one.
LEMMA ClaimMove ==
  ASSUME LInv, NEW v \in Workers,
         \/ \E c \in Convs, m \in Msgs : StartRequest(v, c, m)
         \/ Start(v) \/ CheckEnter(v) \/ Check(v) \/ EndRun(v) \/ Finish(v)
         \/ \E p \in Procs : Crash(p) /\ P(v) = p
  PROVE  /\ pc'[v] \in Unclaimed => lease'[v] = "none"
         /\ Strict /\ (pc'[v] \in Running \/ (pc'[v] = "admit" /\ P(v) \in conn'))
              => lease'[v] # "none"
<1> DEFINE Good == /\ pc'[v] \in Unclaimed => lease'[v] = "none"
                   /\ Strict /\ (pc'[v] \in Running \/ (pc'[v] = "admit" /\ P(v) \in conn'))
                        => lease'[v] # "none"
<1>a. /\ pc \in [Threads -> AllSteps] /\ v \in Threads /\ up \in BOOLEAN
      /\ lease \in [Workers -> {"none", "held", "lapsed", "deleted"}]
  BY ThreadFacts DEF LInv, IInv, TypeOK, AllSteps
<1>b. /\ pc[v] \in Unclaimed => lease[v] = "none"
      /\ Strict /\ (pc[v] \in Running \/ (pc[v] = "admit" /\ P(v) \in conn)) => lease[v] # "none"
  BY DEF LInv, NotYetClaimed, ClaimedIfStrict
<1> USE <1>a, <1>b DEF Goto, Unclaimed, Running, Checking, Ping, Degrade
<1>1. ASSUME NEW c \in Convs, NEW m \in Msgs, StartRequest(v, c, m) PROVE Good
  BY <1>1 DEF StartRequest, history
<1>2. ASSUME StartLocked(v) \/ ReadOwner(v) PROVE Good
  BY <1>2 DEF StartLocked, ReadOwner, history
<1>3. ASSUME SetNX(v) \/ ReclaimSet(v) PROVE Good
  BY <1>3 DEF SetNX, ReclaimSet, TryClaim, SetKey, Taken
<1>4. ASSUME ReclaimDelete(v) PROVE Good
  BY <1>4 DEF ReclaimDelete, DeleteKey, Holds
<1>5. ASSUME Admit(v) PROVE Good
  BY <1>5 DEF Admit, Leave, Stay, Refuses, history
<1>6. ASSUME CheckEnter(v) \/ CheckRemote(v) \/ RefreshRead(v) \/ Extend(v) \/ EndRun(v) PROVE Good
  BY <1>6 DEF CheckEnter, CheckRemote, RefreshRead, Extend, EndRun, Pass, history
<1>7. ASSUME RefreshSet(v) PROVE Good
  BY <1>7 DEF RefreshSet, SetKey, Pass
<1>8. ASSUME FinishEnter(v) \/ ReleaseRead(v) \/ ReleaseCancelKey(v) PROVE Good
  BY <1>8 DEF FinishEnter, ReleaseRead, ReleaseCancelKey, Leave, Stay, history
<1>9. ASSUME ReleaseDelete(v) PROVE Good
  BY <1>9 DEF ReleaseDelete, Leave
<1>10. ASSUME NEW p \in Procs, Crash(p), P(v) = p PROVE Good
  BY <1>10 DEF Crash
<1>11. QED
  BY <1>1, <1>2, <1>3, <1>4, <1>5, <1>6, <1>7, <1>8, <1>9, <1>10 DEF Start, Check, Finish

\* Every step keeps the lease invariant.
LEMMA LeaseStep == LInv /\ [Next]_vars => LInv'
<1> SUFFICES ASSUME LInv, [Next]_vars PROVE LInv'
  OBVIOUS
<1>1. IInv'
  BY ExclusionStep DEF LInv
<1>2. ASSUME NEW v \in Workers
      PROVE  /\ pc'[v] \in Unclaimed => lease'[v] = "none"
             /\ Strict /\ (pc'[v] \in Running \/ (pc'[v] = "admit" /\ P(v) \in conn'))
                  => lease'[v] # "none"
  <2>1. CASE pc'[v] = pc[v]
    <3>1. pc[v] = "admit" /\ P(v) \in conn' => P(v) \in conn
      BY <2>1, ClientStaysAway DEF Locked
    <3>2. QED
      BY <2>1, <3>1, BystanderLease DEF LInv, NotYetClaimed, ClaimedIfStrict
  <2>2. CASE pc'[v] # pc[v]
    BY <2>2, OwnMove, ClaimMove DEF LInv
  <2>3. QED
    BY <2>1, <2>2
<1>3. NotYetClaimed' /\ ClaimedIfStrict'
  BY <1>2 DEF NotYetClaimed, ClaimedIfStrict, P
<1>4. QED
  BY <1>1, <1>3, OwnerStep DEF LInv

\* The lease invariant holds in every reachable state.
LEMMA LeaseInductive == Spec => []LInv
<1>1. Init => LInv
  BY ExclusionInit, HomeAssumption
     DEF Init, LInv, HeldOwnsKey, NotYetClaimed, ClaimedIfStrict, Running, Checking, Threads
<1>2. QED
  BY <1>1, LeaseStep, PTL DEF Spec

\* Two executions of a conversation overlap only if one of them lost its lease or
\* began without one, with any number of replicas: the lease names one writer.
THEOREM OverlapExplained == Spec => []OverlapIsExplained
<1>1. LInv => OverlapIsExplained
  <2> SUFFICES ASSUME LInv, NEW v \in Workers, NEW w \in Workers, v # w, Conv(v) = Conv(w)
               PROVE  \E x \in {v, w} : lease[x] # "held"
    BY DEF OverlapIsExplained
  <2>1. lease[v] = "held" /\ lease[w] = "held" => Payload(v) = Payload(w)
    BY DEF LInv, HeldOwnsKey
  <2>2. Payload(v) # Payload(w)
    BY DEF Payload
  <2>3. QED
    BY <2>1, <2>2
<1>2. QED
  BY <1>1, LeaseInductive, PTL

\* A process in strict mode executes no message whose lease it has not claimed,
\* however Redis comes and goes between the claim and the admission.
THEOREM StrictNeverUnclaimed == Spec => []StrictClaims
<1>1. LInv => StrictClaims
  BY DEF LInv, ClaimedIfStrict, StrictClaims
<1>2. QED
  BY <1>1, LeaseInductive, PTL

-----------------------------------------------------------------------------
(* Cancellation with a working Redis, live keys and fresh message ids.      *)

Dependable == ~RedisFails /\ ~LeaseLapses /\ ~ReuseIds

\* Redis answers and every process has its client.
Connected == up /\ conn = Procs

\* A message id is in use by at most one worker.
FreshIds ==
  \A v, w \in Workers : pc[v] # "idle" /\ pc[w] # "idle" /\ Msg(v) = Msg(w) => v = w

\* A canceller that matched locally has flagged the worker of that message, if
\* the worker is still there.
HitIsFlagged ==
  \A k \in Cancellers : k \in hit =>
    /\ pc[k] \in Cancelling
    /\ \A w \in Workers : pc[w] # "idle" /\ Msg(w) = Msg(k) => w \in flagged

\* A cancel that was answered True is recorded where a checkpoint looks for it;
\* one that was due at a checkpoint that did not stop at once is in Redis.
AcceptedIsRecorded ==
  \A w \in Workers :
    /\ stop[w] # "no" => pc[w] \notin Unclaimed \cup {"admit"}
    /\ stop[w] # "no" /\ pc[w] \in Running => w \in flagged \/ job[w] \in cancelKeys
    /\ stop[w] = "due" /\ pc[w] \in Running \ {"finish"} =>
         pc[w] = "remote" /\ job[w] \in cancelKeys

CInv == /\ IInv /\ Dependable /\ Connected
        /\ FreshIds /\ HitIsFlagged /\ AcceptedIsRecorded

\* Redis stays reachable and every process keeps its client.
LEMMA ConnectedStep ==
  ASSUME CInv, [Next]_vars
  PROVE  Connected'
<1>a. /\ up /\ conn = Procs /\ ~RedisFails
      /\ \A t \in Threads : P(t) \in Procs
      /\ \A w \in Workers : w \in Threads
      /\ \A k \in Cancellers : k \in Threads
  BY ThreadFacts DEF CInv, Connected, Dependable, IInv
<1> USE <1>a DEF Connected, redis, process, MaybeRestore, Ping, Degrade
<1>1. ASSUME NEW w \in Workers, NEW c \in Convs, NEW m \in Msgs, StartRequest(w, c, m)
      PROVE  Connected'
  BY <1>1 DEF StartRequest
<1>2. ASSUME NEW w \in Workers, Start(w) \/ CheckEnter(w) \/ EndRun(w) PROVE Connected'
  BY <1>2 DEF Start, StartLocked, SetNX, ReadOwner, ReclaimDelete, ReclaimSet, TryClaim, Admit,
              CheckEnter, EndRun
<1>3. ASSUME NEW w \in Workers, Check(w) \/ Finish(w) PROVE Connected'
  BY <1>3 DEF Check, CheckRemote, RefreshRead, RefreshSet, Extend,
              Finish, FinishEnter, ReleaseRead, ReleaseDelete, ReleaseCancelKey
<1>4. ASSUME NEW k \in Cancellers,
             Cancel(k) \/ \E c \in Convs, m \in Msgs : CancelRequest(k, c, m)
      PROVE  Connected'
  BY <1>4 DEF Cancel, CancelRead, CancelSet, CancelRequest
<1>5. ASSUME \/ \E c \in Convs : LeaseExpires(c)
             \/ \E j \in Job : CancelKeyExpires(j)
             \/ RedisSwitch
             \/ UNCHANGED vars
      PROVE  Connected'
  BY <1>5 DEF LeaseExpires, CancelKeyExpires, RedisSwitch, vars
<1>6. ASSUME NEW p \in Procs, Crash(p) PROVE Connected'
  BY <1>6 DEF Crash
<1>7. QED
  BY <1>1, <1>2, <1>3, <1>4, <1>5, <1>6 DEF Next

\* A worker that is awake after a step was awake before it, with the same message
\* and its flag, unless the step begins its request.
LEMMA AwakeStep ==
  ASSUME IInv, [Next]_vars, NEW v \in Workers, pc'[v] # "idle"
  PROVE  \/ pc[v] # "idle" /\ job'[v] = job[v] /\ (v \in flagged => v \in flagged')
         \/ \E c \in Convs, m \in Msgs : StartRequest(v, c, m)
<1> DEFINE Stays == pc[v] # "idle" /\ job'[v] = job[v] /\ (v \in flagged => v \in flagged')
<1>a. /\ pc \in [Threads -> AllSteps] /\ v \in Threads /\ v \notin Cancellers
      /\ job \in [Threads -> Job]
      /\ \A w \in Workers : w \in Threads
      /\ \A k \in Cancellers : k \in Threads
  BY ThreadFacts DEF IInv, TypeOK, AllSteps
<1> USE <1>a
<1>1. ASSUME NEW w \in Workers, w # v, NEW c \in Convs, NEW m \in Msgs, StartRequest(w, c, m)
      PROVE  Stays
  BY <1>1 DEF StartRequest, Goto
<1>2. ASSUME NEW w \in Workers, Start(w) \/ CheckEnter(w) \/ EndRun(w) PROVE Stays
  BY <1>2 DEF Start, StartLocked, SetNX, ReadOwner, ReclaimDelete, ReclaimSet, TryClaim, Admit,
              CheckEnter, EndRun, Goto, Leave, Stay, process
<1>3. ASSUME NEW w \in Workers, Check(w) PROVE Stays
  BY <1>3 DEF Check, CheckRemote, RefreshRead, RefreshSet, Extend, Pass, Goto
<1>4. ASSUME NEW w \in Workers, Finish(w) PROVE Stays
  BY <1>4 DEF Finish, FinishEnter, ReleaseRead, ReleaseDelete, ReleaseCancelKey, Leave, Stay, Goto
<1>5. ASSUME NEW k \in Cancellers,
             Cancel(k) \/ \E c \in Convs, m \in Msgs : CancelRequest(k, c, m)
      PROVE  Stays
  BY <1>5 DEF Cancel, CancelRead, CancelSet, CancelRequest, Answer, Goto
<1>6. ASSUME \/ \E c \in Convs : LeaseExpires(c)
             \/ \E j \in Job : CancelKeyExpires(j)
             \/ RedisSwitch
             \/ UNCHANGED vars
      PROVE  Stays
  BY <1>6 DEF LeaseExpires, CancelKeyExpires, RedisSwitch, vars, process
<1>7. ASSUME NEW p \in Procs, Crash(p) PROVE Stays
  BY <1>7 DEF Crash
<1>8. QED
  BY <1>1, <1>2, <1>3, <1>4, <1>5, <1>6, <1>7 DEF Next

\* Two requests never carry the same message id: the second would not have been
\* presented while the first is awake.
LEMMA FreshStep ==
  ASSUME CInv, [Next]_vars
  PROVE  FreshIds'
<1> SUFFICES ASSUME NEW v \in Workers, NEW w \in Workers, pc'[v] # "idle", pc'[w] # "idle",
                    Msg(v)' = Msg(w)', v # w
             PROVE  FALSE
  BY DEF FreshIds
<1>a. v \in Threads /\ w \in Threads /\ IInv /\ job \in [Threads -> Job] /\ ~ReuseIds
  BY ThreadFacts DEF CInv, IInv, TypeOK, Dependable
<1>1. ASSUME NEW x \in Workers, NEW y \in Workers, x # y, pc'[x] # "idle", pc'[y] # "idle",
             Msg(x)' = Msg(y)', NEW c \in Convs, NEW m \in Msgs, StartRequest(x, c, m)
      PROVE  FALSE
  <2>1. /\ job' = [job EXCEPT ![x] = <<c, m>>] /\ pc' = [pc EXCEPT ![x] = pc'[x]]
        /\ \A t \in Threads : pc[t] # "idle" => Msg(t) # m
    BY <1>1, <1>a DEF StartRequest, Goto, Presentable
  <2>2. x \in Threads /\ y \in Threads
    BY DEF Threads
  <2>3. Msg(x)' = m /\ Msg(y)' = Msg(y) /\ pc'[y] = pc[y]
    BY <1>a, <1>1, <2>1, <2>2 DEF Msg, CInv, IInv, TypeOK
  <2>4. QED
    BY <1>1, <2>1, <2>2, <2>3
<1>2. ASSUME pc[v] # "idle", job'[v] = job[v], pc[w] # "idle", job'[w] = job[w]
      PROVE  FALSE
  BY <1>2 DEF Msg, CInv, FreshIds
<1>3. QED
  BY <1>a, <1>1, <1>2, AwakeStep

\* A canceller that matched locally was there before with the same message, unless
\* the step is its request.
LEMMA HitStep ==
  ASSUME CInv, [Next]_vars, NEW k \in Cancellers, k \in hit'
  PROVE  \/ k \in hit /\ pc[k] \in Cancelling /\ pc'[k] \in Cancelling /\ job'[k] = job[k]
         \/ \E c \in Convs, m \in Msgs : CancelRequest(k, c, m)
<1> DEFINE Stays == k \in hit /\ pc[k] \in Cancelling /\ pc'[k] \in Cancelling /\ job'[k] = job[k]
<1>a. /\ pc \in [Threads -> AllSteps] /\ k \in Threads /\ k \notin Workers
      /\ job \in [Threads -> Job]
      /\ \A w \in Workers : w \in Threads /\ w # k
      /\ \A x \in Cancellers : x \in Threads
      /\ k \in hit => pc[k] \in Cancelling
  BY ThreadFacts DEF CInv, HitIsFlagged, IInv, TypeOK, AllSteps
<1> USE <1>a
<1>1. ASSUME NEW w \in Workers,
             \/ \E c \in Convs, m \in Msgs : StartRequest(w, c, m)
             \/ Start(w) \/ CheckEnter(w) \/ EndRun(w)
      PROVE  Stays
  BY <1>1 DEF StartRequest, Start, StartLocked, SetNX, ReadOwner, ReclaimDelete, ReclaimSet,
     TryClaim, Admit, CheckEnter, EndRun, Goto, Leave, Stay
<1>2. ASSUME NEW w \in Workers, Check(w) \/ Finish(w) PROVE Stays
  BY <1>2 DEF Check, CheckRemote, RefreshRead, RefreshSet, Extend, Pass, Goto, Leave, Stay,
     Finish, FinishEnter, ReleaseRead, ReleaseDelete, ReleaseCancelKey
<1>3. ASSUME NEW x \in Cancellers, Cancel(x) PROVE Stays
  BY <1>3 DEF Cancel, CancelRead, CancelSet, Answer, Goto, Cancelling
<1>4. ASSUME NEW x \in Cancellers, x # k, NEW c \in Convs, NEW m \in Msgs, CancelRequest(x, c, m)
      PROVE  Stays
  BY <1>4 DEF CancelRequest, Answer, Goto
<1>5. ASSUME \/ \E c \in Convs : LeaseExpires(c)
             \/ \E j \in Job : CancelKeyExpires(j)
             \/ RedisSwitch
             \/ UNCHANGED vars
      PROVE  Stays
  BY <1>5 DEF LeaseExpires, CancelKeyExpires, RedisSwitch, vars
<1>6. ASSUME NEW p \in Procs, Crash(p) PROVE Stays
  BY <1>6 DEF Crash
<1>7. QED
  BY <1>1, <1>2, <1>3, <1>4, <1>5, <1>6 DEF Next

\* The worker a local match flagged is the only one with that message, and no other
\* comes while the canceller is there.
LEMMA HitFlaggedStep ==
  ASSUME CInv, [Next]_vars
  PROVE  HitIsFlagged'
<1> SUFFICES ASSUME NEW k \in Cancellers, k \in hit'
             PROVE  /\ pc'[k] \in Cancelling
                    /\ \A w \in Workers : pc'[w] # "idle" /\ Msg(w)' = Msg(k)' => w \in flagged'
  BY DEF HitIsFlagged
<1>a. k \in Threads /\ IInv /\ ~ReuseIds /\ job \in [Threads -> Job] /\ pc \in [Threads -> AllSteps]
  BY ThreadFacts DEF CInv, Dependable, IInv, TypeOK, AllSteps
<1>1. CASE k \in hit /\ pc[k] \in Cancelling /\ pc'[k] \in Cancelling /\ job'[k] = job[k]
  <2> SUFFICES ASSUME NEW w \in Workers, pc'[w] # "idle", Msg(w)' = Msg(k)' PROVE w \in flagged'
    BY <1>1
  <2>1. CASE pc[w] # "idle" /\ job'[w] = job[w] /\ (w \in flagged => w \in flagged')
    BY <1>1, <2>1 DEF CInv, HitIsFlagged, Msg
  <2>2. ASSUME NEW c \in Convs, NEW m \in Msgs, StartRequest(w, c, m) PROVE FALSE
    <3>1. job' = [job EXCEPT ![w] = <<c, m>>] /\ (pc[k] # "idle" => Msg(k) # m) /\ w \in Threads
      BY <1>a, <2>2, ThreadFacts DEF StartRequest, Presentable, IInv
    <3>2. Msg(w)' = m /\ Msg(k)' = Msg(k)
      BY <1>a, <1>1, <3>1 DEF Msg
    <3>3. QED
      BY <1>1, <3>1, <3>2 DEF Cancelling
  <2>3. QED
    BY <1>a, <2>1, <2>2, AwakeStep
<1>2. ASSUME NEW c \in Convs, NEW m \in Msgs, CancelRequest(k, c, m)
      PROVE  /\ pc'[k] \in Cancelling
             /\ \A w \in Workers : pc'[w] # "idle" /\ Msg(w)' = Msg(k)' => w \in flagged'
  <2> DEFINE run == runs[P(k)][c]
  <2>0. P(k) \in conn' /\ P(k) \in Procs /\ k \notin hit
    <3>1. P(k) \in Procs
      BY <1>a, ThreadFacts DEF IInv
    <3>2. conn' = Procs
      BY ConnectedStep DEF Connected
    <3>3. pc[k] = "idle"
      BY <1>2 DEF CancelRequest
    <3>4. k \notin hit
      BY <3>3 DEF CInv, HitIsFlagged, Cancelling
    <3>5. QED
      BY <3>1, <3>2, <3>4
  <2>1. /\ pc' = [pc EXCEPT ![k] = "cread"] /\ job' = [job EXCEPT ![k] = <<c, m>>]
        /\ run # NoRun /\ Msg(run) = m /\ flagged' = flagged \cup {run}
    BY <1>2, <2>0 DEF CancelRequest, Goto
  <2>2. run \in Workers /\ pc[run] \in Running
    BY <2>0, <2>1, <1>a DEF IInv, Registered
  <2>3. pc[run] # "idle"
    BY <2>2 DEF Running, Checking
  <2>4. \A w \in Workers : pc'[w] = pc[w] /\ Msg(w)' = Msg(w)
    BY <1>a, <2>1, ThreadFacts DEF Msg, IInv
  <2>5. Msg(k)' = m /\ pc'[k] = "cread"
    BY <1>a, <2>1 DEF Msg
  <2>6. \A w \in Workers : pc[w] # "idle" /\ Msg(w) = Msg(run) => w = run
    BY <2>2, <2>3 DEF CInv, FreshIds
  <2>7. QED
    BY <2>1, <2>4, <2>5, <2>6 DEF Cancelling
<1>3. QED
  BY <1>1, <1>2, HitStep

\* What was recorded for a running execution stays recorded while it runs: no other
\* worker has its message, and its keys do not lapse.
LEMMA RecordKept ==
  ASSUME CInv, [Next]_vars, NEW w \in Workers, pc[w] \in Running, pc'[w] \in Running
  PROVE  /\ job'[w] = job[w]
         /\ w \in flagged => w \in flagged'
         /\ job[w] \in cancelKeys => job[w] \in cancelKeys'
<1>a. pc[w] # "idle" /\ pc'[w] # "idle" /\ w \in Threads /\ pc \in [Threads -> AllSteps]
  BY ThreadFacts DEF Running, Checking, CInv, IInv, TypeOK, AllSteps
<1>1. job'[w] = job[w] /\ (w \in flagged => w \in flagged')
  BY <1>a, AwakeStep DEF CInv, StartRequest
<1>2. ASSUME job[w] \in cancelKeys PROVE job[w] \in cancelKeys'
  <2> DEFINE Kept == job[w] \in cancelKeys'
  <2>1. ASSUME NEW v \in Workers,
               \/ \E c \in Convs, m \in Msgs : StartRequest(v, c, m)
               \/ Start(v) \/ CheckEnter(v) \/ EndRun(v)
        PROVE  Kept
    BY <1>2, <2>1 DEF StartRequest, Start, StartLocked, SetNX, ReadOwner, ReclaimDelete,
       ReclaimSet, TryClaim, Admit, CheckEnter, EndRun, redis
  <2>2. ASSUME NEW v \in Workers, Check(v) PROVE Kept
    BY <1>2, <2>2 DEF Check, CheckRemote, RefreshRead, RefreshSet, Extend, redis
  <2>3. ASSUME NEW v \in Workers, FinishEnter(v) \/ ReleaseRead(v) \/ ReleaseDelete(v) PROVE Kept
    BY <1>2, <2>3 DEF FinishEnter, ReleaseRead, ReleaseDelete, redis
  <2>4. ASSUME NEW v \in Workers, ReleaseCancelKey(v) PROVE Kept
    <3>1. pc[v] = "relcancel" /\ v # w
      BY <2>4 DEF ReleaseCancelKey, Running, Checking
    <3>2. job[v] # job[w]
      BY <1>a, <3>1 DEF CInv, FreshIds, Msg
    <3>3. QED
      BY <1>2, <2>4, <3>2 DEF ReleaseCancelKey
  <2>5. ASSUME NEW k \in Cancellers,
               Cancel(k) \/ \E c \in Convs, m \in Msgs : CancelRequest(k, c, m)
        PROVE  Kept
    BY <1>2, <2>5 DEF Cancel, CancelRead, CancelSet, CancelRequest, redis
  <2>6. ASSUME NEW j \in Job, CancelKeyExpires(j) PROVE Kept
    BY <1>2, <2>6 DEF CancelKeyExpires, InFlight, CInv, Dependable
  <2>7. ASSUME \/ \E c \in Convs : LeaseExpires(c)
               \/ RedisSwitch
               \/ \E p \in Procs : Crash(p)
               \/ UNCHANGED vars
        PROVE  Kept
    BY <1>2, <2>7 DEF LeaseExpires, RedisSwitch, Crash, vars, redis
  <2>8. QED
    BY <2>1, <2>2, <2>3, <2>4, <2>5, <2>6, <2>7 DEF Next, Finish
<1>3. QED
  BY <1>1, <1>2

\* A worker becomes answerable for a cancel by its own checkpoint, or by an answer
\* whose flag or key is already written.
LEMMA StopStep ==
  ASSUME CInv, [Next]_vars, NEW w \in Workers
  PROVE  \/ stop'[w] = stop[w]
         \/ stop'[w] = "no"
         \/ CheckEnter(w)
         \/ /\ stop'[w] = "accepted" /\ pc[w] \in Running /\ pc'[w] = pc[w]
            /\ w \in flagged' \/ job'[w] \in cancelKeys'
<1> DEFINE Same == stop'[w] = stop[w] \/ stop'[w] = "no"
           Recorded == /\ stop'[w] = "accepted" /\ pc[w] \in Running /\ pc'[w] = pc[w]
                       /\ w \in flagged' \/ job'[w] \in cancelKeys'
<1>a. /\ stop \in [Workers -> {"no", "accepted", "due"}]
      /\ pc \in [Threads -> AllSteps] /\ w \in Threads /\ w \notin Cancellers
      /\ up /\ ~RedisFails
  BY ThreadFacts DEF CInv, Connected, Dependable, IInv, TypeOK, AllSteps
<1> USE <1>a DEF history
<1>1. ASSUME NEW v \in Workers,
             \/ \E c \in Convs, m \in Msgs : StartRequest(v, c, m)
             \/ Start(v) \/ EndRun(v)
      PROVE  Same
  BY <1>1 DEF StartRequest, Start, StartLocked, SetNX, ReadOwner, ReclaimDelete,
     ReclaimSet, TryClaim, Admit, EndRun, Leave, Stay
<1>2. ASSUME NEW v \in Workers, v # w, CheckEnter(v) PROVE Same
  BY <1>2 DEF CheckEnter
<1>3. ASSUME NEW v \in Workers, Check(v) \/ Finish(v) PROVE Same
  BY <1>3 DEF Check, CheckRemote, RefreshRead, RefreshSet, Extend, Leave, Stay,
     Finish, FinishEnter, ReleaseRead, ReleaseDelete, ReleaseCancelKey
<1>4. ASSUME NEW k \in Cancellers, NEW c \in Convs, NEW m \in Msgs, CancelRequest(k, c, m)
      PROVE  Same
  <2>1. P(k) \in conn'
    BY ConnectedStep, ThreadFacts DEF Connected, CInv, IInv
  <2>2. QED
    BY <1>4, <2>1 DEF CancelRequest
<1>5. ASSUME NEW k \in Cancellers, CancelRead(k) PROVE Same \/ Recorded
  <2>1. /\ k \in hit /\ pc[w] \in Running /\ job[w] = job[k] => w \in flagged
        /\ k \in Threads
    BY ThreadFacts DEF CInv, HitIsFlagged, IInv, Msg, Running, Checking
  <2>2. QED
    BY <1>5, <2>1 DEF CancelRead, Answer, InFlight, Goto
<1>6. ASSUME NEW k \in Cancellers, CancelSet(k) PROVE Same \/ Recorded
  BY <1>6 DEF CancelSet, Answer, InFlight, Goto
<1>7. ASSUME \/ \E c \in Convs : LeaseExpires(c)
             \/ \E j \in Job : CancelKeyExpires(j)
             \/ RedisSwitch
             \/ UNCHANGED vars
      PROVE  Same
  BY <1>7 DEF LeaseExpires, CancelKeyExpires, RedisSwitch, vars
<1>8. ASSUME NEW p \in Procs, Crash(p) PROVE Same
  BY <1>8 DEF Crash
<1>9. QED
  BY <1>1, <1>2, <1>3, <1>4, <1>5, <1>6, <1>7, <1>8 DEF Next, Cancel

\* The claim of AcceptedIsRecorded for one worker.
Recorded(w) ==
  /\ stop[w] # "no" => pc[w] \notin Unclaimed \cup {"admit"}
  /\ stop[w] # "no" /\ pc[w] \in Running => w \in flagged \/ job[w] \in cancelKeys
  /\ stop[w] = "due" /\ pc[w] \in Running \ {"finish"} =>
       pc[w] = "remote" /\ job[w] \in cancelKeys

\* A worker that does not move keeps its record.
LEMMA RecordedBystander ==
  ASSUME CInv, [Next]_vars, NEW w \in Workers, pc'[w] = pc[w], ~CheckEnter(w)
  PROVE  Recorded(w)'
<1>1. Recorded(w)
  BY DEF CInv, AcceptedIsRecorded, Recorded
<1>2. pc[w] \in Running => /\ job'[w] = job[w]
                           /\ w \in flagged => w \in flagged'
                           /\ job[w] \in cancelKeys => job[w] \in cancelKeys'
  BY RecordKept
<1>3. CASE stop'[w] = stop[w]
  BY <1>1, <1>2, <1>3 DEF Recorded
<1>4. CASE stop'[w] = "no"
  BY <1>4 DEF Recorded
<1>5. CASE /\ stop'[w] = "accepted" /\ pc[w] \in Running /\ pc'[w] = pc[w]
           /\ w \in flagged' \/ job'[w] \in cancelKeys'
  <2>1. pc[w] \notin Unclaimed \cup {"admit"}
    BY <1>5 DEF Running, Checking, Unclaimed
  <2>2. QED
    BY <1>5, <2>1 DEF Recorded
<1>6. QED
  BY <1>3, <1>4, <1>5, StopStep

\* A worker's own step keeps its record: the checkpoint stops on the flag at once
\* and on the key at the remote read.
LEMMA RecordedMove ==
  ASSUME CInv, [Next]_vars, NEW w \in Workers, CheckEnter(w) \/ pc'[w] # pc[w]
  PROVE  Recorded(w)'
<1>a. /\ Recorded(w) /\ IInv /\ up
      /\ pc \in [Threads -> AllSteps] /\ w \in Threads
      /\ stop \in [Workers -> {"no", "accepted", "due"}]
      /\ P(w) \in conn'
  BY ConnectedStep, ThreadFacts
     DEF CInv, AcceptedIsRecorded, Recorded, IInv, TypeOK, AllSteps, Connected
<1> USE <1>a DEF Recorded, Goto, history, redis, Unclaimed, Running, Checking
<1>1. ASSUME NEW c \in Convs, NEW m \in Msgs, StartRequest(w, c, m) PROVE Recorded(w)'
  BY <1>1 DEF StartRequest
<1>2. ASSUME Start(w) PROVE Recorded(w)'
  BY <1>2 DEF Start, StartLocked, SetNX, ReadOwner, ReclaimDelete, ReclaimSet, TryClaim, Admit,
              Leave, Stay
<1>3. ASSUME CheckEnter(w) PROVE Recorded(w)'
  BY <1>3 DEF CheckEnter
<1>4. ASSUME CheckRemote(w) PROVE Recorded(w)'
  BY <1>4 DEF CheckRemote
<1>5. ASSUME RefreshRead(w) PROVE Recorded(w)'
  BY <1>5 DEF RefreshRead, Pass
<1>6. ASSUME RefreshSet(w) \/ Extend(w) PROVE Recorded(w)'
  BY <1>6 DEF RefreshSet, Extend, Pass
<1>7. ASSUME EndRun(w) PROVE Recorded(w)'
  BY <1>7 DEF EndRun, process
<1>8. ASSUME Finish(w) PROVE Recorded(w)'
  BY <1>8 DEF Finish, FinishEnter, ReleaseRead, ReleaseDelete, ReleaseCancelKey, Leave, Stay
<1>9. ASSUME NEW p \in Procs, Crash(p), P(w) = p PROVE Recorded(w)'
  BY <1>9 DEF Crash
<1>10. QED
  BY <1>1, <1>2, <1>3, <1>4, <1>5, <1>6, <1>7, <1>8, <1>9, OwnMove DEF Check

\* Every step keeps the cancellation invariant.
LEMMA CancelStep == CInv /\ [Next]_vars => CInv'
<1> SUFFICES ASSUME CInv, [Next]_vars PROVE CInv'
  OBVIOUS
<1>1. IInv' /\ Dependable'
  BY ExclusionStep DEF CInv, Dependable
<1>2. \A w \in Workers : Recorded(w)'
  BY RecordedBystander, RecordedMove
<1>3. AcceptedIsRecorded'
  BY <1>2 DEF AcceptedIsRecorded, Recorded
<1>4. QED
  BY <1>1, <1>3, ConnectedStep, FreshStep, HitFlaggedStep DEF CInv

\* The cancellation invariant holds in every reachable state.
LEMMA CancelInductive == Dependable /\ Spec => []CInv
<1>1. Dependable /\ Init => CInv
  BY ExclusionInit
     DEF Init, CInv, Connected, FreshIds, HitIsFlagged, AcceptedIsRecorded, Threads
<1>2. QED
  BY <1>1, CancelStep, PTL DEF Spec

\* With a Redis that answers, live keys and fresh message ids, a cancel that was
\* answered True before a checkpoint began stops that checkpoint, from whichever
\* replica it came and whatever crashed; without them the run may be missed, since
\* a degraded process cannot read the key and a retry shares it.
THEOREM CancelSeen == Dependable /\ Spec => CancelNotOverlooked
<1>1. CInv' => (\A w \in Workers : stop'[w] = "due" /\ pc[w] \in {"run"} \cup Checking
                  => pc'[w] # "run")
  BY DEF CInv, AcceptedIsRecorded, Running
<1>2. QED
  BY <1>1, CancelInductive, PTL DEF CancelNotOverlooked
=============================================================================
