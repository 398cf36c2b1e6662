----------------------------- MODULE RunControl -----------------------------
(***************************************************************************)
(* OrchestrationRunControl: which message a conversation may run.  Each     *)
(* process has a table _runs under a lock and a Redis client, or none while *)
(* degraded; the keys active:<conv> (a lease) and cancel:<conv>:<msg> are   *)
(* shared.  A Redis call is a step of its own and fails iff Redis is down.  *)
(* Workers are threads that execute a message, Cancellers threads in        *)
(* cancel().                                                                *)
(***************************************************************************)
EXTENDS FiniteSets, Naturals

CONSTANTS
  Procs, Convs, Msgs, Workers, Cancellers,
  Home,         \* the process of each thread
  NoRun,        \* no thread
  NoLease,      \* no key
  Strict,       \* RUN_CONTROL_STRICT
  RedisFails,   \* may Redis become unreachable?
  Crashes,      \* may a process crash and restart?
  LeaseLapses,  \* may a key expire under an execution that still needs it?
  ReuseIds      \* may a caller present a message id again (a retry)?

Threads == Workers \cup Cancellers
Lease   == [msg : Msgs, by : Workers]   \* `by` is history: no step compares it
Job     == Convs \X Msgs

ASSUME HomeAssumption  == Home \in [Threads -> Procs]
ASSUME NoneAssumption  == NoRun \notin Threads /\ NoLease \notin Lease
ASSUME RolesAssumption == Workers \cap Cancellers = {}
ASSUME FlagsAssumption ==
  {Strict, RedisFails, Crashes, LeaseLapses, ReuseIds} \subseteq BOOLEAN

VARIABLES
  up,          \* Redis answers
  active,      \* active:<conv>
  timed,       \* the conversations whose active key has a time to live
  cancelKeys,  \* the <<conv, msg>> whose cancel key exists
  conn,        \* processes whose _redis_client is not None
  lock,        \* holder of each process's RLock
  runs,        \* _runs: the execution registered per process and conversation
  flagged,     \* workers whose ActiveRun.cancelled event is set
  pc, job,     \* where each thread is, and its <<conv, msg>>
  hit,         \* cancellers whose local_match is true
  lease,       \* history: what became of a worker's lease
  stop         \* history: was a cancel of the worker answered True, and was
               \* that so when its current checkpoint began ("due")?

redis   == <<up, active, timed, cancelKeys>>
process == <<conn, lock, runs, flagged>>
history == <<lease, stop>>
vars    == <<redis, process, pc, job, hit, history>>

Locked     == {"setnx", "owner", "reclaim", "reset", "admit",
               "relread", "reldel", "relcancel"}
Checking   == {"remote", "refresh", "renew", "extend"}
Running    == {"run", "finish"} \cup Checking
Cancelling == {"cread", "cset"}

TypeOK ==
  /\ up \in BOOLEAN
  /\ active \in [Convs -> Lease \cup {NoLease}]
  /\ timed \in SUBSET Convs
  /\ cancelKeys \in SUBSET Job
  /\ conn \in SUBSET Procs
  /\ lock \in [Procs -> Workers \cup {NoRun}]
  /\ runs \in [Procs -> [Convs -> Workers \cup {NoRun}]]
  /\ flagged \in SUBSET Workers
  /\ pc \in [Threads -> {"idle", "start"} \cup Locked \cup Running \cup Cancelling]
  /\ job \in [Threads -> Job]
  /\ hit \in SUBSET Cancellers
  /\ lease \in [Workers -> {"none", "held", "lapsed", "deleted"}]
  /\ stop \in [Workers -> {"no", "accepted", "due"}]

P(t)    == Home[t]
Conv(t) == job[t][1]
Msg(t)  == job[t][2]
BarePayload(w) == Msg(w)   \* mutant of Payload: the message id alone
Payload(w)    == [msg |-> Msg(w), by |-> w]
Matches(c, m) == active[c] # NoLease /\ active[c].msg = m
InFlight(j)   == {w \in Workers : pc[w] \in Running /\ job[w] = j}

Init ==
  /\ up = TRUE /\ conn = Procs
  /\ active = [c \in Convs |-> NoLease]
  /\ timed = {} /\ cancelKeys = {} /\ flagged = {} /\ hit = {}
  /\ lock = [p \in Procs |-> NoRun]
  /\ runs = [p \in Procs |-> [c \in Convs |-> NoRun]]
  /\ pc = [t \in Threads |-> "idle"]
  /\ job \in [Threads -> Job]
  /\ lease = [w \in Workers |-> "none"]
  /\ stop = [w \in Workers |-> "no"]

-----------------------------------------------------------------------------
Goto(t, l) == pc' = [pc EXCEPT ![t] = l]
Lock(w)    == lock' = [lock EXCEPT ![P(w)] = w]
Unlock(w)  == lock' = [lock EXCEPT ![P(w)] = NoRun]

\* _maybe_restore_backend, under the lock: time is abstracted to "the retry
\* deadline may have passed".
MaybeRestore(p) == conn' = conn \/ (up /\ lock[p] = NoRun /\ conn' = conn \cup {p})

Degrade(p) == conn' = conn \ {p}

\* A call whose result is not used: it can only degrade the process.
Ping(p) == IF up THEN UNCHANGED conn ELSE Degrade(p)

\* _require_backend raises, with the clients cs.
Refuses(p, cs) == Strict /\ p \notin cs

\* The request of a worker is over; the ActiveRun object goes with it.
Leave(w) ==
  /\ Goto(w, "idle")
  /\ lease' = [lease EXCEPT ![w] = "none"]
  /\ stop' = [stop EXCEPT ![w] = "no"]
  /\ flagged' = flagged \ {w}

Stay(w, l) == Goto(w, l) /\ UNCHANGED <<history, flagged>>

\* A message id no trace of which is left, unless ids may be presented again.
Presentable(m) ==
  \/ ReuseIds
  \/ /\ \A t \in Threads : pc[t] # "idle" => Msg(t) # m
     /\ \A c \in Convs : ~Matches(c, m) /\ <<c, m>> \notin cancelKeys

\* Mutant of SetKey: SET without NX.
SetKeyAlways(w) ==
  /\ active' = [active EXCEPT ![Conv(w)] = Payload(w)]
  /\ timed' = timed \cup {Conv(w)}
  /\ lease' = [lease EXCEPT ![w] = "held"]

\* Mutant of SetKey: SET NX without EX.
SetKeyForever(w) ==
  IF active[Conv(w)] = NoLease
    THEN /\ active' = [active EXCEPT ![Conv(w)] = Payload(w)]
         /\ lease' = [lease EXCEPT ![w] = "held"]
         /\ UNCHANGED timed
    ELSE UNCHANGED <<active, timed, lease>>

\* SET active:<conv> NX EX.
SetKey(w) ==
  IF active[Conv(w)] = NoLease
    THEN /\ active' = [active EXCEPT ![Conv(w)] = Payload(w)]
         /\ timed' = timed \cup {Conv(w)}
         /\ lease' = [lease EXCEPT ![w] = "held"]
    ELSE UNCHANGED <<active, timed, lease>>

\* EXPIRE active:<conv>, whoever wrote it: a key that is there has a time to
\* live from now on, and the time it had begins anew.
Prolong(c) == timed' = IF active[c] = NoLease THEN timed ELSE timed \cup {c}

Holds(v, c) == lease[v] = "held" /\ Conv(v) = c /\ active[c] = Payload(v)

\* DEL active:<conv>, whoever wrote it.
DeleteKey(w) ==
  /\ active' = [active EXCEPT ![Conv(w)] = NoLease]
  /\ timed' = timed \ {Conv(w)}
  /\ lease' = [v \in Workers |-> IF ~Holds(v, Conv(w)) THEN lease[v]
                                 ELSE IF v = w THEN "none" ELSE "deleted"]

-----------------------------------------------------------------------------
(* start()                                                                  *)

StartRequest(w, c, m) ==
  /\ pc[w] = "idle" /\ Presentable(m)
  /\ MaybeRestore(P(w))
  /\ job' = [job EXCEPT ![w] = <<c, m>>]
  /\ Goto(w, IF Refuses(P(w), conn') THEN "idle" ELSE "start")
  /\ UNCHANGED <<redis, lock, runs, flagged, hit, history>>

\* Mutant of StartLocked: the table is not consulted.
StartUnchecked(w) ==
  /\ pc[w] = "start" /\ lock[P(w)] = NoRun
  /\ Lock(w) /\ Goto(w, IF P(w) \in conn THEN "setnx" ELSE "admit")
  /\ UNCHANGED <<redis, conn, runs, flagged, job, hit, history>>

StartLocked(w) ==
  /\ pc[w] = "start" /\ lock[P(w)] = NoRun
  /\ IF runs[P(w)][Conv(w)] # NoRun
       THEN Goto(w, "idle") /\ UNCHANGED lock            \* ActiveRunConflictError
       ELSE Lock(w) /\ Goto(w, IF P(w) \in conn THEN "setnx" ELSE "admit")
  /\ UNCHANGED <<redis, conn, runs, flagged, job, hit, history>>

TryClaim(w) ==
  /\ IF up THEN SetKey(w) ELSE UNCHANGED <<active, timed, lease>>
  /\ Ping(P(w))
  /\ UNCHANGED <<up, cancelKeys, runs, flagged, job, hit, stop>>

Taken(w) == up /\ active[Conv(w)] # NoLease

SetNX(w) ==
  /\ pc[w] = "setnx"
  /\ TryClaim(w) /\ UNCHANGED lock
  /\ Goto(w, IF Taken(w) THEN "owner" ELSE "admit")

\* _read_remote_run after a failed SET NX: a missing client, a failed GET and
\* an absent key all read as "no owner", and the key is reclaimed.
ReadOwner(w) ==
  /\ pc[w] = "owner"
  /\ IF P(w) \in conn /\ Taken(w)
       THEN Goto(w, "idle") /\ Unlock(w)                 \* ActiveRunConflictError
       ELSE Goto(w, "reclaim") /\ UNCHANGED lock
  /\ Ping(P(w))
  /\ UNCHANGED <<redis, runs, flagged, job, hit, history>>

ReclaimDelete(w) ==
  /\ pc[w] = "reclaim"
  /\ IF up THEN DeleteKey(w) ELSE UNCHANGED <<active, timed, lease>>
  /\ Ping(P(w))
  /\ Goto(w, IF up THEN "reset" ELSE "admit")
  /\ UNCHANGED <<up, cancelKeys, lock, runs, flagged, job, hit, stop>>

\* The last read of the owner, for the error message, is merged in.
ReclaimSet(w) ==
  /\ pc[w] = "reset"
  /\ TryClaim(w)
  /\ IF Taken(w) THEN Goto(w, "idle") /\ Unlock(w) ELSE Goto(w, "admit") /\ UNCHANGED lock

\* Mutant of Admit: no second _require_backend.
AdmitAnyway(w) ==
  /\ pc[w] = "admit"
  /\ Unlock(w) /\ Stay(w, "run")
  /\ runs' = [runs EXCEPT ![P(w)][Conv(w)] = w]
  /\ UNCHANGED <<redis, conn, job, hit>>

\* The second _require_backend, then the run is registered.  A strict refusal
\* here leaves behind the lease that was just claimed.
Admit(w) ==
  /\ pc[w] = "admit"
  /\ Unlock(w)
  /\ IF Refuses(P(w), conn)
       THEN Leave(w) /\ UNCHANGED runs
       ELSE Stay(w, "run") /\ runs' = [runs EXCEPT ![P(w)][Conv(w)] = w]
  /\ UNCHANGED <<redis, conn, job, hit>>

-----------------------------------------------------------------------------
(* ensure_not_cancelled(): the checkpoint of a running execution.           *)

\* The checkpoint ends: the last _require_backend, with the clients cs.
Pass(w, cs) == Goto(w, IF Refuses(P(w), cs) THEN "finish" ELSE "run")

\* is_cancelled: the local flag, read under the lock.
CheckEnter(w) ==
  /\ pc[w] = "run" /\ lock[P(w)] = NoRun
  /\ MaybeRestore(P(w))
  /\ stop' = [stop EXCEPT ![w] = IF @ = "no" THEN "no" ELSE "due"]
  /\ Goto(w, IF Refuses(P(w), conn') \/ w \in flagged THEN "finish"
             ELSE IF P(w) \in conn' THEN "remote" ELSE "run")
  /\ UNCHANGED <<redis, lock, runs, flagged, job, hit, lease>>

\* Mutant of CheckRemote: the answer of the GET is ignored.
CheckLocalOnly(w) ==
  /\ pc[w] = "remote"
  /\ Ping(P(w))
  /\ IF P(w) \in conn' THEN Goto(w, "refresh") ELSE Pass(w, conn')
  /\ UNCHANGED <<redis, lock, runs, flagged, job, hit, history>>

\* is_cancelled: the remote flag.
CheckRemote(w) ==
  /\ pc[w] = "remote"
  /\ Ping(P(w))
  /\ IF up /\ job[w] \in cancelKeys THEN Goto(w, "finish")
     ELSE IF P(w) \in conn' THEN Goto(w, "refresh") ELSE Pass(w, conn')
  /\ UNCHANGED <<redis, lock, runs, flagged, job, hit, history>>

\* _refresh_remote_run: a lease that is absent or cannot be read is claimed
\* again, one of this message is prolonged; somebody else's is left alone, and
\* the execution carries on.
RefreshRead(w) ==
  /\ pc[w] = "refresh"
  /\ Ping(P(w))
  /\ IF ~(P(w) \in conn /\ Taken(w)) THEN Goto(w, "renew")
     ELSE IF Matches(Conv(w), Msg(w)) THEN Goto(w, "extend") ELSE Pass(w, conn')
  /\ UNCHANGED <<redis, lock, runs, flagged, job, hit, history>>

\* The cancelled flag is copied too.  The read of the owner that follows is
\* merged in.
RefreshSet(w) ==
  LET own == up /\ P(w) \in conn
                /\ (active[Conv(w)] = NoLease \/ Matches(Conv(w), Msg(w)))
  IN
  /\ pc[w] = "renew"
  /\ IF up THEN SetKey(w) ELSE UNCHANGED <<active, timed, lease>>
  /\ cancelKeys' = IF up /\ w \in flagged THEN cancelKeys \cup {job[w]} ELSE cancelKeys
  /\ Ping(P(w)) /\ (IF own THEN Goto(w, "extend") ELSE Pass(w, conn'))
  /\ UNCHANGED <<up, lock, runs, flagged, job, hit, stop>>

\* EXPIRE of the lease, then of the cancel key, of which LeaseLapses says how
\* long it lasts; the second call may fail alone.
Extend(w) ==
  /\ pc[w] = "extend"
  /\ IF up THEN Prolong(Conv(w)) ELSE UNCHANGED timed
  /\ Ping(P(w)) \/ (RedisFails /\ Degrade(P(w)))
  /\ Pass(w, conn')
  /\ UNCHANGED <<up, active, cancelKeys, lock, runs, flagged, job, hit, history>>

\* The orchestration returns or raises.
EndRun(w) ==
  /\ pc[w] = "run"
  /\ Goto(w, "finish")
  /\ UNCHANGED <<redis, process, job, hit, history>>

-----------------------------------------------------------------------------
(* finish(): the run leaves the table, then the lease is released if the    *)
(* key carries this message id: a read, then two deletes.                   *)

\* Mutant of FinishEnter: it starts with a _require_backend, like start().
FinishRefused(w) ==
  LET run == runs[P(w)][Conv(w)] IN
  /\ pc[w] = "finish" /\ lock[P(w)] = NoRun
  /\ MaybeRestore(P(w))
  /\ IF ~Refuses(P(w), conn') /\ run # NoRun /\ Msg(run) = Msg(w)
       THEN /\ runs' = [runs EXCEPT ![P(w)][Conv(w)] = NoRun]
            /\ IF P(w) \in conn' THEN Lock(w) /\ Stay(w, "relread")
                                 ELSE UNCHANGED lock /\ Leave(w)
       ELSE UNCHANGED <<runs, lock>> /\ Leave(w)
  /\ UNCHANGED <<redis, job, hit>>

FinishEnter(w) ==
  LET run == runs[P(w)][Conv(w)] IN
  /\ pc[w] = "finish" /\ lock[P(w)] = NoRun
  /\ MaybeRestore(P(w))
  /\ IF run # NoRun /\ Msg(run) = Msg(w)
       THEN /\ runs' = [runs EXCEPT ![P(w)][Conv(w)] = NoRun]
            /\ IF P(w) \in conn' THEN Lock(w) /\ Stay(w, "relread")
                                 ELSE UNCHANGED lock /\ Leave(w)
       ELSE UNCHANGED <<runs, lock>> /\ Leave(w)
  /\ UNCHANGED <<redis, job, hit>>

ReleaseRead(w) ==
  /\ pc[w] = "relread"
  /\ Ping(P(w))
  /\ IF P(w) \in conn' /\ Matches(Conv(w), Msg(w))
       THEN Stay(w, "reldel") /\ UNCHANGED lock
       ELSE Leave(w) /\ Unlock(w)
  /\ UNCHANGED <<redis, runs, job, hit>>

ReleaseDelete(w) ==
  /\ pc[w] = "reldel"
  /\ IF up
       THEN DeleteKey(w) /\ Goto(w, "relcancel") /\ UNCHANGED <<conn, lock, flagged, stop>>
       ELSE Degrade(P(w)) /\ Leave(w) /\ Unlock(w) /\ UNCHANGED <<active, timed>>
  /\ UNCHANGED <<up, cancelKeys, runs, job, hit>>

ReleaseCancelKey(w) ==
  /\ pc[w] = "relcancel"
  /\ cancelKeys' = IF up THEN cancelKeys \ {job[w]} ELSE cancelKeys
  /\ Ping(P(w)) /\ Leave(w) /\ Unlock(w)
  /\ UNCHANGED <<up, active, timed, runs, job, hit>>

-----------------------------------------------------------------------------
(* cancel(): the local flag, then the remote one.                           *)

Answer(k, j, yes) ==
  /\ Goto(k, "idle")
  /\ hit' = hit \ {k}
  /\ stop' = [w \in Workers |-> IF yes /\ stop[w] = "no" /\ w \in InFlight(j)
                                  THEN "accepted" ELSE stop[w]]

CancelRequest(k, c, m) ==
  LET run   == runs[P(k)][c]
      local == run # NoRun /\ Msg(run) = m
  IN
  /\ pc[k] = "idle" /\ lock[P(k)] = NoRun
  /\ MaybeRestore(P(k))
  /\ job' = [job EXCEPT ![k] = <<c, m>>]
  /\ flagged' = IF local THEN flagged \cup {run} ELSE flagged
  /\ IF P(k) \in conn'
       THEN /\ Goto(k, "cread")
            /\ hit' = IF local THEN hit \cup {k} ELSE hit
            /\ UNCHANGED stop
       ELSE Answer(k, <<c, m>>, local)
  /\ UNCHANGED <<redis, lock, runs, lease>>

CancelRead(k) ==
  /\ pc[k] = "cread"
  /\ Ping(P(k))
  /\ IF P(k) \in conn' /\ Matches(Conv(k), Msg(k))
       THEN Goto(k, "cset") /\ UNCHANGED <<hit, stop>>
       ELSE Answer(k, job[k], k \in hit)
  /\ UNCHANGED <<redis, lock, runs, flagged, job, lease>>

\* SET cancel key, EXPIRE the lease: when only the second call fails the
\* answer is that of the local part although the key is set.
CancelSet(k) ==
  /\ pc[k] = "cset"
  /\ cancelKeys' = IF up THEN cancelKeys \cup {job[k]} ELSE cancelKeys
  /\ \/ /\ IF up THEN Prolong(Conv(k)) ELSE UNCHANGED timed
        /\ Ping(P(k)) /\ Answer(k, job[k], up \/ k \in hit)
     \/ RedisFails /\ Degrade(P(k)) /\ Answer(k, job[k], k \in hit) /\ UNCHANGED timed
  /\ UNCHANGED <<up, active, lock, runs, flagged, job, lease>>

-----------------------------------------------------------------------------
(* Redis and the processes.                                                 *)

\* Only a key with a time to live expires.
LeaseExpires(c) ==
  /\ active[c] # NoLease /\ c \in timed
  /\ LET w == active[c].by IN
     /\ Holds(w, c) => LeaseLapses
     /\ lease' = IF Holds(w, c) THEN [lease EXCEPT ![w] = "lapsed"] ELSE lease
  /\ active' = [active EXCEPT ![c] = NoLease] /\ timed' = timed \ {c}
  /\ UNCHANGED <<up, cancelKeys, process, pc, job, hit, stop>>

CancelKeyExpires(j) ==
  /\ j \in cancelKeys
  /\ InFlight(j) # {} => LeaseLapses
  /\ cancelKeys' = cancelKeys \ {j}
  /\ UNCHANGED <<up, active, timed, process, pc, job, hit, history>>

RedisSwitch ==
  /\ RedisFails
  /\ up' = ~up
  /\ UNCHANGED <<active, timed, cancelKeys, process, pc, job, hit, history>>

\* The memory and the requests of p are gone, its keys in Redis are not.
Crash(p) ==
  /\ Crashes
  /\ conn' = IF up THEN conn \cup {p} ELSE conn \ {p}
  /\ lock' = [lock EXCEPT ![p] = NoRun]
  /\ runs' = [runs EXCEPT ![p] = [c \in Convs |-> NoRun]]
  /\ flagged' = {w \in flagged : P(w) # p}
  /\ hit' = {k \in hit : P(k) # p}
  /\ pc' = [t \in Threads |-> IF P(t) = p THEN "idle" ELSE pc[t]]
  /\ lease' = [w \in Workers |-> IF P(w) = p THEN "none" ELSE lease[w]]
  /\ stop' = [w \in Workers |-> IF P(w) = p THEN "no" ELSE stop[w]]
  /\ UNCHANGED <<redis, job>>

Start(w)  == StartLocked(w) \/ SetNX(w) \/ ReadOwner(w) \/ ReclaimDelete(w) \/ ReclaimSet(w) \/ Admit(w)
Check(w)  == CheckRemote(w) \/ RefreshRead(w) \/ RefreshSet(w) \/ Extend(w)
Finish(w) == FinishEnter(w) \/ ReleaseRead(w) \/ ReleaseDelete(w) \/ ReleaseCancelKey(w)
Cancel(k) == CancelRead(k) \/ CancelSet(k)

Next ==
  \/ \E w \in Workers, c \in Convs, m \in Msgs : StartRequest(w, c, m)
  \/ \E w \in Workers : Start(w) \/ CheckEnter(w) \/ Check(w) \/ EndRun(w) \/ Finish(w)
  \/ \E k \in Cancellers, c \in Convs, m \in Msgs : CancelRequest(k, c, m)
  \/ \E k \in Cancellers : Cancel(k)
  \/ \E c \in Convs : LeaseExpires(c)
  \/ \E j \in Job : CancelKeyExpires(j)
  \/ RedisSwitch
  \/ \E p \in Procs : Crash(p)

Spec == Init /\ [][Next]_vars

\* A checkpoint or a cancel that begins the time of the lease anew.
Prolongs(c) ==
  /\ up
  /\ \/ \E w \in Workers : Conv(w) = c /\ Extend(w)
     \/ \E k \in Cancellers : Conv(k) = c /\ CancelSet(k)

\* Threads run and get the lock they wait for; an execution ends; Redis drops a
\* key with a time to live, unless the time is begun anew for ever.
Fairness ==
  /\ \A w \in Workers : /\ WF_vars(Start(w) /\ ~StartLocked(w)) /\ SF_vars(StartLocked(w))
                        /\ WF_vars(Check(w)) /\ SF_vars(EndRun(w))
                        /\ SF_vars(Finish(w))
  /\ \A k \in Cancellers : WF_vars(Cancel(k))
  /\ \A c \in Convs : WF_vars(LeaseExpires(c)) \/ []<><<Prolongs(c)>>_vars

FairSpec == Spec /\ Fairness

-----------------------------------------------------------------------------
(* Properties.                                                              *)

\* One process never runs two messages of a conversation, degraded or not,
\* whatever Redis and the leases do: the table names every running execution.
LocalExclusion ==
  \A w \in Workers : pc[w] \in Running => runs[P(w)][Conv(w)] = w

\* An execution whose lease was neither lapsed nor deleted by another start()
\* still owns the key, so two executions of a conversation can only overlap
\* across processes if one of them lost its lease or began without one.
OverlapIsExplained ==
  \A v, w \in Workers :
    v # w /\ {pc[v], pc[w]} \subseteq Running /\ Conv(v) = Conv(w)
      => \E x \in {v, w} : lease[x] # "held"

\* Strict mode never executes a message without having claimed the lease.
StrictClaims ==
  Strict => \A w \in Workers : pc[w] \in Running => lease[w] # "none"

\* A cancel that was answered True before a checkpoint began is not overlooked
\* by that checkpoint.
CancelNotOverlooked ==
  [][\A w \in Workers : stop'[w] = "due" /\ pc[w] \in {"run"} \cup Checking
       => pc'[w] # "run"]_<<pc, stop>>

\* What test_run_control_uses_redis_for_cross_instance_coordination expects of
\* two instances with a working Redis and live leases: the second start() of a
\* conversation is refused while the first execution runs.
AtMostOneRun ==
  \A v, w \in Workers :
    {pc[v], pc[w]} \subseteq Running /\ Conv(v) = Conv(w) => v = w

\* A registered run leaves the table again: the table has no time to live, so
\* an entry that stayed would refuse the conversation until a restart.
RunIsUnregistered ==
  \A p \in Procs, c \in Convs : runs[p][c] # NoRun ~> runs[p][c] = NoRun

\* No lease keeps a conversation locked for ever.  That of an execution ends
\* with it; one whose writer is gone (crash, strict refusal after the claim,
\* failed release) was written with a time to live, which no execution of
\* another message and no refused start() begins anew.
LeaseEnds == \A c \in Convs : active[c] # NoLease ~> active[c] = NoLease

\* The executions a process is actually in, per conversation: a set by
\* construction, so that the refinement below says it has at most one member.
Executing(p, c) == {w \in Workers : pc[w] \in Running /\ P(w) = p /\ Conv(w) = c}
Occupied == [p \in Procs |-> [c \in Convs |-> Executing(p, c)]]

Slots == INSTANCE RunSlots WITH slot <- Occupied, Empty <- {}, Workers <- {{w} : w \in Workers}

\* The process implements the slots: no step starts an execution beside another.
ImplementsSlots == Slots!Spec
=============================================================================
