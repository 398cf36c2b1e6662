----------------------------- MODULE WorkQueue -----------------------------
(***************************************************************************)
(* What a queue of jobs promises, if it may lose some of them: a job is     *)
(* published once, a waiting job is claimed by one worker, only the worker  *)
(* that has a job in hand says what has become of it, a failed job waits    *)
(* again and a completed one is left alone.  A worker that dies keeps its   *)
(* job from everyone.  Of a job that was lost nothing is promised.          *)
(***************************************************************************)
CONSTANTS Jobs, Workers

VARIABLE state   \* state[j]: the status of a job, and the workers that have it

At(s, by) == [status |-> s, by |-> by]
Lost      == At("lost", {})
Waiting   == {At("queued", {}), At("failed", {})}

Init == state = [j \in Jobs |-> At("absent", {})]

\* A step concerns one job; others may be lost with it.
Becomes(j, new, lost) ==
  state' = [k \in Jobs |-> IF k \in lost THEN Lost
                           ELSE IF k = j THEN new ELSE state[k]]

Publish(j, lost) ==
  /\ state[j] = At("absent", {})
  /\ Becomes(j, At("queued", {}), lost)

Claim(j, w, lost) ==
  /\ state[j] \in Waiting
  /\ Becomes(j, At("processing", {w}), lost)

Settle(j, w, lost) ==
  /\ state[j] = At("processing", {w})
  /\ \E s \in {"failed", "completed"} : Becomes(j, At(s, {}), lost)

Abandon(j, w, lost) ==
  /\ state[j] = At("processing", {w})
  /\ Becomes(j, At("processing", {}), lost)

Lose(lost) == state' = [k \in Jobs |-> IF k \in lost THEN Lost ELSE state[k]]

Next ==
  \E lost \in SUBSET Jobs :
    \/ Lose(lost)
    \/ \E j \in Jobs :
         \/ Publish(j, lost)
         \/ \E w \in Workers : Claim(j, w, lost) \/ Settle(j, w, lost) \/ Abandon(j, w, lost)

Spec == Init /\ [][Next]_state
=============================================================================
