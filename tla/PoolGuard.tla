----------------------------- MODULE PoolGuard -----------------------------
(***************************************************************************)
(* The duty-cycle knob and the pause switch of shape.Pool (pkg/shape).     *)
(* The pool keeps them in two separate atomics: targetBits, clamped into   *)
(* [0,1] on every SetTarget, and paused, toggled by ObserveHostLoad.  The  *)
(* operators below say what one call leaves in each; the modules that own  *)
(* the atomics as variables apply them.                                    *)
(*                                                                         *)
(* Ratios are integers on a grid: Full grid units make the ratio 1.0.      *)
(***************************************************************************)
EXTENDS Integers

CONSTANTS
  Full,             \* the grid value of the ratio 1.0
  PauseThreshold,   \* pool.pauseThreshold; 0 disables pausing on utilisation
  ResumeThreshold,  \* pool.resumeThreshold
  RunnableGuard     \* pool.runnableGuard; 0 disables pausing on the run queue

ASSUME PoolAssumption ==
  /\ Full \in Nat \ {0}
  /\ PauseThreshold \in Int
  /\ ResumeThreshold \in Int
  /\ RunnableGuard \in Int

Clamp(value, lower, upper) ==
  IF value < lower THEN lower ELSE IF value > upper THEN upper ELSE value

\* Mutated form: only the upper bound is enforced.
MutPoolTarget(t) == IF t > Full THEN Full ELSE t

\* Pool.SetTarget: what targetBits holds after SetTarget(t).
PoolTarget(t) == Clamp(t, 0, Full)

\* setPauseThresholds: the band the pool keeps after the values are coerced.
PausePoint == Clamp(PauseThreshold, 0, Full)
ResumePoint == Clamp(ResumeThreshold, 0, PausePoint)

\* runnableGuardHit; setRunnableGuard stores a negative guard as 0.
RunnableGuardHit(runnable) == RunnableGuard > 0 /\ runnable >= RunnableGuard

\* Mutated form: the utilisation band is looked at before the run queue, so a
\* cool CPU unpauses the workers in spite of a long run queue.
MutPausedAfter(paused, util, runnable) ==
  \/ RunnableGuardHit(runnable) /\ util > ResumePoint
  \/ PausePoint > 0 /\ util >= PausePoint
  \/ PausePoint > 0 /\ util > ResumePoint /\ paused

\* observeHostLoad: the pause flag after a sample.  The run queue is looked
\* at first; strictly inside the band the flag keeps its value.
PausedAfter(paused, util, runnable) ==
  \/ RunnableGuardHit(runnable)
  \/ PausePoint > 0 /\ util >= PausePoint
  \/ PausePoint > 0 /\ util > ResumePoint /\ paused
=============================================================================
