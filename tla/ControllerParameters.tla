------------------------- MODULE ControllerParameters -------------------------
(***************************************************************************)
(* The parameters of the adaptive controller (adapt.Config) next to those  *)
(* of the pool, and what every configuration that passes the constructor's *)
(* validation satisfies.  AdaptiveController takes it as its assumption;   *)
(* RuntimeConfig shows that loading and coercing a configuration meets it. *)
(***************************************************************************)
EXTENDS PoolGuard

CONSTANTS
  Enforcing,                  \* ModeEnforcesTargets(mode); FALSE in dry-run
  TargetStart, TargetMin, TargetMax, StepUp, StepDown, FallbackTarget,
  GoalLow, GoalHigh, RelaxedThreshold, RelaxedConfirmations,
  SuppressThreshold, SuppressResume,
  SuppressRunnableThreshold, SuppressRunnableResume,
  SuppressSmoothingSamples

\* validateControllerConfig after coerceConfig: what every configuration the
\* constructor accepts satisfies.
\* ensureFloat replaces every zero target by its default.
ValidTargets ==
  /\ TargetMin < TargetMax
  /\ \A t \in {TargetStart, TargetMin, FallbackTarget} : t # 0
  /\ \A t \in {TargetStart, FallbackTarget, GoalLow, GoalHigh} :
       TargetMin <= t /\ t <= TargetMax
  /\ StepUp > 0 /\ StepDown > 0
  /\ GoalLow < GoalHigh
  /\ RelaxedConfirmations \in 1 .. 100

ValidSuppression ==
  /\ SuppressThreshold \in 0 .. Full
  /\ SuppressResume \in 0 .. Full
  /\ SuppressSmoothingSamples \in 0 .. 100
  /\ IF SuppressThreshold = 0
     THEN SuppressResume = 0
     ELSE SuppressResume < SuppressThreshold
  /\ \A t \in {TargetStart, TargetMin, TargetMax, FallbackTarget, GoalLow, GoalHigh} :
       /\ SuppressThreshold > 0 => SuppressThreshold > t
       /\ SuppressResume > 0 => SuppressResume > t
  /\ SuppressRunnableThreshold >= 0
  /\ IF SuppressRunnableThreshold = 0
     THEN SuppressRunnableResume = 0
     ELSE SuppressRunnableResume \in 0 .. SuppressRunnableThreshold - 1

ASSUME ConfigAssumption ==
  /\ Enforcing \in BOOLEAN
  /\ \A c \in {TargetStart, TargetMin, TargetMax, StepUp, StepDown, FallbackTarget,
               GoalLow, GoalHigh, RelaxedThreshold, SuppressRunnableThreshold} : c \in Int
  /\ ValidTargets
  /\ ValidSuppression
===============================================================================
