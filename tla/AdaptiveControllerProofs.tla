---------------------- MODULE AdaptiveControllerProofs ----------------------
(***************************************************************************)
(* Proofs about AdaptiveController, for every configuration the            *)
(* constructor accepts (ConfigAssumption) and every set of inputs          *)
(* (InputAssumption), and, in the last part, about Telemetry: the          *)
(* controller as the recorder, the exporter and a probe see it             *)
(* (TelemetryAssumption).                                                  *)
(***************************************************************************)
EXTENDS Telemetry, SequenceTheorems, TLAPS

-----------------------------------------------------------------------------
(***************************************************************************)
(* Facts about the operators.                                              *)
(***************************************************************************)

\* clamp returns a value within its bounds, and a value within them unchanged.
LEMMA ClampInBounds ==
  ASSUME NEW v \in Int, NEW lo \in Int, NEW hi \in Int, lo <= hi
  PROVE  /\ Clamp(v, lo, hi) \in lo .. hi
         /\ v \in lo .. hi => Clamp(v, lo, hi) = v
BY DEF Clamp

\* Pool.SetTarget stores a ratio, and zero for zero.
LEMMA PoolTargetRange ==
  ASSUME NEW t \in Int
  PROVE  PoolTarget(t) \in 0 .. Full /\ PoolTarget(0) = 0
BY PoolAssumption, ClampInBounds DEF PoolTarget

\* The parts of ConfigAssumption the step handlers rely on.
LEMMA ConfigFacts ==
  /\ StepUp \in Int /\ StepUp > 0
  /\ StepDown \in Int /\ StepDown > 0
  /\ GoalLow \in Int /\ GoalHigh \in Int
  /\ TargetMin \in Int /\ TargetMax \in Int /\ TargetMin < TargetMax
  /\ FallbackTarget \in TargetMin .. TargetMax /\ FallbackTarget # 0
  /\ TargetStart \in TargetMin .. TargetMax /\ TargetStart # 0
BY ConfigAssumption DEF ValidTargets

\* The fallback survives its clamp.
LEMMA FallbackUnclamped == DesiredAfterError = FallbackTarget
BY ConfigFacts, ClampInBounds DEF DesiredAfterError

\* A step of the slow loop plans a duty cycle within the bounds, at most one
\* step away from the plan it starts from when that one is within them too.
LEMMA NextTargetInBounds ==
  ASSUME NEW p95 \in Nat, NEW base \in Int
  PROVE  /\ NextTarget(p95, base) \in TargetMin .. TargetMax
         /\ base \in TargetMin .. TargetMax =>
              /\ base - StepDown <= NextTarget(p95, base)
              /\ NextTarget(p95, base) <= base + StepUp
BY ConfigFacts DEF NextTarget, Clamp

\* The smoothed load lies between the old load and the sample.
LEMMA HostLoadsBetween ==
  ASSUME NEW util \in 0 .. Full, NEW guarded \in BOOLEAN, hostLoad \in 0 .. Full,
         NEW load \in HostLoadsAfter(util, guarded)
  PROVE  /\ load \in 0 .. Full
         /\ guarded => load = util
         /\ load = util \/ (hostLoad <= load /\ load <= util)
                        \/ (util <= load /\ load <= hostLoad)
<1>1. CASE load \in {util}
  BY <1>1
<1>2. CASE load \in Smoothed(hostLoad, util) /\ ~guarded
  BY <1>2 DEF Smoothed
<1>3. QED
  BY <1>1, <1>2 DEF HostLoadsAfter

\* A sample that is over a threshold is over the resume threshold too.
LEMMA ThresholdFacts ==
  /\ SuppressThreshold \in 0 .. Full /\ SuppressResume \in 0 .. Full
  /\ SuppressThreshold > 0 => SuppressResume < SuppressThreshold
  /\ SuppressRunnableThreshold \in Int /\ SuppressRunnableResume \in Int
  /\ SuppressRunnableThreshold > 0 => SuppressRunnableResume < SuppressRunnableThreshold
<1>1. SuppressRunnableThreshold \in Int
  BY ConfigAssumption
<1>2. QED
  BY <1>1, ConfigAssumption, PoolAssumption DEF ValidSuppression

-----------------------------------------------------------------------------
(***************************************************************************)
(* The inductive invariant.  The safety invariants of the controller are   *)
(* inductive only together: that a resume runs the plan needs the plan's   *)
(* bounds, that the fallback state runs the fallback needs the plan to be  *)
(* in force, that the pool idles under suppression needs the dry-run rule. *)
(***************************************************************************)
IInv ==
  /\ TypeOK
  /\ SuppressedIsIdle
  /\ GuardHeld
  /\ SuppressionJustified
  /\ PlanInForce
  /\ TargetsInBounds
  /\ FallbackMeansFallbackTarget
  /\ StateExplained
  /\ RelaxedPollingEarned
  /\ StreakIsCurrent
  /\ GaugeLagsOnlyAfterFailure
  /\ DryRunNeverDrives

USE DEF Normal, Fallback, Suppressed, Interval, RelaxedInterval

\* The constructor establishes the invariant.
LEMMA InitEstablishes == Init => IInv
<1> SUFFICES ASSUME Init PROVE IInv
  OBVIOUS
<1> USE ConfigFacts, ThresholdFacts, PoolTargetRange, ConfigAssumption,
        PoolAssumption, InputAssumption DEF Init
<1>1. TypeOK
  <2>1. poolTarget \in 0 .. Full /\ poolPaused \in BOOLEAN
    <3>1. PoolTarget(FallbackTarget) \in 0 .. Full
      BY ConfigFacts, PoolTargetRange
    <3>2. 0 \in 0 .. Full
      BY PoolAssumption
    <3> QED
      BY <3>1, <3>2
  <2>2. target \in Int /\ desired \in TargetMin .. TargetMax
    OBVIOUS
  <2>3. 0 \in 0 .. Full /\ 0 \in 0 .. MaxSuccesses
    OBVIOUS
  <2> QED
    BY <2>1, <2>2, <2>3 DEF TypeOK
<1>2. SuppressedIsIdle /\ SuppressionJustified /\ DryRunNeverDrives
  BY DEF SuppressedIsIdle, SuppressionJustified, DryRunNeverDrives
<1>3. GuardHeld
  BY DEF GuardHeld, UtilisationHot, RunnablesHot
<1>4. PlanInForce /\ TargetsInBounds /\ FallbackMeansFallbackTarget
  BY DEF PlanInForce, TargetsInBounds, FallbackMeansFallbackTarget
<1>5. StateExplained /\ RelaxedPollingEarned /\ StreakIsCurrent /\ GaugeLagsOnlyAfterFailure
  BY DEF StateExplained, RelaxedPollingEarned, StreakIsCurrent, GaugeLagsOnlyAfterFailure
<1> QED
  BY <1>1, <1>2, <1>3, <1>4, <1>5 DEF IInv

\* Applying a duty cycle leaves the controller and the pool in agreement.
LEMMA ApplyTargetFacts ==
  ASSUME NEW t \in Int, TypeOK, DryRunNeverDrives, ApplyTarget(t)
  PROVE  /\ target' = t
         /\ poolTarget' \in 0 .. Full
         /\ Enforcing => poolTarget' = PoolTarget(target')
         /\ ~Enforcing => poolTarget' = 0
         /\ t = 0 => poolTarget' = 0
BY PoolTargetRange, ConfigAssumption DEF ApplyTarget, TypeOK, DryRunNeverDrives

\* A failed query preserves the invariant.
LEMMA StepFailsPreserves ==
  ASSUME IInv, StepFails
  PROVE  IInv'
<1> USE DEF IInv
<1>1. /\ slowState' = Fallback /\ lastErr' = TRUE /\ desired' = FallbackTarget
      /\ relaxedSuccesses' = 0 /\ relaxedGauge' = relaxedGauge
      /\ nextInterval' = Interval /\ interval' = interval /\ loop' = "stepped"
      /\ suppressed' = suppressed /\ hostLoad' = hostLoad
      /\ hostRunnable' = hostRunnable /\ lastEstErr' = lastEstErr
      /\ poolPaused' = poolPaused /\ lastP95' = lastP95
      /\ consuming' = consuming /\ cancelled' = cancelled
      /\ state' = IF suppressed THEN Suppressed ELSE Fallback
  BY FallbackUnclamped DEF StepFails, UpdateEffectiveState, IntervalAfterError, guardVars
<1>2. /\ suppressed => target' = target /\ poolTarget' = poolTarget
      /\ ~suppressed => ApplyTarget(FallbackTarget)
  BY FallbackUnclamped DEF StepFails, ApplyUnlessSuppressed
<1>3. /\ ~suppressed => target' = FallbackTarget
      /\ poolTarget' \in 0 .. Full
      /\ Enforcing => poolTarget' = PoolTarget(target')
      /\ ~Enforcing => poolTarget' = 0
  BY <1>2, ConfigFacts, ApplyTargetFacts DEF TypeOK, PlanInForce, DryRunNeverDrives
<1>4. TypeOK'
  BY <1>1, <1>2, <1>3, ConfigFacts, InputAssumption DEF TypeOK
<1>5. SuppressedIsIdle' /\ SuppressionJustified' /\ DryRunNeverDrives'
  BY <1>1, <1>2, <1>3, ConfigAssumption
     DEF SuppressedIsIdle, SuppressionJustified, DryRunNeverDrives
<1>6. GuardHeld'
  BY <1>1 DEF GuardHeld, UtilisationHot, RunnablesHot
<1>7. PlanInForce' /\ TargetsInBounds' /\ FallbackMeansFallbackTarget'
  BY <1>1, <1>2, <1>3, ConfigFacts
     DEF PlanInForce, TargetsInBounds, FallbackMeansFallbackTarget
<1>8. StateExplained' /\ RelaxedPollingEarned' /\ StreakIsCurrent' /\ GaugeLagsOnlyAfterFailure'
  BY <1>1 DEF StateExplained, RelaxedPollingEarned, StreakIsCurrent, GaugeLagsOnlyAfterFailure
<1> QED
  BY <1>4, <1>5, <1>6, <1>7, <1>8

\* The plan a successful step starts from is within the bounds: it is never
\* the zero the duty cycle shows during suppression.
LEMMA StepBaseFacts ==
  ASSUME IInv
  PROVE  /\ StepBase \in TargetMin .. TargetMax
         /\ desired # 0 => StepBase = desired
<1>1. desired \in TargetMin .. TargetMax
  BY DEF IInv, TypeOK
<1>2. ~suppressed => target \in TargetMin .. TargetMax /\ (desired # 0 => target = desired)
  BY DEF IInv, TargetsInBounds, PlanInForce
<1> QED
  BY <1>1, <1>2, ConfigFacts DEF StepBase, StartIfZero

\* A successful query preserves the invariant.
LEMMA StepSucceedsPreserves ==
  ASSUME IInv, NEW p95 \in P95s, StepSucceeds(p95)
  PROVE  IInv'
<1> USE DEF IInv
<1> DEFINE next == NextTarget(p95, StepBase)
<1>1. p95 \in Nat /\ next \in TargetMin .. TargetMax /\ next \in Int
  <2>1. p95 \in Nat /\ StepBase \in Int
    BY InputAssumption, StepBaseFacts, ConfigFacts
  <2> QED
    BY <2>1, NextTargetInBounds, ConfigFacts
<1>2. /\ slowState' = Normal /\ lastErr' = FALSE /\ lastP95' = p95 /\ desired' = next
      /\ interval' = interval /\ loop' = "stepped"
      /\ suppressed' = suppressed /\ hostLoad' = hostLoad
      /\ hostRunnable' = hostRunnable /\ lastEstErr' = lastEstErr
      /\ poolPaused' = poolPaused /\ consuming' = consuming /\ cancelled' = cancelled
      /\ state' = IF suppressed THEN Suppressed ELSE Normal
  BY DEF StepSucceeds, UpdateEffectiveState, guardVars
<1>3. /\ suppressed => target' = target /\ poolTarget' = poolTarget
      /\ ~suppressed => ApplyTarget(next)
  BY DEF StepSucceeds, ApplyUnlessSuppressed
<1> HIDE DEF next
<1>4. /\ ~suppressed => target' = next
      /\ poolTarget' \in 0 .. Full
      /\ Enforcing => poolTarget' = PoolTarget(target')
      /\ ~Enforcing => poolTarget' = 0
  BY <1>1, <1>3, ApplyTargetFacts DEF TypeOK, PlanInForce, DryRunNeverDrives
<1>5. /\ relaxedSuccesses' \in 0 .. MaxSuccesses
      /\ relaxedGauge' = relaxedSuccesses'
      /\ relaxedSuccesses' > 0 => ~suppressed /\ p95 >= RelaxedThreshold
      /\ nextInterval' \in {Interval, RelaxedInterval}
      /\ nextInterval' = RelaxedInterval =>
           p95 >= RelaxedThreshold /\ relaxedSuccesses' >= RelaxedConfirmations
  <2>1. relaxedSuccesses \in 0 .. MaxSuccesses /\ MaxSuccesses \in Nat
    BY InputAssumption DEF TypeOK
  <2> QED
    BY <2>1 DEF StepSucceeds, ChooseInterval
<1>6. TypeOK'
  BY <1>1, <1>2, <1>3, <1>4, <1>5 DEF TypeOK
<1>7. SuppressedIsIdle' /\ SuppressionJustified' /\ DryRunNeverDrives'
  BY <1>2, <1>3, <1>4 DEF SuppressedIsIdle, SuppressionJustified, DryRunNeverDrives
<1>8. GuardHeld'
  BY <1>2 DEF GuardHeld, UtilisationHot, RunnablesHot
<1>9. PlanInForce' /\ TargetsInBounds' /\ FallbackMeansFallbackTarget'
  BY <1>1, <1>2, <1>3, <1>4
     DEF PlanInForce, TargetsInBounds, FallbackMeansFallbackTarget
<1>10. StateExplained' /\ RelaxedPollingEarned' /\ StreakIsCurrent' /\ GaugeLagsOnlyAfterFailure'
  BY <1>2, <1>5 DEF StateExplained, RelaxedPollingEarned, StreakIsCurrent, GaugeLagsOnlyAfterFailure
<1> QED
  BY <1>6, <1>7, <1>8, <1>9, <1>10

\* What a resume restores is the plan, unless the plan is the zero that the
\* code takes for "no plan".
LEMMA RestoredTargetFacts ==
  ASSUME desired \in TargetMin .. TargetMax
  PROVE  /\ RestoredTarget \in TargetMin .. TargetMax
         /\ desired # 0 => RestoredTarget = desired
<1>1. StartIfZero(desired) \in TargetMin .. TargetMax
  BY ConfigFacts DEF StartIfZero
<1>2. RestoredTarget = StartIfZero(desired)
  BY <1>1, ConfigFacts, ClampInBounds DEF RestoredTarget
<1> QED
  BY <1>1, <1>2 DEF StartIfZero

\* A host sample preserves the invariant.
LEMMA ObserveSamplePreserves ==
  ASSUME IInv, NEW util \in Utils, NEW runnable \in Runnables,
         ObserveSample(util, runnable)
  PROVE  IInv'
<1> USE DEF IInv
<1> DEFINE guarded == GuardExceeded(util, runnable)
<1>1. util \in 0 .. Full /\ runnable \in Nat /\ guarded \in BOOLEAN
  BY InputAssumption DEF GuardExceeded
<1>2. /\ slowState' = slowState /\ desired' = desired /\ lastP95' = lastP95
      /\ lastErr' = lastErr /\ loop' = loop /\ interval' = interval
      /\ nextInterval' = nextInterval /\ consuming' = consuming
      /\ cancelled' = cancelled /\ lastEstErr' = FALSE
  BY DEF ObserveSample, slowLoop
<1>3. poolPaused' \in BOOLEAN /\ (~Enforcing => ~poolPaused')
  BY ConfigAssumption DEF ObserveSample, PoolObserves
<1>4. CASE SuppressionDisabled
  <2>1. /\ suppressed' = suppressed /\ hostLoad' = hostLoad
        /\ hostRunnable' = hostRunnable /\ target' = target
        /\ poolTarget' = poolTarget /\ state' = state
        /\ relaxedSuccesses' = relaxedSuccesses /\ relaxedGauge' = relaxedGauge
    BY <1>4 DEF ObserveSample, streak
  <2>2. TypeOK'
    BY <1>2, <1>3, <2>1, ZenonT(40) DEF TypeOK
  <2>3. SuppressedIsIdle' /\ SuppressionJustified' /\ DryRunNeverDrives'
    BY <1>3, <2>1 DEF SuppressedIsIdle, SuppressionJustified, DryRunNeverDrives
  <2>4. GuardHeld'
    BY <2>1 DEF GuardHeld, UtilisationHot, RunnablesHot
  <2>5. PlanInForce' /\ TargetsInBounds' /\ FallbackMeansFallbackTarget'
    BY <1>2, <2>1 DEF PlanInForce, TargetsInBounds, FallbackMeansFallbackTarget
  <2>6. StateExplained' /\ RelaxedPollingEarned' /\ StreakIsCurrent' /\ GaugeLagsOnlyAfterFailure'
    BY <1>2, <2>1 DEF StateExplained, RelaxedPollingEarned, StreakIsCurrent,
                      GaugeLagsOnlyAfterFailure
  <2> QED
    BY <2>2, <2>3, <2>4, <2>5, <2>6
<1>5. CASE ~SuppressionDisabled
  <2>1. /\ hostLoad' \in HostLoadsAfter(util, guarded)
        /\ hostRunnable' = runnable
        /\ suppressed' = SuppressedAfter(guarded, hostLoad', runnable)
        /\ ResetOnTransition
        /\ ApplySuppressionTargets
        /\ state' = IF suppressed' THEN Suppressed ELSE slowState
    BY <1>2, <1>5 DEF ObserveSample, UpdateEffectiveState
  <2>2. hostLoad' \in 0 .. Full /\ (guarded => hostLoad' = util)
    BY <1>1, <2>1, HostLoadsBetween DEF TypeOK
  <2>3. suppressed' \in BOOLEAN
    BY <1>1, <2>1 DEF SuppressedAfter, ShouldResume, UtilisationHot, RunnablesHot, TypeOK
  <2>4. /\ suppressed' => target' = 0 /\ poolTarget' = 0
        /\ ~suppressed' => /\ target' \in TargetMin .. TargetMax
                           /\ desired # 0 => target' = desired
        /\ poolTarget' \in 0 .. Full
        /\ Enforcing => poolTarget' = PoolTarget(target')
        /\ ~Enforcing => poolTarget' = 0
    <3>1. CASE suppressed'
      <4>1. ApplyTarget(0)
        BY <2>1, <3>1 DEF ApplySuppressionTargets
      <4> QED
        BY <3>1, <4>1, ApplyTargetFacts
    <3>2. CASE ~suppressed' /\ suppressed
      <4>1. ApplyTarget(RestoredTarget)
        BY <2>1, <3>2 DEF ApplySuppressionTargets
      <4>2. /\ RestoredTarget \in TargetMin .. TargetMax /\ RestoredTarget \in Int
            /\ desired # 0 => RestoredTarget = desired
        BY RestoredTargetFacts, ConfigFacts DEF TypeOK
      <4> QED
        BY <3>2, <4>1, <4>2, ApplyTargetFacts
    <3>3. CASE ~suppressed' /\ ~suppressed
      <4>1. target' = target /\ poolTarget' = poolTarget
        BY <2>1, <3>3 DEF ApplySuppressionTargets
      <4> QED
        BY <3>3, <4>1 DEF TypeOK, PlanInForce, TargetsInBounds, DryRunNeverDrives
    <3> QED
      BY <3>1, <3>2, <3>3
  <2>5. /\ suppressed' # suppressed => relaxedSuccesses' = 0 /\ relaxedGauge' = 0
        /\ suppressed' = suppressed =>
             relaxedSuccesses' = relaxedSuccesses /\ relaxedGauge' = relaxedGauge
    BY <2>1 DEF ResetOnTransition, streak
  <2>6. GuardHeld'
    BY <1>1, <2>1, <2>2, ThresholdFacts
       DEF GuardHeld, SuppressedAfter, ShouldResume, UtilisationCooled,
           RunnablesCooled, UtilisationHot, RunnablesHot
  <2>7. SuppressionJustified'
    <3>1. suppressed' => \/ GuardExceeded(util, runnable)
                         \/ UtilisationHot(hostLoad') \/ RunnablesHot(runnable)
                         \/ ~UtilisationCooled(hostLoad') \/ ~RunnablesCooled(runnable)
      BY <2>1 DEF SuppressedAfter, ShouldResume
    <3>2. GuardExceeded(util, runnable) => UtilisationHot(hostLoad') \/ RunnablesHot(runnable)
      BY <2>2 DEF GuardExceeded, UtilisationHot, RunnablesHot
    <3>3. UtilisationHot(hostLoad') \/ ~UtilisationCooled(hostLoad') =>
            SuppressThreshold > 0 /\ hostLoad' > SuppressResume
      BY <2>2, ThresholdFacts DEF UtilisationHot, UtilisationCooled
    <3>4. RunnablesHot(runnable) \/ ~RunnablesCooled(runnable) =>
            SuppressRunnableThreshold > 0 /\ runnable > SuppressRunnableResume
      BY <1>1, ThresholdFacts DEF RunnablesHot, RunnablesCooled
    <3> QED
      BY <2>1, <3>1, <3>2, <3>3, <3>4 DEF SuppressionJustified
  <2>8. TypeOK'
    <3>1. 0 \in 0 .. MaxSuccesses
      BY InputAssumption
    <3>2. target' \in Int
      BY <2>3, <2>4, ConfigFacts
    <3> QED
      BY <1>1, <1>2, <1>3, <2>1, <2>2, <2>3, <2>4, <2>5, <3>1, <3>2, ZenonT(40) DEF TypeOK
  <2>9. SuppressedIsIdle' /\ DryRunNeverDrives'
    BY <1>3, <2>4 DEF SuppressedIsIdle, DryRunNeverDrives
  <2>10. PlanInForce' /\ TargetsInBounds' /\ FallbackMeansFallbackTarget'
    BY <1>2, <2>1, <2>4, ConfigFacts
       DEF PlanInForce, TargetsInBounds, FallbackMeansFallbackTarget, TypeOK
  <2>11. StateExplained' /\ RelaxedPollingEarned' /\ StreakIsCurrent' /\ GaugeLagsOnlyAfterFailure'
    BY <1>2, <2>1, <2>3, <2>5
       DEF StateExplained, RelaxedPollingEarned, StreakIsCurrent, GaugeLagsOnlyAfterFailure, TypeOK
  <2> QED
    BY <2>6, <2>7, <2>8, <2>9, <2>10, <2>11
<1> QED
  BY <1>4, <1>5

\* The actions that touch neither the duty cycle nor the guard.
LEMMA BookkeepingPreserves ==
  ASSUME IInv,
         \/ StartRun \/ Tick \/ StoreInterval \/ StopLoop
         \/ ObserveError \/ StopConsuming \/ Cancel \/ UNCHANGED vars
  PROVE  IInv'
<1> USE DEF IInv
<1>1. /\ slowState' = slowState /\ suppressed' = suppressed /\ target' = target
      /\ desired' = desired /\ lastP95' = lastP95 /\ lastErr' = lastErr
      /\ hostLoad' = hostLoad /\ hostRunnable' = hostRunnable
      /\ relaxedSuccesses' = relaxedSuccesses /\ relaxedGauge' = relaxedGauge
      /\ poolTarget' = poolTarget /\ poolPaused' = poolPaused
      /\ nextInterval' = nextInterval
  BY DEF StartRun, Tick, StoreInterval, StopLoop, ObserveError, StopConsuming, Cancel,
         vars, decision, guardVars, streak, slowLoop, pool
<1>2. state' = IF suppressed THEN Suppressed ELSE slowState
  BY DEF StartRun, Tick, StoreInterval, StopLoop, ObserveError, StopConsuming, Cancel,
         vars, decision, guardVars, UpdateEffectiveState, StateExplained
<1>3. /\ lastEstErr' \in BOOLEAN /\ consuming' \in BOOLEAN /\ cancelled' \in BOOLEAN
      /\ loop' \in {"starting", "querying", "stepped", "waiting", "returned"}
      /\ interval' \in {Interval, RelaxedInterval}
  BY DEF StartRun, Tick, StoreInterval, StopLoop, ObserveError, StopConsuming, Cancel,
         vars, guardVars, slowLoop, TypeOK
<1>4. (IF loop' = "stepped" THEN nextInterval' ELSE interval')
        = (IF loop = "stepped" THEN nextInterval ELSE interval)
  BY DEF StartRun, Tick, StoreInterval, StopLoop, ObserveError, StopConsuming, Cancel,
         vars, slowLoop
<1>5. TypeOK' /\ SuppressedIsIdle' /\ SuppressionJustified' /\ DryRunNeverDrives'
  BY <1>1, <1>2, <1>3
     DEF TypeOK, SuppressedIsIdle, SuppressionJustified, DryRunNeverDrives
<1>6. GuardHeld'
  BY <1>1 DEF GuardHeld, UtilisationHot, RunnablesHot
<1>7. PlanInForce' /\ TargetsInBounds' /\ FallbackMeansFallbackTarget'
  BY <1>1, <1>2
     DEF PlanInForce, TargetsInBounds, FallbackMeansFallbackTarget, StateExplained
<1>8. StateExplained' /\ RelaxedPollingEarned' /\ StreakIsCurrent' /\ GaugeLagsOnlyAfterFailure'
  BY <1>1, <1>2, <1>4 DEF StateExplained, RelaxedPollingEarned, StreakIsCurrent,
                          GaugeLagsOnlyAfterFailure
<1> QED
  BY <1>5, <1>6, <1>7, <1>8

-----------------------------------------------------------------------------
\* Every critical section preserves the invariant, in every interleaving.
THEOREM Safety == Spec => []IInv
<1>1. IInv /\ [Next]_vars => IInv'
  <2> SUFFICES ASSUME IInv, [Next]_vars PROVE IInv'
    OBVIOUS
  <2>1. CASE StepFails
    BY <2>1, StepFailsPreserves
  <2>2. CASE \E p95 \in P95s : StepSucceeds(p95)
    BY <2>2, StepSucceedsPreserves
  <2>3. CASE \E util \in Utils, runnable \in Runnables : ObserveSample(util, runnable)
    BY <2>3, ObserveSamplePreserves
  <2>4. CASE \/ StartRun \/ Tick \/ StoreInterval \/ StopLoop
             \/ ObserveError \/ StopConsuming \/ Cancel \/ UNCHANGED vars
    BY <2>4, BookkeepingPreserves
  <2> QED
    BY <2>1, <2>2, <2>3, <2>4 DEF Next, SlowLoop, FastLoop, Terminated
<1> QED
  BY <1>1, InitEstablishes, PTL DEF Spec

\* The type invariant.
THEOREM TypeCorrect == Spec => []TypeOK
BY Safety, PTL DEF IInv

\* Suppression is never off over a threshold, and never on once both readings
\* are at or below their resume thresholds.
THEOREM SuppressionIsRight == Spec => []SuppressionMatchesHost
<1>1. IInv => SuppressionMatchesHost
  BY DEF IInv, SuppressionMatchesHost
<1> QED
  BY <1>1, Safety, PTL

\* No step of the slow loop gives the pool work during suppression; outside it
\* the plan is in force, within the bounds, and the fallback after a failure.
THEOREM DutyIsRight == Spec => []DutyInForce
<1>1. IInv => DutyInForce
  BY DEF IInv, DutyInForce
<1> QED
  BY <1>1, Safety, PTL

\* The reported state is the one the flags imply.
THEOREM StateHolds == Spec => []StateExplained
BY Safety, PTL DEF IInv

\* The slow cadence is earned by completed confirmations and the last query, no
\* confirmation survives a failure, a low sample or a change of suppression, and
\* their gauge lags only after a failure.  (A cadence once earned does survive a
\* change of suppression, until the next query.)
THEOREM CadenceIsEarned == Spec => []CadenceEarned
<1>1. IInv => CadenceEarned
  BY DEF IInv, CadenceEarned
<1> QED
  BY <1>1, Safety, PTL

\* Dry-run leaves the pool alone.
THEOREM DryRunHolds == Spec => []DryRunNeverDrives
BY Safety, PTL DEF IInv

-----------------------------------------------------------------------------
\* A guard sample stops the controller and the pool within one handler.
THEOREM GuardSampleStops == Spec => GuardSampleStopsWork
<1> DEFINE Stops(util, runnable) ==
      GuardExceeded(util, runnable) /\ ObserveSample(util, runnable) =>
        suppressed' /\ poolTarget' = 0 /\ (Enforcing /\ AlignedPool => poolPaused')
<1>1. ASSUME IInv, NEW util \in Utils, NEW runnable \in Runnables
      PROVE  Stops(util, runnable)
  <2> SUFFICES ASSUME GuardExceeded(util, runnable), ObserveSample(util, runnable)
               PROVE  /\ suppressed'
                      /\ poolTarget' = 0
                      /\ Enforcing /\ AlignedPool => poolPaused'
    OBVIOUS
  <2>1. ~SuppressionDisabled
    BY ThresholdFacts DEF GuardExceeded, SuppressionDisabled
  <2>2. suppressed'
    BY <2>1 DEF ObserveSample, SuppressedAfter
  <2>3. ApplyTarget(0)
    BY <2>1, <2>2 DEF ObserveSample, ApplySuppressionTargets
  <2>4. poolTarget' = 0
    BY <1>1, <2>3, ApplyTargetFacts DEF IInv
  <2>5. ASSUME Enforcing, AlignedPool PROVE poolPaused'
    BY <2>5 DEF ObserveSample, PoolObserves, PausedAfter, AlignedPool,
                GuardExceeded, RunnableGuardHit
  <2> QED
    BY <2>2, <2>4, <2>5
<1>2. IInv => [\A util \in Utils, runnable \in Runnables : Stops(util, runnable)]_vars
  BY <1>1
<1>3. QED
  BY <1>2, Safety, PTL DEF GuardSampleStopsWork

\* Only a sample that is itself over a threshold begins a suppression: the
\* average stays between a load below the threshold and the sample.
THEOREM EntryIsImmediate == Spec => EntryNeedsGuardSample
<1> DEFINE Guard == \E util \in Utils, runnable \in Runnables :
                      GuardExceeded(util, runnable) /\ ObserveSample(util, runnable)
<1>1. ASSUME IInv, [Next]_vars, ~suppressed, suppressed'
      PROVE  Guard
  <2>1. PICK util \in Utils, runnable \in Runnables : ObserveSample(util, runnable)
    BY <1>1 DEF Next, SlowLoop, FastLoop, Terminated, StartRun, Tick, StepFails,
                StepSucceeds, StoreInterval, StopLoop, ObserveError, StopConsuming,
                Cancel, vars, guardVars
  <2>2. util \in 0 .. Full /\ GuardExceeded(util, runnable) \in BOOLEAN
    BY InputAssumption DEF GuardExceeded
  <2>3. /\ hostLoad' \in HostLoadsAfter(util, GuardExceeded(util, runnable))
        /\ suppressed' = SuppressedAfter(GuardExceeded(util, runnable), hostLoad', runnable)
    BY <1>1, <2>1 DEF ObserveSample
  <2>4. \/ GuardExceeded(util, runnable)
        \/ UtilisationHot(hostLoad')
        \/ RunnablesHot(runnable)
    BY <1>1, <2>3 DEF SuppressedAfter
  <2>5. ~UtilisationHot(hostLoad) /\ hostLoad \in 0 .. Full
    BY <1>1 DEF IInv, GuardHeld, TypeOK
  <2>6. UtilisationHot(hostLoad') => UtilisationHot(util)
    <3>1. \/ hostLoad' = util
          \/ hostLoad <= hostLoad' /\ hostLoad' <= util
          \/ util <= hostLoad' /\ hostLoad' <= hostLoad
      BY <2>2, <2>3, <2>5, HostLoadsBetween
    <3>2. hostLoad' \in 0 .. Full
      BY <2>2, <2>3, <2>5, HostLoadsBetween
    <3> QED
      BY <2>2, <2>5, <3>1, <3>2, ThresholdFacts, PoolAssumption DEF UtilisationHot
  <2>7. GuardExceeded(util, runnable)
    BY <2>4, <2>6 DEF GuardExceeded, UtilisationHot, RunnablesHot
  <2> QED
    BY <2>1, <2>7
<1>2. IInv /\ [Next]_vars => [~suppressed /\ suppressed' => Guard]_vars
  BY <1>1
<1>3. QED
  BY <1>2, Safety, PTL DEF Spec, EntryNeedsGuardSample

-----------------------------------------------------------------------------
\* The controller implements the governor, provided the plan cannot be zero:
\* the code takes a zero plan for "no plan" and starts over at TargetStart.
THEOREM Refinement ==
  ASSUME TargetMin > 0
  PROVE  Spec => ImplementsGovernor
<1>1. Init => Governor!Init
  BY DEF Init, Governor!Init
<1>2. ASSUME IInv, [Next]_vars
      PROVE  [Governor!Next]_(Governor!govVars)
  <2>1. /\ desired \in TargetMin .. TargetMax /\ desired # 0
        /\ suppressed \in BOOLEAN
    BY <1>2, ConfigFacts DEF IInv, TypeOK
  <2>2. CASE StepFails
    <3>1. /\ desired' = FallbackTarget /\ suppressed' = suppressed
          /\ suppressed => target' = target
          /\ ~suppressed => target' = FallbackTarget
      BY <2>2, FallbackUnclamped
         DEF StepFails, ApplyUnlessSuppressed, ApplyTarget, guardVars
    <3>2. suppressed => target = 0
      BY <1>2 DEF IInv, SuppressedIsIdle
    <3>3. Governor!Replan
      BY <3>1, <3>2, <2>1, ConfigFacts DEF Governor!Replan
    <3> QED
      BY <3>3 DEF Governor!Next
  <2>3. CASE \E p95 \in P95s : StepSucceeds(p95)
    <3>1. PICK p95 \in P95s : StepSucceeds(p95)
      BY <2>3
    <3> DEFINE next == NextTarget(p95, StepBase)
    <3>2. StepBase = desired
      BY <1>2, <2>1, StepBaseFacts
    <3>3. /\ next \in TargetMin .. TargetMax
          /\ desired - StepDown <= next /\ next <= desired + StepUp
      <4>1. p95 \in Nat /\ desired \in Int
        BY <2>1, ConfigFacts, InputAssumption
      <4> QED
        BY <4>1, <3>2, <2>1, NextTargetInBounds
    <3>4. /\ desired' = next /\ suppressed' = suppressed
          /\ suppressed => target' = target
          /\ ~suppressed => target' = next
      BY <3>1 DEF StepSucceeds, ApplyUnlessSuppressed, ApplyTarget, guardVars
    <3>5. suppressed => target = 0
      BY <1>2 DEF IInv, SuppressedIsIdle
    <3> HIDE DEF next
    <3>6. Governor!Replan
      BY <3>3, <3>4, <3>5, <2>1 DEF Governor!Replan
    <3> QED
      BY <3>6 DEF Governor!Next
  <2>4. CASE \E util \in Utils, runnable \in Runnables : ObserveSample(util, runnable)
    <3>1. PICK util \in Utils, runnable \in Runnables : ObserveSample(util, runnable)
      BY <2>4
    <3>2. desired' = desired
      BY <3>1 DEF ObserveSample
    <3>3. CASE SuppressionDisabled
      BY <3>1, <3>2, <3>3 DEF ObserveSample, Governor!govVars
    <3>4. CASE ~SuppressionDisabled
      <4>1. ApplySuppressionTargets /\ suppressed' \in BOOLEAN
        BY <3>1, <3>4, <2>1
           DEF ObserveSample, SuppressedAfter, ShouldResume, GuardExceeded,
               UtilisationHot, RunnablesHot, UtilisationCooled, RunnablesCooled
      <4>2. CASE suppressed'
        BY <3>2, <4>1, <4>2
           DEF ApplySuppressionTargets, ApplyTarget, Governor!Next, Governor!Hold
      <4>3. CASE ~suppressed' /\ suppressed
        <5>1. target' = desired
          BY <2>1, <4>1, <4>3, RestoredTargetFacts DEF ApplySuppressionTargets, ApplyTarget
        <5> QED
          BY <3>2, <4>1, <4>3, <5>1 DEF Governor!Next, Governor!Release
      <4>4. CASE ~suppressed' /\ ~suppressed
        BY <2>1, <3>2, <4>1, <4>4 DEF ApplySuppressionTargets, Governor!govVars
      <4> QED
        BY <4>2, <4>3, <4>4
    <3> QED
      BY <3>3, <3>4
  <2>5. CASE \/ StartRun \/ Tick \/ StoreInterval \/ StopLoop
             \/ ObserveError \/ StopConsuming \/ Cancel \/ UNCHANGED vars
    BY <2>5 DEF StartRun, Tick, StoreInterval, StopLoop, ObserveError, StopConsuming,
                Cancel, vars, decision, guardVars, Governor!govVars
  <2> QED
    BY <1>2, <2>2, <2>3, <2>4, <2>5 DEF Next, SlowLoop, FastLoop, Terminated
<1>3. QED
  BY <1>1, <1>2, Safety, PTL DEF Spec, ImplementsGovernor, Governor!Spec

-----------------------------------------------------------------------------
(***************************************************************************)
(* The controller under observation.  The recorder, the exporter and the   *)
(* probe only look: hidden, they leave a behaviour of the controller, so   *)
(* all that is proved above holds of the observed controller too.          *)
(***************************************************************************)

\* A step of the observed controller is a step of the controller or none.
LEMMA HandlerSteps ==
  ASSUME [TelemetryNext]_allVars
  PROVE  [Next]_vars
<1>1. CASE Handle
  BY <1>1 DEF Handle, Handlers, Next, SlowLoop, FastLoop
<1>2. CASE Record \/ ProbeReads \/ UNCHANGED allVars
  BY <1>2 DEF Record, ProbeReads, allVars
<1> QED
  BY <1>1, <1>2 DEF TelemetryNext

\* The observed controller implements the controller.
THEOREM Observed == TelemetrySpec => Spec
<1>1. TelemetryInit => Init
  BY DEF TelemetryInit
<1> QED
  BY <1>1, HandlerSteps, PTL DEF TelemetrySpec, Spec

\* Nobody drives the pool in dry-run, observed or not.
THEOREM ObservedDryRun == TelemetrySpec => []DryRunNeverDrives
BY Observed, DryRunHolds, PTL

-----------------------------------------------------------------------------
(***************************************************************************)
(* What the pending calls say.  A handler ends before its calls are made,  *)
(* so between them a gauge is either current or about to become so, and    *)
(* every pending call carries the controller's present value.              *)
(***************************************************************************)
Gauges == {"state", "target", "interval", "error", "relaxed", "p95", "host"}

GaugeRecords ==
  [state : {Normal, Fallback, Suppressed}, target : 0 .. Full,
   interval : {Interval, RelaxedInterval}, error : BOOLEAN,
   relaxed : Nat, p95 : Nat, epoch : {0, 1}, host : 0 .. Full]

Members(list) == {list[i] : i \in 1 .. Len(list)}

IsList(list) == list \in Seq(Members(list))

\* A list of one call or none.
Tells(list, gauge, value) ==
  /\ IsList(list) /\ Len(list) \in 0 .. 1
  /\ \A call \in Members(list) : call.gauge = gauge /\ call.value = value

Pending(gauge) == \E call \in Members(calls) : call.gauge = gauge

Says(gauge, value) == \A call \in Members(calls) : call.gauge = gauge => call.value = value

\* Every pending call sets a gauge, to what the controller holds now.
Truthful ==
  /\ IsList(calls)
  /\ \A call \in Members(calls) : call.gauge \in Gauges
  /\ Says("state", state)
  /\ Says("error", lastErr)
  /\ Says("p95", lastP95)
  /\ Says("interval", nextInterval)
  /\ Says("relaxed", relaxedGauge)
  /\ Says("target", target)
  /\ \A call \in Members(calls) : call.gauge = "host" => call.value \in 0 .. Full

\* What no pending call will set is current already.
GaugesFollow ==
  /\ gauges \in GaugeRecords
  /\ Pending("state") \/ gauges.state = state
  /\ Pending("error") \/ gauges.error = lastErr
  /\ Pending("p95") \/ gauges.p95 = lastP95
  /\ Pending("interval") \/ gauges.interval = nextInterval
  /\ Pending("relaxed") \/ gauges.relaxed = relaxedGauge
  /\ Pending("target") \/ gauges.target = Shown(target)

\* The same of the log, up to the changes too small for it.
LogFollows ==
  /\ DOMAIN logged = {"state", "target", "interval", "error", "p95", "host"}
  /\ logged.target \in Int /\ logged.host \in Int /\ logged.p95 \in Int
  /\ Pending("state") \/ logged.state = state
  /\ Pending("error") \/ logged.error = lastErr
  /\ Pending("interval") \/ logged.interval = nextInterval
  /\ Pending("target") \/ Near(logged.target, target, TargetDelta)
  /\ logged.host # Never => Near(logged.host, gauges.host, HostDelta)
  /\ logged.p95 # Never => Near(logged.p95, gauges.p95, P95Delta)

\* The fallback comes from a failed query, or no query has succeeded yet.
FallbackExplained ==
  slowState = Fallback /\ ~lastErr => gauges.epoch = 0 /\ ~Pending("p95")

\* What the probe has read since the last query ended still holds.
ProbeFollows ==
  /\ DOMAIN probe = {"stage", "state", "error", "estimator"}
  /\ probe.stage \in {"idle", "state", "error", "done"}
  /\ ~torn =>
       /\ probe.stage # "idle" /\ probe.state # Suppressed => probe.state = slowState
       /\ probe.stage \in {"error", "done"} => probe.error = lastErr
  /\ probe.state \in {Normal, Fallback, Suppressed}

TellInv ==
  /\ Len(calls) <= 6
  /\ Truthful
  /\ GaugesFollow
  /\ LogFollows
  /\ FallbackExplained
  /\ ProbeFollows

-----------------------------------------------------------------------------
(***************************************************************************)
(* Facts about lists of calls.                                             *)
(***************************************************************************)

\* One call.
LEMMA ToldOne ==
  ASSUME NEW gauge, NEW value
  PROVE  Tells(Told(gauge, value), gauge, value) /\ Members(Told(gauge, value)) # {}
<1> DEFINE call == [gauge |-> gauge, value |-> value]
<1>1. call.gauge = gauge /\ call.value = value
  OBVIOUS
<1> HIDE DEF call
<1>2. /\ <<call>> \in Seq({call}) /\ Len(<<call>>) = 1 /\ <<call>>[1] = call
  OBVIOUS
<1>3. Members(<<call>>) = {call}
  BY <1>2 DEF Members
<1>4. Told(gauge, value) = <<call>>
  BY DEF Told, call
<1> QED
  BY <1>1, <1>2, <1>3, <1>4 DEF IsList, Tells

\* No call.
LEMMA ToldNone == IsList(<<>>) /\ Len(<<>>) = 0 /\ Members(<<>>) = {}
<1>1. Len(<<>>) = 0
  OBVIOUS
<1>2. Members(<<>>) = {}
  BY <1>1 DEF Members
<1> QED
  BY <1>1, <1>2, EmptySeq DEF IsList

\* Calls made one after the other.
LEMMA ToldBoth ==
  ASSUME NEW s, NEW t, IsList(s), IsList(t)
  PROVE  /\ IsList(s \o t)
         /\ Len(s \o t) = Len(s) + Len(t)
         /\ Members(s \o t) = Members(s) \union Members(t)
<1> DEFINE All == Members(s) \union Members(t)
<1>1. s \in Seq(All) /\ t \in Seq(All)
  <2>1. s \in Seq(Members(s)) /\ t \in Seq(Members(t))
    BY DEF IsList
  <2>2. Members(s) \subseteq All /\ Members(t) \subseteq All
    OBVIOUS
  <2> HIDE DEF All
  <2> QED
    BY <2>1, <2>2
<1>2. /\ s \o t \in Seq(All) /\ Len(s) \in Nat /\ Len(t) \in Nat
      /\ Len(s \o t) = Len(s) + Len(t)
      /\ \A i \in 1 .. Len(s) + Len(t) :
           (s \o t)[i] = IF i <= Len(s) THEN s[i] ELSE t[i - Len(s)]
  <2> HIDE DEF All
  <2> QED
    BY <1>1, ConcatProperties
<1>3. Members(s \o t) \subseteq All
  <2> SUFFICES ASSUME NEW i \in 1 .. Len(s) + Len(t) PROVE (s \o t)[i] \in All
    BY <1>2 DEF Members
  <2> QED
    BY <1>2 DEF Members
<1>4. All \subseteq Members(s \o t)
  <2>1. ASSUME NEW i \in 1 .. Len(s) PROVE s[i] \in Members(s \o t)
    <3>1. i \in 1 .. Len(s \o t) /\ (s \o t)[i] = s[i]
      BY <1>2
    <3> QED
      BY <3>1 DEF Members
  <2>2. ASSUME NEW i \in 1 .. Len(t) PROVE t[i] \in Members(s \o t)
    <3>1. /\ Len(s) + i \in 1 .. Len(s \o t)
          /\ (s \o t)[Len(s) + i] = t[(Len(s) + i) - Len(s)]
          /\ (Len(s) + i) - Len(s) = i
      BY <1>2
    <3> QED
      BY <3>1 DEF Members
  <2> QED
    BY <2>1, <2>2 DEF Members
<1>5. Members(s \o t) = All
  BY <1>3, <1>4
<1> QED
  BY <1>2, <1>5 DEF IsList

\* Four calls, or four such lists.
LEMMA ToldFour ==
  ASSUME NEW a, NEW b, NEW c, NEW d, IsList(a), IsList(b), IsList(c), IsList(d),
         Len(a) \in 0 .. 1, Len(b) \in 0 .. 1, Len(c) \in 0 .. 1, Len(d) \in 0 .. 1
  PROVE  /\ IsList(((a \o b) \o c) \o d)
         /\ Len(((a \o b) \o c) \o d) \in 0 .. 4
         /\ Members(((a \o b) \o c) \o d) =
              Members(a) \union Members(b) \union Members(c) \union Members(d)
<1>1. /\ IsList(a \o b) /\ Len(a \o b) = Len(a) + Len(b)
      /\ Members(a \o b) = Members(a) \union Members(b)
  BY ToldBoth
<1>2. /\ IsList((a \o b) \o c) /\ Len((a \o b) \o c) = Len(a \o b) + Len(c)
      /\ Members((a \o b) \o c) = Members(a \o b) \union Members(c)
  BY <1>1, ToldBoth
<1>3. /\ IsList(((a \o b) \o c) \o d)
      /\ Len(((a \o b) \o c) \o d) = Len((a \o b) \o c) + Len(d)
      /\ Members(((a \o b) \o c) \o d) = Members((a \o b) \o c) \union Members(d)
  BY <1>2, ToldBoth
<1>4. Len(((a \o b) \o c) \o d) \in 0 .. 4
  <2>1. Len(((a \o b) \o c) \o d) = Len(a) + Len(b) + Len(c) + Len(d)
    BY <1>1, <1>2, <1>3
  <2>2. \A w, x, y, z \in 0 .. 1 : w + x + y + z \in 0 .. 4
    OBVIOUS
  <2>3. Len(a) + Len(b) + Len(c) + Len(d) \in 0 .. 4
    BY <2>2
  <2> QED
    BY <2>1, <2>3, Zenon
<1>5. Members(((a \o b) \o c) \o d) =
        Members(a) \union Members(b) \union Members(c) \union Members(d)
  BY <1>1, <1>2, <1>3
<1> QED
  BY <1>3, <1>4, <1>5

\* The first call is made, the others stay.
LEMMA ToldFirst ==
  ASSUME NEW s, IsList(s), s # <<>>
  PROVE  /\ IsList(Tail(s))
         /\ Len(Tail(s)) <= Len(s)
         /\ Members(s) = {Head(s)} \union Members(Tail(s))
<1>1. s \in Seq(Members(s))
  BY DEF IsList
<1>2. /\ Len(s) \in Nat \ {0} /\ Len(Tail(s)) = Len(s) - 1
      /\ Head(s) = s[1]
      /\ \A i \in 1 .. Len(s) - 1 : Tail(s)[i] = s[i + 1]
      /\ Tail(s) \in Seq(Members(s))
  <2> DEFINE S == Members(s)
  <2>1. s \in Seq(S)
    BY <1>1
  <2> HIDE DEF S
  <2>2. /\ Len(s) \in Nat \ {0} /\ Len(Tail(s)) = Len(s) - 1
        /\ Head(s) = s[1]
        /\ \A i \in 1 .. Len(s) - 1 : Tail(s)[i] = s[i + 1]
        /\ Tail(s) \in Seq(S)
    BY <2>1, EmptySeq, LenProperties, HeadTailProperties
  <2> QED
    BY <2>2 DEF S
<1>3. Members(Tail(s)) \subseteq Members(s) /\ Head(s) \in Members(s)
  BY <1>2 DEF Members
<1>4. Members(s) \subseteq {Head(s)} \union Members(Tail(s))
  <2> SUFFICES ASSUME NEW i \in 1 .. Len(s), i # 1 PROVE s[i] \in Members(Tail(s))
    BY <1>2 DEF Members
  <2>1. i - 1 \in 1 .. Len(s) - 1 /\ (i - 1) + 1 = i
    BY <1>2
  <2> QED
    BY <1>2, <2>1 DEF Members
<1>5. IsList(Tail(s))
  <2> DEFINE rest == Tail(s)
             S == Members(s)
             R == Members(rest)
  <2>1. rest \in Seq(S) /\ \A i \in 1 .. Len(rest) : rest[i] \in R
    BY <1>2 DEF Members
  <2> HIDE DEF rest, S, R
  <2>2. rest \in Seq(R)
    BY <2>1
  <2> QED
    BY <2>2 DEF rest, R, IsList
<1> QED
  BY <1>2, <1>3, <1>4, <1>5

\* The call made only when a handler has applied a target.
LEMMA TargetToldOrNot ==
  ASSUME NEW applied \in BOOLEAN
  PROVE  /\ Tells(TargetCalls(applied), "target", target')
         /\ applied => Members(TargetCalls(applied)) # {}
<1>1. CASE applied
  BY <1>1, ToldOne DEF TargetCalls
<1>2. CASE ~applied
  BY <1>2, ToldNone DEF TargetCalls, Tells
<1> QED
  BY <1>1, <1>2

-----------------------------------------------------------------------------
(***************************************************************************)
(* What each handler tells: all that it changes, and nothing else.         *)
(***************************************************************************)
Untold(gauge) == ~Pending(gauge)'

TellsChanges ==
  /\ Len(calls') <= 6
  /\ Truthful'
  /\ Untold("state") => state' = state
  /\ Untold("error") => lastErr' = lastErr
  /\ Untold("p95") => lastP95' = lastP95
  /\ Untold("interval") => nextInterval' = nextInterval
  /\ Untold("relaxed") => relaxedGauge' = relaxedGauge
  /\ Untold("target") => target' = target
  /\ slowState' = Fallback /\ ~lastErr' => slowState = Fallback /\ ~lastErr /\ Untold("p95")
  /\ torn' \/ (torn' = torn /\ slowState' = slowState /\ lastErr' = lastErr)

\* A failed query.
LEMMA StepFailsTells ==
  ASSUME IInv, StepFails, calls' = StepFailsCalls, Tear
  PROVE  TellsChanges
<1>0. /\ lastErr' = TRUE /\ lastP95' = lastP95 /\ relaxedGauge' = relaxedGauge
      /\ suppressed => target' = target
  BY DEF StepFails, ApplyUnlessSuppressed
<1>1. Told("error", TRUE) = Told("error", lastErr')
  BY <1>0, Zenon
<1>2. /\ Tells(TargetCalls(~suppressed), "target", target')
      /\ ~suppressed => Members(TargetCalls(~suppressed)) # {}
  BY TargetToldOrNot DEF IInv, TypeOK
<1>t. /\ Tells(Told("state", state'), "state", state')
      /\ Members(Told("state", state')) # {}
      /\ Tells(Told("interval", nextInterval'), "interval", nextInterval')
      /\ Members(Told("interval", nextInterval')) # {}
  BY ToldOne
<1>a. Tells(Told("error", TRUE), "error", lastErr') /\ Members(Told("error", TRUE)) # {}
  BY <1>1, ToldOne, Zenon
<1>3. PICK a, b, c, d :
        /\ calls' = ((a \o b) \o c) \o d
        /\ Tells(a, "error", lastErr') /\ Members(a) # {}
        /\ Tells(b, "target", target') /\ (~suppressed => Members(b) # {})
        /\ Tells(c, "state", state') /\ Members(c) # {}
        /\ Tells(d, "interval", nextInterval') /\ Members(d) # {}
  BY <1>a, <1>2, <1>t, Zenon DEF StepFailsCalls
<1>5. /\ IsList(calls') /\ Len(calls') <= 6
      /\ Members(calls') = Members(a) \union Members(b) \union Members(c) \union Members(d)
  BY <1>3, ToldFour DEF Tells
<1>7. Truthful'
  <2>1. IsList(calls)'
    BY <1>5 DEF IsList
  <2>2. \A call \in Members(calls') : call.gauge \in Gauges
    BY <1>3, <1>5 DEF Tells, Gauges
  <2>3. Says("state", state)'
    BY <1>3, <1>5 DEF Tells, Says
  <2>4. Says("error", lastErr)'
    BY <1>3, <1>5 DEF Tells, Says
  <2>5. Says("p95", lastP95)' /\ Says("relaxed", relaxedGauge)'
    BY <1>3, <1>5 DEF Tells, Says
  <2>6. Says("interval", nextInterval)'
    BY <1>3, <1>5 DEF Tells, Says
  <2>7. Says("target", target)'
    BY <1>3, <1>5 DEF Tells, Says
  <2>8. \A call \in Members(calls') : call.gauge = "host" => call.value \in 0 .. Full
    BY <1>3, <1>5 DEF Tells
  <2> QED
    BY <2>1, <2>2, <2>3, <2>4, <2>5, <2>6, <2>7, <2>8 DEF Truthful
<1>8. Pending("error")' /\ Pending("state")' /\ Pending("interval")'
  BY <1>3, <1>5 DEF Tells, Pending
<1>9. ~suppressed => Pending("target")'
  BY <1>3, <1>5 DEF Tells, Pending
<1>10. torn'
  BY DEF Tear
<1>11. lastErr'
  BY <1>0
<1>12. Len(calls') <= 6
  BY <1>5
<1> QED
  BY <1>0, <1>7, <1>8, <1>9, <1>10, <1>11, <1>12 DEF TellsChanges, Untold

\* A query that succeeded.
LEMMA StepSucceedsTells ==
  ASSUME IInv, NEW p95 \in P95s, StepSucceeds(p95), calls' = StepSucceedsCalls, Tear
  PROVE  TellsChanges
<1>1. /\ lastErr' = FALSE /\ slowState' = Normal
      /\ suppressed => target' = target
  BY DEF StepSucceeds, ApplyUnlessSuppressed
<1>2. PICK a : /\ a = Told("error", FALSE)
               /\ Tells(a, "error", lastErr') /\ Members(a) # {}
  <2>1. Told("error", FALSE) = Told("error", lastErr')
    BY <1>1, Zenon
  <2>2. Tells(Told("error", FALSE), "error", lastErr') /\ Members(Told("error", FALSE)) # {}
    BY <2>1, ToldOne, Zenon
  <2> QED
    BY <2>2, Zenon
<1>3. PICK b : /\ b = Told("p95", lastP95')
               /\ Tells(b, "p95", lastP95') /\ Members(b) # {}
  BY ToldOne
<1>4. PICK c : /\ c = TargetCalls(~suppressed)
               /\ Tells(c, "target", target') /\ (~suppressed => Members(c) # {})
  BY TargetToldOrNot DEF IInv, TypeOK
<1>5. PICK d : /\ d = Told("state", state')
               /\ Tells(d, "state", state') /\ Members(d) # {}
  BY ToldOne
<1>6. PICK e : /\ e = Told("relaxed", relaxedSuccesses')
               /\ Tells(e, "relaxed", relaxedSuccesses') /\ Members(e) # {}
  BY ToldOne
<1>f. PICK f : /\ f = Told("interval", nextInterval')
               /\ Tells(f, "interval", nextInterval') /\ Members(f) # {}
  BY ToldOne
<1>7. relaxedGauge' = relaxedSuccesses'
  BY DEF StepSucceeds, ChooseInterval
<1>8. calls' = ((((a \o b) \o c) \o d) \o e) \o f
  BY <1>2, <1>3, <1>4, <1>5, <1>6, <1>f, Zenon DEF StepSucceedsCalls
<1>9. /\ IsList(calls') /\ Len(calls') <= 6
      /\ Members(calls') = Members(a) \union Members(b) \union Members(c)
                             \union Members(d) \union Members(e) \union Members(f)
  <2> DEFINE four == ((a \o b) \o c) \o d
             all == (four \o e) \o f
  <2>1. /\ IsList(four) /\ Len(four) \in 0 .. 4
        /\ Members(four) = Members(a) \union Members(b) \union Members(c) \union Members(d)
    <3>1. /\ IsList(a) /\ IsList(b) /\ IsList(c) /\ IsList(d)
          /\ Len(a) \in 0 .. 1 /\ Len(b) \in 0 .. 1
          /\ Len(c) \in 0 .. 1 /\ Len(d) \in 0 .. 1
      BY <1>2, <1>3, <1>4, <1>5, Zenon DEF Tells
    <3> HIDE DEF four
    <3>2. /\ IsList(((a \o b) \o c) \o d) /\ Len(((a \o b) \o c) \o d) \in 0 .. 4
          /\ Members(((a \o b) \o c) \o d) =
               Members(a) \union Members(b) \union Members(c) \union Members(d)
      BY <3>1, ToldFour, SMTT(60)
    <3> QED
      BY <3>2 DEF four
  <2>2. calls' = all
    BY <1>8
  <2> HIDE DEF four
  <2>3. /\ IsList(four \o e) /\ Len(four \o e) = Len(four) + Len(e)
        /\ Members(four \o e) = Members(four) \union Members(e)
    BY <1>6, <2>1, ToldBoth DEF Tells
  <2>4. /\ IsList(all) /\ Len(all) = Len(four \o e) + Len(f)
        /\ Members(all) = Members(four \o e) \union Members(f)
    BY <1>f, <2>3, ToldBoth DEF Tells
  <2> HIDE DEF all
  <2>5. Len(all) <= 6
    <3>1. \A w \in 0 .. 4, x, y \in 0 .. 1 : w + x + y <= 6
      OBVIOUS
    <3>2. Len(four) + Len(e) + Len(f) <= 6
      BY <1>6, <1>f, <2>1, <3>1 DEF Tells
    <3>3. Len(all) = Len(four) + Len(e) + Len(f)
      BY <2>3, <2>4
    <3> QED
      BY <3>2, <3>3, Zenon
  <2>6. Members(all) = Members(a) \union Members(b) \union Members(c)
                        \union Members(d) \union Members(e) \union Members(f)
    BY <2>1, <2>3, <2>4
  <2> QED
    BY <2>2, <2>4, <2>5, <2>6, Zenon
<1>10. Truthful'
  <2>1. IsList(calls)'
    BY <1>9 DEF IsList
  <2>2. \A call \in Members(calls') : call.gauge \in Gauges
    BY <1>2, <1>3, <1>4, <1>5, <1>6, <1>f, <1>9 DEF Tells, Gauges
  <2>3. Says("state", state)'
    BY <1>2, <1>3, <1>4, <1>5, <1>6, <1>f, <1>9 DEF Tells, Says
  <2>4. Says("error", lastErr)'
    BY <1>2, <1>3, <1>4, <1>5, <1>6, <1>f, <1>9 DEF Tells, Says
  <2>5. Says("p95", lastP95)'
    BY <1>2, <1>3, <1>4, <1>5, <1>6, <1>f, <1>9 DEF Tells, Says
  <2>6. Says("relaxed", relaxedGauge)'
    BY <1>2, <1>3, <1>4, <1>5, <1>6, <1>f, <1>7, <1>9 DEF Tells, Says
  <2>7. Says("interval", nextInterval)'
    BY <1>2, <1>3, <1>4, <1>5, <1>6, <1>f, <1>9 DEF Tells, Says
  <2>8. Says("target", target)'
    BY <1>2, <1>3, <1>4, <1>5, <1>6, <1>f, <1>9 DEF Tells, Says
  <2>9. \A call \in Members(calls') : call.gauge = "host" => call.value \in 0 .. Full
    BY <1>2, <1>3, <1>4, <1>5, <1>6, <1>f, <1>9 DEF Tells
  <2> QED
    BY <2>1, <2>2, <2>3, <2>4, <2>5, <2>6, <2>7, <2>8, <2>9 DEF Truthful
<1>11. /\ Pending("error")' /\ Pending("p95")' /\ Pending("state")'
       /\ Pending("relaxed")' /\ Pending("interval")'
  BY <1>2, <1>3, <1>4, <1>5, <1>6, <1>f, <1>9 DEF Tells, Pending
<1>12. ~suppressed => Pending("target")'
  BY <1>2, <1>3, <1>4, <1>5, <1>6, <1>f, <1>9 DEF Tells, Pending
<1>13. torn'
  BY DEF Tear
<1>14. slowState' # Fallback
  BY <1>1
<1> QED
  BY <1>1, <1>9, <1>10, <1>11, <1>12, <1>13, <1>14 DEF TellsChanges, Untold

\* A host sample.
LEMMA ObserveSampleTells ==
  ASSUME IInv, IInv', NEW util \in Utils, NEW runnable \in Runnables,
         ObserveSample(util, runnable), calls' = ObserveCalls(util), UNCHANGED torn
  PROVE  TellsChanges
<1>1. /\ lastErr' = lastErr /\ slowState' = slowState /\ lastP95' = lastP95
      /\ nextInterval' = nextInterval /\ torn' = torn
  BY DEF ObserveSample, slowLoop
<1>2. util \in 0 .. Full
  BY InputAssumption
<1>3. PICK a : Tells(a, "host", util) /\ a = Told("host", util)
  BY ToldOne
<1>4. PICK rest :
        /\ calls' = a \o rest
        /\ IsList(rest) /\ Len(rest) \in 0 .. 3
        /\ \A call \in Members(rest) :
             \/ call.gauge = "relaxed" /\ call.value = relaxedGauge'
             \/ call.gauge = "target" /\ call.value = target'
             \/ call.gauge = "state" /\ call.value = state'
        /\ (\E call \in Members(rest) : call.gauge = "relaxed") \/ relaxedGauge' = relaxedGauge
        /\ (\E call \in Members(rest) : call.gauge = "target") \/ target' = target
        /\ (\E call \in Members(rest) : call.gauge = "state") \/ state' = state
  <2>1. CASE SuppressionDisabled
    <3>1. relaxedGauge' = relaxedGauge /\ target' = target /\ state' = state
      BY <2>1 DEF ObserveSample, streak
    <3>2. calls' = a \o <<>>
      BY <1>3, <2>1 DEF ObserveCalls
    <3>3. /\ IsList(<<>>) /\ Len(<<>>) \in 0 .. 3 /\ Members(<<>>) = {}
      BY ToldNone
    <3> WITNESS <<>>
    <3> QED
      BY <3>1, <3>2, <3>3
  <2>2. CASE ~SuppressionDisabled
    <3> DEFINE Relaxed == IF suppressed' # suppressed THEN Told("relaxed", 0) ELSE <<>>
    <3>1. /\ suppressed' # suppressed => relaxedGauge' = 0
          /\ suppressed' = suppressed => relaxedGauge' = relaxedGauge
          /\ ~(suppressed' \/ suppressed) => target' = target
      BY <2>2 DEF ObserveSample, ResetOnTransition, streak, ApplySuppressionTargets
    <3>2. /\ Tells(Relaxed, "relaxed", relaxedGauge')
          /\ suppressed' # suppressed => Members(Relaxed) # {}
      <4>1. CASE suppressed' # suppressed
        <5>1. Tells(Told("relaxed", 0), "relaxed", 0) /\ Members(Told("relaxed", 0)) # {}
          BY ToldOne
        <5> QED
          BY <3>1, <4>1, <5>1
      <4>2. CASE suppressed' = suppressed
        BY <4>2, ToldNone DEF Tells
      <4> QED
        BY <4>1, <4>2
    <3>3. /\ Tells(TargetCalls(suppressed' \/ suppressed), "target", target')
          /\ suppressed' \/ suppressed => Members(TargetCalls(suppressed' \/ suppressed)) # {}
      BY TargetToldOrNot
    <3>4. /\ Tells(Told("state", state'), "state", state')
          /\ Members(Told("state", state')) # {}
      BY ToldOne
    <3>5. calls' = a \o ((Relaxed \o TargetCalls(suppressed' \/ suppressed))
                          \o Told("state", state'))
      BY <1>3, <2>2 DEF ObserveCalls
    <3> HIDE DEF Relaxed
    <3>6. PICK b, c, d :
            /\ calls' = a \o ((b \o c) \o d)
            /\ Tells(b, "relaxed", relaxedGauge') /\ (suppressed' # suppressed => Members(b) # {})
            /\ Tells(c, "target", target') /\ (suppressed' \/ suppressed => Members(c) # {})
            /\ Tells(d, "state", state') /\ Members(d) # {}
      BY <3>2, <3>3, <3>4, <3>5, Zenon
    <3>7. /\ IsList(b \o c) /\ Len(b \o c) = Len(b) + Len(c)
          /\ Members(b \o c) = Members(b) \union Members(c)
      BY <3>6, ToldBoth DEF Tells
    <3>8. /\ IsList((b \o c) \o d) /\ Len((b \o c) \o d) = Len(b \o c) + Len(d)
          /\ Members((b \o c) \o d) = Members(b \o c) \union Members(d)
      BY <3>6, <3>7, ToldBoth DEF Tells
    <3>9. Len((b \o c) \o d) \in 0 .. 3
      <4>1. \A x, y, z \in 0 .. 1 : x + y + z \in 0 .. 3
        OBVIOUS
      <4>2. Len(b) + Len(c) + Len(d) \in 0 .. 3
        BY <3>6, <4>1 DEF Tells
      <4>3. Len((b \o c) \o d) = Len(b) + Len(c) + Len(d)
        BY <3>7, <3>8
      <4> QED
        BY <4>2, <4>3, Zenon
    <3>10. Members((b \o c) \o d) = Members(b) \union Members(c) \union Members(d)
      BY <3>7, <3>8
    <3>11. \A call \in Members((b \o c) \o d) :
             \/ call.gauge = "relaxed" /\ call.value = relaxedGauge'
             \/ call.gauge = "target" /\ call.value = target'
             \/ call.gauge = "state" /\ call.value = state'
      BY <3>6, <3>10 DEF Tells
    <3>12. (\E call \in Members((b \o c) \o d) : call.gauge = "relaxed")
             \/ relaxedGauge' = relaxedGauge
      BY <3>1, <3>6, <3>10 DEF Tells
    <3>13. (\E call \in Members((b \o c) \o d) : call.gauge = "target") \/ target' = target
      BY <3>1, <3>6, <3>10 DEF Tells
    <3>14. \E call \in Members((b \o c) \o d) : call.gauge = "state"
      BY <3>6, <3>10 DEF Tells
    <3> WITNESS (b \o c) \o d
    <3> QED
      BY <3>6, <3>8, <3>9, <3>11, <3>12, <3>13, <3>14, Zenon
  <2> QED
    BY <2>1, <2>2
<1>5. /\ IsList(calls') /\ Len(calls') <= 6
      /\ Members(calls') = Members(a) \union Members(rest)
  <2>1. /\ IsList(a \o rest) /\ Len(a \o rest) = Len(a) + Len(rest)
        /\ Members(a \o rest) = Members(a) \union Members(rest)
    BY <1>3, <1>4, ToldBoth DEF Tells
  <2>2. Len(a) + Len(rest) <= 6
    BY <1>3, <1>4 DEF Tells
  <2> QED
    BY <1>4, <2>1, <2>2
<1>6. Truthful'
  <2>1. IsList(calls)'
    BY <1>5 DEF IsList
  <2>2. \A call \in Members(calls') : call.gauge \in Gauges
    BY <1>3, <1>4, <1>5 DEF Tells, Gauges
  <2>3. Says("state", state)'
    BY <1>3, <1>4, <1>5 DEF Tells, Says
  <2>4. Says("error", lastErr)' /\ Says("p95", lastP95)' /\ Says("interval", nextInterval)'
    BY <1>3, <1>4, <1>5 DEF Tells, Says
  <2>5. Says("relaxed", relaxedGauge)'
    BY <1>3, <1>4, <1>5 DEF Tells, Says
  <2>6. Says("target", target)'
    BY <1>3, <1>4, <1>5 DEF Tells, Says
  <2>7. \A call \in Members(calls') : call.gauge = "host" => call.value \in 0 .. Full
    BY <1>2, <1>3, <1>4, <1>5 DEF Tells
  <2> QED
    BY <2>1, <2>2, <2>3, <2>4, <2>5, <2>6, <2>7 DEF Truthful
<1>7. /\ Pending("relaxed")' \/ relaxedGauge' = relaxedGauge
      /\ Pending("target")' \/ target' = target
      /\ Pending("state")' \/ state' = state
  BY <1>4, <1>5 DEF Pending
<1>8. Untold("p95")
  BY <1>3, <1>4, <1>5 DEF Tells, Untold, Pending
<1> QED
  BY <1>1, <1>5, <1>6, <1>7, <1>8 DEF TellsChanges, Untold

\* An observation that carries an error.
LEMMA ObserveErrorTells ==
  ASSUME IInv, ObserveError, calls' = Told("state", state'), UNCHANGED torn
  PROVE  TellsChanges
<1>1. /\ lastErr' = lastErr /\ slowState' = slowState /\ lastP95' = lastP95
      /\ nextInterval' = nextInterval /\ relaxedGauge' = relaxedGauge
      /\ target' = target /\ torn' = torn
  BY DEF ObserveError, slowLoop, streak
<1>2. PICK a : a = calls' /\ Tells(a, "state", state') /\ Members(a) # {}
  BY ToldOne
<1>3. IsList(calls') /\ Len(calls') <= 6 /\ Members(calls') = Members(a)
  <2>1. IsList(a) /\ Len(a) \in 0 .. 1
    BY <1>2, Zenon DEF Tells
  <2>2. Len(a) <= 6
    <3>1. \A w \in 0 .. 1 : w <= 6
      OBVIOUS
    <3> QED
      BY <2>1, <3>1, Zenon
  <2> QED
    BY <1>2, <2>1, <2>2, Zenon
<1>4. Truthful'
  <2>1. IsList(calls)'
    BY <1>3 DEF IsList
  <2>2. \A call \in Members(calls') : call.gauge \in Gauges
    BY <1>2, <1>3 DEF Tells, Gauges
  <2>3. Says("state", state)'
    BY <1>2, <1>3 DEF Tells, Says
  <2>4. /\ Says("error", lastErr)' /\ Says("p95", lastP95)' /\ Says("interval", nextInterval)'
        /\ Says("relaxed", relaxedGauge)' /\ Says("target", target)'
    BY <1>2, <1>3 DEF Tells, Says
  <2>5. \A call \in Members(calls') : call.gauge = "host" => call.value \in 0 .. Full
    BY <1>2, <1>3 DEF Tells
  <2> QED
    BY <2>1, <2>2, <2>3, <2>4, <2>5 DEF Truthful
<1>5. Pending("state")' /\ Untold("p95")
  BY <1>2, <1>3 DEF Tells, Pending, Untold
<1> QED
  BY <1>1, <1>3, <1>4, <1>5 DEF TellsChanges, Untold

\* The other handlers call nobody and change nothing that is told.
LEMMA QuietHandlersTell ==
  ASSUME IInv, calls = <<>>,
         StartRun \/ Tick \/ StoreInterval \/ StopLoop \/ StopConsuming \/ Cancel,
         UNCHANGED <<calls, torn>>
  PROVE  TellsChanges
<1>1. /\ state' = state /\ lastErr' = lastErr /\ slowState' = slowState
      /\ lastP95' = lastP95 /\ nextInterval' = nextInterval
      /\ relaxedGauge' = relaxedGauge /\ target' = target /\ torn' = torn
  BY DEF StartRun, Tick, StoreInterval, StopLoop, StopConsuming, Cancel,
         decision, slowLoop, streak
<1>2. IsList(calls') /\ Len(calls') <= 6 /\ Members(calls') = {}
  BY ToldNone
<1>3. Truthful'
  <2>1. IsList(calls)'
    BY <1>2 DEF IsList
  <2> QED
    BY <1>2, <2>1 DEF Truthful, Says
<1>4. Untold("p95")
  BY <1>2 DEF Untold, Pending
<1> QED
  BY <1>1, <1>2, <1>3, <1>4 DEF TellsChanges, Untold

LEMMA HandlersTell ==
  ASSUME IInv, IInv', calls = <<>>, Handlers
  PROVE  TellsChanges
<1>1. CASE ~Offline /\ StepFails /\ calls' = StepFailsCalls /\ Tear
  BY <1>1, StepFailsTells
<1>2. CASE \E p95 \in P95s : StepSucceeds(p95) /\ calls' = StepSucceedsCalls /\ Tear
  BY <1>2, StepSucceedsTells
<1>3. CASE \E util \in Utils, runnable \in Runnables :
             ObserveSample(util, runnable) /\ calls' = ObserveCalls(util) /\ UNCHANGED torn
  BY <1>3, ObserveSampleTells
<1>4. CASE ObserveError /\ calls' = Told("state", state') /\ UNCHANGED torn
  BY <1>4, ObserveErrorTells
<1>5. CASE /\ StartRun \/ Tick \/ StoreInterval \/ StopLoop \/ StopConsuming \/ Cancel
           /\ UNCHANGED <<calls, torn>>
  BY <1>5, QuietHandlersTell
<1> QED
  BY <1>1, <1>2, <1>3, <1>4, <1>5 DEF Handlers

-----------------------------------------------------------------------------
(***************************************************************************)
(* The invariant of the observed controller, step by step.                 *)
(***************************************************************************)
LEMMA TelemetryInitEstablishes ==
  ASSUME TelemetryInit
  PROVE  TellInv
<1>1. /\ IsList(calls) /\ Len(calls) <= 6 /\ Members(calls) = {}
  BY ToldNone DEF TelemetryInit
<1>2. Truthful
  BY <1>1 DEF Truthful, Says
<1>3. GaugesFollow
  <2>1. Shown(target) \in 0 .. Full
    BY ConfigFacts, PoolAssumption, ClampInBounds DEF TelemetryInit, Init, Shown
  <2>2. gauges \in GaugeRecords
    BY <2>1, PoolAssumption DEF TelemetryInit, Init, GaugeRecords
  <2> QED
    BY <2>2 DEF GaugesFollow, TelemetryInit, Init
<1>4. LogFollows
  <2>1. logged.target = target /\ target \in Int /\ TargetDelta \in Nat \ {0}
    BY ConfigFacts, TelemetryAssumption DEF TelemetryInit, Init
  <2>2. Near(logged.target, target, TargetDelta)
    BY <2>1 DEF Near
  <2>3. /\ DOMAIN logged = {"state", "target", "interval", "error", "p95", "host"}
        /\ logged.host = Never /\ logged.host \in Int
        /\ logged.p95 = Never /\ logged.p95 \in Int
    BY DEF TelemetryInit, Never
  <2>4. logged.state = state
    BY DEF TelemetryInit
  <2>5. logged.error = lastErr
    BY DEF TelemetryInit, Init
  <2>6. logged.interval = nextInterval
    BY DEF TelemetryInit, Init
  <2> QED
    BY <2>1, <2>2, <2>3, <2>4, <2>5, <2>6 DEF LogFollows
<1>5. FallbackExplained
  BY <1>1 DEF FallbackExplained, Pending, TelemetryInit
<1>6. ProbeFollows
  BY DEF ProbeFollows, TelemetryInit
<1> QED
  BY <1>1, <1>2, <1>3, <1>4, <1>5, <1>6 DEF TellInv

\* A handler: what it leaves untold it has not changed.
LEMMA HandleKeeps ==
  ASSUME IInv, IInv', TellInv, Handle
  PROVE  TellInv'
<1>1. TellsChanges /\ calls = <<>> /\ gauges' = gauges /\ logged' = logged /\ probe' = probe
  BY HandlersTell DEF Handle
<1>2. \A gauge : ~Pending(gauge)
  BY <1>1, ToldNone DEF Pending
<1>3. GaugesFollow'
  <2>1. /\ gauges' \in GaugeRecords
        /\ gauges.state = state /\ gauges.error = lastErr /\ gauges.p95 = lastP95
        /\ gauges.interval = nextInterval /\ gauges.relaxed = relaxedGauge
        /\ gauges.target = Shown(target)
    BY <1>1, <1>2 DEF TellInv, GaugesFollow
  <2>2. (Pending("target") \/ gauges.target = Shown(target))'
    BY <1>1, <2>1 DEF TellsChanges, Untold, Shown
  <2>3. /\ (Pending("state") \/ gauges.state = state)'
        /\ (Pending("error") \/ gauges.error = lastErr)'
        /\ (Pending("p95") \/ gauges.p95 = lastP95)'
        /\ (Pending("interval") \/ gauges.interval = nextInterval)'
        /\ (Pending("relaxed") \/ gauges.relaxed = relaxedGauge)'
    BY <1>1, <2>1 DEF TellsChanges, Untold
  <2> QED
    BY <2>1, <2>2, <2>3 DEF GaugesFollow, GaugeRecords
<1>4. LogFollows'
  <2>1. /\ logged.state = state /\ logged.error = lastErr
        /\ logged.interval = nextInterval
        /\ Near(logged.target, target, TargetDelta)
    BY <1>2 DEF TellInv, LogFollows
  <2>2. (Pending("target") \/ Near(logged.target, target, TargetDelta))'
    BY <1>1, <2>1 DEF TellsChanges, Untold, Near
  <2>3. /\ (logged.host # Never => Near(logged.host, gauges.host, HostDelta))'
        /\ (logged.p95 # Never => Near(logged.p95, gauges.p95, P95Delta))'
    BY <1>1 DEF TellInv, LogFollows, Near, Never
  <2>4. /\ (Pending("state") \/ logged.state = state)'
        /\ (Pending("error") \/ logged.error = lastErr)'
        /\ (Pending("interval") \/ logged.interval = nextInterval)'
    BY <1>1, <2>1 DEF TellsChanges, Untold
  <2> QED
    BY <1>1, <2>2, <2>3, <2>4 DEF TellInv, LogFollows
<1>5. FallbackExplained'
  BY <1>1, <1>2 DEF TellInv, FallbackExplained, TellsChanges, Untold
<1>6. ProbeFollows'
  BY <1>1 DEF TellInv, ProbeFollows, TellsChanges
<1> QED
  BY <1>1, <1>3, <1>4, <1>5, <1>6 DEF TellInv, TellsChanges

\* What a call does to the gauges: it sets its own.
LEMMA GaugedFacts ==
  ASSUME NEW call, gauges \in GaugeRecords, call.gauge \in Gauges,
         call.gauge = "state" => call.value \in {Normal, Fallback, Suppressed},
         call.gauge = "target" => call.value \in Int,
         call.gauge = "interval" => call.value \in {Interval, RelaxedInterval},
         call.gauge = "error" => call.value \in BOOLEAN,
         call.gauge = "relaxed" => call.value \in Nat,
         call.gauge = "p95" => call.value \in Nat,
         call.gauge = "host" => call.value \in Int
  PROVE  /\ Gauged(call) \in GaugeRecords
         /\ Gauged(call).state = IF call.gauge = "state" THEN call.value ELSE gauges.state
         /\ Gauged(call).target =
              IF call.gauge = "target" THEN Shown(call.value) ELSE gauges.target
         /\ Gauged(call).interval =
              IF call.gauge = "interval" THEN call.value ELSE gauges.interval
         /\ Gauged(call).error = IF call.gauge = "error" THEN call.value ELSE gauges.error
         /\ Gauged(call).relaxed =
              IF call.gauge = "relaxed" THEN call.value ELSE gauges.relaxed
         /\ Gauged(call).p95 = IF call.gauge = "p95" THEN call.value ELSE gauges.p95
         /\ Gauged(call).host = IF call.gauge = "host" THEN Shown(call.value) ELSE gauges.host
         /\ Gauged(call).epoch = IF call.gauge = "p95" THEN 1 ELSE gauges.epoch
<1>1. CASE call.gauge = "state"
  <2>1. Gauged(call) = [gauges EXCEPT !["state"] = call.value]
    BY <1>1 DEF Gauged
  <2> QED
    BY <1>1, <2>1 DEF GaugeRecords
<1>2. CASE call.gauge = "target"
  <2>1. Gauged(call) = [gauges EXCEPT !["target"] = Shown(call.value)]
    BY <1>2 DEF Gauged
  <2>2. Shown(call.value) \in 0 .. Full
    BY <1>2, PoolAssumption, ClampInBounds DEF Shown
  <2> QED
    BY <1>2, <2>1, <2>2 DEF GaugeRecords
<1>3. CASE call.gauge = "interval"
  <2>1. Gauged(call) = [gauges EXCEPT !["interval"] = call.value]
    BY <1>3 DEF Gauged
  <2> QED
    BY <1>3, <2>1 DEF GaugeRecords
<1>4. CASE call.gauge = "error"
  <2>1. Gauged(call) = [gauges EXCEPT !["error"] = call.value]
    BY <1>4 DEF Gauged
  <2> QED
    BY <1>4, <2>1 DEF GaugeRecords
<1>5. CASE call.gauge = "relaxed"
  <2>1. Gauged(call) = [gauges EXCEPT !["relaxed"] = call.value]
    BY <1>5 DEF Gauged
  <2> QED
    BY <1>5, <2>1 DEF GaugeRecords
<1>6. CASE call.gauge = "p95"
  <2>1. Gauged(call) = [[gauges EXCEPT !["p95"] = call.value] EXCEPT !["epoch"] = 1]
    BY <1>6 DEF Gauged
  <2> QED
    BY <1>6, <2>1 DEF GaugeRecords
<1>7. CASE call.gauge = "host"
  <2>1. Gauged(call) = [gauges EXCEPT !["host"] = Shown(call.value)]
    BY <1>7 DEF Gauged
  <2>2. Shown(call.value) \in 0 .. Full
    BY <1>7, PoolAssumption, ClampInBounds DEF Shown
  <2> QED
    BY <1>7, <2>1, <2>2 DEF GaugeRecords
<1> QED
  BY <1>1, <1>2, <1>3, <1>4, <1>5, <1>6, <1>7 DEF Gauges

\* What a call leaves in the log: the call's value, or one near to it.
LEMMA LoggedFacts ==
  ASSUME NEW call, NEW l \in Logged(call), call.gauge \in Gauges,
         DOMAIN logged = {"state", "target", "interval", "error", "p95", "host"},
         logged.target \in Int, logged.host \in Int, logged.p95 \in Int,
         call.gauge \in {"target", "host", "p95"} => call.value \in Int
  PROVE  /\ DOMAIN l = {"state", "target", "interval", "error", "p95", "host"}
         /\ l.target \in Int /\ l.host \in Int /\ l.p95 \in Int
         /\ l.interval = IF call.gauge = "interval" THEN call.value ELSE logged.interval
         /\ l.state = IF call.gauge = "state" THEN call.value ELSE logged.state
         /\ l.error = IF call.gauge = "error" THEN call.value ELSE logged.error
         /\ call.gauge # "target" => l.target = logged.target
         /\ call.gauge = "target" => Near(l.target, call.value, TargetDelta)
         /\ call.gauge # "host" => l.host = logged.host
         /\ call.gauge = "host" => Near(l.host, call.value, HostDelta)
         /\ call.gauge # "p95" => l.p95 = logged.p95
         /\ call.gauge = "p95" => Near(l.p95, call.value, P95Delta)
<1> USE TelemetryAssumption
<1>1. CASE call.gauge = "relaxed"
  BY <1>1 DEF Logged
<1>2. CASE call.gauge = "target"
  <2>1. l = [logged EXCEPT !["target"] = TargetLogged(call.value)]
    BY <1>2 DEF Logged
  <2>2. TargetLogged(call.value) \in Int
    BY <1>2 DEF TargetLogged
  <2>3. Near(TargetLogged(call.value), call.value, TargetDelta)
    BY <1>2 DEF TargetLogged, Near
  <2> QED
    BY <1>2, <2>1, <2>2, <2>3
<1>3. CASE call.gauge = "host"
  <2>1. PICK v \in ObservationLogged(logged.host, call.value, HostDelta) :
          l = [logged EXCEPT !["host"] = v]
    BY <1>3 DEF Logged
  <2>2. v \in Int /\ Near(v, call.value, HostDelta)
    BY <1>3 DEF ObservationLogged, Near
  <2> QED
    BY <1>3, <2>1, <2>2
<1>4. CASE call.gauge = "p95"
  <2>1. PICK v \in ObservationLogged(logged.p95, call.value, P95Delta) :
          l = [logged EXCEPT !["p95"] = v]
    BY <1>4 DEF Logged
  <2>2. v \in Int /\ Near(v, call.value, P95Delta)
    BY <1>4 DEF ObservationLogged, Near
  <2> QED
    BY <1>4, <2>1, <2>2
<1>5. CASE call.gauge = "state"
  <2>1. l = [logged EXCEPT !["state"] = call.value]
    BY <1>5 DEF Logged
  <2> QED
    BY <1>5, <2>1
<1>6. CASE call.gauge = "error"
  <2>1. l = [logged EXCEPT !["error"] = call.value]
    BY <1>6 DEF Logged
  <2> QED
    BY <1>6, <2>1
<1>7. CASE call.gauge = "interval"
  <2>1. l = [logged EXCEPT !["interval"] = call.value]
    BY <1>7 DEF Logged
  <2> QED
    BY <1>7, <2>1
<1> QED
  BY <1>1, <1>2, <1>3, <1>4, <1>5, <1>6, <1>7 DEF Gauges

\* A call: its gauge is current now, what is still untold as it was.
LEMMA RecordKeeps ==
  ASSUME IInv, TellInv, Record
  PROVE  TellInv'
<1> DEFINE call == Head(calls)
<1>1. /\ calls # <<>> /\ calls' = Tail(calls) /\ gauges' = Gauged(call)
      /\ logged' \in Logged(call)
  BY DEF Record
<1>2. /\ state' = state /\ lastErr' = lastErr /\ lastP95' = lastP95
      /\ nextInterval' = nextInterval /\ relaxedGauge' = relaxedGauge
      /\ target' = target /\ slowState' = slowState /\ probe' = probe /\ torn' = torn
  BY DEF Record, vars, decision, streak, slowLoop
<1>3. /\ IsList(calls') /\ Len(calls') <= 6
      /\ Members(calls) = {call} \union Members(calls')
  <2>1. /\ IsList(Tail(calls)) /\ Len(Tail(calls)) <= Len(calls)
        /\ Members(calls) = {Head(calls)} \union Members(Tail(calls))
    BY <1>1, ToldFirst DEF TellInv, Truthful
  <2>2. Len(calls) \in Nat /\ Len(Tail(calls)) \in Nat /\ Len(calls) <= 6
    <3> DEFINE S == Members(calls)
               T == Members(Tail(calls))
    <3>1. calls \in Seq(S) /\ Tail(calls) \in Seq(T)
      BY <2>1 DEF IsList, TellInv, Truthful
    <3> HIDE DEF S, T
    <3>2. Len(calls) \in Nat /\ Len(Tail(calls)) \in Nat
      BY <3>1, LenProperties
    <3> QED
      BY <3>2 DEF TellInv
  <2>3. Len(Tail(calls)) <= 6
    BY <2>1, <2>2
  <2> QED
    BY <1>1, <2>1, <2>3, Zenon
<1> HIDE DEF call
<1>4. /\ call.gauge \in Gauges
      /\ call.gauge = "state" => call.value = state
      /\ call.gauge = "error" => call.value = lastErr
      /\ call.gauge = "p95" => call.value = lastP95
      /\ call.gauge = "interval" => call.value = nextInterval
      /\ call.gauge = "relaxed" => call.value = relaxedGauge
      /\ call.gauge = "target" => call.value = target
      /\ call.gauge = "host" => call.value \in 0 .. Full
  BY <1>3 DEF TellInv, Truthful, Says
<1>5. Truthful'
  <2>1. IsList(calls)'
    BY <1>3 DEF IsList
  <2>2. \A c \in Members(calls') : c \in Members(calls)
    BY <1>3
  <2> QED
    BY <1>2, <2>1, <2>2 DEF TellInv, Truthful, Says
<1>6. \A gauge : Pending(gauge) => call.gauge = gauge \/ Pending(gauge)'
  BY <1>3 DEF Pending
<1>7. \A gauge : Pending(gauge)' => Pending(gauge)
  BY <1>3 DEF Pending
<1>8. /\ call.gauge = "state" => call.value \in {Normal, Fallback, Suppressed}
      /\ call.gauge = "target" => call.value \in Int
      /\ call.gauge = "interval" => call.value \in {Interval, RelaxedInterval}
      /\ call.gauge = "error" => call.value \in BOOLEAN
      /\ call.gauge = "relaxed" => call.value \in Nat
      /\ call.gauge = "p95" => call.value \in Nat
      /\ call.gauge = "host" => call.value \in Int
  <2>1. /\ state \in {Normal, Fallback, Suppressed} /\ target \in Int
        /\ nextInterval \in {Interval, RelaxedInterval} /\ lastErr \in BOOLEAN
        /\ relaxedGauge \in Nat /\ lastP95 \in Nat
    BY InputAssumption DEF IInv, TypeOK
  <2>2. 0 .. Full \subseteq Int
    BY PoolAssumption
  <2> QED
    BY <1>4, <2>1, <2>2
<1>9. /\ gauges' \in GaugeRecords
      /\ gauges'.state = IF call.gauge = "state" THEN call.value ELSE gauges.state
      /\ gauges'.target = IF call.gauge = "target" THEN Shown(call.value) ELSE gauges.target
      /\ gauges'.interval = IF call.gauge = "interval" THEN call.value ELSE gauges.interval
      /\ gauges'.error = IF call.gauge = "error" THEN call.value ELSE gauges.error
      /\ gauges'.relaxed = IF call.gauge = "relaxed" THEN call.value ELSE gauges.relaxed
      /\ gauges'.p95 = IF call.gauge = "p95" THEN call.value ELSE gauges.p95
      /\ gauges'.host = IF call.gauge = "host" THEN Shown(call.value) ELSE gauges.host
      /\ gauges'.epoch = IF call.gauge = "p95" THEN 1 ELSE gauges.epoch
  <2>1. gauges \in GaugeRecords
    BY DEF TellInv, GaugesFollow
  <2> QED
    BY <1>1, <1>4, <1>8, <2>1, GaugedFacts
<1>10. GaugesFollow'
  <2>1. (Pending("state") \/ gauges.state = state)'
    BY <1>2, <1>4, <1>6, <1>9 DEF TellInv, GaugesFollow
  <2>2. (Pending("error") \/ gauges.error = lastErr)'
    BY <1>2, <1>4, <1>6, <1>9 DEF TellInv, GaugesFollow
  <2>3. (Pending("p95") \/ gauges.p95 = lastP95)'
    BY <1>2, <1>4, <1>6, <1>9 DEF TellInv, GaugesFollow
  <2>4. (Pending("interval") \/ gauges.interval = nextInterval)'
    BY <1>2, <1>4, <1>6, <1>9 DEF TellInv, GaugesFollow
  <2>5. (Pending("relaxed") \/ gauges.relaxed = relaxedGauge)'
    BY <1>2, <1>4, <1>6, <1>9 DEF TellInv, GaugesFollow
  <2>6. (Pending("target") \/ gauges.target = Shown(target))'
    BY <1>2, <1>4, <1>6, <1>9 DEF TellInv, GaugesFollow, Shown
  <2>7. (gauges \in GaugeRecords)'
    BY <1>9 DEF GaugeRecords
  <2> QED
    BY <2>1, <2>2, <2>3, <2>4, <2>5, <2>6, <2>7 DEF GaugesFollow
<1>11. LogFollows'
  <2>1. /\ DOMAIN logged' = {"state", "target", "interval", "error", "p95", "host"}
        /\ logged'.target \in Int /\ logged'.host \in Int /\ logged'.p95 \in Int
        /\ logged'.interval = IF call.gauge = "interval" THEN call.value ELSE logged.interval
        /\ logged'.state = IF call.gauge = "state" THEN call.value ELSE logged.state
        /\ logged'.error = IF call.gauge = "error" THEN call.value ELSE logged.error
        /\ call.gauge # "target" => logged'.target = logged.target
        /\ call.gauge = "target" => Near(logged'.target, call.value, TargetDelta)
        /\ call.gauge # "host" => logged'.host = logged.host
        /\ call.gauge = "host" => Near(logged'.host, call.value, HostDelta)
        /\ call.gauge # "p95" => logged'.p95 = logged.p95
        /\ call.gauge = "p95" => Near(logged'.p95, call.value, P95Delta)
    <3>1. /\ DOMAIN logged = {"state", "target", "interval", "error", "p95", "host"}
          /\ logged.target \in Int /\ logged.host \in Int /\ logged.p95 \in Int
      BY DEF TellInv, LogFollows
    <3>2. call.gauge \in {"target", "host", "p95"} => call.value \in Int
      BY <1>8
    <3> QED
      BY <1>1, <1>4, <3>1, <3>2, LoggedFacts
  <2>2. (Pending("state") \/ logged.state = state)'
    BY <1>2, <1>4, <1>6, <2>1 DEF TellInv, LogFollows
  <2>3. (Pending("error") \/ logged.error = lastErr)'
    BY <1>2, <1>4, <1>6, <2>1 DEF TellInv, LogFollows
  <2>4. (Pending("target") \/ Near(logged.target, target, TargetDelta))'
    BY <1>2, <1>4, <1>6, <2>1 DEF TellInv, LogFollows, Near
  <2>5. (logged.host # Never => Near(logged.host, gauges.host, HostDelta))'
    <3>1. CASE call.gauge = "host"
      <4>1. gauges'.host = call.value
        BY <1>4, <1>9, <3>1, PoolAssumption, ClampInBounds DEF Shown
      <4> QED
        BY <2>1, <3>1, <4>1 DEF Near
    <3>2. CASE call.gauge # "host"
      <4>1. gauges'.host = gauges.host /\ logged'.host = logged.host
        BY <1>9, <2>1, <3>2
      <4> QED
        BY <4>1 DEF TellInv, LogFollows, Near, Never
    <3> QED
      BY <3>1, <3>2
  <2>6. (Pending("interval") \/ logged.interval = nextInterval)'
    BY <1>2, <1>4, <1>6, <2>1 DEF TellInv, LogFollows
  <2>7. (logged.p95 # Never => Near(logged.p95, gauges.p95, P95Delta))'
    <3>1. CASE call.gauge = "p95"
      BY <1>9, <2>1, <3>1 DEF Near
    <3>2. CASE call.gauge # "p95"
      <4>1. gauges'.p95 = gauges.p95 /\ logged'.p95 = logged.p95
        BY <1>9, <2>1, <3>2
      <4> QED
        BY <4>1 DEF TellInv, LogFollows, Near, Never
    <3> QED
      BY <3>1, <3>2
  <2> QED
    BY <2>1, <2>2, <2>3, <2>4, <2>5, <2>6, <2>7 DEF LogFollows
<1>12. FallbackExplained'
  <2> SUFFICES ASSUME slowState' = Fallback, ~lastErr'
               PROVE  gauges'.epoch = 0 /\ ~Pending("p95")'
    BY DEF FallbackExplained
  <2>1. gauges.epoch = 0 /\ ~Pending("p95")
    BY <1>2 DEF TellInv, FallbackExplained
  <2>2. call.gauge # "p95"
    BY <1>3, <2>1 DEF Pending
  <2> QED
    BY <1>7, <1>9, <2>1, <2>2
<1>13. ProbeFollows'
  BY <1>2 DEF TellInv, ProbeFollows
<1> QED
  BY <1>3, <1>5, <1>10, <1>11, <1>12, <1>13 DEF TellInv

\* A read of the probe.
LEMMA ProbeReadsKeeps ==
  ASSUME IInv, TellInv, ProbeReads
  PROVE  TellInv'
<1>1. /\ state' = state /\ lastErr' = lastErr /\ lastP95' = lastP95
      /\ nextInterval' = nextInterval /\ relaxedGauge' = relaxedGauge
      /\ target' = target /\ slowState' = slowState
      /\ gauges' = gauges /\ logged' = logged /\ calls' = calls
  BY DEF ProbeReads, vars, decision, streak, slowLoop
<1>2. Truthful' /\ GaugesFollow' /\ LogFollows' /\ FallbackExplained' /\ Len(calls') <= 6
  <2>1. \A gauge : Pending(gauge)' <=> Pending(gauge)
    BY <1>1 DEF Pending
  <2>2. Truthful' /\ Len(calls') <= 6
    BY <1>1 DEF TellInv, Truthful, Says, IsList
  <2>3. GaugesFollow'
    BY <1>1, <2>1 DEF TellInv, GaugesFollow, GaugeRecords, Shown
  <2>4. LogFollows'
    BY <1>1, <2>1 DEF TellInv, LogFollows, Near, Never
  <2>5. FallbackExplained'
    BY <1>1, <2>1 DEF TellInv, FallbackExplained
  <2> QED
    BY <2>2, <2>3, <2>4, <2>5
<1>3. ProbeFollows'
  <2>1. state \in {Normal, Fallback, Suppressed} /\ (state # Suppressed => state = slowState)
    BY DEF IInv, TypeOK, StateExplained
  <2>2. CASE /\ probe' = [probe EXCEPT !.stage = "state", !.state = state]
             /\ torn' = FALSE
    BY <1>1, <2>1, <2>2 DEF TellInv, ProbeFollows
  <2>3. CASE /\ probe.stage = "state"
             /\ probe' = [probe EXCEPT !.stage = "error", !.error = lastErr]
             /\ UNCHANGED torn
    BY <1>1, <2>3 DEF TellInv, ProbeFollows
  <2>4. CASE /\ probe.stage = "error"
             /\ probe' = [probe EXCEPT !.stage = "done", !.estimator = lastEstErr]
             /\ UNCHANGED torn
    BY <1>1, <2>4 DEF TellInv, ProbeFollows
  <2> QED
    BY <2>2, <2>3, <2>4 DEF ProbeReads
<1> QED
  BY <1>2, <1>3 DEF TellInv

-----------------------------------------------------------------------------
\* Every step of the observed controller preserves what its calls owe the
\* gauges, the log and the probe.
THEOREM TelemetrySafety == TelemetrySpec => []TellInv
<1>1. TelemetryInit => TellInv
  BY TelemetryInitEstablishes
<1>2. IInv /\ IInv' /\ TellInv /\ [TelemetryNext]_allVars => TellInv'
  <2> SUFFICES ASSUME IInv, IInv', TellInv, [TelemetryNext]_allVars PROVE TellInv'
    OBVIOUS
  <2>1. CASE Handle
    BY <2>1, HandleKeeps
  <2>2. CASE Record
    BY <2>2, RecordKeeps
  <2>3. CASE ProbeReads
    BY <2>3, ProbeReadsKeeps
  <2>4. CASE UNCHANGED allVars
    <3>1. /\ state' = state /\ lastErr' = lastErr /\ lastP95' = lastP95
          /\ nextInterval' = nextInterval /\ relaxedGauge' = relaxedGauge
          /\ target' = target /\ slowState' = slowState /\ gauges' = gauges
          /\ logged' = logged /\ calls' = calls /\ probe' = probe /\ torn' = torn
      BY <2>4 DEF allVars, observers, vars, decision, streak, slowLoop
    <3>2. \A gauge : Pending(gauge)' <=> Pending(gauge)
      BY <3>1 DEF Pending
    <3>3. Truthful' /\ Len(calls') <= 6
      BY <3>1 DEF TellInv, Truthful, Says, IsList
    <3>4. GaugesFollow'
      BY <3>1, <3>2 DEF TellInv, GaugesFollow, GaugeRecords, Shown
    <3>5. LogFollows'
      BY <3>1, <3>2 DEF TellInv, LogFollows, Near, Never
    <3>6. FallbackExplained' /\ ProbeFollows'
      BY <3>1, <3>2 DEF TellInv, FallbackExplained, ProbeFollows
    <3> QED
      BY <3>3, <3>4, <3>5, <3>6 DEF TellInv
  <2> QED
    BY <2>1, <2>2, <2>3, <2>4 DEF TelemetryNext
<1> QED
  BY <1>1, <1>2, Observed, Safety, PTL DEF TelemetrySpec

\* Between handlers, when no call is pending, the gauges are current.
LEMMA NothingPending ==
  ASSUME TellInv, calls = <<>>
  PROVE  \A gauge : ~Pending(gauge)
BY ToldNone DEF Pending

\* The gauges stay in range, and the duty cycle they show is the pool's.
THEOREM GaugesAreSound == TelemetrySpec => []GaugesSound
<1>1. TellInv => GaugesSound
  <2> SUFFICES ASSUME TellInv PROVE GaugesSound
    OBVIOUS
  <2>1. TelemetryTypeOK
    BY DEF TellInv, GaugesFollow, GaugeRecords, ProbeFollows, TelemetryTypeOK
  <2>2. GaugeIsPoolTarget
    BY NothingPending
       DEF TellInv, GaugesFollow, GaugeIsPoolTarget, Scraped, Shown, PoolTarget
  <2> QED
    BY <2>1, <2>2 DEF GaugesSound
<1> QED
  BY <1>1, TelemetrySafety, PTL

\* A scrape between handlers shows the state, the error, the P95 and the cadence
\* the controller has, and its confirmations unless the scrape shows an error.
THEOREM ScrapesAreCurrent == TelemetrySpec => []ScrapeIsCurrent
<1>1. IInv /\ TellInv => ScrapeIsCurrent
  BY NothingPending DEF IInv, GaugeLagsOnlyAfterFailure, TellInv, GaugesFollow,
                        ScrapeIsCurrent, Scraped
<1> QED
  BY <1>1, Observed, Safety, TelemetrySafety, PTL

\* Changes too small to be logged never add up to one that is not.
THEOREM LogIsCurrent == TelemetrySpec => []LogKeepsUp
<1>1. TellInv => LogKeepsUp
  BY NothingPending DEF TellInv, LogFollows, LogKeepsUp, Scraped
<1> QED
  BY <1>1, TelemetrySafety, PTL

\* A probe that contradicts itself had a query end between its reads.
THEOREM ProbesAreExplained == TelemetrySpec => []ProbeExplained
<1>1. IInv /\ TellInv => ProbeExplained
  BY DEF IInv, StateExplained, TellInv, ProbeFollows, FallbackExplained,
         ProbeExplained, Scraped
<1> QED
  BY <1>1, Observed, Safety, TelemetrySafety, PTL
=============================================================================
