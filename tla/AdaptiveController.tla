------------------------- MODULE AdaptiveController -------------------------
(***************************************************************************)
(* The adaptive controller (pkg/adapt) with the duty-cycle pool it drives. *)
(*                                                                         *)
(* Two goroutines share the controller's fields under one mutex:           *)
(*                                                                         *)
(*   - the slow loop (Run/step) queries the seven-day P95 from OCI WITHOUT *)
(*     the mutex, then takes it to digest the answer, then takes it again  *)
(*     to store the next polling interval;                                 *)
(*   - the estimator consumer (consumeEstimator/handleObservation) digests *)
(*     one host-load observation at a time.                                *)
(*                                                                         *)
(* An action is one critical section, so every interleaving of the two     *)
(* goroutines between critical sections is a behaviour.                    *)
(*                                                                         *)
(* All ratios are integers on the grid of PoolGuard.  The two intervals    *)
(* are the labels Interval and RelaxedInterval.                            *)
(***************************************************************************)
EXTENDS ControllerParameters

CONSTANTS
  P95s,                       \* the P95 values OCI may return
  Utils, Runnables,           \* the samples the estimator may deliver
  MaxSuccesses                \* bound on the relaxed confirmation counter

\* The sampler clamps a utilisation into [0,1] and divides two unsigned
\* counters for the run queue, so no other sample reaches the controller.
ASSUME InputAssumption ==
  /\ P95s \subseteq Nat
  /\ Utils \subseteq 0 .. Full
  /\ Runnables \subseteq Nat
  /\ MaxSuccesses \in Nat

Normal == "normal"
Fallback == "fallback"
Suppressed == "suppressed"
Interval == "interval"
RelaxedInterval == "relaxedInterval"

VARIABLES
  state,             \* what State(), /healthz and shaper_state report
  slowState,         \* verdict of the last OCI query
  suppressed,        \* the fast loop holds the duty cycle at zero
  target,            \* duty cycle in force
  desired,           \* duty cycle the slow loop would like
  lastP95,           \* last P95 OCI returned
  lastErr,           \* the last OCI query failed
  lastEstErr,        \* the last observation carried an error
  hostLoad,          \* smoothed host utilisation
  hostRunnable,      \* run queue per CPU of the last sample
  relaxedSuccesses,  \* consecutive P95 samples at or above RelaxedThreshold
  relaxedGauge,      \* controller_relaxed_successes on /metrics
  interval,          \* polling interval in force (the ticker's period)
  loop,              \* where the slow loop stands
  nextInterval,      \* what step returned, until it is stored
  consuming,         \* consumeEstimator is running
  cancelled,         \* the run context is cancelled
  poolTarget,        \* Pool.targetBits
  poolPaused         \* Pool.paused

decision  == <<state, slowState, target, desired, lastP95, lastErr>>
guardVars == <<suppressed, hostLoad, hostRunnable, lastEstErr>>
streak    == <<relaxedSuccesses, relaxedGauge>>
slowLoop  == <<loop, interval, nextInterval>>
pool      == <<poolTarget, poolPaused>>
vars == <<decision, guardVars, streak, slowLoop, pool, consuming, cancelled>>

-----------------------------------------------------------------------------
(***************************************************************************)
(* NewAdaptiveController.  In dry-run the pool is wrapped by a recording   *)
(* duty cycler: the real pool keeps the zero target NewPool gave it.  The  *)
(* workers already run when Run is called, the estimator does not.         *)
(***************************************************************************)
Init ==
  /\ state = Fallback /\ slowState = Fallback
  /\ suppressed = FALSE
  /\ target = FallbackTarget /\ desired = FallbackTarget
  /\ lastP95 = 0 /\ lastErr = FALSE /\ lastEstErr = FALSE
  /\ hostLoad = 0 /\ hostRunnable = 0
  /\ relaxedSuccesses = 0 /\ relaxedGauge = 0
  /\ interval = Interval /\ nextInterval = Interval
  /\ loop = "starting" /\ consuming = FALSE /\ cancelled = FALSE
  /\ poolTarget = IF Enforcing THEN PoolTarget(FallbackTarget) ELSE 0
  /\ poolPaused = FALSE

-----------------------------------------------------------------------------
(***************************************************************************)
(* Helpers of the handlers, named after the methods they stand for.        *)
(***************************************************************************)

\* Mutated form: dry-run drives the real pool.
MutApplyTarget(t) ==
  /\ target' = t
  /\ poolTarget' = PoolTarget(t)

\* applyTargetLocked, through the mode-aware duty cycler.
ApplyTarget(t) ==
  /\ target' = t
  /\ poolTarget' = IF Enforcing THEN PoolTarget(t) ELSE poolTarget

\* Mutated form: a slow-loop step applies its target while suppressed.
MutApplyUnlessSuppressed(t) == ApplyTarget(t)

\* The tail of both step handlers: only `desired` moves while suppressed.
ApplyUnlessSuppressed(t) ==
  IF suppressed THEN UNCHANGED <<target, poolTarget>> ELSE ApplyTarget(t)

\* Mutated form: the state is derived before the suppression flag changes.
MutUpdateEffectiveState ==
  state' = IF suppressed THEN Suppressed ELSE slowState'

\* updateEffectiveStateLocked, the last call of every handler.
UpdateEffectiveState ==
  state' = IF suppressed' THEN Suppressed ELSE slowState'

\* A zero duty stands for "no duty yet" in the code.
StartIfZero(t) == IF t = 0 THEN TargetStart ELSE t

\* Mutated form: the step always continues from the duty cycle in force,
\* which is zero while suppressed.
MutStepBase == StartIfZero(target)

\* handleStepSuccessLocked: where the next step starts from.
StepBase == StartIfZero(IF suppressed THEN desired ELSE target)

\* Mutated form: the step is not clamped into the configured bounds.
MutNextTarget(p95, base) ==
  IF p95 < GoalLow THEN base + StepUp
  ELSE IF p95 > GoalHigh THEN base - StepDown ELSE base

NextTarget(p95, base) ==
  Clamp(IF p95 < GoalLow THEN base + StepUp
        ELSE IF p95 > GoalHigh THEN base - StepDown ELSE base,
        TargetMin, TargetMax)

\* Mutated form: an error while suppressed leaves the old plan in place.
MutDesiredAfterError ==
  IF suppressed THEN desired ELSE Clamp(FallbackTarget, TargetMin, TargetMax)

DesiredAfterError == Clamp(FallbackTarget, TargetMin, TargetMax)

\* Mutated form: an error keeps the cadence in force.
MutIntervalAfterError == interval

IntervalAfterError == Interval

-----------------------------------------------------------------------------
(***************************************************************************)
(* The slow loop: Run and step.                                            *)
(***************************************************************************)

\* Run: the estimator is started and the first query issued at once.  The
\* estimator is the sampler, which never returns a nil channel.
StartRun ==
  /\ loop = "starting"
  /\ loop' = "querying"
  /\ consuming' = TRUE
  /\ UNCHANGED <<decision, guardVars, streak, interval, nextInterval, pool, cancelled>>

\* The ticker fires.  The select may prefer it to a context already cancelled.
Tick ==
  /\ loop = "waiting"
  /\ loop' = "querying"
  /\ UNCHANGED <<decision, guardVars, streak, interval, nextInterval, pool,
                 consuming, cancelled>>

\* Mutated form: while suppressed a failure leaves the last verdict.
MutStepFails ==
  /\ loop = "querying"
  /\ UNCHANGED <<guardVars, poolPaused, lastP95, relaxedGauge, interval,
                 consuming, cancelled>>
  /\ slowState' = IF suppressed THEN slowState ELSE Fallback
  /\ lastErr' = TRUE
  /\ desired' = DesiredAfterError
  /\ relaxedSuccesses' = 0
  /\ ApplyUnlessSuppressed(DesiredAfterError)
  /\ UpdateEffectiveState
  /\ nextInterval' = IntervalAfterError
  /\ loop' = "stepped"

\* QueryP95CPU failed: handleStepErrorLocked.  The counter is cleared without
\* telling the recorder.
StepFails ==
  /\ loop = "querying"
  /\ UNCHANGED <<guardVars, poolPaused, lastP95, relaxedGauge, interval,
                 consuming, cancelled>>
  /\ slowState' = Fallback
  /\ lastErr' = TRUE
  /\ desired' = DesiredAfterError
  /\ relaxedSuccesses' = 0
  /\ ApplyUnlessSuppressed(DesiredAfterError)
  /\ UpdateEffectiveState
  /\ nextInterval' = IntervalAfterError
  /\ loop' = "stepped"

\* nextIntervalLocked.  A sample taken while suppressed proves nothing about
\* the duty cycle, so it restarts the confirmation.
ChooseInterval(p95) ==
  LET confirmed == ~suppressed /\ p95 >= RelaxedThreshold
      count     == IF confirmed THEN relaxedSuccesses + 1 ELSE 0
  IN  /\ count <= MaxSuccesses
      /\ relaxedSuccesses' = count
      /\ relaxedGauge' = count
      /\ nextInterval' = IF confirmed /\ count >= RelaxedConfirmations
                         THEN RelaxedInterval ELSE Interval

\* QueryP95CPU returned: handleStepSuccessLocked.
StepSucceeds(p95) ==
  /\ loop = "querying"
  /\ UNCHANGED <<guardVars, poolPaused, interval, consuming, cancelled>>
  /\ slowState' = Normal
  /\ lastErr' = FALSE
  /\ lastP95' = p95
  /\ desired' = NextTarget(p95, StepBase)
  /\ ApplyUnlessSuppressed(NextTarget(p95, StepBase))
  /\ UpdateEffectiveState
  /\ ChooseInterval(p95)
  /\ loop' = "stepped"

\* Run, after step: the ticker is reset and the interval stored in a critical
\* section of its own.
StoreInterval ==
  /\ loop = "stepped"
  /\ interval' = nextInterval
  /\ loop' = "waiting"
  /\ UNCHANGED <<decision, guardVars, streak, nextInterval, pool, consuming, cancelled>>

\* Run returns ctx.Err().
StopLoop ==
  /\ loop = "waiting" /\ cancelled
  /\ loop' = "returned"
  /\ UNCHANGED <<decision, guardVars, streak, interval, nextInterval, pool,
                 consuming, cancelled>>

-----------------------------------------------------------------------------
(***************************************************************************)
(* The fast loop: consumeEstimator and handleObservation.                  *)
(***************************************************************************)

\* Mutated form: a threshold of zero counts as a threshold.
MutGuardExceeded(util, runnable) ==
  \/ util >= SuppressThreshold
  \/ runnable >= SuppressRunnableThreshold

GuardExceeded(util, runnable) ==
  \/ SuppressThreshold > 0 /\ util >= SuppressThreshold
  \/ SuppressRunnableThreshold > 0 /\ runnable >= SuppressRunnableThreshold

SuppressionDisabled == SuppressThreshold <= 0 /\ SuppressRunnableThreshold <= 0

\* Mutated form: a share of the sample is added, none of the average is lost.
MutSmoothed(old, util) ==
  {Clamp(old + util \div SuppressSmoothingSamples, 0, Full)}

\* The grid points a weighted average of `old` and `util` may round to: on the
\* way from one to the other, less than one grid unit from the exact value.
Smoothed(old, util) ==
  {x \in 0 .. Full :
     /\ (old <= x /\ x <= util) \/ (util <= x /\ x <= old)
     /\ LET residue == SuppressSmoothingSamples * (x - old) - (util - old)
        IN  -SuppressSmoothingSamples < residue /\ residue < SuppressSmoothingSamples}

\* Mutated form: the average is frozen while suppressed.
MutHostLoadsAfter(util, guarded) ==
  IF guarded \/ ~suppressed THEN {util} ELSE {hostLoad}

\* updateHostLoadLocked: a guard sample and the first sample count in full.
\* hostLoad = 0 is the code's "no sample yet".
HostLoadsAfter(util, guarded) ==
  IF hostLoad = 0 \/ guarded \/ SuppressSmoothingSamples <= 1
  THEN {util}
  ELSE Smoothed(hostLoad, util)

UtilisationHot(load) == SuppressThreshold > 0 /\ load >= SuppressThreshold
RunnablesHot(runnable) ==
  SuppressRunnableThreshold > 0 /\ runnable >= SuppressRunnableThreshold

\* Mutated form: the smoothed load must fall strictly below the resume point.
MutUtilisationCooled(load) == SuppressThreshold > 0 => load < SuppressResume

UtilisationCooled(load) == SuppressThreshold > 0 => load <= SuppressResume
RunnablesCooled(runnable) ==
  SuppressRunnableThreshold > 0 => runnable <= SuppressRunnableResume

\* Mutated form: one cooled signal is enough to resume.
MutShouldResume(load, runnable) == UtilisationCooled(load) \/ RunnablesCooled(runnable)

ShouldResume(load, runnable) == UtilisationCooled(load) /\ RunnablesCooled(runnable)

\* transitionSuppressionLocked
SuppressedAfter(guarded, load, runnable) ==
  \/ guarded
  \/ ~suppressed /\ (UtilisationHot(load) \/ RunnablesHot(runnable))
  \/ suppressed /\ ~ShouldResume(load, runnable)

\* Mutated form: leaving or entering suppression keeps the confirmations.
MutResetOnTransition == UNCHANGED streak

\* handleSuppressionTransitionLocked: a transition restarts the confirmation,
\* and this time the recorder is told.
ResetOnTransition ==
  IF suppressed' # suppressed
  THEN relaxedSuccesses' = 0 /\ relaxedGauge' = 0
  ELSE UNCHANGED streak

\* Mutated form: resuming starts over instead of restoring the plan.
MutRestoredTarget == TargetStart

RestoredTarget == Clamp(StartIfZero(desired), TargetMin, TargetMax)

\* applySuppressionTargetsLocked
ApplySuppressionTargets ==
  \/ suppressed' /\ ApplyTarget(0)
  \/ ~suppressed' /\ suppressed /\ ApplyTarget(RestoredTarget)
  \/ ~suppressed' /\ ~suppressed /\ UNCHANGED <<target, poolTarget>>

\* DutyCycler.ObserveHostLoad: the recording duty cycler of dry-run ignores it.
PoolObserves(util, runnable) ==
  poolPaused' = (Enforcing /\ PausedAfter(poolPaused, util, runnable))

\* handleObservation with a sample.  With both thresholds off nothing but the
\* pool and the error field moves: no sample is ever guarded then.
ObserveSample(util, runnable) ==
  /\ consuming
  /\ UNCHANGED <<slowState, desired, lastP95, lastErr, slowLoop, consuming, cancelled>>
  /\ lastEstErr' = FALSE
  /\ PoolObserves(util, runnable)
  /\ IF SuppressionDisabled
     THEN UNCHANGED <<suppressed, hostLoad, hostRunnable, streak, target, poolTarget, state>>
     ELSE /\ hostLoad' \in HostLoadsAfter(util, GuardExceeded(util, runnable))
          /\ hostRunnable' = runnable
          /\ suppressed' = SuppressedAfter(GuardExceeded(util, runnable), hostLoad', runnable)
          /\ ResetOnTransition
          /\ ApplySuppressionTargets
          /\ UpdateEffectiveState

\* handleObservation with an error: the suppression flag is left as it is.
ObserveError ==
  /\ consuming
  /\ lastEstErr' = TRUE
  /\ UNCHANGED <<suppressed, hostLoad, hostRunnable, slowState, target, desired,
                 lastP95, lastErr, streak, slowLoop, pool, consuming, cancelled>>
  /\ UpdateEffectiveState

\* Mutated form: only a closed channel ends the consumer.
MutStopConsuming ==
  /\ consuming /\ ~cancelled
  /\ consuming' = FALSE
  /\ UNCHANGED <<decision, guardVars, streak, slowLoop, pool, cancelled>>

\* consumeEstimator returns: the context is cancelled, or the estimator closed
\* its channel, which it may do at any time.
StopConsuming ==
  /\ consuming
  /\ consuming' = FALSE
  /\ UNCHANGED <<decision, guardVars, streak, slowLoop, pool, cancelled>>

\* The signal handler cancels the run context.
Cancel ==
  /\ ~cancelled
  /\ cancelled' = TRUE
  /\ UNCHANGED <<decision, guardVars, streak, slowLoop, pool, consuming>>

-----------------------------------------------------------------------------
SlowLoop ==
  \/ StartRun
  \/ Tick
  \/ StepFails
  \/ \E p95 \in P95s : StepSucceeds(p95)
  \/ StoreInterval
  \/ StopLoop

FastLoop ==
  \/ \E util \in Utils, runnable \in Runnables : ObserveSample(util, runnable)
  \/ ObserveError
  \/ StopConsuming

\* Run has returned and the consumer is gone: nothing is left to happen.
Terminated ==
  /\ loop = "returned" /\ ~consuming /\ cancelled
  /\ UNCHANGED vars

Next == SlowLoop \/ FastLoop \/ Cancel \/ Terminated

Spec == Init /\ [][Next]_vars

(***************************************************************************)
(* Fairness.  Go runs every runnable goroutine; the OCI client returns;    *)
(* the ticker fires.  A select with several ready cases picks one at       *)
(* random, so a cancelled loop that ever and again finds its ticker ready  *)
(* too still stops: strong fairness on StopLoop.  Nothing is assumed of    *)
(* the host load.                                                          *)
(***************************************************************************)
Fairness ==
  /\ WF_vars(StartRun)
  /\ WF_vars(Tick)
  /\ WF_vars(StepFails \/ \E p95 \in P95s : StepSucceeds(p95))
  /\ WF_vars(StoreInterval)
  /\ SF_vars(StopLoop)
  /\ WF_vars(cancelled /\ StopConsuming)

FairSpec == Spec /\ Fairness

-----------------------------------------------------------------------------
(***************************************************************************)
(* Properties.                                                             *)
(***************************************************************************)

\* Every variable keeps its type; the counter stays within its bound.
TypeOK ==
  /\ state \in {Normal, Fallback, Suppressed}
  /\ slowState \in {Normal, Fallback}
  /\ target \in Int /\ desired \in TargetMin .. TargetMax
  /\ lastP95 \in Nat
  /\ suppressed \in BOOLEAN /\ lastErr \in BOOLEAN /\ lastEstErr \in BOOLEAN
  /\ hostLoad \in 0 .. Full /\ hostRunnable \in Nat
  /\ relaxedSuccesses \in 0 .. MaxSuccesses /\ relaxedGauge \in 0 .. MaxSuccesses
  /\ interval \in {Interval, RelaxedInterval}
  /\ nextInterval \in {Interval, RelaxedInterval}
  /\ loop \in {"starting", "querying", "stepped", "waiting", "returned"}
  /\ consuming \in BOOLEAN /\ cancelled \in BOOLEAN
  /\ poolTarget \in 0 .. Full /\ poolPaused \in BOOLEAN

\* While the fast loop holds suppression no step of the slow loop, whatever
\* its query was doing meanwhile, puts work back on the pool.
SuppressedIsIdle == suppressed => target = 0 /\ poolTarget = 0

\* Work is allowed only on a host that is below both guard thresholds, by the
\* smoothed load and by the last run queue: smoothing never hides an overload
\* from the entry check, and no resume is premature.
GuardHeld == ~suppressed => ~UtilisationHot(hostLoad) /\ ~RunnablesHot(hostRunnable)

\* Suppression lasts only while a reading is above its resume threshold, and a
\* threshold set to zero takes no part: the host is never held back for nothing.
SuppressionJustified ==
  suppressed =>
    \/ SuppressThreshold > 0 /\ hostLoad > SuppressResume
    \/ SuppressRunnableThreshold > 0 /\ hostRunnable > SuppressRunnableResume

\* The two halves together: the suppression flag always fits the readings, in
\* the whole band between the thresholds and for any set of enabled guards.
SuppressionMatchesHost == GuardHeld /\ SuppressionJustified

\* Outside suppression the duty cycle in force is the slow loop's plan, also
\* right after a resume; the pool holds it, clamped into [0,1].
PlanInForce ==
  /\ ~suppressed /\ desired # 0 => target = desired
  /\ Enforcing => poolTarget = PoolTarget(target)

\* The duty cycle in force is within the configured bounds or zero for
\* suppression, over any mix of steps, failures, suppressions and resumes.
TargetsInBounds ==
  /\ desired \in TargetMin .. TargetMax
  /\ ~suppressed => target \in TargetMin .. TargetMax

\* After a failed query the fallback is what runs and what a later resume
\* restores, also when the failure came during suppression.
FallbackMeansFallbackTarget ==
  /\ slowState = Fallback => desired = FallbackTarget
  /\ state = Fallback => target = FallbackTarget

\* The duty cycle in force, the plan and the pool's target belong together
\* after every interleaving of steps, failures, suppressions and resumes.
DutyInForce ==
  SuppressedIsIdle /\ PlanInForce /\ TargetsInBounds /\ FallbackMeansFallbackTarget

\* The state on /healthz and /metrics is the one the flags imply, after every
\* interleaving of the two loops, and "normal" never hides a failed query.
StateExplained ==
  /\ state = (IF suppressed THEN Suppressed ELSE slowState)
  /\ lastErr => slowState = Fallback

\* The slow cadence is in force only if the last query succeeded with a P95 at
\* or above the relaxed threshold and completed the confirmations; an error
\* brings the normal cadence back.  The code keeps a cadence that was earned when
\* suppression begins or ends, until the next query: then the count is zero.
RelaxedPollingEarned ==
  LET inForce == IF loop = "stepped" THEN nextInterval ELSE interval
  IN  inForce = RelaxedInterval =>
        /\ slowState = Normal /\ ~lastErr /\ lastP95 >= RelaxedThreshold
        /\ relaxedSuccesses >= RelaxedConfirmations \/ relaxedSuccesses = 0

\* Confirmations never survive a failure, a low sample or a change of
\* suppression: a positive count speaks of the present.
StreakIsCurrent ==
  relaxedSuccesses > 0 => ~suppressed /\ ~lastErr /\ lastP95 >= RelaxedThreshold

\* The gauge of the confirmations lags behind them only after a failed query,
\* until the next success or change of suppression tells it.
GaugeLagsOnlyAfterFailure == relaxedGauge # relaxedSuccesses => lastErr

\* The confirmations, their gauge and the cadence in force are what the latest
\* query earned, whatever failed or was suppressed in between.
CadenceEarned == RelaxedPollingEarned /\ StreakIsCurrent /\ GaugeLagsOnlyAfterFailure

\* In dry-run the real pool neither gets a target nor is paused.
DryRunNeverDrives == ~Enforcing => poolTarget = 0 /\ ~poolPaused

\* The controller and the pool judge a sample separately; with equal
\* thresholds (the defaults) a guard sample stops both within the handler.
AlignedPool ==
  /\ PausePoint = SuppressThreshold
  /\ RunnableGuard = SuppressRunnableThreshold

GuardSampleStopsWork ==
  [][\A util \in Utils, runnable \in Runnables :
       GuardExceeded(util, runnable) /\ ObserveSample(util, runnable) =>
         suppressed' /\ poolTarget' = 0 /\ (Enforcing /\ AlignedPool => poolPaused')]_vars

\* Suppression begins with a sample that is itself over a threshold: the
\* average can delay a resume but never starts a suppression on its own.
EntryNeedsGuardSample ==
  [][~suppressed /\ suppressed' =>
       \E util \in Utils, runnable \in Runnables :
         GuardExceeded(util, runnable) /\ ObserveSample(util, runnable)]_vars

\* A host that stays cool, and is seen to be, gets its duty cycle back: the
\* smoothed load cannot hang above the resume threshold.  Cool means far enough below it for the
\* grid: an average of n samples may rest up to n - 1 units above the load.
Cool(util, runnable) ==
  /\ SuppressThreshold > 0 =>
       util + (IF SuppressSmoothingSamples > 1 THEN SuppressSmoothingSamples - 1 ELSE 0)
         <= SuppressResume
  /\ RunnablesCooled(runnable)

HotSample ==
  \E util \in Utils, runnable \in Runnables :
    ~Cool(util, runnable) /\ ObserveSample(util, runnable)

CoolSample ==
  \E util \in Utils, runnable \in Runnables :
    Cool(util, runnable) /\ ObserveSample(util, runnable)

ResumesWhenCool ==
  (<>[][~HotSample]_vars) /\ WF_vars(CoolSample) => []<>(~suppressed \/ ~consuming)

\* Cancelling the context ends both goroutines, whatever they were doing.
ShutdownCompletes == cancelled ~> (loop = "returned" /\ ~consuming)

\* The controller implements the governor: a plan moved in bounded steps, in
\* force unless held.  A negative TargetMin would let the plan be zero, which
\* the code takes for "no plan".
Governor == INSTANCE DutyGovernor
              WITH Lowest <- TargetMin, Highest <- TargetMax,
                   Up <- StepUp, Down <- StepDown, Safe <- FallbackTarget,
                   plan <- desired, held <- suppressed, duty <- target

ImplementsGovernor == Governor!Spec

-----------------------------------------------------------------------------
(***************************************************************************)
(* What the documentation says and the code does not do.                   *)
(***************************************************************************)

\* docs/05-monitoring-mql.md:49: OCI errors "reset the confirmation counter.
\* Pair it with controller_relaxed_successes to see the hysteresis in flight".
RelaxedGaugeIsCurrent == relaxedGauge = relaxedSuccesses

\* pkg/http/metrics/exporter.go:320-321, the HELP text of the gauge: "(resets
\* when switching to relaxed interval)".
GaugeResetsWhenRelaxed == interval = RelaxedInterval /\ loop = "waiting" => relaxedGauge = 0

\* docs/09-cli.md:100: "both the controller target and the workers pause in
\* lock-step when the per-CPU run queue crosses the configured limit".
PauseInLockStep == Enforcing /\ AlignedPool => (poolPaused => suppressed)

\* docs/09-cli.md:128 of the run-queue threshold and its resume value: "Assign
\* either to `0` to disable runnable-based suppression independently of
\* utilisation thresholds."  A resume value of 0 leaves the guard on and lets go
\* of it only when the run queue is empty.
EitherZeroDisablesRunQueue ==
  SuppressRunnableResume = 0 /\ SuppressThreshold = 0 => ~suppressed
=============================================================================
