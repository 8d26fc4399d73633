-------------------------- MODULE ControllerConfig --------------------------
(***************************************************************************)
(* adapt.Config: the defaults, the coercion and the validation of the      *)
(* controller's settings (pkg/adapt/config_*.go) as operators on a         *)
(* function from setting names to numbers.                                 *)
(*                                                                         *)
(* A ratio is an integer in thousandths, a duration an integer in hours.   *)
(* NaN is an integer that no ratio is; Less and AtMost are Go's < and <=,  *)
(* false as soon as one side is NaN, so a check "if a < b, refuse" is      *)
(* written ~Less(a, b), never as its arithmetical negation.                *)
(***************************************************************************)
EXTENDS Integers

CONSTANT NaN   \* the float64 that compares false with everything

ASSUME NaNAssumption == NaN \in Int /\ NaN < -1000

One == 1000    \* the ratio 1.0

Less(a, b) == a # NaN /\ b # NaN /\ a < b
AtMost(a, b) == a # NaN /\ b # NaN /\ a <= b

-----------------------------------------------------------------------------
Durations == {"Interval", "RelaxedInterval"}

Targets == {"TargetStart", "FallbackTarget", "GoalLow", "GoalHigh"}

Steps == {"StepUp", "StepDown"}

Bounds == {"TargetMin", "TargetMax"}

\* A zero here stands for "not set" and is replaced by the default.
DefaultedWhenZero ==
  Targets \union Bounds \union Steps
    \union {"RelaxedThreshold", "RelaxedConfirmations"}

Suppression == {"SuppressThreshold", "SuppressResume"}

RunQueue == {"SuppressRunnableThreshold", "SuppressRunnableResume"}

\* A zero here means what it says.
ZeroCounts == Suppression \union RunQueue \union {"SuppressSmoothingSamples"}

ControllerSettings == Durations \union DefaultedWhenZero \union ZeroCounts

\* DefaultConfig.
DefaultConfig ==
  [TargetStart |-> 220, FallbackTarget |-> 220, TargetMin |-> 200, TargetMax |-> 320,
   GoalLow |-> 210, GoalHigh |-> 270, StepUp |-> 10, StepDown |-> 5,
   Interval |-> 1, RelaxedInterval |-> 4,
   RelaxedThreshold |-> 260, RelaxedConfirmations |-> 2,
   SuppressThreshold |-> 800, SuppressResume |-> 680,
   SuppressRunnableThreshold |-> 1200, SuppressRunnableResume |-> 960,
   SuppressSmoothingSamples |-> 5]

\* normalizeModeLabel and ModeEnforcesTargets.
NormalizeModeLabel(mode) == IF mode \in {"", "normal"} THEN "enforce" ELSE mode
ModeEnforcesTargets(mode) == NormalizeModeLabel(mode) \notin {"dry-run", "noop"}

-----------------------------------------------------------------------------
\* ensureFloat, ensureInt, ensureDuration; the AllowZero variants return their
\* argument whatever it is.
EnsureFloat(value, fallback) == IF value = 0 THEN fallback ELSE value
EnsureDuration(value, fallback) == IF value <= 0 THEN fallback ELSE value

\* clamp(value, 0, 1): a NaN passes.
ClampRatio(value) ==
  IF Less(value, 0) THEN 0 ELSE IF Less(One, value) THEN One ELSE value

\* value * suppressResumeScale.
Scaled(value) == (4 * value) \div 5

\* Mutated form: a resume threshold equal to the threshold is kept.
MutResumeBelow(threshold, resume) ==
  IF AtMost(threshold, 0) THEN 0
  ELSE IF Less(threshold, resume) THEN Scaled(threshold) ELSE resume

\* The resume threshold coerceConfig keeps next to a threshold.
ResumeBelow(threshold, resume) ==
  IF AtMost(threshold, 0) THEN 0
  ELSE IF AtMost(threshold, resume) THEN Scaled(threshold) ELSE resume

NotNegative(value) == IF Less(value, 0) THEN 0 ELSE value

\* coerceConfig.
CoerceConfig(cfg) ==
  LET threshold == ClampRatio(cfg["SuppressThreshold"])
      runnable == NotNegative(cfg["SuppressRunnableThreshold"])
  IN [s \in ControllerSettings |->
       IF s \in Durations THEN EnsureDuration(cfg[s], DefaultConfig[s])
       ELSE IF s \in DefaultedWhenZero THEN EnsureFloat(cfg[s], DefaultConfig[s])
       ELSE IF s = "SuppressThreshold" THEN threshold
       ELSE IF s = "SuppressResume"
         THEN ResumeBelow(threshold, ClampRatio(cfg[s]))
       ELSE IF s = "SuppressRunnableThreshold" THEN runnable
       ELSE IF s = "SuppressRunnableResume"
         THEN ResumeBelow(runnable, NotNegative(cfg[s]))
       ELSE cfg[s]]   \* SuppressSmoothingSamples

-----------------------------------------------------------------------------
\* validateTargetBounds.
ValidTargetBounds(cfg) ==
  /\ ~AtMost(cfg["TargetMax"], cfg["TargetMin"])
  /\ \A s \in Targets : /\ ~Less(cfg[s], cfg["TargetMin"])
                        /\ ~Less(cfg["TargetMax"], cfg[s])

\* validateStepSizes.
ValidStepSizes(cfg) == \A s \in Steps : ~AtMost(cfg[s], 0)

\* validateRelaxedConfirmations and validateSuppressSmoothing.
ValidCounts(cfg) ==
  /\ cfg["RelaxedConfirmations"] \in 1 .. 100
  /\ cfg["SuppressSmoothingSamples"] \in 0 .. 100

\* validateGoalBounds.
ValidGoalBounds(cfg) == ~AtMost(cfg["GoalHigh"], cfg["GoalLow"])

\* The loop of validateSuppressionThresholds.
AboveEveryTarget(cfg) ==
  \A s \in Targets \union Bounds, t \in Suppression :
    ~(Less(0, cfg[t]) /\ AtMost(cfg[t], cfg[s]))

\* validateRunnableThresholds.
ValidRunnableThresholds(cfg) ==
  /\ \A s \in RunQueue : ~Less(cfg[s], 0)
  /\ ~ /\ Less(0, cfg["SuppressRunnableThreshold"])
       /\ AtMost(cfg["SuppressRunnableThreshold"], cfg["SuppressRunnableResume"])

\* validateControllerConfig.
ValidControllerConfig(cfg) ==
  /\ ValidTargetBounds(cfg)
  /\ ValidStepSizes(cfg)
  /\ ValidCounts(cfg)
  /\ ValidGoalBounds(cfg)
  /\ AboveEveryTarget(cfg)
  /\ ValidRunnableThresholds(cfg)

\* Mutated form: the settings are validated as they are written.
MutValidateConfig(cfg) == ValidControllerConfig(cfg)

\* ValidateConfig, the check of the loader: the run-queue thresholds as they
\* are written, everything else after coercion.
ValidateConfig(cfg) ==
  ValidRunnableThresholds(cfg) /\ ValidControllerConfig(CoerceConfig(cfg))

\* normalizeConfig, the check of the constructor.
Normalizes(cfg) == ValidControllerConfig(CoerceConfig(cfg))
=============================================================================
