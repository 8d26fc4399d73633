---------------------------- MODULE RuntimeConfig ----------------------------
(***************************************************************************)
(* runtimeconfig.Load and the construction of the controller and the pool  *)
(* from its result: defaults, the YAML file, the environment, two          *)
(* validators, then NewPool and NewAdaptiveController.                     *)
(*                                                                         *)
(* A configuration holds numbers, texts and flags by setting name.  A      *)
(* layer (the file, the environment) assigns some of them; "bad" names the *)
(* environment variables that are set to something that does not parse.    *)
(* Surrounding blanks of texts are gone (strings.TrimSpace), "" is blank.  *)
(***************************************************************************)
EXTENDS ControllerConfig

CONSTANTS
  Mode,           \* the mode of the command line, for the constructor
  Files,          \* the layers a configuration file may hold
  Environments    \* the layers the environment may hold

\* What the file's decoder and the parsers can deliver: an assignment to some
\* settings, each of its setting's type.
ASSUME LayerAssumption ==
  \A l \in Files \union Environments :
    /\ \A s \in DOMAIN l.numbers : l.numbers[s] \in Int
    /\ \A s \in DOMAIN l.flags : l.flags[s] \in BOOLEAN

PoolSettings ==
  {"Workers", "Quantum", "PauseThreshold", "ResumeThreshold", "RunnableGuard"}
Numbers == ControllerSettings \union PoolSettings \union {"EstimatorInterval"}
Texts == {"Bind", "CompartmentID", "Region", "InstanceID"}
Flags == {"AutoSizeFromShape", "Offline"}

\* Numbers no environment variable sets.
FileOnly == {"Quantum"}

\* Default.  The pool's band is that of the controller's defaults.
Default ==
  [numbers |-> [s \in Numbers |->
      IF s \in ControllerSettings THEN DefaultConfig[s]
      ELSE IF s = "Workers" THEN 2
      ELSE IF s = "PauseThreshold" THEN DefaultConfig["SuppressThreshold"]
      ELSE IF s = "ResumeThreshold" THEN DefaultConfig["SuppressResume"]
      ELSE IF s = "RunnableGuard" THEN DefaultConfig["SuppressRunnableThreshold"]
      ELSE 1],   \* the quantum in ms, the sampling interval in s
   texts |-> [s \in Texts |-> IF s = "Bind" THEN ":9108" ELSE ""],
   flags |-> [s \in Flags |-> FALSE]]

VARIABLES
  stage,     \* how far the program has come
  file,      \* the layer read from the file
  env,       \* the layer read from the environment
  cfg,       \* runtimeconfig.Config as it is being merged
  running,   \* the controller's own configuration, coerced
  pool       \* the pool's worker count and quantum

vars == <<stage, file, env, cfg, running, pool>>

Empty == [numbers |-> <<>>, texts |-> <<>>, flags |-> <<>>, bad |-> {}]

NoPool == [workers |-> 0, quantum |-> 0]

Init ==
  /\ stage = "defaults"
  /\ cfg = Default
  /\ file = Empty /\ env = Empty
  /\ running = DefaultConfig
  /\ pool = NoPool

-----------------------------------------------------------------------------
\* assignFloat, assignInt, assignDuration, assignString, assignBool: what the
\* file sets, even to zero or blank, replaces what is there.
Assign(base, layer) ==
  [s \in DOMAIN base |-> IF s \in DOMAIN layer THEN layer[s] ELSE base[s]]

\* mergeRuntimeConfigFile.  A missing file is an empty layer.
MergeFile ==
  /\ stage = "defaults"
  /\ \E f \in Files :
       /\ file' = f
       /\ cfg' = [numbers |-> Assign(cfg.numbers, f.numbers),
                  texts |-> Assign(cfg.texts, f.texts),
                  flags |-> Assign(cfg.flags, f.flags)]
  /\ stage' = "merged"
  /\ UNCHANGED <<env, running, pool>>

\* A file that cannot be read or decoded: Load returns no configuration and
\* the program exits with status 1.
FileFails ==
  /\ stage = "defaults"
  /\ stage' = "unreadable"
  /\ UNCHANGED <<file, env, cfg, running, pool>>

\* Which parsed values envInt, envIntAllowZero, envFloat and envDuration take.
UsableNumber(s, value) ==
  /\ s \in {"RelaxedConfirmations", "Workers"} => value > 0
  /\ s = "SuppressSmoothingSamples" => value >= 0
  /\ s \notin FileOnly

\* envString ignores a blank, envStringAllowEmpty takes it.
UsableText(s, value) == value # "" \/ s = "Bind"

\* Mutated form: the part of a malformed number that parses is taken.
MutUsableNumbers(e) == {s \in DOMAIN e.numbers : UsableNumber(s, e.numbers[s])}

UsableNumbers(e) == {s \in DOMAIN e.numbers \ e.bad : UsableNumber(s, e.numbers[s])}
UsableTexts(e)   == {s \in DOMAIN e.texts : UsableText(s, e.texts[s])}
UsableFlags(e)   == DOMAIN e.flags \ e.bad

Override(base, layer, usable) ==
  [s \in DOMAIN base |-> IF s \in usable THEN layer[s] ELSE base[s]]

\* applyEnvOverrides.
ApplyEnv ==
  /\ stage = "merged"
  /\ \E e \in Environments :
       /\ env' = e
       /\ cfg' = [numbers |-> Override(cfg.numbers, e.numbers, UsableNumbers(e)),
                  texts |-> Override(cfg.texts, e.texts, UsableTexts(e)),
                  flags |-> Override(cfg.flags, e.flags, UsableFlags(e))]
  /\ stage' = "overridden"
  /\ UNCHANGED <<file, running, pool>>

-----------------------------------------------------------------------------
ValidPoolSettings(n) == n["Workers"] > 0 /\ n["Quantum"] > 0

ValidLoopIntervals(n) ==
  /\ \A s \in Durations \union {"EstimatorInterval"} : n[s] > 0
  /\ ValidStepSizes(n)
  /\ n["RelaxedConfirmations"] > 0

\* Mutated form: the steps and cadences are left to the controller, which
\* takes a zero for "not set".
MutValidateRuntimeConfig(n) ==
  ValidPoolSettings(n) /\ ValidTargetBounds(n) /\ ValidGoalBounds(n)

\* validateRuntimeConfig: on the settings as they are written.
ValidateRuntimeConfig(n) ==
  /\ ValidPoolSettings(n)
  /\ ValidLoopIntervals(n)
  /\ ValidTargetBounds(n)
  /\ ValidGoalBounds(n)

\* ToAdaptConfig.
ToAdaptConfig(n) == [s \in ControllerSettings |-> n[s]]

\* The second half of Load.  Either error is ErrInvalidConfig: exit status 2.
Validate ==
  /\ stage = "overridden"
  /\ stage' = IF /\ ValidateRuntimeConfig(cfg.numbers)
                 /\ ValidateConfig(ToAdaptConfig(cfg.numbers))
              THEN "loaded" ELSE "refused"
  /\ UNCHANGED <<file, env, cfg, running, pool>>

\* Mutated form: the quantum is taken as it is written.
MutNewPool(n) == [workers |-> n["Workers"], quantum |-> n["Quantum"]]

\* NewPool; a quantum stays within 1 to 5 ms.
NewPool(n) ==
  [workers |-> n["Workers"],
   quantum |-> IF n["Quantum"] <= 0 THEN 1
               ELSE IF n["Quantum"] > 5 THEN 5 ELSE n["Quantum"]]

\* buildAdaptiveController: the pool with its thresholds, then the controller.
Build ==
  /\ stage = "loaded"
  /\ IF cfg.numbers["Workers"] > 0 /\ Normalizes(ToAdaptConfig(cfg.numbers))
     THEN /\ stage' = "built"
          /\ running' = CoerceConfig(ToAdaptConfig(cfg.numbers))
          /\ pool' = NewPool(cfg.numbers)
     ELSE /\ stage' = "unbuildable"
          /\ UNCHANGED <<running, pool>>
  /\ UNCHANGED <<file, env, cfg>>

Next == MergeFile \/ FileFails \/ ApplyEnv \/ Validate \/ Build

Spec == Init /\ [][Next]_vars

-----------------------------------------------------------------------------
\* The parameters the controller and the pool run with.
Built == INSTANCE ControllerParameters WITH
  Full <- One,
  PauseThreshold <- cfg.numbers["PauseThreshold"],
  ResumeThreshold <- cfg.numbers["ResumeThreshold"],
  RunnableGuard <- cfg.numbers["RunnableGuard"],
  Enforcing <- ModeEnforcesTargets(Mode),
  TargetStart <- running["TargetStart"],
  TargetMin <- running["TargetMin"],
  TargetMax <- running["TargetMax"],
  StepUp <- running["StepUp"],
  StepDown <- running["StepDown"],
  FallbackTarget <- running["FallbackTarget"],
  GoalLow <- running["GoalLow"],
  GoalHigh <- running["GoalHigh"],
  RelaxedThreshold <- running["RelaxedThreshold"],
  RelaxedConfirmations <- running["RelaxedConfirmations"],
  SuppressThreshold <- running["SuppressThreshold"],
  SuppressResume <- running["SuppressResume"],
  SuppressRunnableThreshold <- running["SuppressRunnableThreshold"],
  SuppressRunnableResume <- running["SuppressRunnableResume"],
  SuppressSmoothingSamples <- running["SuppressSmoothingSamples"]

Ordered == \A s \in ControllerSettings : cfg.numbers[s] # NaN

\* The variables keep their types; a pool, once built, has workers and a
\* quantum within its limits.
TypeOK ==
  /\ stage \in {"defaults", "merged", "overridden", "loaded", "refused",
                "unreadable", "built", "unbuildable"}
  /\ cfg.numbers \in [Numbers -> Int]
  /\ DOMAIN cfg.texts = Texts
  /\ cfg.flags \in [Flags -> BOOLEAN]
  /\ running \in [ControllerSettings -> Int]
  /\ stage = "built" => pool.workers > 0 /\ pool.quantum \in 1 .. 5

\* What Load accepts the constructors accept: a configuration error is always
\* reported before any part of the program starts (validate.go, ValidateConfig).
LoadedBuilds == stage # "unbuildable"

\* A configuration without NaN that was loaded and built satisfies what the
\* controller's model and proofs assume, whatever was zero, out of range or
\* left out in its layers (coerceConfig, validateControllerConfig).
BuiltIsSound == stage = "built" /\ Ordered => Built!ConfigAssumption

\* Every number that was loaded runs as it was written: coercion, which takes
\* zeros for "not set", changes only the suppression thresholds, the bounds and
\* the targets, never a cadence, a step or a count that passed validation.
CadencesAsWritten ==
  stage = "built" =>
    \A s \in Durations \union Steps \union {"RelaxedConfirmations"} :
      running[s] = cfg.numbers[s]

\* A usable environment value wins over the file and a file value over the
\* default; a variable that is unset, blank or malformed changes nothing.
Layered ==
  stage \in {"overridden", "loaded", "refused", "built"} =>
    \A s \in Numbers :
      cfg.numbers[s] =
        IF s \in DOMAIN env.numbers \ env.bad /\ UsableNumber(s, env.numbers[s])
        THEN env.numbers[s]
        ELSE IF s \in DOMAIN file.numbers THEN file.numbers[s]
        ELSE Default.numbers[s]

\* From the layers to the running controller a number is never lost: the layer
\* that wins is the one that runs, apart from what coercion is meant to change.
RunsAsWritten == Layered /\ CadencesAsWritten

-----------------------------------------------------------------------------
\* docs/09-cli.md:101 of every accepted configuration: targetMin is below
\* targetMax, every target and goal falls within that band.  Violated: "NaN" is
\* a float to ParseFloat and passes every comparison.
EveryTargetWithinBand ==
  stage = "built" =>
    \A s \in Targets : /\ AtMost(running["TargetMin"], running[s])
                       /\ AtMost(running[s], running["TargetMax"])

\* docs/09-cli.md:100: a controller.suppressThreshold of 0 disables
\* utilisation-based suppression entirely.  Violated: the pool's own band keeps
\* its default and pauses the workers on the same samples.
DisabledMeansNoPause ==
  stage = "built" /\ running["SuppressThreshold"] = 0
    /\ "PauseThreshold" \notin DOMAIN file.numbers \union DOMAIN env.numbers
    => Built!PausePoint = 0

\* docs/09-cli.md:140: malformed overrides fall back to the defaults.
\* Violated: they leave the value of the file.
MalformedMeansDefault ==
  stage = "overridden" =>
    \A s \in Numbers \intersect env.bad : cfg.numbers[s] = Default.numbers[s]
=============================================================================
