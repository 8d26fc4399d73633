------------------------- MODULE RuntimeConfigProofs -------------------------
(***************************************************************************)
(* What coercion and validation guarantee, for every configuration; and    *)
(* that the program runs only configurations its models assume.            *)
(***************************************************************************)
EXTENDS RuntimeConfig, TLAPS

Configs == [ControllerSettings -> Int]

USE DEF One

LEMMA SettingNames ==
  /\ Durations \subseteq ControllerSettings
  /\ Targets \subseteq ControllerSettings
  /\ Bounds \subseteq ControllerSettings
  /\ Steps \subseteq ControllerSettings
  /\ Suppression \subseteq ControllerSettings
  /\ RunQueue \subseteq ControllerSettings
  /\ DefaultedWhenZero \subseteq ControllerSettings
  /\ {"RelaxedThreshold", "RelaxedConfirmations", "SuppressSmoothingSamples"}
       \subseteq ControllerSettings
  /\ ControllerSettings \subseteq Numbers
BY DEF Durations, Targets, Bounds, Steps, Suppression, RunQueue,
       DefaultedWhenZero, ZeroCounts, ControllerSettings, Numbers

\* The defaults are numbers, and none of those that stand in for a zero is one.
LEMMA Defaults ==
  /\ DefaultConfig \in Configs
  /\ \A s \in DefaultedWhenZero : DefaultConfig[s] # 0
  /\ \A s \in Durations : DefaultConfig[s] > 0
BY DEF Configs, DefaultConfig, Durations, Targets, Bounds, Steps, Suppression,
       RunQueue, DefaultedWhenZero, ZeroCounts, ControllerSettings

\* A resume threshold that coercion has chosen lies below a positive threshold
\* and is left alone the second time.
LEMMA ResumeBelowFacts ==
  ASSUME NEW t \in Int, NEW r \in Int
  PROVE  LET k == ResumeBelow(t, r)
         IN /\ k \in Int
            /\ ResumeBelow(t, k) = k
            /\ AtMost(t, 0) => k = 0
            /\ ~AtMost(t, 0) /\ t # NaN /\ r # NaN => k < t
            /\ t # NaN /\ r # NaN => k # NaN
            /\ r = NaN \/ r >= 0 => k = NaN \/ k >= 0
<1>1. CASE AtMost(t, 0)
  BY <1>1, NaNAssumption DEF ResumeBelow, AtMost
<1>2. CASE ~AtMost(t, 0) /\ AtMost(t, r)
  <2>1. t > 0 /\ t # NaN
    BY <1>2, NaNAssumption DEF AtMost
  <2>2. Scaled(t) \in Int /\ 0 <= Scaled(t) /\ Scaled(t) < t
    BY <2>1 DEF Scaled
  <2>3. Scaled(t) # NaN /\ ~AtMost(t, Scaled(t))
    BY <2>2, NaNAssumption DEF AtMost
  <2> QED
    BY <1>2, <2>1, <2>2, <2>3 DEF ResumeBelow
<1>3. CASE ~AtMost(t, 0) /\ ~AtMost(t, r)
  BY <1>3, NaNAssumption DEF ResumeBelow, AtMost
<1> QED
  BY <1>1, <1>2, <1>3

LEMMA ClampFacts ==
  ASSUME NEW v \in Int
  PROVE  /\ ClampRatio(v) \in Int
         /\ v = NaN => ClampRatio(v) = NaN
         /\ v # NaN => ClampRatio(v) \in 0 .. One
         /\ ClampRatio(ClampRatio(v)) = ClampRatio(v)
         /\ NotNegative(v) \in Int
         /\ v = NaN => NotNegative(v) = NaN
         /\ v # NaN => NotNegative(v) >= 0
         /\ NotNegative(NotNegative(v)) = NotNegative(v)
BY NaNAssumption DEF ClampRatio, NotNegative, Less

\* What CoerceConfig makes of each group of settings.
LEMMA Coerced ==
  ASSUME NEW c \in Configs
  PROVE  LET d == CoerceConfig(c)
         IN /\ d \in Configs
            /\ \A s \in Durations : d[s] = EnsureDuration(c[s], DefaultConfig[s])
            /\ \A s \in DefaultedWhenZero : d[s] = EnsureFloat(c[s], DefaultConfig[s])
            /\ d["SuppressThreshold"] = ClampRatio(c["SuppressThreshold"])
            /\ d["SuppressResume"] =
                 ResumeBelow(d["SuppressThreshold"], ClampRatio(c["SuppressResume"]))
            /\ d["SuppressRunnableThreshold"] = NotNegative(c["SuppressRunnableThreshold"])
            /\ d["SuppressRunnableResume"] =
                 ResumeBelow(d["SuppressRunnableThreshold"],
                             NotNegative(c["SuppressRunnableResume"]))
            /\ d["SuppressSmoothingSamples"] = c["SuppressSmoothingSamples"]
<1> DEFINE d == CoerceConfig(c)
<1>1. \A s \in ControllerSettings : c[s] \in Int
  BY DEF Configs
<1>2. \A s \in ControllerSettings : DefaultConfig[s] \in Int
  BY Defaults DEF Configs
<1>3. /\ Durations \subseteq ControllerSettings
      /\ DefaultedWhenZero \subseteq ControllerSettings
      /\ Suppression \subseteq ControllerSettings
      /\ RunQueue \subseteq ControllerSettings
      /\ "SuppressSmoothingSamples" \in ControllerSettings
  BY SettingNames
<1>4. /\ Durations \intersect DefaultedWhenZero = {}
      /\ \A s \in Suppression \union RunQueue \union {"SuppressSmoothingSamples"} :
           s \notin Durations /\ s \notin DefaultedWhenZero
  BY DEF Durations, DefaultedWhenZero, Targets, Bounds, Steps, Suppression, RunQueue
<1>5. /\ \A s \in Durations : d[s] = EnsureDuration(c[s], DefaultConfig[s])
      /\ \A s \in DefaultedWhenZero : d[s] = EnsureFloat(c[s], DefaultConfig[s])
  BY <1>3, <1>4 DEF CoerceConfig
<1>6. /\ d["SuppressThreshold"] = ClampRatio(c["SuppressThreshold"])
      /\ d["SuppressRunnableThreshold"] = NotNegative(c["SuppressRunnableThreshold"])
      /\ d["SuppressSmoothingSamples"] = c["SuppressSmoothingSamples"]
  BY <1>3, <1>4 DEF CoerceConfig, Suppression, RunQueue
<1>7. /\ d["SuppressResume"] =
           ResumeBelow(d["SuppressThreshold"], ClampRatio(c["SuppressResume"]))
      /\ d["SuppressRunnableResume"] =
           ResumeBelow(d["SuppressRunnableThreshold"],
                       NotNegative(c["SuppressRunnableResume"]))
  BY <1>3, <1>4, <1>6 DEF CoerceConfig, Suppression, RunQueue
<1>8. d \in [ControllerSettings -> Int]
  <2>1. \A s \in Durations \union DefaultedWhenZero : d[s] \in Int
    BY <1>1, <1>2, <1>3, <1>5 DEF EnsureDuration, EnsureFloat
  <2>2. \A s \in Suppression \union RunQueue : c[s] \in Int
    BY <1>1, <1>3
  <2>3. d["SuppressThreshold"] \in Int /\ d["SuppressRunnableThreshold"] \in Int
    BY <1>6, <2>2, ClampFacts DEF Suppression, RunQueue
  <2>4. ClampRatio(c["SuppressResume"]) \in Int /\ NotNegative(c["SuppressRunnableResume"]) \in Int
    BY <2>2, ClampFacts DEF Suppression, RunQueue
  <2>5. d["SuppressResume"] \in Int /\ d["SuppressRunnableResume"] \in Int
    BY <1>7, <2>3, <2>4, ResumeBelowFacts
  <2>6. d["SuppressSmoothingSamples"] \in Int
    BY <1>1, <1>3, <1>6
  <2>7. \A s \in ControllerSettings : d[s] \in Int
    BY <2>1, <2>3, <2>5, <2>6 DEF ControllerSettings, ZeroCounts, Suppression, RunQueue
  <2>8. d = [s \in ControllerSettings |-> d[s]]
    BY DEF CoerceConfig
  <2> QED
    BY <2>7, <2>8
<1> QED
  BY <1>5, <1>6, <1>7, <1>8 DEF Configs

\* Coercing twice is coercing once: the loader and the constructor, which both
\* coerce, mean the same configuration.
THEOREM CoercionIsIdempotent ==
  ASSUME NEW c \in Configs
  PROVE  CoerceConfig(CoerceConfig(c)) = CoerceConfig(c)
<1> DEFINE d == CoerceConfig(c)
           e == CoerceConfig(d)
<1>1. c \in Configs /\ d \in Configs /\ e \in Configs
  BY Coerced
<1>2. \A s \in Durations : e[s] = d[s]
  <2> SUFFICES ASSUME NEW s \in Durations PROVE e[s] = d[s]
    OBVIOUS
  <2>1. e[s] = EnsureDuration(d[s], DefaultConfig[s]) /\ d[s] = EnsureDuration(c[s], DefaultConfig[s])
    BY <1>1, Coerced
  <2>2. DefaultConfig[s] > 0 /\ c[s] \in Int /\ DefaultConfig[s] \in Int
    BY Defaults, SettingNames DEF Configs
  <2> QED
    BY <2>1, <2>2 DEF EnsureDuration
<1>3. \A s \in DefaultedWhenZero : e[s] = d[s]
  <2> SUFFICES ASSUME NEW s \in DefaultedWhenZero PROVE e[s] = d[s]
    OBVIOUS
  <2>1. e[s] = EnsureFloat(d[s], DefaultConfig[s]) /\ d[s] = EnsureFloat(c[s], DefaultConfig[s])
    BY <1>1, Coerced
  <2> QED
    BY <2>1, Defaults DEF EnsureFloat
<1>4. \A s \in Suppression \union RunQueue : c[s] \in Int /\ d[s] \in Int
  BY <1>1, SettingNames DEF Configs
<1>5. /\ d["SuppressThreshold"] = ClampRatio(c["SuppressThreshold"])
      /\ e["SuppressThreshold"] = ClampRatio(d["SuppressThreshold"])
      /\ d["SuppressRunnableThreshold"] = NotNegative(c["SuppressRunnableThreshold"])
      /\ e["SuppressRunnableThreshold"] = NotNegative(d["SuppressRunnableThreshold"])
  BY <1>1, Coerced
<1>6. /\ e["SuppressThreshold"] = d["SuppressThreshold"]
      /\ e["SuppressRunnableThreshold"] = d["SuppressRunnableThreshold"]
  BY <1>4, <1>5, ClampFacts DEF Suppression, RunQueue
<1>7. e["SuppressResume"] = d["SuppressResume"]
  <2> DEFINE t == d["SuppressThreshold"]
             r == ClampRatio(c["SuppressResume"])
             k == d["SuppressResume"]
  <2>1. /\ k = ResumeBelow(t, r)
        /\ e["SuppressResume"] = ResumeBelow(t, ClampRatio(k))
    BY <1>1, <1>6, Coerced
  <2>a. c["SuppressThreshold"] \in Int /\ c["SuppressResume"] \in Int /\ k \in Int
    BY <1>4 DEF Suppression
  <2>b. t = ClampRatio(c["SuppressThreshold"])
    BY <1>5
  <2> HIDE DEF t, k
  <2>2. /\ t \in Int /\ r \in Int /\ k \in Int
        /\ t = NaN \/ t \in 0 .. One
        /\ r = NaN \/ r \in 0 .. One
    <3>1. \A v \in Int : /\ ClampRatio(v) \in Int
                         /\ ClampRatio(v) = NaN \/ ClampRatio(v) \in 0 .. One
      BY ClampFacts
    <3>2. t \in Int
      BY <2>a, <2>b, <3>1
    <3>3. r \in Int
      BY <2>a, <2>b, <3>1
    <3>4. t = NaN \/ t \in 0 .. One
      BY <2>a, <2>b, <3>1
    <3>5. r = NaN \/ r \in 0 .. One
      BY <2>a, <2>b, <3>1
    <3> QED
      BY <2>a, <3>2, <3>3, <3>4, <3>5
  <2> HIDE DEF r
  <2>3. ResumeBelow(t, k) = k
    BY <2>1, <2>2, ResumeBelowFacts
  <2>4. k = NaN \/ k \in 0 .. One
    BY <2>1, <2>2, ResumeBelowFacts, NaNAssumption DEF ResumeBelow, AtMost, Scaled
  <2>5. ClampRatio(k) = k
    BY <2>4, NaNAssumption DEF ClampRatio, Less
  <2> QED
    BY <2>1, <2>3, <2>5 DEF k
<1>8. e["SuppressRunnableResume"] = d["SuppressRunnableResume"]
  <2> DEFINE t == d["SuppressRunnableThreshold"]
             r == NotNegative(c["SuppressRunnableResume"])
             k == d["SuppressRunnableResume"]
  <2>1. /\ k = ResumeBelow(t, r)
        /\ e["SuppressRunnableResume"] = ResumeBelow(t, NotNegative(k))
    BY <1>1, <1>6, Coerced
  <2>a. c["SuppressRunnableResume"] \in Int /\ t \in Int /\ k \in Int
    BY <1>4 DEF RunQueue
  <2> HIDE DEF t, k
  <2>2. /\ t \in Int /\ r \in Int /\ k \in Int
        /\ r = NaN \/ r >= 0
    BY <2>a, ClampFacts
  <2> HIDE DEF r
  <2>3. ResumeBelow(t, k) = k /\ (k = NaN \/ k >= 0)
    BY <2>1, <2>2, ResumeBelowFacts
  <2>4. NotNegative(k) = k
    BY <2>2, <2>3, NaNAssumption DEF NotNegative, Less
  <2> QED
    BY <2>1, <2>3, <2>4 DEF k
<1>9. e["SuppressSmoothingSamples"] = d["SuppressSmoothingSamples"]
  BY <1>1, Coerced
<1>10. \A s \in ControllerSettings : e[s] = d[s]
  BY <1>2, <1>3, <1>6, <1>7, <1>8, <1>9
     DEF ControllerSettings, ZeroCounts, Suppression, RunQueue
<1> QED
  BY <1>1, <1>10 DEF Configs

\* Coercion brings in no NaN.
LEMMA CoercionKeepsOrder ==
  ASSUME NEW c \in Configs, \A s \in ControllerSettings : c[s] # NaN
  PROVE  \A s \in ControllerSettings : CoerceConfig(c)[s] # NaN
<1> DEFINE d == CoerceConfig(c)
<1>1. \A s \in ControllerSettings : c[s] \in Int /\ c[s] # NaN
  BY DEF Configs
<1>2. \A s \in Durations \union DefaultedWhenZero : d[s] # NaN
  <2>1. \A s \in Durations \union DefaultedWhenZero : DefaultConfig[s] # NaN
    BY NaNAssumption DEF DefaultConfig, Durations, DefaultedWhenZero, Targets, Bounds, Steps
  <2> QED
    BY <1>1, <2>1, Coerced, SettingNames DEF EnsureDuration, EnsureFloat
<1>3. \A s \in Suppression \union RunQueue \union {"SuppressSmoothingSamples"} :
        c[s] \in Int /\ c[s] # NaN
  BY <1>1, SettingNames
<1>4. \A v \in Int : v # NaN => /\ ClampRatio(v) \in Int /\ ClampRatio(v) # NaN
                                /\ NotNegative(v) \in Int /\ NotNegative(v) # NaN
  BY NaNAssumption DEF ClampRatio, NotNegative, Less
<1>5. d["SuppressThreshold"] \in Int /\ d["SuppressThreshold"] # NaN
      /\ d["SuppressRunnableThreshold"] \in Int /\ d["SuppressRunnableThreshold"] # NaN
  BY <1>3, <1>4, Coerced DEF Suppression, RunQueue
<1>6. d["SuppressResume"] # NaN /\ d["SuppressRunnableResume"] # NaN
  <2>1. /\ d["SuppressResume"] =
             ResumeBelow(d["SuppressThreshold"], ClampRatio(c["SuppressResume"]))
        /\ d["SuppressRunnableResume"] =
             ResumeBelow(d["SuppressRunnableThreshold"],
                         NotNegative(c["SuppressRunnableResume"]))
    BY Coerced
  <2>2. \A s \in {"SuppressResume", "SuppressRunnableResume"} :
          /\ ClampRatio(c[s]) \in Int /\ ClampRatio(c[s]) # NaN
          /\ NotNegative(c[s]) \in Int /\ NotNegative(c[s]) # NaN
    BY <1>3, <1>4 DEF Suppression, RunQueue
  <2> HIDE DEF d
  <2> QED
    BY <1>5, <2>1, <2>2, ResumeBelowFacts
<1>7. d["SuppressSmoothingSamples"] # NaN
  BY <1>3, Coerced
<1> QED
  BY <1>2, <1>5, <1>6, <1>7 DEF ControllerSettings, ZeroCounts, Suppression, RunQueue

\* The thresholds coercion leaves behind.
LEMMA CoercedThresholds ==
  ASSUME NEW c \in Configs, \A s \in ControllerSettings : c[s] # NaN
  PROVE  LET d == CoerceConfig(c)
         IN /\ d["SuppressThreshold"] \in 0 .. One
            /\ IF d["SuppressThreshold"] = 0 THEN d["SuppressResume"] = 0
               ELSE d["SuppressResume"] \in 0 .. d["SuppressThreshold"] - 1
            /\ d["SuppressRunnableThreshold"] \in Nat
            /\ IF d["SuppressRunnableThreshold"] = 0 THEN d["SuppressRunnableResume"] = 0
               ELSE d["SuppressRunnableResume"] \in 0 .. d["SuppressRunnableThreshold"] - 1
<1> DEFINE d == CoerceConfig(c)
<1>1. \A s \in Suppression \union RunQueue : c[s] \in Int /\ c[s] # NaN
  BY SettingNames DEF Configs
<1>2. \A v \in Int : v # NaN => /\ ClampRatio(v) \in 0 .. One
                                /\ NotNegative(v) \in Nat
  BY NaNAssumption DEF ClampRatio, NotNegative, Less
<1>3. \A t \in Nat, r \in Nat : IF t = 0 THEN ResumeBelow(t, r) = 0
                                ELSE ResumeBelow(t, r) \in 0 .. t - 1
  <2> SUFFICES ASSUME NEW t \in Nat, NEW r \in Nat
               PROVE  IF t = 0 THEN ResumeBelow(t, r) = 0
                      ELSE ResumeBelow(t, r) \in 0 .. t - 1
    OBVIOUS
  <2>1. t # NaN /\ r # NaN /\ (AtMost(t, 0) <=> t = 0)
    BY NaNAssumption DEF AtMost
  <2>2. /\ ResumeBelow(t, r) \in Int
        /\ AtMost(t, 0) => ResumeBelow(t, r) = 0
        /\ ~AtMost(t, 0) => ResumeBelow(t, r) < t
        /\ ResumeBelow(t, r) = NaN \/ ResumeBelow(t, r) >= 0
        /\ ResumeBelow(t, r) # NaN
    <3> DEFINE k == ResumeBelow(t, r)
    <3>1. /\ k \in Int
          /\ AtMost(t, 0) => k = 0
          /\ ~AtMost(t, 0) /\ t # NaN /\ r # NaN => k < t
          /\ t # NaN /\ r # NaN => k # NaN
          /\ r = NaN \/ r >= 0 => k = NaN \/ k >= 0
      BY ResumeBelowFacts
    <3> HIDE DEF k
    <3>2. k \in Int /\ (AtMost(t, 0) => k = 0) /\ (~AtMost(t, 0) => k < t)
          /\ (k = NaN \/ k >= 0) /\ k # NaN
      BY <2>1, <3>1
    <3> QED
      BY <3>2 DEF k
  <2> QED
    BY <2>1, <2>2
<1>4. /\ d["SuppressThreshold"] \in 0 .. One
      /\ d["SuppressRunnableThreshold"] \in Nat
      /\ ClampRatio(c["SuppressResume"]) \in Nat
      /\ NotNegative(c["SuppressRunnableResume"]) \in Nat
  <2>1. \A s \in {"SuppressThreshold", "SuppressResume",
                  "SuppressRunnableThreshold", "SuppressRunnableResume"} :
          ClampRatio(c[s]) \in 0 .. One /\ NotNegative(c[s]) \in Nat
    BY <1>1, <1>2 DEF Suppression, RunQueue
  <2>2. /\ d["SuppressThreshold"] = ClampRatio(c["SuppressThreshold"])
        /\ d["SuppressRunnableThreshold"] = NotNegative(c["SuppressRunnableThreshold"])
    BY Coerced
  <2> HIDE DEF d
  <2> QED
    BY <2>1, <2>2
<1>5. /\ d["SuppressResume"] =
           ResumeBelow(d["SuppressThreshold"], ClampRatio(c["SuppressResume"]))
      /\ d["SuppressRunnableResume"] =
           ResumeBelow(d["SuppressRunnableThreshold"],
                       NotNegative(c["SuppressRunnableResume"]))
  BY Coerced
<1> HIDE DEF d
<1>6. d["SuppressThreshold"] \in Nat
  BY <1>4
<1>7. IF d["SuppressThreshold"] = 0 THEN d["SuppressResume"] = 0
      ELSE d["SuppressResume"] \in 0 .. d["SuppressThreshold"] - 1
  BY <1>3, <1>4, <1>5, <1>6
<1>8. IF d["SuppressRunnableThreshold"] = 0 THEN d["SuppressRunnableResume"] = 0
      ELSE d["SuppressRunnableResume"] \in 0 .. d["SuppressRunnableThreshold"] - 1
  BY <1>3, <1>4, <1>5
<1> QED
  BY <1>4, <1>7, <1>8 DEF d

-----------------------------------------------------------------------------
\* Where Load stands, what it has layered so far, and that nothing was built
\* from anything else.
IInv ==
  /\ TypeOK
  /\ stage = "defaults" => cfg.numbers = Default.numbers
  /\ stage = "merged" => cfg.numbers = Assign(Default.numbers, file.numbers)
  /\ Layered
  /\ stage = "loaded" =>
       ValidateRuntimeConfig(cfg.numbers) /\ ValidateConfig(ToAdaptConfig(cfg.numbers))
  /\ stage = "built" =>
       /\ ValidateRuntimeConfig(cfg.numbers)
       /\ Normalizes(ToAdaptConfig(cfg.numbers))
       /\ running = CoerceConfig(ToAdaptConfig(cfg.numbers))
  /\ stage # "unbuildable"

LEMMA AdaptConfigIsConfig ==
  ASSUME NEW n \in [Numbers -> Int]
  PROVE  /\ ToAdaptConfig(n) \in Configs
         /\ \A s \in ControllerSettings : ToAdaptConfig(n)[s] = n[s]
BY SettingNames DEF ToAdaptConfig, Configs

LEMMA DefaultIsTyped ==
  /\ Default.numbers \in [Numbers -> Int]
  /\ DOMAIN Default.texts = Texts
  /\ Default.flags \in [Flags -> BOOLEAN]
<1>1. \A s \in ControllerSettings : DefaultConfig[s] \in Int
  BY Defaults DEF Configs
<1>2. {"SuppressThreshold", "SuppressResume", "SuppressRunnableThreshold"}
        \subseteq ControllerSettings
  BY SettingNames DEF Suppression, RunQueue
<1>3. Default.numbers \in [Numbers -> Int]
  BY <1>1, <1>2 DEF Default
<1>4. DOMAIN Default.texts = Texts
  BY DEF Default
<1>5. Default.flags \in [Flags -> BOOLEAN]
  BY DEF Default
<1> QED
  BY <1>3, <1>4, <1>5

THEOREM Safety == Spec => []IInv
<1>1. Init => IInv
  BY DefaultIsTyped, Defaults DEF Init, IInv, TypeOK, Layered, Configs
<1>2. IInv /\ [Next]_vars => IInv'
  <2> SUFFICES ASSUME IInv, [Next]_vars PROVE IInv'
    OBVIOUS
  <2>1. CASE MergeFile
    <3>1. PICK f \in Files :
            /\ file' = f
            /\ cfg' = [numbers |-> Assign(cfg.numbers, f.numbers),
                       texts |-> Assign(cfg.texts, f.texts),
                       flags |-> Assign(cfg.flags, f.flags)]
      BY <2>1 DEF MergeFile
    <3>2. /\ \A s \in DOMAIN f.numbers : f.numbers[s] \in Int
          /\ \A s \in DOMAIN f.flags : f.flags[s] \in BOOLEAN
      BY LayerAssumption
    <3>3. cfg'.numbers \in [Numbers -> Int]
      BY <3>1, <3>2 DEF IInv, TypeOK, Assign
    <3>4. DOMAIN cfg'.texts = Texts
      BY <3>1, <3>2 DEF IInv, TypeOK, Assign
    <3>5. cfg'.flags \in [Flags -> BOOLEAN]
      BY <3>1, <3>2 DEF IInv, TypeOK, Assign
    <3>6. stage' = "merged" /\ cfg'.numbers = Assign(Default.numbers, file'.numbers)
      BY <2>1, <3>1 DEF IInv, MergeFile
    <3> QED
      BY <2>1, <3>3, <3>4, <3>5, <3>6 DEF IInv, TypeOK, Layered, MergeFile
  <2>2. CASE FileFails
    BY <2>2 DEF IInv, TypeOK, Layered, FileFails
  <2>3. CASE ApplyEnv
    <3>1. PICK e \in Environments :
            /\ env' = e
            /\ cfg' = [numbers |-> Override(cfg.numbers, e.numbers, UsableNumbers(e)),
                       texts |-> Override(cfg.texts, e.texts, UsableTexts(e)),
                       flags |-> Override(cfg.flags, e.flags, UsableFlags(e))]
      BY <2>3 DEF ApplyEnv
    <3>2. /\ \A s \in DOMAIN e.numbers : e.numbers[s] \in Int
          /\ \A s \in DOMAIN e.flags : e.flags[s] \in BOOLEAN
      BY LayerAssumption
    <3>3. cfg'.numbers \in [Numbers -> Int]
      BY <3>1, <3>2 DEF IInv, TypeOK, Override, UsableNumbers
    <3>4. DOMAIN cfg'.texts = Texts
      BY <3>1, <3>2 DEF IInv, TypeOK, Override
    <3>5. cfg'.flags \in [Flags -> BOOLEAN]
      BY <3>1, <3>2 DEF IInv, TypeOK, Override, UsableFlags
    <3>6. stage' = "overridden" /\ file' = file
          /\ cfg.numbers = Assign(Default.numbers, file.numbers)
      BY <2>3 DEF IInv, ApplyEnv
    <3>7. Layered'
      <4>1. DOMAIN cfg.numbers = Numbers /\ DOMAIN Default.numbers = Numbers
        BY DefaultIsTyped DEF IInv, TypeOK
      <4> QED
        BY <3>1, <3>6, <4>1 DEF Layered, Override, UsableNumbers, Assign
    <3> QED
      BY <2>3, <3>3, <3>4, <3>5, <3>7 DEF IInv, TypeOK, ApplyEnv
  <2>4. CASE Validate
    BY <2>4 DEF IInv, TypeOK, Layered, Validate
  <2>5. CASE Build
    <3>1. cfg.numbers \in [Numbers -> Int] /\ ToAdaptConfig(cfg.numbers) \in Configs
      BY AdaptConfigIsConfig DEF IInv, TypeOK
    <3>2. /\ cfg.numbers["Workers"] > 0 /\ cfg.numbers["Quantum"] \in Int
          /\ Normalizes(ToAdaptConfig(cfg.numbers))
          /\ ValidateRuntimeConfig(cfg.numbers)
      BY <2>5, <3>1 DEF IInv, Build, ValidateRuntimeConfig, ValidPoolSettings,
         ValidateConfig, Normalizes, Numbers, PoolSettings
    <3>3. /\ stage' = "built"
          /\ running' = CoerceConfig(ToAdaptConfig(cfg.numbers))
          /\ pool' = NewPool(cfg.numbers)
          /\ cfg' = cfg
      BY <2>5, <3>2 DEF Build
    <3>4. running' \in [ControllerSettings -> Int]
      BY <3>1, <3>3, Coerced DEF Configs
    <3>5. pool'.workers > 0 /\ pool'.quantum \in 1 .. 5
      BY <3>2, <3>3 DEF NewPool
    <3> QED
      BY <2>5, <3>2, <3>3, <3>4, <3>5 DEF IInv, TypeOK, Layered, Build
  <2>6. CASE UNCHANGED vars
    BY <2>6 DEF IInv, TypeOK, Layered, vars
  <2> QED
    BY <2>1, <2>2, <2>3, <2>4, <2>5, <2>6 DEF Next
<1> QED
  BY <1>1, <1>2, PTL DEF Spec

\* The variables keep their types; a pool that was built has workers and a
\* quantum of 1 to 5 ms.
THEOREM TypeCorrect == Spec => []TypeOK
<1>1. IInv => TypeOK
  BY DEF IInv
<1> QED
  BY <1>1, Safety, PTL

\* Load refuses everything the constructors would refuse.
THEOREM LoadedConfigsBuild == Spec => []LoadedBuilds
<1>1. IInv => LoadedBuilds
  BY DEF IInv, LoadedBuilds
<1> QED
  BY <1>1, Safety, PTL

\* What was layered runs as it was written: coercion leaves alone the cadences,
\* steps and counts, which validateRuntimeConfig found positive.
THEOREM SettingsRunAsWritten == Spec => []RunsAsWritten
<1>1. IInv => CadencesAsWritten
  <2> SUFFICES ASSUME IInv, stage = "built",
                      NEW s \in Durations \union Steps \union {"RelaxedConfirmations"}
               PROVE  running[s] = cfg.numbers[s]
    BY DEF CadencesAsWritten
  <2> DEFINE c == ToAdaptConfig(cfg.numbers)
  <2>1. /\ c \in Configs /\ c[s] = cfg.numbers[s] /\ cfg.numbers[s] \in Int
        /\ running = CoerceConfig(c)
    BY AdaptConfigIsConfig, SettingNames DEF IInv, TypeOK
  <2>2. CASE s \in Durations
    <3>1. cfg.numbers[s] > 0
      BY <2>2 DEF IInv, ValidateRuntimeConfig, ValidLoopIntervals
    <3>2. running[s] = EnsureDuration(c[s], DefaultConfig[s])
      BY <2>1, <2>2, Coerced
    <3> QED
      BY <2>1, <3>1, <3>2 DEF EnsureDuration
  <2>3. CASE s \in Steps \union {"RelaxedConfirmations"}
    <3>1. cfg.numbers[s] # 0
      BY <2>3, NaNAssumption DEF IInv, ValidateRuntimeConfig, ValidLoopIntervals,
         ValidStepSizes, AtMost
    <3>2. running[s] = EnsureFloat(c[s], DefaultConfig[s])
      BY <2>1, <2>3, Coerced DEF DefaultedWhenZero
    <3> QED
      BY <2>1, <3>1, <3>2 DEF EnsureFloat
  <2> QED
    BY <2>2, <2>3
<1>2. IInv => RunsAsWritten
  BY <1>1 DEF IInv, RunsAsWritten
<1> QED
  BY <1>2, Safety, PTL

\* The assumption of the controller's theorems, for every configuration without
\* NaN that the program runs.
THEOREM BuiltConfigsAreSound == Spec => []BuiltIsSound
<1>1. IInv => BuiltIsSound
  <2> SUFFICES ASSUME IInv, stage = "built", Ordered
               PROVE  Built!ConfigAssumption
    BY DEF BuiltIsSound
  <2> DEFINE c == ToAdaptConfig(cfg.numbers)
  <2>1. /\ c \in Configs /\ \A s \in ControllerSettings : c[s] # NaN
        /\ running = CoerceConfig(c)
        /\ ValidControllerConfig(running)
    BY AdaptConfigIsConfig DEF IInv, TypeOK, Ordered, Normalizes
  <2>2. /\ \A s \in ControllerSettings : running[s] \in Int /\ running[s] # NaN
    BY <2>1, Coerced, CoercionKeepsOrder DEF Configs
  <2>3. \A s \in DefaultedWhenZero : running[s] # 0
    <3>1. \A s \in DefaultedWhenZero : running[s] = EnsureFloat(c[s], DefaultConfig[s])
      BY <2>1, Coerced
    <3> QED
      BY <3>1, Defaults DEF EnsureFloat
  <2>4. /\ running["SuppressThreshold"] \in 0 .. One
        /\ IF running["SuppressThreshold"] = 0 THEN running["SuppressResume"] = 0
           ELSE running["SuppressResume"] \in 0 .. running["SuppressThreshold"] - 1
        /\ running["SuppressRunnableThreshold"] \in Nat
        /\ IF running["SuppressRunnableThreshold"] = 0
           THEN running["SuppressRunnableResume"] = 0
           ELSE running["SuppressRunnableResume"]
                  \in 0 .. running["SuppressRunnableThreshold"] - 1
    BY <2>1, CoercedThresholds
  <2>5. Built!ValidTargets
    <3>1. /\ running["TargetMin"] < running["TargetMax"]
          /\ running["GoalLow"] < running["GoalHigh"]
          /\ \A s \in Targets : /\ running["TargetMin"] <= running[s]
                                /\ running[s] <= running["TargetMax"]
      BY <2>1, <2>2, SettingNames
         DEF ValidControllerConfig, ValidTargetBounds, ValidGoalBounds, AtMost, Less,
             Targets, Bounds
    <3>2. running["StepUp"] > 0 /\ running["StepDown"] > 0
      BY <2>1, <2>2, SettingNames, NaNAssumption
         DEF ValidControllerConfig, ValidStepSizes, AtMost, Steps
    <3>3. running["RelaxedConfirmations"] \in 1 .. 100
      BY <2>1 DEF ValidControllerConfig, ValidCounts
    <3>4. \A s \in {"TargetStart", "TargetMin", "FallbackTarget"} : running[s] # 0
      BY <2>3 DEF DefaultedWhenZero, Targets, Bounds
    <3> QED
      BY <3>1, <3>2, <3>3, <3>4 DEF Built!ValidTargets, Targets
  <2>6. Built!ValidSuppression
    <3>1. running["SuppressSmoothingSamples"] \in 0 .. 100
      BY <2>1 DEF ValidControllerConfig, ValidCounts
    <3>2. \A s \in Targets \union Bounds, t \in Suppression :
            running[t] > 0 => running[t] > running[s]
      BY <2>1, <2>2, SettingNames, NaNAssumption
         DEF ValidControllerConfig, AboveEveryTarget, AtMost, Less
    <3>3. \A s \in {"TargetStart", "TargetMin", "TargetMax", "FallbackTarget",
                    "GoalLow", "GoalHigh"} :
            /\ running["SuppressThreshold"] > 0 => running["SuppressThreshold"] > running[s]
            /\ running["SuppressResume"] > 0 => running["SuppressResume"] > running[s]
      BY <3>2 DEF Targets, Bounds, Suppression
    <3>4. /\ running["SuppressResume"] \in 0 .. One
          /\ IF running["SuppressThreshold"] = 0 THEN running["SuppressResume"] = 0
             ELSE running["SuppressResume"] < running["SuppressThreshold"]
      <4>1. \A t \in 0 .. One, k \in Int : (IF t = 0 THEN k = 0 ELSE k \in 0 .. t - 1)
              => k \in 0 .. One /\ (IF t = 0 THEN k = 0 ELSE k < t)
        OBVIOUS
      <4> DEFINE t == running["SuppressThreshold"]
                 k == running["SuppressResume"]
      <4>2. t \in 0 .. One /\ (IF t = 0 THEN k = 0 ELSE k \in 0 .. t - 1) /\ k \in Int
        BY <2>4
      <4> HIDE DEF t, k
      <4>3. k \in 0 .. One /\ (IF t = 0 THEN k = 0 ELSE k < t)
        BY <4>1, <4>2
      <4> QED
        BY <4>3 DEF t, k
    <3>5. running["SuppressRunnableThreshold"] >= 0
      BY <2>4
    <3> HIDE DEF One
    <3> QED
      BY <2>4, <3>1, <3>3, <3>4, <3>5, Zenon DEF Built!ValidSuppression
  <2>7. \A s \in {"TargetStart", "TargetMin", "TargetMax", "StepUp", "StepDown",
                  "FallbackTarget", "GoalLow", "GoalHigh", "RelaxedThreshold",
                  "SuppressRunnableThreshold"} : running[s] \in Int
    BY <2>2 DEF ControllerSettings, DefaultedWhenZero, Targets, Bounds, Steps,
       ZeroCounts, RunQueue
  <2>8. ModeEnforcesTargets(Mode) \in BOOLEAN
    BY DEF ModeEnforcesTargets
  <2> QED
    BY <2>5, <2>6, <2>7, <2>8 DEF Built!ConfigAssumption
<1> QED
  BY <1>1, Safety, PTL
=============================================================================
