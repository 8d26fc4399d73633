----------------------- MODULE MetadataResolutionProofs -----------------------
(***************************************************************************)
(* Proofs about MetadataResolution, for any configured worker counts and   *)
(* any shapes the service may report: whose metrics are asked for, how     *)
(* many workers run, that an offline start is silent, and why a start      *)
(* fails.                                                                  *)
(***************************************************************************)
EXTENDS MetadataResolution, SequenceTheorems, TLAPS

Compartments == {None, "configured", "imds"}
Regions == {None, "configured", "canonical", "legacy"}

Asking == {"compartment", "canonical", "region"}
Started == {"built", "logging", "running"}

\* The types the argument needs.
Typed ==
  /\ mode \in {"enforce", "dry-run", "noop"}
  /\ cfg \in [instance : {None, "configured"}, compartment : Compartments,
              region : Regions, offline : BOOLEAN, autoSize : BOOLEAN,
              workers : Nat \ {0}]
  /\ found \in [compartment : Compartments, region : Regions]
  /\ asked \in [Questions -> 0 .. 3]
  /\ DOMAIN told = Texts /\ told["CanonicalRegion"].text \in {None, "canonical"}
  /\ round \in {1, 2} /\ ocpus \in Int

\* Where each kind of start can stand.
Placed ==
  /\ mode = "noop" => /\ stage \in {"resolve", "size", "controller"} \union Started
                      /\ client = NoClient
  /\ cfg.offline => /\ stage \notin Asking \union {"instance"} \union Failures
                    /\ client.kind # "monitoring"
                    /\ toLog = <<>>
  /\ stage \notin Started => client = NoClient
  /\ stage \in Asking => round = 1

\* What has been found, stage by stage.
Found ==
  /\ stage \in Asking \union {"merge"} =>
       /\ cfg.compartment # None => found.compartment = cfg.compartment
       /\ cfg.region # None => found.region = cfg.region
  /\ stage = "compartment" => found.compartment = None
  /\ stage \in {"canonical", "region"} =>
       found.compartment # None /\ found.region = None /\ cfg.region = None
  /\ stage = "merge" /\ ~cfg.offline => found.compartment # None /\ found.region # None
  /\ stage = "client" =>
       /\ found.compartment # None => cfg.compartment = found.compartment
       /\ found.region # None => cfg.region = found.region
       /\ ~cfg.offline => found.compartment # None /\ found.region # None

\* Once the first resolution is over, an online configuration is complete, so
\* that the second one asks nothing.
Complete ==
  (round = 2 \/ stage \in {"size", "controller", "instance"}) /\ mode # "noop" /\ ~cfg.offline =>
    cfg.compartment # None /\ cfg.region # None

\* The legacy region, wherever it is, is there for want of the canonical one.
LegacyJustified ==
  "legacy" \in {cfg.region, found.region, client.region} =>
    told["CanonicalRegion"].failed \/ told["CanonicalRegion"].text = None

IInv ==
  /\ Typed /\ Placed /\ Found /\ Complete /\ LegacyJustified
  /\ QueriesScoped /\ WorkersFollowShape /\ SilentWhenOffline /\ FailureJustified

-----------------------------------------------------------------------------
\* The boundaries of the sizing rule: the smallest number of workers that
\* covers the OCPUs, up to 32.
LEMMA Sizing ==
  ASSUME NEW r \in Int, NEW n \in Nat \ {0}
  PROVE  LET w == DerivedWorkers(r, n)
         IN /\ w \in Nat \ {0}
            /\ r > 0 => w \in 1 .. 32 /\ (w = 32 \/ 10 * w >= r) /\ 10 * (w - 1) < r
<1> DEFINE q == (r + 9) \div 10
<1>1. CASE r > 0
  <2>1. q \in Int /\ 10 * q <= r + 9 /\ r + 9 < 10 * q + 10
    BY <1>1
  <2>2. DerivedWorkers(r, n) = IF q > 32 THEN 32 ELSE q
    BY <1>1 DEF DerivedWorkers, UsableShape, Cap
  <2> HIDE DEF q
  <2> QED
    BY <1>1, <2>1, <2>2
<1>2. CASE ~(r > 0)
  BY <1>2 DEF DerivedWorkers, UsableShape
<1> QED
  BY <1>1, <1>2

\* Asking counts up to three, and counts the question that was asked only.
LEMMA Asks ==
  ASSUME NEW q \in Questions, asked \in [Questions -> 0 .. 3], Ask(q)
  PROVE  asked' \in [Questions -> 0 .. 3]
BY DEF Ask

\* The initial states.
LEMMA Start == Init => IInv
<1> SUFFICES ASSUME Init PROVE IInv
  OBVIOUS
<1>1. Typed
  <2>1. /\ cfg \in [instance : {None, "configured"}, compartment : Compartments,
                    region : Regions, offline : BOOLEAN, autoSize : BOOLEAN,
                    workers : Nat \ {0}]
        /\ found \in [compartment : Compartments, region : Regions]
    BY ResolutionAssumption DEF Init, Configs, Compartments, Regions
  <2>2. mode \in {"enforce", "dry-run", "noop"}
    BY DEF Init
  <2>3. asked \in [Questions -> 0 .. 3] /\ DOMAIN told = Texts /\ round \in {1, 2} /\ ocpus \in Int
    BY DEF Init
  <2>4. told["CanonicalRegion"].text = None
    BY DEF Init, Texts
  <2> QED
    BY <2>1, <2>2, <2>3, <2>4 DEF Typed
<1>2. Placed /\ Found /\ Complete
  BY DEF Init, Placed, Found, Complete, Asking, Started, Failures, NoClient
<1>3. LegacyJustified
  BY <1>1, ResolutionAssumption DEF Init, LegacyJustified, Configs, NoClient
<1>4. QueriesScoped
  BY ResolutionAssumption DEF Init, QueriesScoped, NoClient
<1>5. WorkersFollowShape /\ SilentWhenOffline /\ FailureJustified
  BY DEF Init, WorkersFollowShape, SilentWhenOffline, FailureJustified, Failures
<1> QED
  BY <1>1, <1>2, <1>3, <1>4, <1>5 DEF IInv

-----------------------------------------------------------------------------
\* The beginning of a resolution: the overrides, and whether to ask.
LEMMA ResolvePreserves == IInv /\ Resolve => IInv'
<1> SUFFICES ASSUME IInv, Resolve PROVE IInv'
  OBVIOUS
<1> USE DEF IInv, Resolve, Overrides
<1>1. Typed'
  BY DEF Typed, Compartments, Regions
<1>2. Placed'
  <2>1. mode # "noop" => found'.compartment = cfg.compartment /\ found'.region = cfg.region
    OBVIOUS
  <2>2. mode # "noop" => stage' \in {"compartment", "canonical", "merge"}
    BY <2>1
  <2>3. stage' \in {"compartment", "canonical"} => round = 1 /\ ~cfg.offline
    BY <2>1, <2>2 DEF Complete, Typed
  <2> QED
    BY <2>1, <2>2, <2>3 DEF Placed, Asking, Started, Failures
<1>3. Found'
  <2>1. mode # "noop" => found'.compartment = cfg.compartment /\ found'.region = cfg.region
    OBVIOUS
  <2> QED
    BY <2>1 DEF Found, Asking
<1>4. Complete' /\ LegacyJustified'
  BY ResolutionAssumption DEF Typed, Complete, LegacyJustified
<1>5. QueriesScoped' /\ WorkersFollowShape'
  BY DEF QueriesScoped, WorkersFollowShape
<1>6. SilentWhenOffline' /\ FailureJustified'
  BY DEF SilentWhenOffline, FailureJustified, Failures
<1> QED
  BY <1>1, <1>2, <1>3, <1>4, <1>5, <1>6

-----------------------------------------------------------------------------
\* While it is being asked, the start is online and works, for the first time.
LEMMA AskingOnline ==
  ASSUME IInv, stage \in Asking \union {"instance"}
  PROVE  mode # "noop" /\ ~cfg.offline /\ client = NoClient
BY DEF IInv, Placed, Asking, Started

\* The compartment: a text counts even with an error.
LEMMA CompartmentPreserves == IInv /\ AskCompartment => IInv'
<1> SUFFICES ASSUME IInv, AskCompartment PROVE IInv'
  OBVIOUS
<1>1. PICK a \in Answers("imds") :
        /\ told' = [told EXCEPT !["CompartmentID"] = a]
        /\ IF a.text = None THEN stage' = "no compartment" /\ UNCHANGED found
           ELSE /\ found' = [found EXCEPT !.compartment = a.text]
                /\ stage' = IF found.region = None THEN "canonical" ELSE "merge"
  BY DEF AskCompartment, Told
<1>2. /\ stage = "compartment" /\ Ask("CompartmentID")
      /\ UNCHANGED <<mode, cfg, round, instance, ocpus, client, toLog>>
  BY DEF AskCompartment
<1>3. mode # "noop" /\ ~cfg.offline /\ client = NoClient /\ round = 1
  BY <1>2, AskingOnline DEF IInv, Placed, Asking
<1>4. /\ told'["CompartmentID"] = a /\ told'["CanonicalRegion"] = told["CanonicalRegion"]
      /\ DOMAIN told' = Texts
      /\ a.text \in {None, "imds"}
  BY <1>1 DEF IInv, Typed, Texts, Answers
<1>5. Typed'
  <2>1. asked' \in [Questions -> 0 .. 3]
    BY <1>2, Asks DEF IInv, Typed, Questions, Texts
  <2>2. found' \in [compartment : Compartments, region : Regions]
    BY <1>1, <1>4 DEF IInv, Typed, Compartments
  <2> QED
    BY <1>2, <1>4, <2>1, <2>2 DEF IInv, Typed
<1>6. Placed' /\ Complete'
  <2>1. stage' \in {"no compartment", "canonical", "merge"}
    BY <1>1
  <2>2. mode' # "noop" /\ ~cfg'.offline /\ client' = NoClient /\ round' = 1
    BY <1>2, <1>3
  <2>5. stage' \notin {"size", "controller", "instance"}
    BY <2>1
  <2>6. round' # 2
    BY <2>2
  <2>3. Placed'
    BY <2>1, <2>2 DEF Placed, Started
  <2>4. Complete'
    BY <2>5, <2>6 DEF Complete
  <2> QED
    BY <2>3, <2>4
<1>7. Found'
  <2>1. a.text # None => found'.compartment = a.text /\ found'.region = found.region
    BY <1>1 DEF IInv, Typed
  <2>2. cfg.compartment = None
    BY <1>2 DEF IInv, Found, Asking
  <2> QED
    BY <1>1, <1>2, <1>3, <2>1, <2>2 DEF IInv, Found, Asking
<1>8. LegacyJustified'
  <2>1. found'.region = found.region
    BY <1>1 DEF IInv, Typed
  <2> QED
    BY <1>2, <1>4, <2>1 DEF IInv, LegacyJustified
<1>9. QueriesScoped' /\ WorkersFollowShape'
  BY <1>2, <1>4 DEF IInv, QueriesScoped, WorkersFollowShape
<1>10. SilentWhenOffline' /\ FailureJustified'
  BY <1>1, <1>2, <1>3, <1>4 DEF SilentWhenOffline, FailureJustified, Failures
<1> QED
  BY <1>5, <1>6, <1>7, <1>8, <1>9, <1>10 DEF IInv

\* The canonical region, asked for when no region is known.
LEMMA CanonicalPreserves == IInv /\ AskCanonical => IInv'
<1> SUFFICES ASSUME IInv, AskCanonical PROVE IInv'
  OBVIOUS
<1>1. PICK a \in Answers("canonical") : told' = [told EXCEPT !["CanonicalRegion"] = a]
  BY DEF AskCanonical, Told
<1>2. /\ stage = "canonical" /\ stage' = "region" /\ Ask("CanonicalRegion")
      /\ UNCHANGED <<mode, cfg, round, found, instance, ocpus, client, toLog>>
  BY DEF AskCanonical
<1>3. mode # "noop" /\ ~cfg.offline /\ client = NoClient
  BY <1>2, AskingOnline DEF Asking
<1>4. round = 1
  BY <1>2 DEF IInv, Placed, Asking
<1>5. Typed'
  <2>1. asked' \in [Questions -> 0 .. 3]
    BY <1>2, Asks DEF IInv, Typed, Questions, Texts
  <2>2. DOMAIN told' = Texts /\ told'["CanonicalRegion"] = a
    BY <1>1 DEF IInv, Typed, Texts
  <2>3. a.text \in {None, "canonical"}
    BY DEF Answers
  <2> QED
    BY <1>2, <2>1, <2>2, <2>3 DEF IInv, Typed
<1>6. Placed'
  BY <1>2, <1>3, <1>4 DEF Placed, Started, Asking, Failures
<1>7. Complete'
  <2>1. round' # 2
    BY <1>2, <1>4
  <2> QED
    BY <1>2, <2>1 DEF Complete
<1>8. Found'
  BY <1>2 DEF IInv, Found, Asking
<1>9. LegacyJustified'
  <2>1. cfg'.region = None /\ found'.region = None /\ client'.region = None
    BY <1>2, <1>3 DEF IInv, Found, NoClient
  <2> QED
    BY <2>1, ResolutionAssumption DEF LegacyJustified
<1>10. QueriesScoped'
  BY <1>2, <1>3, ResolutionAssumption DEF QueriesScoped, NoClient
<1>11. WorkersFollowShape'
  BY <1>2 DEF IInv, WorkersFollowShape
<1>12. SilentWhenOffline' /\ FailureJustified'
  BY <1>2, <1>3 DEF SilentWhenOffline, FailureJustified, Failures
<1> QED
  BY <1>5, <1>6, <1>7, <1>8, <1>9, <1>10, <1>11, <1>12 DEF IInv

\* The legacy region, taken only for want of the canonical one.
LEMMA RegionPreserves == IInv /\ AskRegion => IInv'
<1> SUFFICES ASSUME IInv, AskRegion PROVE IInv'
  OBVIOUS
<1> DEFINE c == told["CanonicalRegion"]
<1>1. PICK a \in Answers("legacy") :
        /\ told' = [told EXCEPT !["Region"] = a]
        /\ IF PreferRegion(c, a) = None THEN stage' = "no region" /\ UNCHANGED found
           ELSE found' = [found EXCEPT !.region = PreferRegion(c, a)] /\ stage' = "merge"
  BY DEF AskRegion, Told
<1>2. /\ stage = "region" /\ Ask("Region")
      /\ UNCHANGED <<mode, cfg, round, instance, ocpus, client, toLog>>
  BY DEF AskRegion
<1>3. mode # "noop" /\ ~cfg.offline /\ client = NoClient
  BY <1>2, AskingOnline DEF Asking
<1>4. round = 1
  BY <1>2 DEF IInv, Placed, Asking
<1>5. /\ told'["Region"] = a /\ told'["CanonicalRegion"] = c /\ DOMAIN told' = Texts
      /\ a.text \in {None, "legacy"}
  BY <1>1 DEF IInv, Typed, Texts, Answers
<1>6. c.text \in {None, "canonical"}
  BY DEF IInv, Typed
<1>7. PreferRegion(c, a) \in Regions
  BY <1>5, <1>6 DEF PreferRegion, Regions
<1>8. PreferRegion(c, a) = "legacy" => c.failed \/ c.text = None
  BY <1>5, <1>6 DEF PreferRegion
<1>9. PreferRegion(c, a) = None => a.text = None /\ (c.failed \/ c.text = None)
  BY DEF PreferRegion
<1> HIDE DEF c
<1>10. stage' \in {"no region", "merge"}
  BY <1>1
<1>11. Typed'
  <2>1. asked' \in [Questions -> 0 .. 3]
    BY <1>2, Asks DEF IInv, Typed, Questions, Texts
  <2>2. found' \in [compartment : Compartments, region : Regions]
    BY <1>1, <1>7 DEF IInv, Typed
  <2> QED
    BY <1>2, <1>5, <1>6, <2>1, <2>2 DEF IInv, Typed
<1>12. Placed'
  BY <1>2, <1>3, <1>4, <1>10 DEF Placed, Started, Asking
<1>13. Complete'
  <2>1. round' # 2
    BY <1>2, <1>4
  <2> QED
    BY <1>10, <2>1 DEF Complete
<1>14. Found'
  <2>1. PreferRegion(c, a) # None =>
          found'.compartment = found.compartment /\ found'.region = PreferRegion(c, a)
    BY <1>1 DEF IInv, Typed
  <2>2. cfg.region = None /\ found.compartment # None
    BY <1>2 DEF IInv, Found
  <2>3. cfg.compartment # None => found.compartment = cfg.compartment
    BY <1>2 DEF IInv, Found, Asking
  <2> QED
    BY <1>1, <1>2, <2>1, <2>2, <2>3 DEF Found, Asking
<1>15. LegacyJustified'
  <2>1. found'.region \in {found.region, PreferRegion(c, a)}
    BY <1>1 DEF IInv, Typed
  <2>2. cfg'.region = None /\ found.region = None /\ client'.region = None
    BY <1>2, <1>3 DEF IInv, Found, NoClient
  <2> QED
    BY <1>5, <1>8, <2>1, <2>2, ResolutionAssumption DEF LegacyJustified
<1>16. QueriesScoped'
  BY <1>2, <1>3, ResolutionAssumption DEF QueriesScoped, NoClient
<1>17. WorkersFollowShape'
  BY <1>2 DEF IInv, WorkersFollowShape
<1>18. SilentWhenOffline'
  BY <1>2, <1>3, <1>10 DEF SilentWhenOffline
<1>19. FailureJustified'
  <2>1. stage' = "no region" => a.text = None /\ (c.failed \/ c.text = None)
    BY <1>1, <1>9
  <2> QED
    BY <1>2, <1>3, <1>5, <1>10, <2>1 DEF FailureJustified, Failures
<1> QED
  BY <1>11, <1>12, <1>13, <1>14, <1>15, <1>16, <1>17, <1>18, <1>19 DEF IInv

\* What was found enters the configuration.
LEMMA MergePreserves == IInv /\ Merge => IInv'
<1> SUFFICES ASSUME IInv, Merge PROVE IInv'
  OBVIOUS
<1>1. /\ stage = "merge" /\ cfg' = Merged(cfg, found)
      /\ stage' = IF round = 1 THEN "size" ELSE "client"
      /\ UNCHANGED <<mode, round, found, instance, told, ocpus, client, asked, toLog>>
  BY DEF Merge
<1>2. mode # "noop" /\ client = NoClient
  BY <1>1 DEF IInv, Placed, Started
<1>3. /\ cfg'.compartment = IF found.compartment # None THEN found.compartment
                            ELSE cfg.compartment
      /\ cfg'.region = IF found.region # None THEN found.region ELSE cfg.region
      /\ cfg'.offline = cfg.offline /\ cfg'.workers = cfg.workers
  BY <1>1 DEF IInv, Typed, Merged
<1>4. stage' \in {"size", "client"}
  BY <1>1
<1>5. Typed'
  <2>1. cfg' \in [instance : {None, "configured"}, compartment : Compartments,
                  region : Regions, offline : BOOLEAN, autoSize : BOOLEAN,
                  workers : Nat \ {0}]
    BY <1>1 DEF IInv, Typed, Merged
  <2> QED
    BY <1>1, <2>1 DEF IInv, Typed
<1>6. Placed'
  BY <1>1, <1>2, <1>3, <1>4 DEF IInv, Placed, Started, Asking, Failures
<1>7. Found'
  BY <1>1, <1>3, <1>4 DEF IInv, Found, Asking
<1>8. Complete'
  BY <1>1, <1>3 DEF IInv, Found, Complete
<1>9. LegacyJustified'
  BY <1>1, <1>3 DEF IInv, LegacyJustified
<1>10. QueriesScoped'
  BY <1>1, <1>2, ResolutionAssumption DEF QueriesScoped, NoClient
<1>11. WorkersFollowShape'
  BY <1>1, <1>3 DEF IInv, WorkersFollowShape
<1>12. SilentWhenOffline' /\ FailureJustified'
  BY <1>1, <1>2, <1>3, <1>4 DEF IInv, SilentWhenOffline, FailureJustified, Failures
<1> QED
  BY <1>5, <1>6, <1>7, <1>8, <1>9, <1>10, <1>11, <1>12 DEF IInv

-----------------------------------------------------------------------------
\* The pool keeps its size.
LEMMA KeepSizePreserves == IInv /\ KeepSize => IInv'
<1> SUFFICES ASSUME IInv, KeepSize PROVE IInv'
  OBVIOUS
<1>1. /\ stage = "size" /\ stage' = "controller"
      /\ UNCHANGED <<mode, cfg, round, found, instance, told, ocpus, client, asked, toLog>>
  BY DEF KeepSize
<1>2. Typed' /\ LegacyJustified' /\ QueriesScoped' /\ WorkersFollowShape'
  BY <1>1 DEF IInv, Typed, LegacyJustified, QueriesScoped, WorkersFollowShape
<1>3. Placed' /\ Found'
  BY <1>1 DEF IInv, Placed, Found, Started, Asking, Failures
<1>4. Complete'
  BY <1>1 DEF IInv, Complete
<1>5. SilentWhenOffline' /\ FailureJustified'
  BY <1>1 DEF IInv, SilentWhenOffline, FailureJustified, Failures
<1> QED
  BY <1>2, <1>3, <1>4, <1>5 DEF IInv

\* The pool gets the size of the shape, if it is known and has OCPUs.
LEMMA ShapePreserves == IInv /\ AskShape => IInv'
<1> SUFFICES ASSUME IInv, AskShape PROVE IInv'
  OBVIOUS
<1>1. /\ stage = "size" /\ mode # "noop" /\ ~cfg.offline /\ Ask("ShapeConfig")
      /\ UNCHANGED <<mode, round, found, instance, told, client, toLog>>
  BY DEF AskShape, Sizes
<1>2. client = NoClient
  BY <1>1 DEF IInv, Placed, Started
<1>3. asked' \in [Questions -> 0 .. 3]
  BY <1>1, Asks DEF IInv, Typed, Questions
<1>4. /\ stage' \in {"no shape", "controller"}
      /\ cfg'.compartment = cfg.compartment /\ cfg'.region = cfg.region
      /\ cfg'.offline = cfg.offline
      /\ cfg' \in [instance : {None, "configured"}, compartment : Compartments,
                   region : Regions, offline : BOOLEAN, autoSize : BOOLEAN,
                   workers : Nat \ {0}]
      /\ ocpus' \in Int
      /\ WorkersFollowShape'
  <2>1. CASE stage' = "no shape" /\ UNCHANGED <<cfg, ocpus>>
    BY <2>1 DEF IInv, Typed, WorkersFollowShape
  <2>2. ASSUME NEW reported \in Shapes, ocpus' = reported, stage' = "controller",
               cfg' = [cfg EXCEPT !.workers = DerivedWorkers(reported, cfg.workers)]
        PROVE  <1>4!:
    <3>1. reported \in Int /\ cfg.workers \in Nat \ {0}
      BY ResolutionAssumption DEF IInv, Typed
    <3>2. cfg'.workers = DerivedWorkers(reported, cfg.workers)
      BY <2>2 DEF IInv, Typed
    <3>3. DerivedWorkers(reported, cfg.workers) \in Nat \ {0}
      BY <3>1, Sizing
    <3>4. WorkersFollowShape'
      BY <2>2, <3>1, <3>2, Sizing DEF WorkersFollowShape
    <3> QED
      BY <2>2, <3>1, <3>3, <3>4 DEF IInv, Typed
  <2> QED
    BY <2>1, <2>2 DEF AskShape
<1>5. Typed'
  BY <1>1, <1>3, <1>4 DEF IInv, Typed
<1>6. Placed'
  BY <1>1, <1>2, <1>4 DEF IInv, Placed, Started, Asking
<1>7. Found'
  BY <1>4 DEF Found, Asking
<1>8. Complete'
  BY <1>1, <1>4 DEF IInv, Complete
<1>9. LegacyJustified'
  BY <1>1, <1>4 DEF IInv, LegacyJustified
<1>10. QueriesScoped'
  BY <1>1, <1>2, ResolutionAssumption DEF QueriesScoped, NoClient
<1>11. SilentWhenOffline'
  BY <1>1, <1>4 DEF SilentWhenOffline
<1>12. FailureJustified'
  BY <1>1, <1>4 DEF FailureJustified
<1> QED
  BY <1>4, <1>5, <1>6, <1>7, <1>8, <1>9, <1>10, <1>11, <1>12 DEF IInv

\* The controller is chosen, and where its instance comes from.
LEMMA BuildPreserves == IInv /\ BuildController => IInv'
<1> SUFFICES ASSUME IInv, BuildController PROVE IInv'
  OBVIOUS
<1>1. /\ stage = "controller"
      /\ UNCHANGED <<mode, cfg, found, told, ocpus, client, asked, toLog>>
  BY DEF BuildController
<1>2. /\ stage' \in {"built", "resolve", "instance"} /\ round' \in {1, 2}
      /\ stage' = "instance" => mode # "noop" /\ ~cfg.offline
      /\ stage' = "built" <=> mode = "noop"
  BY DEF IInv, Typed, BuildController
<1>3. client = NoClient
  BY <1>1 DEF IInv, Placed, Started
<1>4. Typed'
  BY <1>1, <1>2 DEF IInv, Typed
<1>5. Placed'
  BY <1>1, <1>2, <1>3 DEF IInv, Placed, Started, Asking, Failures
<1>6. Found' /\ FailureJustified'
  BY <1>2 DEF Found, FailureJustified, Asking, Failures
<1>7. Complete'
  BY <1>1, <1>2 DEF IInv, Complete
<1>8. LegacyJustified' /\ QueriesScoped' /\ WorkersFollowShape'
  BY <1>1 DEF IInv, LegacyJustified, QueriesScoped, WorkersFollowShape
<1>9. SilentWhenOffline'
  BY <1>1, <1>2 DEF IInv, SilentWhenOffline
<1> QED
  BY <1>4, <1>5, <1>6, <1>7, <1>8, <1>9 DEF IInv

\* The instance, if the configuration does not name it.
LEMMA InstancePreserves == IInv /\ AskInstance => IInv'
<1> SUFFICES ASSUME IInv, AskInstance PROVE IInv'
  OBVIOUS
<1>1. PICK a \in Answers("imds") :
        /\ told' = [told EXCEPT !["InstanceID"] = a]
        /\ IF a.failed THEN stage' = "no instance" /\ UNCHANGED <<instance, round>>
           ELSE instance' = a.text /\ round' = 2 /\ stage' = "resolve"
  BY DEF AskInstance, Told
<1>2. /\ stage = "instance" /\ Ask("InstanceID")
      /\ UNCHANGED <<mode, cfg, found, ocpus, client, toLog>>
  BY DEF AskInstance
<1>3. mode # "noop" /\ ~cfg.offline /\ client = NoClient
  BY <1>2, AskingOnline
<1>4. /\ told'["InstanceID"] = a /\ told'["CanonicalRegion"] = told["CanonicalRegion"]
      /\ DOMAIN told' = Texts
  BY <1>1 DEF IInv, Typed, Texts
<1>5. stage' \in {"no instance", "resolve"} /\ round' \in {1, 2}
  BY <1>1 DEF IInv, Typed
<1>6. Typed'
  <2>1. asked' \in [Questions -> 0 .. 3]
    BY <1>2, Asks DEF IInv, Typed, Questions, Texts
  <2> QED
    BY <1>2, <1>4, <1>5, <2>1 DEF IInv, Typed
<1>7. Placed'
  BY <1>2, <1>3, <1>5 DEF IInv, Placed, Started, Asking, Failures
<1>8. Found'
  BY <1>5 DEF Found, Asking
<1>9. Complete'
  BY <1>2 DEF IInv, Complete
<1>10. LegacyJustified' /\ QueriesScoped' /\ WorkersFollowShape'
  BY <1>2, <1>4 DEF IInv, LegacyJustified, QueriesScoped, WorkersFollowShape
<1>11. SilentWhenOffline'
  BY <1>2, <1>3 DEF SilentWhenOffline
<1>12. FailureJustified'
  <2>1. stage' = "no instance" => a.failed
    BY <1>1
  <2> QED
    BY <1>2, <1>3, <1>4, <1>5, <2>1 DEF FailureJustified
<1> QED
  BY <1>6, <1>7, <1>8, <1>9, <1>10, <1>11, <1>12 DEF IInv

\* The Monitoring client, for the compartment and the region that were found.
LEMMA ClientPreserves == IInv /\ CreateClient => IInv'
<1> SUFFICES ASSUME IInv, CreateClient PROVE IInv'
  OBVIOUS
<1>1. /\ stage = "client" /\ stage' \in {"built", "no client"}
      /\ UNCHANGED <<mode, cfg, round, found, instance, told, ocpus, asked, toLog>>
  BY DEF CreateClient
<1>2. mode # "noop" /\ client = NoClient
  BY <1>1 DEF IInv, Placed, Started
<1>3. \/ cfg.offline /\ client' = [NoClient EXCEPT !.kind = "static"] /\ stage' = "built"
      \/ ~cfg.offline /\ client' = NoClient /\ stage' = "no client"
      \/ /\ ~cfg.offline /\ stage' = "built"
         /\ client' = [kind |-> "monitoring", compartment |-> found.compartment,
                       region |-> found.region]
  BY <1>2 DEF CreateClient
<1>4. ~cfg.offline => /\ found.compartment # None /\ found.compartment = cfg.compartment
                      /\ found.region # None /\ found.region = cfg.region
  BY <1>1 DEF IInv, Found
<1>5. Typed'
  BY <1>1 DEF IInv, Typed
<1>6. Placed'
  BY <1>1, <1>2, <1>3 DEF IInv, Placed, Started, Asking, Failures, NoClient
<1>7. Found'
  BY <1>1 DEF Found, Asking
<1>8. Complete'
  BY <1>1 DEF IInv, Complete
<1>9. \/ client'.kind = "static" /\ cfg.offline /\ client'.region = None
      \/ client'.kind = "none" /\ client'.region = None
      \/ /\ client'.kind = "monitoring" /\ ~cfg.offline
         /\ client'.compartment = found.compartment /\ client'.region = found.region
  <2>1. CASE cfg.offline /\ client' = [NoClient EXCEPT !.kind = "static"]
    BY <2>1 DEF NoClient
  <2>2. CASE client' = NoClient
    BY <2>2 DEF NoClient
  <2>3. CASE /\ ~cfg.offline
             /\ client' = [kind |-> "monitoring", compartment |-> found.compartment,
                           region |-> found.region]
    BY <2>3
  <2> QED
    BY <1>3, <2>1, <2>2, <2>3
<1>10. LegacyJustified'
  BY <1>1, <1>9, ResolutionAssumption DEF IInv, LegacyJustified
<1>11. QueriesScoped'
  <2>1. client'.kind = "monitoring" =>
          /\ ~cfg.offline
          /\ client'.compartment = found.compartment /\ client'.region = found.region
    BY <1>9
  <2>2. client'.kind = "static" => cfg.offline
    BY <1>9
  <2> QED
    BY <1>1, <1>2, <1>4, <1>10, <2>1, <2>2 DEF QueriesScoped, LegacyJustified
<1>12. WorkersFollowShape'
  BY <1>1 DEF IInv, WorkersFollowShape
<1>13. SilentWhenOffline'
  BY <1>1, <1>2 DEF IInv, SilentWhenOffline
<1>14. FailureJustified'
  BY <1>1, <1>2, <1>3 DEF FailureJustified, Failures
<1> QED
  BY <1>5, <1>6, <1>7, <1>8, <1>10, <1>11, <1>12, <1>13, <1>14 DEF IInv

-----------------------------------------------------------------------------
\* The start is over.
LEMMA LoggingPreserves == IInv /\ (StartLogging \/ Run) => IInv'
<1> SUFFICES ASSUME IInv, StartLogging \/ Run PROVE IInv'
  OBVIOUS
<1>1. /\ stage \in Started /\ stage' \in Started
      /\ stage' \in {"logging", "running"}
      /\ UNCHANGED <<mode, cfg, round, found, instance, told, ocpus, client, asked>>
      /\ cfg.offline => toLog' = <<>>
  BY DEF StartLogging, Run, Started
<1>2. Typed' /\ LegacyJustified' /\ QueriesScoped' /\ WorkersFollowShape'
  BY <1>1 DEF IInv, Typed, LegacyJustified, QueriesScoped, WorkersFollowShape
<1>3. Placed'
  BY <1>1 DEF IInv, Placed, Started, Asking, Failures
<1>4. Found' /\ FailureJustified'
  BY <1>1 DEF Found, FailureJustified, Asking, Failures
<1>5. Complete'
  BY <1>1 DEF IInv, Complete
<1>6. SilentWhenOffline'
  BY <1>1 DEF IInv, SilentWhenOffline
<1> QED
  BY <1>2, <1>3, <1>4, <1>5, <1>6 DEF IInv

\* A question for the log: only online is there one.
LEMMA AskForLogPreserves == IInv /\ AskForLog => IInv'
<1> SUFFICES ASSUME IInv, AskForLog PROVE IInv'
  OBVIOUS
<1>1. /\ stage = "logging" /\ toLog # <<>> /\ Ask(Head(toLog))
      /\ UNCHANGED <<mode, cfg, stage, round, found, instance, told, ocpus, client>>
  BY DEF AskForLog
<1>2. ~cfg.offline
  BY <1>1 DEF IInv, Placed
<1>3. asked' \in [Questions -> 0 .. 3]
  <2> DEFINE q == Head(toLog)
  <2>1. CASE q \in Questions
    BY <1>1, <2>1, Asks DEF IInv, Typed
  <2>2. CASE q \notin Questions
    <3>1. asked \in [Questions -> 0 .. 3] /\ Ask(q)
      BY <1>1 DEF IInv, Typed
    <3> HIDE DEF q
    <3> QED
      BY <2>2, <3>1 DEF Ask
  <2> QED
    BY <2>1, <2>2
<1>4. Typed' /\ LegacyJustified' /\ QueriesScoped' /\ WorkersFollowShape'
  BY <1>1, <1>3 DEF IInv, Typed, LegacyJustified, QueriesScoped, WorkersFollowShape
<1>5. Placed'
  BY <1>1, <1>2 DEF IInv, Placed
<1>6. Found' /\ FailureJustified'
  BY <1>1 DEF Found, FailureJustified, Asking, Failures
<1>7. Complete'
  BY <1>1 DEF IInv, Complete
<1>8. SilentWhenOffline'
  BY <1>1, <1>2 DEF SilentWhenOffline
<1> QED
  BY <1>4, <1>5, <1>6, <1>7, <1>8 DEF IInv

-----------------------------------------------------------------------------
\* A stutter.
LEMMA StutterPreserves == IInv /\ UNCHANGED vars => IInv'
<1> SUFFICES ASSUME IInv, UNCHANGED vars PROVE IInv'
  OBVIOUS
<1>1. UNCHANGED <<mode, cfg, stage, round, found, instance, told, ocpus, client, asked, toLog>>
  BY DEF vars
<1>2. Typed' /\ LegacyJustified' /\ QueriesScoped' /\ WorkersFollowShape'
  BY <1>1 DEF IInv, Typed, LegacyJustified, QueriesScoped, WorkersFollowShape
<1>3. Placed' /\ Found' /\ Complete'
  BY <1>1 DEF IInv, Placed, Found, Complete
<1>4. SilentWhenOffline' /\ FailureJustified'
  BY <1>1 DEF IInv, SilentWhenOffline, FailureJustified
<1> QED
  BY <1>2, <1>3, <1>4 DEF IInv

\* The inductive invariant.
THEOREM Safety == Spec => []IInv
<1>1. IInv /\ [Next]_vars => IInv'
  BY ResolvePreserves, CompartmentPreserves, CanonicalPreserves, RegionPreserves,
     MergePreserves, KeepSizePreserves, ShapePreserves, BuildPreserves,
     InstancePreserves, ClientPreserves, LoggingPreserves, AskForLogPreserves,
     StutterPreserves DEF Next
<1> QED
  BY Start, <1>1, PTL DEF Spec

\* Live metrics are asked for the one compartment and region the configuration
\* then names, and for the legacy region only for want of the canonical one.
THEOREM QueriesAreScoped == Spec => []QueriesScoped
<1>1. IInv => QueriesScoped
  BY DEF IInv
<1> QED
  BY <1>1, Safety, PTL

\* Whatever shape the service reports, the pool has the smallest number of
\* workers that covers its OCPUs, up to 32.
THEOREM PoolFollowsShape == Spec => []WorkersFollowShape
<1>1. IInv => WorkersFollowShape
  BY DEF IInv
<1> QED
  BY <1>1, Safety, PTL

\* What is configured is never replaced by what the service says.
THEOREM ConfigurationStays == Spec => ConfiguredStays
<1> DEFINE Stays == /\ cfg.compartment # None => cfg'.compartment = cfg.compartment
                    /\ cfg.region # None => cfg'.region = cfg.region
<1>1. IInv /\ [Next]_vars => [Stays]_vars
  <2> SUFFICES ASSUME IInv, [Next]_vars PROVE Stays \/ UNCHANGED vars
    OBVIOUS
  <2>1. CASE Merge
    <3>1. /\ cfg.compartment # None => found.compartment = cfg.compartment
          /\ cfg.region # None => found.region = cfg.region
      BY <2>1 DEF IInv, Found, Merge
    <3>2. /\ cfg'.compartment = IF found.compartment # None THEN found.compartment
                                ELSE cfg.compartment
          /\ cfg'.region = IF found.region # None THEN found.region ELSE cfg.region
      BY <2>1 DEF IInv, Typed, Merge, Merged
    <3> QED
      BY <3>1, <3>2
  <2>2. CASE AskShape
    BY <2>2 DEF IInv, Typed, AskShape
  <2>3. CASE Next /\ ~Merge /\ ~AskShape
    <3>1. UNCHANGED cfg
      BY <2>3 DEF Next, Resolve, AskCompartment, AskCanonical, AskRegion, KeepSize,
         BuildController, AskInstance, CreateClient, StartLogging, AskForLog, Run
    <3> QED
      BY <3>1
  <2> QED
    BY <2>1, <2>2, <2>3
<1> QED
  BY <1>1, Safety, PTL DEF ConfiguredStays, Spec

-----------------------------------------------------------------------------
(***************************************************************************)
(* How often the startup asks.  The invariant rests on IInv and adds which *)
(* questions have not been asked yet at each stage, and that the log's     *)
(* questions are in a fixed order, so that none of them comes twice.       *)
(***************************************************************************)
Order ==
  [Region |-> 1, CanonicalRegion |-> 2, InstanceID |-> 3, CompartmentID |-> 4,
   ShapeConfig |-> 5]

\* The questions of a list, each with a place below n, in their order.
Listed(list, n) ==
  /\ list \in Seq(Questions)
  /\ \A i \in 1 .. Len(list) : Order[list[i]] < n
  /\ \A i, j \in 1 .. Len(list) : i < j => Order[list[i]] < Order[list[j]]

Members(list) == {list[i] : i \in 1 .. Len(list)}

\* The questions that cannot have been asked.
Unasked ==
  IF round = 2 THEN {}
  ELSE IF stage \in {"resolve", "compartment"} THEN Questions
  ELSE IF stage = "canonical" THEN Questions \ {"CompartmentID"}
  ELSE IF stage = "region" THEN {"Region", "InstanceID", "ShapeConfig"}
  ELSE IF stage \in {"merge", "size"} THEN {"InstanceID", "ShapeConfig"}
  ELSE IF stage \in {"controller", "instance"} THEN {"InstanceID"}
  ELSE {}

LogPlaced ==
  /\ Listed(toLog, 6)
  /\ stage # "logging" => toLog = <<>>
  /\ \A q \in Members(toLog) :
       /\ asked[q] <= 1
       /\ mode # "noop" => q \notin {"Region", "CompartmentID"}

\* The types IInv leaves out, and that work begins after the second resolution.
Stationed ==
  /\ stage \in Stages
  /\ instance \in {None, "configured", "imds", "offline"}
  /\ client.kind \in {"none", "static", "monitoring"}
  /\ stage = "client" \/ (stage \in Started /\ mode # "noop") => round = 2
  /\ stage \in {"size", "controller", "instance"} \/ mode = "noop" => round = 1

AskedInv ==
  /\ \A q \in Unasked : asked[q] = 0
  /\ LogPlaced /\ Stationed /\ AskedSparingly

\* The end of a list takes the question of the next place, or nothing.
LEMMA Listing ==
  ASSUME NEW n \in Nat, NEW list, Listed(list, n),
         NEW q \in Questions, Order[q] = n, NEW wanted \in BOOLEAN
  PROVE  /\ Listed(list \o Wanted(q, wanted), n + 1)
         /\ Members(list \o Wanted(q, wanted)) =
              Members(list) \union (IF wanted THEN {q} ELSE {})
<1>1. list \in Seq(Questions) /\ Len(list) \in Nat
  BY DEF Listed
<1>2. \A r \in Questions : Order[r] \in Nat
  BY DEF Order, Questions, Texts
<1>3. \A i \in 1 .. Len(list) : list[i] \in Questions
  BY <1>1
<1>4. CASE ~wanted
  <2>1. list \o Wanted(q, wanted) = list
    BY <1>1, <1>4, ConcatEmptySeq DEF Wanted
  <2> QED
    BY <1>2, <1>3, <1>4, <2>1 DEF Listed
<1>5. CASE wanted
  <2> DEFINE more == list \o <<q>>
  <2>1. /\ more \in Seq(Questions) /\ Len(more) = Len(list) + 1
        /\ \A i \in 1 .. Len(list) : more[i] = list[i]
        /\ more[Len(list) + 1] = q
    BY <1>1
  <2>2. Wanted(q, wanted) = <<q>>
    BY <1>5 DEF Wanted
  <2> HIDE DEF more
  <2>3. Listed(more, n + 1)
    <3>1. \A i \in 1 .. Len(more) : Order[more[i]] < n + 1
      BY <1>1, <1>2, <1>3, <2>1 DEF Listed
    <3>2. \A i, j \in 1 .. Len(more) : i < j => Order[more[i]] < Order[more[j]]
      BY <1>1, <1>2, <1>3, <2>1, SMTT(30) DEF Listed
    <3> QED
      BY <2>1, <3>1, <3>2 DEF Listed
  <2>4. Members(more) = Members(list) \union {q}
    <3>1. 1 .. Len(more) = (1 .. Len(list)) \union {Len(list) + 1}
      BY <1>1, <2>1
    <3> QED
      BY <1>1, <2>1, <3>1 DEF Members
  <2> QED
    BY <1>5, <2>2, <2>3, <2>4 DEF more
<1> QED
  BY <1>4, <1>5

\* Taking the first question off a list leaves the others, and it not among them.
LEMMA Unlisting ==
  ASSUME NEW list, NEW n \in Nat, Listed(list, n), list # <<>>
  PROVE  /\ Head(list) \in Questions /\ Head(list) \in Members(list)
         /\ Listed(Tail(list), n)
         /\ Members(Tail(list)) \subseteq Members(list) \ {Head(list)}
<1>1. /\ list \in Seq(Questions) /\ Len(list) \in Nat \ {0}
      /\ Head(list) \in Questions /\ Head(list) = list[1]
      /\ Tail(list) \in Seq(Questions) /\ Len(Tail(list)) = Len(list) - 1
      /\ \A i \in 1 .. Len(Tail(list)) : Tail(list)[i] = list[i + 1]
  BY HeadTailProperties DEF Listed
<1>2. \A i \in 1 .. Len(Tail(list)) : i + 1 \in 1 .. Len(list) /\ 1 < i + 1
  BY <1>1
<1>3. \A r \in Questions : Order[r] \in Nat
  BY DEF Order, Questions, Texts
<1>4. \A i \in 1 .. Len(list) : list[i] \in Questions
  BY <1>1
<1>5. Listed(Tail(list), n)
  <2>1. \A i \in 1 .. Len(Tail(list)) : Order[Tail(list)[i]] < n
    BY <1>1, <1>2 DEF Listed
  <2>2. \A i, j \in 1 .. Len(Tail(list)) : i < j => Order[Tail(list)[i]] < Order[Tail(list)[j]]
    BY <1>1, <1>2 DEF Listed
  <2> QED
    BY <1>1, <2>1, <2>2 DEF Listed
<1>6. \A i \in 1 .. Len(Tail(list)) : Tail(list)[i] # Head(list)
  <2>1. \A i \in 1 .. Len(Tail(list)) : Order[list[1]] < Order[list[i + 1]]
    BY <1>1, <1>2 DEF Listed
  <2>2. \A i \in 1 .. Len(Tail(list)) : Order[list[1]] \in Nat /\ Order[list[i + 1]] \in Nat
    BY <1>1, <1>2, <1>3, <1>4
  <2> QED
    BY <1>1, <2>1, <2>2
<1> QED
  BY <1>1, <1>2, <1>5, <1>6 DEF Members

-----------------------------------------------------------------------------
\* Nothing has been asked, and nothing is to be logged.
LEMMA AskedStart == Init => AskedInv
<1> SUFFICES ASSUME Init PROVE AskedInv
  OBVIOUS
<1>1. \A q \in Questions : asked[q] = 0
  BY DEF Init
<1>2. Unasked \subseteq Questions
  BY DEF Unasked, Questions, Texts
<1>3. LogPlaced
  <2>1. toLog = <<>> /\ Len(toLog) = 0 /\ toLog \in Seq(Questions)
    BY EmptySeq DEF Init
  <2> QED
    BY <2>1 DEF LogPlaced, Listed, Members
<1>4. Stationed
  BY DEF Init, Stationed, Stages, Started, NoClient
<1>5. AskedSparingly
  BY <1>1 DEF AskedSparingly
<1> QED
  BY <1>1, <1>2, <1>3, <1>4, <1>5 DEF AskedInv

\* A step of the startup that asks nothing.
LEMMA AsksNothing ==
  ASSUME AskedInv, UNCHANGED <<mode, asked, toLog>>,
         stage \notin {"logging", "running"}, stage' \notin {"logging", "running"},
         Unasked' \subseteq Unasked, Stationed'
  PROVE  AskedInv'
<1>1. \A q \in Unasked' : asked'[q] = 0
  BY DEF AskedInv
<1>2. LogPlaced'
  BY DEF AskedInv, LogPlaced, Listed, Members
<1>3. AskedSparingly'
  BY DEF AskedInv, AskedSparingly
<1> QED
  BY <1>1, <1>2, <1>3 DEF AskedInv

\* A step of the startup that asks what has not been asked.
LEMMA AsksOnce ==
  ASSUME AskedInv, Typed, UNCHANGED <<mode, toLog>>,
         stage \notin {"logging", "running"}, stage' \notin {"logging", "running"},
         NEW q \in Unasked, Ask(q), Unasked' \subseteq Unasked \ {q}, Stationed'
  PROVE  AskedInv'
<1>1. Unasked \subseteq Questions /\ q \in Questions
  BY DEF Unasked, Questions, Texts
<1>2. /\ asked'[q] = 1
      /\ \A r \in Questions : r # q => asked'[r] = asked[r]
      /\ \A r \in Questions : asked'[r] \in {0, 1}
  <2>1. asked[q] = 0 /\ \A r \in Questions : asked[r] <= 1
    BY DEF AskedInv, AskedSparingly
  <2> QED
    BY <1>1, <2>1 DEF Typed, Ask
<1>3. \A r \in Unasked' : asked'[r] = 0
  BY <1>1, <1>2 DEF AskedInv
<1>4. LogPlaced'
  <2>1. toLog' = <<>> /\ toLog = <<>> /\ Members(toLog)' = {}
    BY EmptySeq DEF AskedInv, LogPlaced, Members
  <2>2. Listed(toLog, 6)'
    BY DEF AskedInv, LogPlaced, Listed
  <2> QED
    BY <2>1, <2>2 DEF LogPlaced
<1>5. AskedSparingly'
  BY <1>2 DEF AskedSparingly
<1> QED
  BY <1>3, <1>4, <1>5 DEF AskedInv

\* The steps of the startup that ask nothing, one by one.
LEMMA SilentStepsKeepAsked ==
  ASSUME IInv, AskedInv,
         Resolve \/ Merge \/ KeepSize \/ BuildController \/ CreateClient
  PROVE  AskedInv'
<1> USE DEF Unasked, Questions, Texts
<1>1. round \in {1, 2} /\ cfg.instance \in {None, "configured"}
  BY DEF IInv, Typed
<1>2. Stationed
  BY DEF AskedInv
<1>3. CASE Resolve
  <2>1. /\ stage = "resolve" /\ stage' \in {"size", "merge", "compartment", "canonical"}
        /\ stage' = "size" => mode = "noop"
        /\ stage' \in Asking => round = 1
        /\ UNCHANGED <<mode, round, instance, client, asked, toLog>>
    <3>1. Placed'
      BY <1>3, ResolvePreserves DEF IInv
    <3> QED
      BY <1>3, <3>1 DEF Resolve, Placed
  <2>2. Stationed'
    BY <1>1, <1>2, <2>1 DEF Stationed, Stages, Started
  <2>3. Unasked' \subseteq Unasked
    BY <1>1, <2>1
  <2> QED
    BY <2>1, <2>2, <2>3, AsksNothing
<1>4. CASE Merge
  <2>1. /\ stage = "merge" /\ stage' = IF round = 1 THEN "size" ELSE "client"
        /\ mode # "noop"
        /\ UNCHANGED <<mode, round, instance, client, asked, toLog>>
    BY <1>4 DEF Merge, IInv, Placed, Started
  <2>2. Stationed'
    BY <1>1, <1>2, <2>1 DEF Stationed, Stages, Started
  <2>3. Unasked' \subseteq Unasked
    BY <1>1, <2>1
  <2>4. stage' \in {"size", "client"}
    BY <2>1
  <2> QED
    BY <2>1, <2>2, <2>3, <2>4, AsksNothing
<1>5. CASE KeepSize
  <2>1. /\ stage = "size" /\ stage' = "controller"
        /\ UNCHANGED <<mode, round, instance, client, asked, toLog>>
    BY <1>5 DEF KeepSize
  <2>2. Stationed'
    BY <1>2, <2>1 DEF Stationed, Stages, Started
  <2>3. Unasked' \subseteq Unasked
    BY <2>1
  <2> QED
    BY <2>1, <2>2, <2>3, AsksNothing
<1>6. CASE BuildController
  <2>1. /\ stage = "controller" /\ stage' \in {"built", "resolve", "instance"}
        /\ stage' = "built" <=> mode = "noop"
        /\ stage' = "resolve" => round' = 2
        /\ stage' # "resolve" => round' = round
        /\ instance' \in {instance, cfg.instance, "offline"}
        /\ UNCHANGED <<mode, client, asked, toLog>>
    BY <1>6 DEF BuildController
  <2>2. round = 1
    BY <1>2, <2>1 DEF Stationed
  <2>3. Stationed'
    BY <1>1, <1>2, <2>1, <2>2 DEF Stationed, Stages, Started
  <2>4. Unasked' \subseteq Unasked
    BY <2>1, <2>2
  <2> QED
    BY <2>1, <2>3, <2>4, AsksNothing
<1>7. CASE CreateClient
  <2>1. /\ stage = "client" /\ stage' \in {"built", "no client"}
        /\ UNCHANGED <<mode, round, instance, asked, toLog>>
    BY <1>7 DEF CreateClient
  <2>2. client'.kind \in {"none", "static", "monitoring"}
    <3>1. \/ client' = [NoClient EXCEPT !.kind = "static"]
          \/ client' = client
          \/ client' = [kind |-> "monitoring", compartment |-> found.compartment,
                         region |-> found.region]
      BY <1>7 DEF CreateClient
    <3>2. CASE client' = [NoClient EXCEPT !.kind = "static"]
      BY <3>2 DEF NoClient
    <3>3. CASE client' = client
      BY <1>2, <3>3 DEF Stationed
    <3>4. CASE client' = [kind |-> "monitoring", compartment |-> found.compartment,
                          region |-> found.region]
      BY <3>4
    <3> QED
      BY <3>1, <3>2, <3>3, <3>4
  <2>3. Stationed'
    BY <1>2, <2>1, <2>2 DEF Stationed, Stages, Started, Failures
  <2>4. Unasked' \subseteq Unasked
    BY <1>2, <2>1 DEF Stationed
  <2> QED
    BY <2>1, <2>3, <2>4, AsksNothing
<1> QED
  BY <1>3, <1>4, <1>5, <1>6, <1>7

\* The questions of the startup, one by one.
LEMMA QuestionsKeepAsked ==
  ASSUME IInv, AskedInv,
         AskCompartment \/ AskCanonical \/ AskRegion \/ AskShape \/ AskInstance
  PROVE  AskedInv'
<1> USE DEF Unasked, Questions, Texts
<1>1. Stationed /\ Placed /\ Typed
  BY DEF AskedInv, IInv
<1>2. stage \in Asking \union {"size", "instance"} => round # 2
  BY <1>1 DEF Placed, Stationed
<1>3. CASE AskCompartment
  <2>1. /\ stage = "compartment" /\ stage' \in {"no compartment", "canonical", "merge"}
        /\ Ask("CompartmentID")
        /\ UNCHANGED <<mode, round, instance, client, toLog>>
    BY <1>3 DEF AskCompartment
  <2>2. Stationed'
    BY <1>1, <2>1 DEF Placed, Stationed, Stages, Started, Asking, Failures
  <2>3. "CompartmentID" \in Unasked /\ Unasked' \subseteq Unasked \ {"CompartmentID"}
    BY <1>2, <2>1 DEF Asking
  <2> QED
    BY <1>1, <2>1, <2>2, <2>3, AsksOnce
<1>4. CASE AskCanonical
  <2>1. /\ stage = "canonical" /\ stage' = "region" /\ Ask("CanonicalRegion")
        /\ UNCHANGED <<mode, round, instance, client, toLog>>
    BY <1>4 DEF AskCanonical
  <2>2. Stationed'
    BY <1>1, <2>1 DEF Stationed, Stages, Started
  <2>3. "CanonicalRegion" \in Unasked /\ Unasked' \subseteq Unasked \ {"CanonicalRegion"}
    BY <1>2, <2>1 DEF Asking
  <2> QED
    BY <1>1, <2>1, <2>2, <2>3, AsksOnce
<1>5. CASE AskRegion
  <2>1. /\ stage = "region" /\ stage' \in {"no region", "merge"} /\ Ask("Region")
        /\ UNCHANGED <<mode, round, instance, client, toLog>>
    BY <1>5 DEF AskRegion
  <2>2. Stationed'
    BY <1>1, <2>1 DEF Stationed, Stages, Started, Failures
  <2>3. "Region" \in Unasked /\ Unasked' \subseteq Unasked \ {"Region"}
    BY <1>2, <2>1 DEF Asking
  <2> QED
    BY <1>1, <2>1, <2>2, <2>3, AsksOnce
<1>6. CASE AskShape
  <2>1. /\ stage = "size" /\ stage' \in {"no shape", "controller"} /\ Ask("ShapeConfig")
        /\ UNCHANGED <<mode, round, instance, client, toLog>>
    BY <1>6 DEF AskShape
  <2>2. Stationed'
    BY <1>1, <2>1 DEF Stationed, Stages, Started, Failures
  <2>3. "ShapeConfig" \in Unasked /\ Unasked' \subseteq Unasked \ {"ShapeConfig"}
    BY <1>2, <2>1
  <2> QED
    BY <1>1, <2>1, <2>2, <2>3, AsksOnce
<1>7. CASE AskInstance
  <2>1. /\ stage = "instance" /\ stage' \in {"no instance", "resolve"}
        /\ Ask("InstanceID") /\ mode # "noop"
        /\ stage' = "resolve" => round' = 2
        /\ stage' = "no instance" => round' = round
        /\ instance' \in {instance, None, "imds"}
        /\ UNCHANGED <<mode, client, toLog>>
    BY <1>1, <1>7 DEF AskInstance, Answers, Placed, Started
  <2>2. Stationed'
    BY <1>1, <2>1 DEF Stationed, Stages, Started, Failures
  <2>3. "InstanceID" \in Unasked /\ Unasked' \subseteq Unasked \ {"InstanceID"}
    BY <1>2, <2>1
  <2> QED
    BY <1>1, <2>1, <2>2, <2>3, AsksOnce
<1> QED
  BY <1>3, <1>4, <1>5, <1>6, <1>7

\* What is to be logged is listed in order, and nothing the configuration holds.
LEMMA StartLoggingLists ==
  ASSUME AskedInv, IInv, StartLogging
  PROVE  /\ Listed(toLog', 6)
         /\ mode # "noop" => Members(toLog') \intersect {"Region", "CompartmentID"} = {}
<1>1. CASE cfg.offline
  <2>1. toLog' = <<>>
    BY <1>1 DEF StartLogging
  <2> QED
    BY <2>1, EmptySeq DEF Listed, Members
<1>2. CASE ~cfg.offline
  <2> DEFINE noRegion == cfg.region = None
             noInstance == cfg.instance = None
             noCompartment == cfg.compartment = None
             always == TRUE
             s0 == <<>>
             s1 == s0 \o Wanted("Region", noRegion)
             s2 == s1 \o Wanted("CanonicalRegion", always)
             s3 == s2 \o Wanted("InstanceID", noInstance)
             s4 == s3 \o Wanted("CompartmentID", noCompartment)
             s5 == s4 \o Wanted("ShapeConfig", always)
  <2>1. toLog' = s5
    <3>1. Wanted("Region", noRegion) \in Seq(Questions)
      <4>1. "Region" \in Questions
        BY DEF Questions, Texts
      <4>2. <<"Region">> \in Seq(Questions) /\ <<>> \in Seq(Questions)
        BY <4>1, EmptySeq
      <4> HIDE DEF noRegion
      <4> QED
        BY <4>2 DEF Wanted
    <3>2. s1 = Wanted("Region", noRegion)
      BY <3>1, ConcatEmptySeq
    <3> QED
      BY <1>2, <3>2 DEF StartLogging
  <2>2. Listed(s0, 1) /\ Members(s0) = {}
    BY EmptySeq DEF Listed, Members
  <2>3. /\ \A q \in {"Region", "CanonicalRegion", "InstanceID", "CompartmentID",
                     "ShapeConfig"} : q \in Questions
        /\ Order["Region"] = 1 /\ Order["CanonicalRegion"] = 2 /\ Order["InstanceID"] = 3
        /\ Order["CompartmentID"] = 4 /\ Order["ShapeConfig"] = 5
    BY DEF Questions, Texts, Order
  <2>4. /\ noRegion \in BOOLEAN /\ noInstance \in BOOLEAN /\ noCompartment \in BOOLEAN
        /\ always \in BOOLEAN
    OBVIOUS
  <2> HIDE DEF noRegion, noInstance, noCompartment, always, s0
  <2>5. /\ Listed(s1, 1 + 1)
        /\ Members(s1) = Members(s0) \union (IF noRegion THEN {"Region"} ELSE {})
    <3>1. 1 \in Nat /\ Order["Region"] >= 1 /\ "Region" \in Questions
      BY <2>3
    <3> QED
      BY <2>2, <2>3, <2>4, <3>1, Listing
  <2> HIDE DEF s1
  <2>6. /\ Listed(s2, 2 + 1)
        /\ Members(s2) = Members(s1) \union (IF always THEN {"CanonicalRegion"} ELSE {})
    BY <2>3, <2>4, <2>5, Listing
  <2> HIDE DEF s2
  <2>7. /\ Listed(s3, 3 + 1)
        /\ Members(s3) = Members(s2) \union (IF noInstance THEN {"InstanceID"} ELSE {})
    BY <2>3, <2>4, <2>6, Listing
  <2> HIDE DEF s3
  <2>8. /\ Listed(s4, 4 + 1)
        /\ Members(s4) = Members(s3) \union (IF noCompartment THEN {"CompartmentID"} ELSE {})
    BY <2>3, <2>4, <2>7, Listing
  <2> HIDE DEF s4
  <2>9. /\ Listed(s5, 5 + 1)
        /\ Members(s5) = Members(s4) \union (IF always THEN {"ShapeConfig"} ELSE {})
    BY <2>3, <2>4, <2>8, Listing
  <2> HIDE DEF s5
  <2>10. mode # "noop" => ~noRegion /\ ~noCompartment
    <3>1. mode # "noop" => round = 2
      BY DEF AskedInv, Stationed, StartLogging, Started
    <3> QED
      BY <1>2, <3>1 DEF IInv, Complete, noRegion, noCompartment
  <2> QED
    BY <2>1, <2>2, <2>5, <2>6, <2>7, <2>8, <2>9, <2>10 DEF always
<1> QED
  BY <1>1, <1>2

\* The log asks once more for a question at most, and works through its list.
LEMMA LoggingKeepsAsked ==
  ASSUME IInv, AskedInv, StartLogging \/ AskForLog \/ Run
  PROVE  AskedInv'
<1> USE DEF Unasked
<1>1. CASE StartLogging
  <2>1. /\ stage = "built" /\ stage' = "logging"
        /\ UNCHANGED <<mode, round, instance, client, asked>>
    BY <1>1 DEF StartLogging
  <2>2. LogPlaced'
    <3>1. /\ Listed(toLog', 6)
          /\ mode # "noop" => Members(toLog') \intersect {"Region", "CompartmentID"} = {}
      BY <1>1, StartLoggingLists
    <3>2. Members(toLog') \subseteq Questions
      BY <3>1 DEF Listed, Members
    <3>3. \A q \in Questions : asked[q] <= 1
      BY <2>1 DEF AskedInv, AskedSparingly
    <3> QED
      BY <2>1, <3>1, <3>2, <3>3 DEF LogPlaced, Listed, Members
  <2>3. Stationed'
    BY <2>1 DEF AskedInv, Stationed, Stages, Started
  <2>4. AskedSparingly'
    BY <2>1 DEF AskedInv, AskedSparingly
  <2> QED
    BY <2>1, <2>2, <2>3, <2>4 DEF AskedInv
<1>2. CASE AskForLog
  <2> DEFINE q == Head(toLog)
  <2>1. /\ stage = "logging" /\ toLog # <<>> /\ Ask(q) /\ toLog' = Tail(toLog)
        /\ UNCHANGED <<mode, stage, round, instance, client>>
    BY <1>2 DEF AskForLog, AskedOne
  <2>2. /\ q \in Questions /\ q \in Members(toLog) /\ Listed(Tail(toLog), 6)
        /\ Members(Tail(toLog)) \subseteq Members(toLog) \ {q}
    BY <2>1, Unlisting DEF AskedInv, LogPlaced
  <2> HIDE DEF q
  <2>3. asked[q] \in 0 .. 1 /\ (mode # "noop" => q \notin {"Region", "CompartmentID"})
    BY <2>2 DEF AskedInv, LogPlaced, IInv, Typed
  <2>4. asked'[q] \in 0 .. 2 /\ \A r \in Questions : r # q => asked'[r] = asked[r]
    BY <2>1, <2>2, <2>3 DEF IInv, Typed, Ask
  <2>5. Members(Tail(toLog)) \subseteq Questions
    BY <2>2 DEF Listed, Members
  <2>6. LogPlaced'
    <3>1. \A r \in Members(Tail(toLog)) :
            asked'[r] <= 1 /\ (mode # "noop" => r \notin {"Region", "CompartmentID"})
      BY <2>2, <2>4, <2>5 DEF AskedInv, LogPlaced
    <3> QED
      BY <2>1, <2>2, <3>1 DEF LogPlaced, Listed, Members
  <2>7. Stationed'
    BY <2>1 DEF AskedInv, Stationed
  <2>8. AskedSparingly'
    BY <2>1, <2>3, <2>4 DEF AskedInv, AskedSparingly
  <2> QED
    BY <2>1, <2>6, <2>7, <2>8 DEF AskedInv
<1>3. CASE Run
  <2>1. /\ stage = "logging" /\ stage' = "running" /\ toLog = <<>>
        /\ UNCHANGED <<mode, round, instance, client, asked, toLog>>
    BY <1>3 DEF Run
  <2>2. LogPlaced'
    BY <2>1 DEF AskedInv, LogPlaced, Listed, Members
  <2>3. Stationed' /\ AskedSparingly'
    BY <2>1 DEF AskedInv, Stationed, AskedSparingly, Stages, Started
  <2> QED
    BY <2>1, <2>2, <2>3 DEF AskedInv
<1> QED
  BY <1>1, <1>2, <1>3

\* The invariant about questions, on top of the one about facts.
THEOREM AskedSafety == Spec => []AskedInv
<1>1. IInv /\ AskedInv /\ [Next]_vars => AskedInv'
  <2>1. AskedInv /\ UNCHANGED vars => AskedInv'
    BY DEF AskedInv, LogPlaced, Listed, Members, Stationed, AskedSparingly, Unasked, vars
  <2> QED
    BY <2>1, SilentStepsKeepAsked, QuestionsKeepAsked, LoggingKeepsAsked DEF Next
<1> QED
  BY AskedStart, Safety, <1>1, PTL DEF Spec

\* The second resolution asks nothing again and the log repeats only what the
\* configuration does not hold: each question is asked at most once before the
\* start, and at most twice at all (bootstrap_controller.go, logging_metadata.go).
THEOREM QuestionsAreRare == Spec => []AskedSparingly
<1>1. AskedInv => AskedSparingly
  BY DEF AskedInv
<1> QED
  BY <1>1, AskedSafety, PTL

\* A start without a network neither asks nor fails, no other start fails for a
\* fact that somebody told, and whatever is answered every fact keeps its type.
THEOREM StartupIsSound == Spec => []StartupSound
<1>1. IInv /\ AskedInv => StartupSound
  <2> SUFFICES ASSUME IInv, AskedInv PROVE StartupSound
    OBVIOUS
  <2>1. TypeOK
    BY DEF IInv, Typed, AskedInv, Stationed, LogPlaced, Listed, TypeOK, Compartments, Regions
  <2> QED
    BY <2>1 DEF IInv, StartupSound
<1> QED
  BY <1>1, Safety, AskedSafety, PTL
=============================================================================
