------------------------- MODULE MetadataResolution -------------------------
(***************************************************************************)
(* What the program learns about its instance before it works, question by *)
(* question: compartment and region (cmd/shaper/metadata_resolver.go), the *)
(* worker count (pool_sizing.go), the instance (controller_helpers.go),    *)
(* the Monitoring client (metrics_client_wiring.go), and the facts that    *)
(* are only logged (logging_metadata.go).  The metadata client is any      *)
(* imds.Client: an answer is a text, blank or not, with or without an      *)
(* error.  OCPUs are counted in tenths.                                    *)
(***************************************************************************)
EXTENDS Integers, Sequences

CONSTANTS
  None,      \* a blank text
  Workers,   \* configured worker counts, valid ones
  Shapes     \* what shapeConfig may report, in tenths of an OCPU

ASSUME ResolutionAssumption ==
  /\ None \notin {"configured", "imds", "canonical", "legacy", "offline"}
  /\ Workers \subseteq Nat \ {0}
  /\ Shapes \subseteq Int

VARIABLES
  mode,      \* options.mode
  cfg,       \* the configuration in force
  stage,     \* what is done next
  round,     \* 1 in stageMetadata, 2 in buildAdaptiveController
  found,     \* ociMetadata
  instance,  \* the resource the controller asks about
  told,      \* the last answer to each question for a text
  ocpus,     \* what shapeConfig reported for the pool
  client,    \* the Monitoring client
  asked,     \* how often the metadata service was asked what
  toLog      \* questions asked only for the log

vars == <<mode, cfg, stage, round, found, instance, told, ocpus, client, asked, toLog>>

Texts == {"Region", "CanonicalRegion", "InstanceID", "CompartmentID"}
Questions == Texts \union {"ShapeConfig"}

Answers(text) == [text : {None, text}, failed : BOOLEAN]

Configs ==
  [instance : {None, "configured"}, compartment : {None, "configured"},
   region : {None, "configured"}, offline : BOOLEAN, autoSize : BOOLEAN,
   workers : Workers]

NoClient == [kind |-> "none", compartment |-> None, region |-> None]

Init ==
  /\ mode \in {"enforce", "dry-run", "noop"}
  /\ cfg \in Configs
  /\ stage = "resolve" /\ round = 1
  /\ found = [compartment |-> None, region |-> None]
  /\ instance = None
  /\ told = [q \in Texts |-> [text |-> None, failed |-> FALSE]]
  /\ ocpus = 0
  /\ client = NoClient
  /\ asked = [q \in Questions |-> 0]
  /\ toLog = <<>>

\* Questions are counted up to three.
Ask(q) == asked' = [asked EXCEPT ![q] = IF @ < 3 THEN @ + 1 ELSE @]

Told(q, a) == told' = [told EXCEPT ![q] = a]

\* The stages in which the program has given up, with exit status 1.
Failures == {"no compartment", "no region", "no shape", "no instance", "no client"}

-----------------------------------------------------------------------------
\* Mutated form: what is configured is looked up all the same.
MutOverrides(c) == [compartment |-> None, region |-> None]

Overrides(c) == [compartment |-> c.compartment, region |-> c.region]

\* prepareRunMetadata and the beginning of resolveCompartmentAndRegion.
Resolve ==
  /\ stage = "resolve"
  /\ IF mode = "noop" THEN stage' = "size" /\ UNCHANGED found
     ELSE /\ found' = Overrides(cfg)
          /\ stage' = IF cfg.offline \/ (found'.compartment # None /\ found'.region # None)
                      THEN "merge"
                      ELSE IF found'.compartment = None THEN "compartment" ELSE "canonical"
  /\ UNCHANGED <<mode, cfg, round, instance, told, ocpus, client, asked, toLog>>

\* preferMetadataValue, without an override: a text counts even with an error.
AskCompartment ==
  /\ stage = "compartment" /\ Ask("CompartmentID")
  /\ \E a \in Answers("imds") :
       /\ Told("CompartmentID", a)
       /\ IF a.text = None THEN stage' = "no compartment" /\ UNCHANGED found
          ELSE /\ found' = [found EXCEPT !.compartment = a.text]
               /\ stage' = IF found.region = None THEN "canonical" ELSE "merge"
  /\ UNCHANGED <<mode, cfg, round, instance, ocpus, client, toLog>>

AskCanonical ==
  /\ stage = "canonical" /\ Ask("CanonicalRegion")
  /\ \E a \in Answers("canonical") : Told("CanonicalRegion", a)
  /\ stage' = "region"
  /\ UNCHANGED <<mode, cfg, round, found, instance, ocpus, client, toLog>>

\* Mutated form: the legacy name goes first.
MutPreferRegion(c, l) ==
  IF l.text # None THEN l.text ELSE IF ~c.failed THEN c.text ELSE None

\* Mutated form: without the canonical name there is no region.
MutPreferCanonicalOnly(c, l) == IF c.failed THEN None ELSE c.text

\* preferCanonicalRegionValue, without an override.
PreferRegion(c, l) == IF c.text # None /\ ~c.failed THEN c.text ELSE l.text

AskRegion ==
  /\ stage = "region" /\ Ask("Region")
  /\ \E a \in Answers("legacy") :
       LET region == PreferRegion(told["CanonicalRegion"], a)
       IN /\ Told("Region", a)
          /\ IF region = None THEN stage' = "no region" /\ UNCHANGED found
             ELSE found' = [found EXCEPT !.region = region] /\ stage' = "merge"
  /\ UNCHANGED <<mode, cfg, round, instance, ocpus, client, toLog>>

\* Mutated form: what was found is not kept.
MutMerged(c, f) == c

\* What was found replaces what was blank.
Merged(c, f) ==
  [c EXCEPT !.compartment = IF f.compartment # None THEN f.compartment ELSE @,
            !.region = IF f.region # None THEN f.region ELSE @]

Merge ==
  /\ stage = "merge"
  /\ cfg' = Merged(cfg, found)
  /\ stage' = IF round = 1 THEN "size" ELSE "client"
  /\ UNCHANGED <<mode, round, found, instance, told, ocpus, client, asked, toLog>>

\* Mutated form: the offline switch is forgotten.
MutSizes == cfg.autoSize /\ mode # "noop"

Sizes == cfg.autoSize /\ mode # "noop" /\ ~cfg.offline

\* Mutated form: a shape without OCPUs is taken for a small one.
MutUsableShape(reported) == TRUE

UsableShape(reported) == reported > 0

\* Mutated form: no ceiling.
MutCap(n) == n

Cap(n) == IF n > 32 THEN 32 ELSE n

\* deriveWorkerCountFromOCPUs.
DerivedWorkers(reported, fallback) ==
  IF UsableShape(reported) THEN Cap((reported + 9) \div 10) ELSE fallback

\* applyPoolSizingFromShape, the part that asks nothing.
KeepSize ==
  /\ stage = "size" /\ ~Sizes /\ stage' = "controller"
  /\ UNCHANGED <<mode, cfg, round, found, instance, told, ocpus, client, asked, toLog>>

AskShape ==
  /\ stage = "size" /\ Sizes /\ Ask("ShapeConfig")
  /\ \/ stage' = "no shape" /\ UNCHANGED <<cfg, ocpus>>
     \/ \E reported \in Shapes :
          /\ ocpus' = reported
          /\ cfg' = [cfg EXCEPT !.workers = DerivedWorkers(reported, cfg.workers)]
          /\ stage' = "controller"
  /\ UNCHANGED <<mode, round, found, instance, told, client, toLog>>

\* defaultControllerFactory, and resolveInstanceID as far as it asks nothing.  A
\* configuration that was loaded and sized, all that gets here, NewPool and
\* NewAdaptiveController do not refuse (RuntimeConfig, LoadedBuilds).
BuildController ==
  /\ stage = "controller"
  /\ IF mode = "noop" THEN stage' = "built" /\ UNCHANGED <<round, instance>>
     ELSE IF cfg.instance # None \/ cfg.offline
     THEN /\ instance' = IF cfg.instance # None THEN cfg.instance ELSE "offline"
          /\ round' = 2 /\ stage' = "resolve"
     ELSE stage' = "instance" /\ UNCHANGED <<round, instance>>
  /\ UNCHANGED <<mode, cfg, found, told, ocpus, client, asked, toLog>>

AskInstance ==
  /\ stage = "instance" /\ Ask("InstanceID")
  /\ \E a \in Answers("imds") :
       /\ Told("InstanceID", a)
       /\ IF a.failed THEN stage' = "no instance" /\ UNCHANGED <<instance, round>>
          ELSE instance' = a.text /\ round' = 2 /\ stage' = "resolve"
  /\ UNCHANGED <<mode, cfg, found, ocpus, client, toLog>>

\* createMetricsClient: the SDK may refuse the credentials or the client.  The
\* metadata client it asks is the one the wiring has built.
CreateClient ==
  /\ stage = "client"
  /\ IF cfg.offline
     THEN client' = [NoClient EXCEPT !.kind = "static"] /\ stage' = "built"
     ELSE \/ stage' = "no client" /\ UNCHANGED client
          \/ /\ found.compartment # None
             /\ client' = [kind |-> "monitoring", compartment |-> found.compartment,
                           region |-> found.region]
             /\ stage' = "built"
  /\ UNCHANGED <<mode, cfg, round, found, instance, told, ocpus, asked, toLog>>

\* A question for the log, if it is to be asked.
Wanted(q, wanted) == IF wanted THEN <<q>> ELSE <<>>

\* logIMDSMetadata asks for what is not configured, and for two facts always.
StartLogging ==
  /\ stage = "built" /\ stage' = "logging"
  /\ toLog' = IF cfg.offline THEN <<>>
              ELSE Wanted("Region", cfg.region = None)
                     \o Wanted("CanonicalRegion", TRUE)
                     \o Wanted("InstanceID", cfg.instance = None)
                     \o Wanted("CompartmentID", cfg.compartment = None)
                     \o Wanted("ShapeConfig", TRUE)
  /\ UNCHANGED <<mode, cfg, round, found, instance, told, ocpus, client, asked>>

\* Mutated form: the same question again.
MutAskedOne(questions) == IF Len(questions) > 1 THEN Tail(questions) ELSE questions

AskedOne(questions) == Tail(questions)

\* An answer that fails is only warned about.
AskForLog ==
  /\ stage = "logging" /\ toLog # <<>>
  /\ Ask(Head(toLog))
  /\ toLog' = AskedOne(toLog)
  /\ UNCHANGED <<mode, cfg, stage, round, found, instance, told, ocpus, client>>

Run ==
  /\ stage = "logging" /\ toLog = <<>> /\ stage' = "running"
  /\ UNCHANGED <<mode, cfg, round, found, instance, told, ocpus, client, asked, toLog>>

Next ==
  \/ Resolve \/ AskCompartment \/ AskCanonical \/ AskRegion \/ Merge
  \/ KeepSize \/ AskShape \/ BuildController \/ AskInstance \/ CreateClient
  \/ StartLogging \/ AskForLog \/ Run

\* The program goes on, and the metadata client answers (ImdsFetch, FetchEnds).
Fairness == WF_vars(Next)

Spec == Init /\ [][Next]_vars /\ Fairness

-----------------------------------------------------------------------------
Stages ==
  {"resolve", "compartment", "canonical", "region", "merge", "size", "controller",
   "instance", "client", "built", "logging", "running"} \union Failures

\* The types: whatever is asked and answered, the pool keeps a worker.
TypeOK ==
  /\ cfg \in [instance : {None, "configured"},
              compartment : {None, "configured", "imds"},
              region : {None, "configured", "canonical", "legacy"},
              offline : BOOLEAN, autoSize : BOOLEAN, workers : Nat \ {0}]
  /\ stage \in Stages /\ round \in {1, 2}
  /\ found.compartment \in {None, "configured", "imds"}
  /\ found.region \in {None, "configured", "canonical", "legacy"}
  /\ instance \in {None, "configured", "imds", "offline"}
  /\ client.kind \in {"none", "static", "monitoring"}
  /\ asked \in [Questions -> 0 .. 3]
  /\ toLog \in Seq(Questions)

\* Live metrics are asked for one compartment in one region, the ones the
\* configuration then names, and the legacy region only for want of the
\* canonical one; the static client serves nobody who is online
\* (controller_helpers.go, buildAdaptiveController).
QueriesScoped ==
  /\ client.kind = "monitoring" =>
       /\ ~cfg.offline /\ mode # "noop"
       /\ client.compartment = cfg.compartment /\ cfg.compartment # None
       /\ client.region = cfg.region /\ cfg.region # None
  /\ client.region = "legacy" =>
       told["CanonicalRegion"].failed \/ told["CanonicalRegion"].text = None
  /\ client.kind = "static" => cfg.offline

\* A pool sized from the shape has the smallest number of workers that covers
\* its OCPUs, up to 32 (pool_sizing.go, deriveWorkerCountFromOCPUs).
WorkersFollowShape ==
  ocpus > 0 => /\ cfg.workers \in 1 .. 32
               /\ cfg.workers = 32 \/ 10 * cfg.workers >= ocpus
               /\ 10 * (cfg.workers - 1) < ocpus

\* Offline nothing is asked, and noop asks nothing to start
\* (metadata_resolver.go, pool_sizing.go).
SilentWhenOffline ==
  \A q \in Questions :
    /\ cfg.offline => asked[q] = 0
    /\ mode = "noop" /\ stage \notin {"logging", "running"} => asked[q] = 0

\* The second resolution, in buildAdaptiveController, asks nothing again, so up
\* to the start each question is asked at most once, and the log repeats only
\* what the configuration does not hold.
AskedSparingly ==
  \A q \in Questions :
    /\ stage \notin {"logging", "running"} => asked[q] <= 1
    /\ q \in {"Region", "CompartmentID"} /\ mode # "noop" => asked[q] <= 1
    /\ asked[q] <= 2

\* The program gives up only for want of something it could not be told.
FailureJustified ==
  /\ stage = "no compartment" => told["CompartmentID"].text = None
  /\ stage = "no region" =>
       /\ told["Region"].text = None
       /\ told["CanonicalRegion"].failed \/ told["CanonicalRegion"].text = None
  /\ stage = "no instance" => told["InstanceID"].failed
  /\ stage \in Failures => ~cfg.offline /\ mode # "noop"

\* A start without a network neither asks nor fails, and no other start fails
\* for a fact that somebody told.
StartupSound == TypeOK /\ SilentWhenOffline /\ FailureJustified

\* What is configured is never replaced by what the service says.
ConfiguredStays ==
  [][ /\ cfg.compartment # None => cfg'.compartment = cfg.compartment
      /\ cfg.region # None => cfg'.region = cfg.region ]_vars

\* Every startup comes to the run or gives up.
StartupEnds == <>(stage = "running" \/ stage \in Failures)

\* The facts settle: what is configured or merged stays, until the run or the
\* failure every startup comes to.
FactsSettle == ConfiguredStays /\ StartupEnds

\* docs/02-imds-v2.md: a configured instance bypasses live metadata calls.
InstanceBypassesMetadata ==
  cfg.instance # None => \A q \in Questions : asked[q] = 0
=============================================================================
