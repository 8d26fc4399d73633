# oci-cpu-shaper: a TLA+ verification project

`oci-cpu-shaper` keeps the seven-day P95 of an instance's CPU inside a band by
burning CPU in short quanta, and gets out of the way when the host has real work.
This directory models the program in TLA+, from its command line to its exit: it
checks the models with TLC on small instances and proves the main invariants with
TLAPS for every value of the constants.

## 1. The system

| Component | State | Operations | Hard behaviour |
|---|---|---|---|
| Adaptive controller, `pkg/adapt` | reported state, verdict of the last query, suppression flag, duty cycle in force and planned, smoothed load, run queue, confirmations, polling interval | slow loop `Run`/`step`; fast loop `consumeEstimator`/`handleObservation`; getters | two goroutines, one mutex, a query outside it; hysteresis on two signals, one averaged; shutdown |
| Worker pool, `pkg/shape` | duty cycle and pause flag (two atomics), thresholds | `SetTarget`, `ObserveHostLoad`, `Start`; one goroutine per worker | the worker reads the two atomics one after the other |
| Sampler, `pkg/est` | last snapshot, channel of capacity one, started flag | `Run`, the sampling loop | blocking send, failed snapshots, counters that go backwards, early death |
| OCI client, `pkg/oci` | none between calls | `QueryP95CPU`: paging, collecting, percentile | failure on a late page, paging without a bound, empty answers, the rank |
| Metadata client, `pkg/imds` | none between calls | `fetch` with retries | attempts, back-off and cancellation, transient and final answers |
| Exporter and status, `pkg/http` | the gauges | setters, scrape, `/healthz` | one call per field; reads of several fields in several critical sections |
| Configuration, `pkg/runtimeconfig`, `pkg/adapt/config_*.go` | none | merge, override, coerce, validate | precedence, three validators, zero meaning "default", NaN |
| Startup, `cmd/shaper` | facts about the instance | resolve, merge, size the pool, create the client, log | fallbacks per fact, the second resolution, offline and noop |
| Lifecycle, `cmd/shaper`, `internal/metricsserver` | stage, contexts, server | bootstrap, run, clean-up | order of start, two shutdown paths, signals and timer at any moment |
| Recorder, `cmd/shaper/recorder_logger.go` | values last logged | one call per field | what is too small to log |
| Control groups, `pkg/cgroup` | none | read three files | partial failure, "unlimited" and "unknown" |

How they interact: the sampler sends observations to the controller over a channel.
The controller asks the OCI client for the P95 (a call), drives the pool through
`SetTarget` and `ObserveHostLoad` (calls under the controller's mutex, stores to
atomics) and tells the recorder and through it the exporter (calls under the mutex).
The workers poll the atomics; `/metrics` copies the exporter's fields, `/healthz`
reads the controller.  Startup layers the configuration, asks the metadata service
for what it does not hold, and builds pool, client and controller from it.  One
context, ended by a signal or the shutdown timer, ends everything.  What each part
must get right is the list of `hazards` in `PROJECT.json`, each at the line where it
bites.

## 2. Modules

| Module | Models | Reads as |
|---|---|---|
| `PoolGuard` | `pause.go`, `Pool.SetTarget` | operators: what one call leaves in each atomic |
| `ControllerParameters` | the parameters and what validation guarantees of them | `ConfigAssumption`, extended by the controller, instantiated by the configuration |
| `DutyGovernor` | what the controller promises | abstract: a plan, a hold, the duty in force |
| `AdaptiveController` | the controller with the pool's atomics | one action per critical section of either goroutine |
| `WorkerPool` | the workers | one action per atomic read, slice or sleep of a worker |
| `Sampler` | the sampler, its channel, its receiver | one action per snapshot, send, receive |
| `Telemetry` | extends `AdaptiveController` by recorder, exporter, log and a health probe | one action per call of the recorder and per read of the probe |
| `ControllerConfig` | `coerceConfig`, `ValidateConfig`, the defaults | operators on functions from setting names to numbers |
| `RuntimeConfig` | `Load` and the constructors | one action per layer, the validation, the construction |
| `AtomicQuery` | what the OCI client promises | abstract: one query, one answer, P95 by its definition |
| `MetricsQuery` | `QueryP95CPU` | one action per page call, page digested, answer |
| `ImdsFetch` | `fetch` and the operations over it | one action per exchange, wait, cancellation |
| `MetadataResolution` | the startup's questions and what is made of the answers | one action per question or decision |
| `MetricsServer` | `StartServer` and both shutdowns | one action per step of each goroutine and request |
| `Process` | `main` to exit, with `MetricsServer` as `Server` | one action per stage, signal and timer |
| `ControlGroup` | `Detect`, the gauges, the health block | one action per file |
| `MC...` | | the value sets TLC uses |
| `AdaptiveControllerProofs` | | the theorems about the controller and about `Telemetry` |
| `ImdsFetchProofs` | | those about the metadata client and about `ControlGroup` |
| `ProcessProofs` | | those about the process with its server |
| `WorkerPoolProofs`, `SamplerProofs`, `RuntimeConfigProofs`, `MetricsQueryProofs`, `MetadataResolutionProofs` | | those about the module they are named for |

They fit together at their edges.  `RuntimeConfig` proves that what it builds meets
`ConfigAssumption`, on which the theorems about `AdaptiveController` rest.
`MetricsQuery` implements `AtomicQuery`, which is how the controller's model takes a
query: one answer or one failure.  `ImdsFetch` ends every operation, which
`MetadataResolution` assumes of a question; that startup ends is what `Process`
assumes of its stage "metadata".

**AdaptiveController.** Ratios (duty cycles, loads, P95) are integers on a grid with
`Full` units to 1.0.  The query is the time the loop spends in `loop = "querying"`: it
holds no lock, so the fast loop moves freely meanwhile.  `StepFails` and
`StepSucceeds` are the two critical sections of `step`; `StoreInterval` is the one in
`Run`.  `ObserveSample` is the whole of `handleObservation`, including the call
that lets the pool judge the sample: the mutex is held throughout and the controller
never reads the pause flag, so one action is enough.  The average
`h + (u - h)/n` falls between grid points; `Smoothed` allows every grid point
between `h` and `u` less than a unit away from it, so the model rounds in every way
the grid allows.  `relaxedGauge` is the exported confirmation counter, kept because
the code does not always update it along with the field.  In dry-run the pool's two
variables stay as `NewPool` left them.  Where both suppression thresholds are 0 the
code's guard path is dead and the sample changes nothing but the error field and the
pool's flag.

**WorkerPool.** `late` is a history variable: busy slices a worker has begun since
the pause flag went up; it stops one above what is allowed.  A full duty cycle
leaves no sleep.  The client of the pool is unrestricted, so the results hold under
any controller.

**Sampler.** The kernel is external: busy jiffies only grow, the idle counters may be
corrected downwards, as Linux documents for `iowait`.  A snapshot may succeed after
the cancellation.  A refused second `Run` is a caller whose channel gets an error
and is closed.

**Telemetry.** A handler of the controller is its action followed by the calls it
makes of the recorder, in the order of the code; nothing else that needs the mutex
happens before the last of them, but a scrape may.  A scrape copies all fields in one
critical section and so equals `gauges` at its moment.  The probe reads state, OCI
error and estimator error in three critical sections, each between handlers; `torn`
records that a query has ended between them.  `epoch` tells whether the time of the
last success is still 0.

**ControllerConfig, RuntimeConfig.** A layer is what the YAML decoder or the number
parsers deliver: a function on the settings it sets.  A NaN, which the parsers accept,
is the number `NaN` and unordered: `Less` and `AtMost` are false for it, as Go's
comparisons are.  Ratios are thousandths.  `bad` are the variables that do not parse.
`file` and `env` are kept to state precedence.

**MetricsQuery.** A datapoint has an identity and is on one page, so the slice of
values is a set of datapoints.  A page token is a page number, absent, or blank.
`Rank` is the code's ceiling in integers; `IsP95` in `AtomicQuery` is the definition
of the nearest rank it must meet.

**ImdsFetch.** An exchange ends in a failed transport, a failed read, or a status with
a body; the select between timer and context may take either.  `tries` is the
history of outcomes, `late` counts the requests begun after the cancellation.

**MetadataResolution.** An answer may carry a text, blank or not, with or without an
error, as any `imds.Client` may.  `asked` counts the questions, `told` keeps the last
answers.  The regions are told apart by where they come from.

**Process, MetricsServer.** What happens inside a stage is in the module of its
component; here a stage succeeds or fails as the code allows.  `args` holds what the
stages tell apart of the command line and the configuration.  `signal` is the channel
with room for one, `handler` the goroutine that takes one signal and is gone.
net/http is external: after `Shutdown` no request begins, the listener closes once
`Serve` has registered it, and `Shutdown` returns when no request is left or its
deadline has come.  A request may last for ever.

**ControlGroup.** A file is absent, unreadable or a sequence of words; each may be
withdrawn before it is read.  A word is a number, zero included (the kernel reports a
`cpu.weight` of 0 for an idle group), the text "max", or neither.  `Lines` are the kinds
of lines `/proc/self/cgroup` has.  A zero on `/metrics` may be a figure or the lack of
one; only `/healthz` tells which, and the properties claim no more.

Definitions named `Mut...` are mutated forms of the definition that follows; no
specification uses them.  They show that the properties notice plausible mistakes.

## 3. What the runs show

| Run | Question | Bounds |
|---|---|---|
| `controller_enforce` | do all interleavings of the two loops keep plan, suppression, state and cadence consistent, and implement `DutyGovernor`; does a cool host get its work back; does shutdown end? | grid of 10, three P95 values (below, inside, above the goals), four loads (cool, band, at and above the threshold), three run queues (cool, band, hot), confirmations up to 3 |
| `pool` | how much work follows a pause; do workers settle, resume, exit? | three workers, duty cycles below, in and above the range |
| `sampler_jiffies` | are jiffies conserved and work never overstated? | one caller, 3 jiffies per counter, one correction |
| `sampler_lifecycle` | one sampler, early closure explained, no blocked send? | two callers, one jiffy per counter |
| `telemetry` | do the gauges, the log and the probe tell the controller's state; does dry-run leave the pool alone? | grid of 3, a plan from -1 to 4, guarded by the run queue alone |
| `config_layers` | precedence, agreement of the validators, soundness of what is built | one override in the file and one in the environment, every pair of settings, values at and around each bound, NaN |
| `metrics_query` | does paging implement the atomic query, and end? | 29 layouts of up to 41 datapoints: around each multiple of 20, ties, absent fields, empty pages |
| `imds_fetch` | attempts, causes, cancellation | seven statuses, attempt options -1 to 2 and none |
| `metadata_resolution` | scope, economy, silence offline, size, end | every combination of configured facts, eleven shapes at the boundaries of the rule |
| `process` | exit codes, order of start, clean-up, end on signal and timer | every command line, two requests |
| `control_group` | is what is reported all that was read, and true? | up to two lines of five kinds, up to three words in a file, two numbers, one of them zero |
| `controller_relaxed_gauge` | a statement of the documentation the code does not keep | as `controller_enforce` |

*Properties that are conjunctions* (`DutyInForce`, `ExitSound`, `ReportSound` and so
on) have their named parts just above them, each with its own statement.

*Why the bounds are enough.*  The controller compares its inputs with thresholds
only; the value sets have members on both sides of and at each threshold that a
comparison can tell apart, and the bounds of the plan are a few steps apart, so the
plan meets both.  `MaxSuccesses` lies above `RelaxedConfirmations`, so the counter
goes past the switch.  Two callers or workers show the interference of any two; three
workers are checked.  In the telemetry the plan leaves [0,1] on both sides, because
exporter and pool clamp it separately.  Two overrides suffice in the layers because
every rule of the validators relates two settings, with the defaults for the rest.
41 datapoints put one, two and three values above the rank.  A retry budget of up to
three has a first, a middle and a last attempt.  Two requests let one end and one
last.  The theorems have none of these bounds.

*Fairness.*  Go runs every runnable goroutine, timers and tickers fire, calls return
(the SDK and the HTTP client have timeouts of their own): weak fairness on the steps
of each goroutine.  A `select` with several ready cases picks at random: strong
fairness on the step that takes `ctx.Done()`, because a busy ticker may disable it in
between, ever and again.  Nothing is assumed about the host load, signals,
cancellation, requests, the pool's client, the kernel, or the success of a query,
question or snapshot.  `ResumesWhenCool` carries its premise itself: from some time on
no sample is hot, and cool ones are delivered.

*Deadlock* is checked where the program goes on for ever or has an explicit last
step (controller, pool, metadata client, OCI client).  `CHECK_DEADLOCK FALSE` is set
where the system really stops: the sampler and the controller under telemetry end
with their context, the configuration ends built or refused, the startup ends running
or given up, the process exits, the control group has been reported, and a server is
shut down.

### Where code and documentation differ

One difference is a run, `controller_relaxed_gauge`: a failed query clears the
confirmation counter but not its gauge.  The others have a configuration each, which
is not in `PROJECT.json`; TLC refutes the property named in it:

| Configuration (module) | The documentation | The code |
|---|---|---|
| `Controller_gauge_help` (`MCAdaptiveController`) | `exporter.go:320`, help of the gauge: "(resets when switching to relaxed interval)" | it goes on counting |
| `Controller_lockstep` | `docs/09-cli.md:100`: controller and workers "pause in lock-step" | both stop on one sample, but the pool resumes on a raw sample and the controller on the average |
| `Controller_runqueue_zero` | `09-cli.md:128`: "Assign either to `0` to disable runnable-based suppression" | a resume value of 0 leaves the guard on; only the threshold switches it off |
| `RuntimeConfig_nan` (`MCRuntimeConfig`) | `09-cli.md:101`: "every slow-loop target and goal must fall within that band" | a NaN passes every comparison |
| `RuntimeConfig_disabled` | `09-cli.md:100`: a threshold of 0 disables "utilisation-based suppression entirely" | the pool's own pause threshold keeps its default |
| `RuntimeConfig_malformed` | `09-cli.md:140`: "malformed overrides fall back to the defaults shown above" | they leave the file's value |
| `MetadataResolution_bypass` (`MCMetadataResolution`) | `docs/02-imds-v2.md:25`: a configured instance can "bypass live metadata calls entirely" | compartment, region and the facts for the log are asked for |
| `Process_deadline` (`MCProcess`) | `09-cli.md:34`: the end of the context is a clean shutdown | not while the metadata are resolved: status 1 |
| `Process_legacy_mode` | `09-cli.md:38`: mode parsing normalises "the legacy `normal` label" | the command line refuses it with status 2 |
| `Process_noop` | `docs/10-quick-start.md:17`: noop is for "HTTP/metrics endpoints without starting the controller" | its `Run` returns at once and the program exits |
| `Telemetry_offline` (`MCTelemetry`) | `docs/05-monitoring-mql.md:28`: offline "`oci_last_success_epoch` remains zero" | the static client's answer is reported like any other |

`MetricsServer.cfg` checks the server by itself, with three requests: a close ends, is
graceful unless its deadline comes, and frees the address.

## 4. What is proved

For every value of the constants that meets the named assumptions:

* `AdaptiveControllerProofs` (`PoolAssumption`, `ConfigAssumption`,
  `InputAssumption`): type correctness, all the safety invariants and action
  properties of `controller_enforce`, and that dry-run never drives the pool.  The
  inductive invariant `IInv` is the conjunction of the invariants: that a resume runs
  the plan needs the plan's bounds, that the fallback state runs the fallback needs the
  plan to be in force, that a suppressed pool idles needs the dry-run rule, that entry
  needs a guard sample needs `GuardHeld` and the fact that an average lies between its
  operands (`HostLoadsBetween`).
* `CadenceIsEarned`, among them, says of the slow cadence that the latest query
  succeeded at or above the threshold and that the count of confirmations is full, or
  cleared since by a change of suppression; of the confirmations that none
  survives a failed query, a low sample or a change of suppression; and of their gauge
  that it lags only after a failure.  It does not say that the slow cadence ends with a
  suppression: the code keeps it until the next query.
* `Refinement`: the controller implements `DutyGovernor` if `TargetMin > 0`.  The
  assumption is needed: a plan of zero, possible with a negative `targetMin`, is taken
  for "no plan".  `MaxSuccesses` is a bound of the model, the only one the controller's
  theorems inherit.
* `Observed`: the controller with recorder, exporter and probe attached implements the
  controller alone, so all of the above holds of `Telemetry` too.  About what is shown
  (`TelemetryAssumption`): duty cycle and host load are shown within [0,1], and the duty
  cycle on `/metrics` is the pool's (`GaugesAreSound`); a scrape between handlers is
  current (`ScrapesAreCurrent`), except that after a failed query, when it shows the
  error, its confirmations may be the old ones, which is what `controller_relaxed_gauge`
  finds; the log never falls behind, up to its thresholds (`LogIsCurrent`); and a probe
  that contradicts itself had a query end between its reads (`ProbesAreExplained`).  The
  inductive relation `TellInv` is between the calls a handler has still to make and
  what has been shown: a pending call carries what the controller now holds
  (`Truthful`), a gauge that no pending call will set is current (`GaugesFollow`), the
  log likewise up to its thresholds (`LogFollows`), a fallback without an error means
  that no query has ever succeeded (`FallbackExplained`), and what the probe has read
  still holds unless a query ended since (`ProbeFollows`).  `HandlersTell` goes through
  the handlers branch by branch: each must tell every field it changes.
* `MetricsQueryProofs` (`LayoutAssumption`, `TokenAssumption`): for any layout of
  datapoints and pages, `MetricsQuery` implements `AtomicQuery` (`Refinement`): one
  answer or one failure for each query, whichever call fails.  The answer is the P95 of
  all datapoints with a value (`RankedIsP95`): the code's ceiling in integers is the
  smallest rank that covers 95 percent.  The invariant places page, token and what is
  collected (`InOrder`) and keeps the newest timestamp (`LatestIsNewest`).  That a
  finite set has a greatest value, which gives the timestamp, is proved from a minimal
  counterexample (`FiniteMaximum`) instead of by induction.
* `RuntimeConfigProofs` (`NaNAssumption`, `LayerAssumption`: the layers hold numbers
  and Booleans): for any contents of file and environment, precedence holds and what
  was written runs (`SettingsRunAsWritten`); what `Load` accepts the constructors
  accept (`LoadedConfigsBuild`), because coercion is idempotent and so the constructor's
  check repeats one that has passed; and what is built without NaN meets
  `ConfigAssumption` (`BuiltConfigsAreSound`), which discharges the controller's
  assumption.  The invariant keeps what each stage has layered, and that the running
  settings are the coercion of validated ones.
* `ImdsFetchProofs` (`ImdsAssumption`): the retry budget, that only transient outcomes
  are retried, what each result rests on, and at most one request after a
  cancellation, for any statuses and attempt options.  The invariant counts attempts
  against outcomes (`Counting`), classifies all but the last outcome (`Leading`), and
  bounds the late requests by where the loop stands (`Lateness`).
* `ReportIsSound` (`ControlGroupAssumption`), in the same module: for any lines, words
  and numbers in the files, zero included, and whenever one is withdrawn, the path is
  that of the first unified line, a figure stands for all its file held and an error for
  a file without such a figure (`ReadAsWritten`: so only `max` lifts the limit), a file
  that fails costs only its own figures, every figure of `/healthz` is on its gauge,
  and the gauge of an unknown one is zero.  `InspectInv` says which lines the
  scan has passed (`Scanned`), what the files read so far can have said (`ReadSoFar`)
  and what has been reported of it (`Reported`).
* `MetadataResolutionProofs` (`ResolutionAssumption`): live metrics are asked for the
  compartment and the region the configuration names, a sized pool follows the shape
  for any shape, an offline start is silent, a start fails only for want of a fact, and
  what is configured stays.  The invariant says what has been found at each stage
  (`Found`) and that an online configuration is complete once the first resolution is
  over (`Complete`), which is why the second one, in `buildAdaptiveController`, does not
  ask again.  How often a startup asks (`QuestionsAreRare`) rests on a second
  invariant, `AskedInv`: the stages still to come have asked nothing (`Unasked`), and the
  questions for the log stand in the order in which they are asked, each once
  (`LogPlaced`).
* `ProcessProofs` (no assumption): for any set of requests, the exit code tells the
  cause, the address is free at the exit, no request is cut off that had time left, and
  no worker runs unobserved.  The invariant places controller, pool and server at each
  stage: `bootstrap` can only give up before the server is there, the clean-up comes
  with a returned controller, and once `Shutdown` has begun (`down`) no request starts,
  so that what has drained stays drained.
* `WorkerPoolProofs` (`PoolAssumption`, `ClientAssumption`): a pause costs at most one
  slice per worker and a zero duty cycle starts none, for any number of workers.  The
  invariant adds where a worker that has spent its slice cannot stand.
* `SamplerProofs` (`BoundAssumption`): conservation, no overstatement, ratios, a single
  sampler, closure with a reason.  The invariant adds that nothing is on its way when an
  observation is formed (`Placed`) and that the last snapshot is never ahead of the
  kernel (`Accounted`).

Every invariant and every action property of a passing run is a theorem.  Only
model-checked are the liveness properties, since they rest on fairness:
`ResumesWhenCool`, `ShutdownCompletes`, `PauseSettles`, `WorkResumes`, `WorkersExit`,
`DeathIsReported`, `SamplerMoves`, `QueryEnds`, `FetchEnds`, `StopsEnd`, and of
`FactsSettle` that every startup ends (that the facts stay is `ConfigurationStays`).
`MetricsServer` is proved about as `ProcessProofs` uses it, inside the process, and
checked alone by its own configuration.

## 5. Not modelled

Wall-clock time: the orders of quanta, intervals and timeouts are modelled, durations
are not.  Floating-point rounding (a grid instead; NaN only in the configuration, so a
controller that runs with a NaN is outside the model).  How much of the host load is
the shaper's own, which depends on the machine.  The parsers of `/proc/stat`, YAML,
flags and numbers; the SDK, net/http and the HTTP client beyond what the code relies
on.  The scheduling class of the workers (system calls whose result is ignored).  The
wording of logs, the text format of `/metrics`, the JSON of `/healthz`.  Developer
tools, tests and deployment files, which are not part of the running program.

Error branches that no run of the program reaches: an estimator without a channel
(`controller_loop.go:18`; the sampler always returns one), a controller that ends with
another error than its context's (`controller_helpers.go:36`), a missing metadata client
(`run_deps.go:144`; the wiring always passes one), a constructor that refuses a loaded
configuration (`LoadedConfigsBuild`), and a P95 without a time (`exporter.go:126`; the
client uses no datapoint without one).

## 6. Plan

1. `ShaperSystem`: `AdaptiveController`, `WorkerPool` and `Sampler` composed over
   the shared atomics and the channel: from a hot sample to idle workers in a bounded
   number of slices; a dead sampler leaves the last verdict in force.
2. `ClosedLoop`: the sample depends on the duty cycle.  When does suppression flap?
3. The system's edges as theorems: `MetadataResolution` with `ImdsFetch` for a
   question, and `AdaptiveController` with `AtomicQuery` for a query.

## 7. Running

    tlc -config Controller_enforce.cfg MCAdaptiveController.tla
    tlapm AdaptiveControllerProofs.tla

`PROJECT.json` lists every run with its module, configuration and properties, the
mutants, and the source lines behind each definition.
