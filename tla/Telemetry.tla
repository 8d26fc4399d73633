------------------------------ MODULE Telemetry ------------------------------
(***************************************************************************)
(* The controller under observation.  Each handler, holding the            *)
(* controller's mutex, calls the recorder (cmd/shaper/recorder_logger.go)  *)
(* once per field it touches; each call sets one gauge of the exporter     *)
(* (pkg/http/metrics) and decides whether to log.  Meanwhile a scrape may  *)
(* read all gauges at any moment, and the status handler (pkg/http/status) *)
(* reads the controller between handlers, in critical sections of its own. *)
(*                                                                         *)
(* A handler is one action of AdaptiveController followed by its calls;    *)
(* no other action of the controller happens before the last call, since   *)
(* all of them need the mutex or the goroutine that holds it.              *)
(***************************************************************************)
EXTENDS AdaptiveController, Sequences

CONSTANTS
  Offline,                           \* the static client answers every query
  TargetDelta, HostDelta, P95Delta   \* changes smaller than this are not logged

ASSUME TelemetryAssumption ==
  /\ Offline \in BOOLEAN
  /\ \A delta \in {TargetDelta, HostDelta, P95Delta} : delta \in Nat \ {0}

VARIABLES
  gauges,  \* the exporter's fields; epoch tells whether it is still zero
  logged,  \* the value each field had when it was last logged
  calls,   \* what the handler in progress has yet to tell the recorder
  probe,   \* the status handler
  torn     \* a step of the slow loop has come since the probe's first read

observers == <<gauges, logged, calls, probe, torn>>
allVars == <<vars, observers>>

Never == -1  \* not logged yet; no observation is negative

\* Mutated form: only the upper bound is enforced.
MutShown(ratio) == IF ratio > Full THEN Full ELSE ratio

\* Exporter.SetTarget, Exporter.ObserveHostCPU: the shown ratio is in [0,1].
Shown(ratio) == Clamp(ratio, 0, Full)

\* NewAdaptiveController has made its calls before anybody can look.
TelemetryInit ==
  /\ Init
  /\ gauges = [state |-> state, target |-> Shown(target), interval |-> interval,
               error |-> FALSE, relaxed |-> 0, p95 |-> 0, epoch |-> 0, host |-> 0]
  /\ logged = [state |-> state, target |-> target, interval |-> interval,
               error |-> FALSE, p95 |-> Never, host |-> Never]
  /\ calls = <<>>
  /\ probe = [stage |-> "idle", state |-> Normal, error |-> FALSE, estimator |-> FALSE]
  /\ torn = FALSE

-----------------------------------------------------------------------------
\* A recorder call: the gauge and its argument.
Told(gauge, value) == <<[gauge |-> gauge, value |-> value]>>

\* applyTargetLocked tells the target on every call, changed or not.
TargetCalls(applied) == IF applied THEN Told("target", target') ELSE <<>>

StepFailsCalls ==
  Told("error", TRUE) \o TargetCalls(~suppressed) \o Told("state", state')
    \o Told("interval", nextInterval')

\* Mutated form: an error once shown stays.
MutStepSucceedsCalls ==
  Told("p95", lastP95') \o TargetCalls(~suppressed) \o Told("state", state')
    \o Told("relaxed", relaxedSuccesses') \o Told("interval", nextInterval')

StepSucceedsCalls ==
  Told("error", FALSE) \o Told("p95", lastP95') \o TargetCalls(~suppressed)
    \o Told("state", state') \o Told("relaxed", relaxedSuccesses')
    \o Told("interval", nextInterval')

\* handleObservation, from ObserveHostCPU on.  With both guards off that is all.
ObserveCalls(util) ==
  Told("host", util)
    \o IF SuppressionDisabled THEN <<>>
       ELSE (IF suppressed' # suppressed THEN Told("relaxed", 0) ELSE <<>>)
              \o TargetCalls(suppressed' \/ suppressed)
              \o Told("state", state')

-----------------------------------------------------------------------------
\* A step of the slow loop makes what the probe has read so far old.
Tear == torn' = TRUE

Handlers ==
  \/ /\ ~Offline /\ StepFails
     /\ calls' = StepFailsCalls /\ Tear
  \/ \E p95 \in P95s :
       StepSucceeds(p95) /\ calls' = StepSucceedsCalls /\ Tear
  \/ \E util \in Utils, runnable \in Runnables :
       ObserveSample(util, runnable) /\ calls' = ObserveCalls(util) /\ UNCHANGED torn
  \/ ObserveError /\ calls' = Told("state", state') /\ UNCHANGED torn
  \/ /\ StartRun \/ Tick \/ StoreInterval \/ StopLoop \/ StopConsuming \/ Cancel
     /\ UNCHANGED <<calls, torn>>

Handle == calls = <<>> /\ Handlers /\ UNCHANGED <<gauges, logged, probe>>

\* Exporter: what the call leaves in the gauges.  A P95 always has a time: the
\* client uses no datapoint without a timestamp, and the static one takes now.
Gauged(call) ==
  LET value == IF call.gauge \in {"target", "host"} THEN Shown(call.value) ELSE call.value
      set == [gauges EXCEPT ![call.gauge] = value]
  IN IF call.gauge = "p95" THEN [set EXCEPT !.epoch = 1] ELSE set

Near(a, b, delta) == a - b < delta /\ b - a < delta

\* Mutated form: a target is compared with the one before, not the one logged.
MutTargetLogged(value) ==
  IF Near(gauges.target, value, TargetDelta) THEN logged.target ELSE value

\* controllerRecorderLogger.SetTarget.
TargetLogged(value) ==
  IF Near(logged.target, value, TargetDelta) THEN logged.target ELSE value

\* shouldLogObservation: a small change is logged if the last line is old enough.
ObservationLogged(last, value, delta) ==
  IF last # Never /\ Near(last, value, delta) THEN {last, value} ELSE {value}

\* What may be logged after the call; SetRelaxedSuccesses logs nothing.
Logged(call) ==
  IF call.gauge = "relaxed" THEN {logged}
  ELSE IF call.gauge = "target"
  THEN {[logged EXCEPT !.target = TargetLogged(call.value)]}
  ELSE IF call.gauge = "host"
  THEN {[logged EXCEPT !.host = v] : v \in ObservationLogged(logged.host, call.value, HostDelta)}
  ELSE IF call.gauge = "p95"
  THEN {[logged EXCEPT !.p95 = v] : v \in ObservationLogged(logged.p95, call.value, P95Delta)}
  ELSE {[logged EXCEPT ![call.gauge] = call.value]}

\* One call of the recorder: the exporter is told, then the log.
Record ==
  /\ calls # <<>>
  /\ calls' = Tail(calls)
  /\ gauges' = Gauged(Head(calls))
  /\ logged' \in Logged(Head(calls))
  /\ UNCHANGED <<vars, probe, torn>>

\* status.Handler.ServeHTTP: State, LastError and LastEstimatorError, one
\* critical section each, so never in the middle of a handler.
ProbeReads ==
  /\ calls = <<>>
  /\ \/ /\ probe.stage \in {"idle", "done"}
        /\ probe' = [probe EXCEPT !.stage = "state", !.state = state]
        /\ torn' = FALSE
     \/ /\ probe.stage = "state"
        /\ probe' = [probe EXCEPT !.stage = "error", !.error = lastErr]
        /\ UNCHANGED torn
     \/ /\ probe.stage = "error"
        /\ probe' = [probe EXCEPT !.stage = "done", !.estimator = lastEstErr]
        /\ UNCHANGED torn
  /\ UNCHANGED <<vars, gauges, logged, calls>>

TelemetryNext == Handle \/ Record \/ ProbeReads

TelemetrySpec == TelemetryInit /\ [][TelemetryNext]_allVars

-----------------------------------------------------------------------------
\* Exporter.snapshot and WriteTo: a scrape copies every field in one critical
\* section.  It never falls into a call, but it may fall between two of them.
Scraped == gauges

\* The types: duty cycle and host load on /metrics stay within [0,1] (the P95 is
\* only kept from being negative), and no handler owes more than six calls.
TelemetryTypeOK ==
  /\ gauges \in [state : {Normal, Fallback, Suppressed}, target : 0 .. Full,
                 interval : {Interval, RelaxedInterval}, error : BOOLEAN,
                 relaxed : Nat, p95 : Nat, epoch : {0, 1}, host : 0 .. Full]
  /\ Len(calls) <= 6
  /\ probe.stage \in {"idle", "state", "error", "done"}

\* Between handlers a scrape shows the controller as it is, in whatever order
\* the two loops have worked: state, error, P95, cadence, and confirmations
\* unless the last query failed, in which case the scrape shows the error too
\* (controller_step.go, controller_observation.go).
ScrapeIsCurrent ==
  calls = <<>> =>
    /\ Scraped.state = state
    /\ Scraped.error = lastErr
    /\ Scraped.p95 = lastP95
    /\ Scraped.interval = nextInterval
    /\ Scraped.relaxed = relaxedSuccesses \/ Scraped.error

\* Between handlers the duty cycle on /metrics is the one the pool would follow,
\* or follows (PlanInForce), although exporter and pool clamp it separately, the
\* configured bounds may be negative or above one, and in dry-run nobody drives
\* the pool (exporter.go, SetTarget; pool.go, SetTarget).
GaugeIsPoolTarget == calls = <<>> => Scraped.target = PoolTarget(target)

\* What the exporter shows is in range, and the duty cycle it shows is the pool's.
GaugesSound == TelemetryTypeOK /\ GaugeIsPoolTarget

\* The log never falls behind: many changes too small to be logged do not add
\* up (recorder_logger.go, SetTarget and shouldLogObservation).
LogKeepsUp ==
  calls = <<>> =>
    /\ logged.state = state /\ logged.error = lastErr
    /\ logged.interval = nextInterval
    /\ Near(logged.target, target, TargetDelta)
    /\ logged.host # Never => Near(logged.host, Scraped.host, HostDelta)
    /\ logged.p95 # Never => Near(logged.p95, Scraped.p95, P95Delta)

\* A probe contradicts itself, "normal" with an error or "fallback" without,
\* only if a query ended between its reads (status/handler.go, ServeHTTP).
ProbeExplained ==
  probe.stage = "done" /\ ~torn =>
    /\ probe.state = Normal => ~probe.error
    /\ probe.state = Fallback => probe.error \/ Scraped.epoch = 0

\* docs/05-monitoring-mql.md, 5.2: offline "oci_last_success_epoch remains zero".
EpochZeroWhileOffline == Offline => Scraped.epoch = 0
=============================================================================
