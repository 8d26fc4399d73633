------------------------------- MODULE Process -------------------------------
(***************************************************************************)
(* The program from its arguments to its exit code (cmd/shaper): the       *)
(* stages of the start, the signal, the --shutdown-after timer, the run,   *)
(* and the clean-up, composed with the metrics server.  What a stage asks  *)
(* of others (files, metadata, the SDK) succeeds or fails as it likes;     *)
(* MetadataResolution, RuntimeConfig and AdaptiveController say how.       *)
(***************************************************************************)
EXTENDS Integers

CONSTANT Requests

VARIABLES
  args,        \* the command line, and what the environment holds ready
  mode,        \* options.mode
  stage,       \* what is done next
  code,        \* the exit code
  cause,       \* what made the program give up
  ctx,         \* the run's context: "live", "canceled" or "deadline"
  timer,       \* --shutdown-after
  signal,      \* sigCh, with room for one
  handler,     \* the goroutine that waits for it
  controller,  \* what newController built, and whether Run returned
  pool         \* whether the workers were started

VARIABLES cancelled, listener, down, serve, watcher, closer, expired, request

server == <<cancelled, listener, down, serve, watcher, closer, expired, request>>
own == <<args, mode, stage, code, cause, ctx, timer, signal, handler, controller, pool>>
vars == <<own, server>>

Server == INSTANCE MetricsServer

\* after is the sign of --shutdown-after; asks is whether any fact is left for
\* the metadata service to tell; bind is whether an address is configured.
Arguments ==
  [flags : {"good", "bad"}, version : BOOLEAN,
   mode : {"", "enforce", "dry-run", "noop", "normal"},
   after : {-1, 0, 1}, asks : BOOLEAN, bind : BOOLEAN]

Init ==
  /\ args \in Arguments
  /\ mode = ""
  /\ stage = "args" /\ code = 0 /\ cause = "none"
  /\ ctx = "live" /\ timer = "none"
  /\ signal = 0 /\ handler = "waiting"
  /\ controller = "none" /\ pool = "none"
  /\ Server!Init

-----------------------------------------------------------------------------
\* Mutated form: the workers start before the server that shows them.
MutFollowing(s) ==
  LET order == [args |-> "config", config |-> "logger", logger |-> "metadata",
                metadata |-> "controller", controller |-> "pool", pool |-> "server",
                server |-> "log", log |-> "run", run |-> "cleanup"]
  IN order[s]

\* The stages in the order of bootstrap, prepareController and startController.
Following(s) ==
  LET order == [args |-> "config", config |-> "logger", logger |-> "metadata",
                metadata |-> "controller", controller |-> "server", server |-> "pool",
                pool |-> "log", log |-> "run", run |-> "cleanup"]
  IN order[s]

Proceed == stage' = Following(stage) /\ UNCHANGED <<code, cause>>

\* main returns, or calls os.Exit: every goroutine and request ends with it.
Leave ==
  /\ stage' = "exited"
  /\ request' = [r \in Requests |->
                   IF request[r] = "active" THEN "dropped" ELSE request[r]]
  /\ UNCHANGED <<cancelled, listener, down, serve, watcher, closer, expired>>

GiveUp(why, status) == Leave /\ cause' = why /\ code' = status

\* exitCodeForConfigError.
CodeForConfigError(invalid) == IF invalid THEN 2 ELSE 1

\* Mutated form: the legacy label is not refused.
MutValidMode(m) == m \in {"enforce", "dry-run", "noop", "normal"}

\* normalizeOptions and isValidMode.
NormalizedMode(m) == IF m = "" THEN "enforce" ELSE m
ValidMode(m) == m \in {"enforce", "dry-run", "noop"}

\* parseArgs: --version wins over whatever else is wrong with good flags.
ParseArgs ==
  /\ stage = "args"
  /\ IF args.flags = "bad" THEN GiveUp("usage", 2) /\ UNCHANGED mode
     ELSE IF args.version THEN GiveUp("version", 0) /\ UNCHANGED mode
     ELSE IF ValidMode(NormalizedMode(args.mode)) /\ args.after >= 0
     THEN Proceed /\ mode' = NormalizedMode(args.mode) /\ UNCHANGED server
     ELSE GiveUp("usage", 2) /\ UNCHANGED mode
  /\ UNCHANGED <<args, ctx, timer, signal, handler, controller, pool>>

\* loadRuntimeConfigOrExit.
LoadConfig ==
  /\ stage = "config"
  /\ \/ Proceed /\ UNCHANGED server
     \/ \E invalid \in BOOLEAN : GiveUp("config", CodeForConfigError(invalid))
  /\ UNCHANGED <<args, mode, ctx, timer, signal, handler, controller, pool>>

\* buildLoggerOrExit, and applyShutdownTimer once there is a logger.
BuildLogger ==
  /\ stage = "logger"
  /\ \/ Proceed /\ timer' = (IF args.after > 0 THEN "armed" ELSE "none") /\ UNCHANGED server
     \/ GiveUp("logger", 1) /\ UNCHANGED timer
  /\ UNCHANGED <<args, mode, ctx, signal, handler, controller, pool>>

\* stageMetadata: only a question can fail, and it does when the context ends first.
ResolveMetadata ==
  /\ stage = "metadata"
  /\ \/ Proceed /\ UNCHANGED server
     \/ /\ args.asks /\ mode # "noop"
        /\ GiveUp(IF ctx = "live" THEN "metadata" ELSE "context", 1)
  /\ UNCHANGED <<args, mode, ctx, timer, signal, handler, controller, pool>>

\* newController: a no-op controller has no pool and cannot fail.
BuildController ==
  /\ stage = "controller"
  /\ \/ /\ Proceed /\ UNCHANGED server
        /\ controller' = IF mode = "noop" THEN "noop" ELSE "adaptive"
     \/ /\ mode # "noop"
        /\ \E invalid \in BOOLEAN : GiveUp("controller", CodeForConfigError(invalid))
        /\ UNCHANGED controller
  /\ UNCHANGED <<args, mode, ctx, timer, signal, handler, pool>>

\* stageMetrics: without an address there is no server and no shutdown function.
StartServer ==
  /\ stage = "server"
  /\ IF ~args.bind THEN Proceed /\ UNCHANGED server
     ELSE \/ Proceed /\ Server!Start
          \/ GiveUp("listen", 1)
  /\ UNCHANGED <<args, mode, ctx, timer, signal, handler, controller, pool>>

\* Mutated form: workers without a controller.
MutStartPool ==
  /\ stage = "pool" /\ Proceed
  /\ pool' = "started"
  /\ UNCHANGED <<args, mode, ctx, timer, signal, handler, controller, server>>

\* startWorkerPool.
StartPool ==
  /\ stage = "pool" /\ Proceed
  /\ pool' = IF controller = "adaptive" THEN "started" ELSE pool
  /\ UNCHANGED <<args, mode, ctx, timer, signal, handler, controller, server>>

\* logIMDSMetadata: failures are only warned about.
LogMetadata ==
  /\ stage = "log" /\ Proceed
  /\ UNCHANGED <<args, mode, ctx, timer, signal, handler, controller, pool, server>>

\* Mutated form: only a signal ends the run.
MutRunEnds == controller = "noop" \/ ctx = "canceled"

\* NoopController.Run returns at once, AdaptiveController.Run with the context.
RunEnds == controller = "noop" \/ ctx # "live"

\* handleControllerRunResult: either end of the context is a clean stop.  There
\* is no other error: Run returns nil or the context's.
RunReturns ==
  /\ stage = "run" /\ RunEnds
  /\ Proceed
  /\ controller' = "returned"
  /\ UNCHANGED <<args, mode, ctx, timer, signal, handler, pool, server>>

\* controllerRuntime.cleanup: the server's context first, then its shutdown
\* function; when that has returned, bootstrapResult.cleanup and the end.
CleanUp ==
  /\ stage = "cleanup"
  /\ \/ /\ closer = "ready" /\ Server!ContextEnds
        /\ UNCHANGED <<stage, code, cause, ctx>>
     \/ /\ cancelled /\ (Server!Close \/ Server!Drain \/ Server!TimeOut \/ Server!Join)
        /\ UNCHANGED <<stage, code, cause, ctx>>
     \/ /\ closer \in {"none", "returned"}
        /\ Leave /\ UNCHANGED <<code, cause>>
        /\ ctx' = IF ctx = "live" THEN "canceled" ELSE ctx
  /\ UNCHANGED <<args, mode, timer, signal, handler, controller, pool>>

-----------------------------------------------------------------------------
\* The server's context derives from the run's.
EndContext(how) ==
  /\ ctx' = IF ctx = "live" THEN how ELSE ctx
  /\ cancelled' = TRUE
  /\ UNCHANGED <<listener, down, serve, watcher, closer, expired, request>>

\* SIGINT or SIGTERM; one is kept, the rest are lost.
Signal ==
  /\ stage # "exited" /\ signal = 0
  /\ signal' = 1
  /\ UNCHANGED <<args, mode, stage, code, cause, ctx, timer, handler, controller, pool, server>>

\* The goroutine of app.Run takes the first signal and is gone.
HandleSignal ==
  /\ stage # "exited" /\ signal = 1 /\ handler = "waiting"
  /\ signal' = 0 /\ handler' = "gone"
  /\ EndContext("canceled")
  /\ UNCHANGED <<args, mode, stage, code, cause, timer, controller, pool>>

TimerFires ==
  /\ stage # "exited" /\ timer = "armed"
  /\ timer' = "fired"
  /\ EndContext("deadline")
  /\ UNCHANGED <<args, mode, stage, code, cause, signal, handler, controller, pool>>

Serving == stage # "exited" /\ Server!Goroutines /\ UNCHANGED own

Main ==
  \/ ParseArgs \/ LoadConfig \/ BuildLogger \/ ResolveMetadata \/ BuildController
  \/ StartServer \/ StartPool \/ LogMetadata \/ RunReturns \/ CleanUp

Next == Main \/ Signal \/ HandleSignal \/ TimerFires \/ Serving

\* Calls return, goroutines run, deadlines and timers come.  Nothing is said of
\* signals and requests.
Fairness ==
  /\ WF_vars(Main) /\ WF_vars(HandleSignal) /\ WF_vars(TimerFires)
  /\ WF_vars(stage # "exited" /\ Server!Serve /\ UNCHANGED own)
  /\ WF_vars(stage # "exited" /\ down /\ Server!ServeReturns /\ UNCHANGED own)

Spec == Init /\ [][Next]_vars /\ Fairness

-----------------------------------------------------------------------------
Stages ==
  {"args", "config", "logger", "metadata", "controller", "server", "pool", "log",
   "run", "cleanup", "exited"}

\* The types, those of the server included.
TypeOK ==
  /\ args \in Arguments /\ stage \in Stages /\ code \in 0 .. 2
  /\ mode \in {"", "enforce", "dry-run", "noop"}
  /\ cause \in {"none", "usage", "version", "config", "logger", "metadata", "context",
                "controller", "listen"}
  /\ ctx \in {"live", "canceled", "deadline"}
  /\ timer \in {"none", "armed", "fired"}
  /\ signal \in {0, 1} /\ handler \in {"waiting", "gone"}
  /\ controller \in {"none", "noop", "adaptive", "returned"}
  /\ pool \in {"none", "started"}
  /\ Server!TypeOK

\* Status 0 is a finished run or a printed version, 2 is a command line or
\* configuration to correct, and a program that has put workers on the host
\* never ends in failure (controller_helpers.go, app_run.go).
ExitExplained ==
  stage = "exited" =>
    /\ code = 0 <=> cause = "version" \/ controller = "returned"
    /\ cause = "usage" => code = 2
    /\ code = 2 => cause \in {"usage", "config", "controller"}
    /\ pool = "started" => code = 0

\* Workers run only under a server that shows what they do, unless none is
\* configured, and never in noop (app_controller.go, prepareController).
WorkIsObservable ==
  pool = "started" =>
    /\ mode # "noop" /\ controller \in {"adaptive", "returned"}
    /\ args.bind => closer \notin {"none", "refused"}

\* The address is free when the program has ended, so a supervisor may start the
\* next at once.
ExitFreesAddress ==
  stage = "exited" => listener # "bound" /\ serve # "serving"

\* A request is cut off only if the shutdown had run out of its five seconds.
RequestsFinish ==
  stage = "exited" /\ ~expired => \A r \in Requests : request[r] # "dropped"

\* However the program ends, its exit code tells the cause, its address is free
\* and its requests were given their time.
ExitSound == TypeOK /\ ExitExplained /\ ExitFreesAddress /\ RequestsFinish

\* A signal ends the program at whatever point of its life it comes, and so does
\* the timer.
StopsEnd == signal = 1 \/ timer = "armed" ~> stage = "exited"

\* docs/09-cli.md, 9.1: the end of the timer's context is a clean shutdown.
TimedStopIsClean == cause = "context" /\ ctx = "deadline" => code = 0

\* docs/09-cli.md, 9.1: the legacy label "normal" is accepted for enforce.
LegacyModeAccepted ==
  args.mode = "normal" /\ args.flags = "good" /\ args.after >= 0 => cause # "usage"

\* docs/10-quick-start.md: noop keeps the endpoints up without a controller.
NoopServes == mode = "noop" /\ stage = "cleanup" => ctx # "live"
=============================================================================
