---------------------------- MODULE ProcessProofs ----------------------------
(***************************************************************************)
(* Proofs about Process, for any set of requests: how the program ends,    *)
(* and that no worker runs unobserved.                                     *)
(***************************************************************************)
EXTENDS Process, TLAPS

\* The stages before the server is started, and those after it.
Before == {"args", "config", "logger", "metadata", "controller", "server"}
After  == {"pool", "log", "run"}

\* Where the controller stands at each stage.
ControllerPlaced ==
  /\ stage \in Before \ {"server"} => controller = "none"
  /\ stage \in {"server"} \union After => controller \in {"noop", "adaptive"}
  /\ stage = "cleanup" => controller = "returned"
  /\ controller = "adaptive" => mode # "noop"

\* The workers: started late, for an adaptive controller, under a server.
PoolPlaced ==
  pool = "started" =>
    /\ stage \in {"log", "run", "cleanup", "exited"}
    /\ controller \in {"adaptive", "returned"}
    /\ mode # "noop"
    /\ args.bind => closer \notin {"none", "refused"}

\* The server: absent before its stage, untouched up to the clean-up.
ServerPlaced ==
  /\ stage \in Before => closer = "none"
  /\ stage \in After /\ args.bind => closer = "ready"
  /\ stage \in After /\ ~args.bind => closer = "none"
  /\ serve = "none" => listener = "none" /\ \A r \in Requests : request[r] = "none"
  /\ serve = "stopped" => listener = "closed"
  /\ closer \in {"draining", "joining", "returned"} => down
  /\ closer \in {"joining", "returned"} /\ ~expired =>
       \A r \in Requests : request[r] # "active"
  /\ closer = "returned" => serve = "stopped"
  /\ stage # "exited" => \A r \in Requests : request[r] # "dropped"

\* Nothing has gone wrong before the exit.
NoVerdictYet == stage # "exited" => code = 0 /\ cause = "none"

IInv ==
  /\ TypeOK
  /\ ControllerPlaced /\ PoolPlaced /\ ServerPlaced /\ NoVerdictYet
  /\ ExitExplained /\ ExitFreesAddress /\ RequestsFinish

-----------------------------------------------------------------------------
\* The stages follow one another as bootstrap, prepareController and
\* startController go on.
LEMMA Order ==
  /\ Following("args") = "config" /\ Following("config") = "logger"
  /\ Following("logger") = "metadata" /\ Following("metadata") = "controller"
  /\ Following("controller") = "server" /\ Following("server") = "pool"
  /\ Following("pool") = "log" /\ Following("log") = "run"
  /\ Following("run") = "cleanup"
BY DEF Following

Causes == {"none", "usage", "version", "config", "logger", "metadata", "context",
           "controller", "listen"}

\* The type invariant, variable by variable.
LEMMA TypesKept ==
  ASSUME TypeOK, args' = args, stage' \in Stages,
         code' = code \/ code' \in 0 .. 2,
         cause' = cause \/ cause' \in Causes,
         mode' = mode \/ mode' \in {"enforce", "dry-run", "noop"},
         ctx' = ctx \/ ctx' \in {"canceled", "deadline"},
         timer' = timer \/ timer' \in {"none", "armed", "fired"},
         signal' = signal \/ signal' \in {0, 1},
         handler' = handler \/ handler' = "gone",
         controller' = controller \/ controller' \in {"noop", "adaptive", "returned"},
         pool' = pool \/ pool' = "started",
         Server!TypeOK'
  PROVE  TypeOK'
BY Zenon DEF TypeOK, Causes

\* Leaving with no server, or with one whose shutdown has returned, leaves the
\* address free and cuts off only what the deadline cut off.
LEMMA LeavingIsClean ==
  ASSUME IInv, Leave, closer \in {"none", "returned"}
  PROVE  Server!TypeOK' /\ ServerPlaced' /\ ExitFreesAddress' /\ RequestsFinish'
<1>1. /\ stage' = "exited"
      /\ request' = [r \in Requests |->
                       IF request[r] = "active" THEN "dropped" ELSE request[r]]
      /\ UNCHANGED <<cancelled, listener, down, serve, watcher, closer, expired>>
  BY DEF Leave
<1>2. Server!TypeOK
  BY DEF IInv, TypeOK
<1>3. /\ closer = "none" => serve = "none"
      /\ closer = "returned" => serve = "stopped"
  BY <1>2 DEF IInv, ServerPlaced, Server!TypeOK
<1>4. ~expired => \A r \in Requests : request[r] # "active" /\ request[r] # "dropped"
  <2>1. CASE closer = "none"
    BY <1>3, <2>1 DEF IInv, ServerPlaced
  <2>2. CASE closer = "returned" /\ stage # "exited"
    BY <2>2 DEF IInv, ServerPlaced
  <2>3. CASE stage = "exited" /\ closer = "returned"
    BY <2>3 DEF IInv, ServerPlaced, RequestsFinish
  <2> QED
    BY <2>1, <2>2, <2>3
<1>5. Server!TypeOK'
  BY <1>1, <1>2 DEF Server!TypeOK
<1>6. ServerPlaced'
  BY <1>1, <1>2, <1>3 DEF IInv, ServerPlaced, Before, After, Server!TypeOK
<1>7. ExitFreesAddress'
  BY <1>1, <1>3 DEF IInv, ServerPlaced, ExitFreesAddress
<1>8. RequestsFinish'
  BY <1>1, <1>4 DEF RequestsFinish
<1> QED
  BY <1>5, <1>6, <1>7, <1>8

\* Which exit codes go with which cause of giving up.
Fits(why, status) ==
  /\ status \in 0 .. 2 /\ why \in Causes \ {"none"}
  /\ status = 0 <=> why = "version"
  /\ why = "usage" => status = 2
  /\ status = 2 => why \in {"usage", "config", "controller"}

\* A stage before the workers may give up.
LEMMA GivingUpIsSound ==
  ASSUME IInv, stage \in Before,
         NEW why, NEW status, Fits(why, status), GiveUp(why, status),
         UNCHANGED <<args, mode, ctx, timer, signal, handler, controller, pool>>
  PROVE  IInv'
<1>1. closer = "none" /\ pool = "none" /\ controller # "returned"
  BY DEF IInv, TypeOK, ServerPlaced, PoolPlaced, ControllerPlaced, Before
<1>2. Server!TypeOK' /\ ServerPlaced' /\ ExitFreesAddress' /\ RequestsFinish'
  BY <1>1, LeavingIsClean DEF GiveUp
<1>3. stage' = "exited" /\ code' = status /\ cause' = why /\ pool' = "none"
      /\ controller' = controller
  BY <1>1 DEF GiveUp, Leave
<1>4. TypeOK'
  <2>1. /\ args' = args /\ mode' = mode /\ ctx' = ctx /\ timer' = timer
        /\ signal' = signal /\ handler' = handler /\ pool' = pool
    BY <1>1, <1>3
  <2> QED
    BY <1>2, <1>3, <2>1, TypesKept DEF IInv, Fits, Stages
<1>5. ExitExplained'
  BY <1>1, <1>3 DEF ExitExplained, Fits
<1>6. ControllerPlaced' /\ PoolPlaced' /\ NoVerdictYet'
  BY <1>3 DEF IInv, ControllerPlaced, PoolPlaced, NoVerdictYet, Before, After
<1> QED
  BY <1>2, <1>4, <1>5, <1>6 DEF IInv

\* A step that goes on, not to the exit, keeps what speaks of the exit.
LEMMA GoingOnIsSound ==
  ASSUME IInv, stage' # "exited",
         TypeOK', ControllerPlaced', PoolPlaced', ServerPlaced', NoVerdictYet'
  PROVE  IInv'
BY DEF IInv, ExitExplained, ExitFreesAddress, RequestsFinish

\* The server's variables stay while the stage goes on to one that expects the
\* server to be as it is.
LEMMA ServerUntouched ==
  ASSUME IInv, UNCHANGED server, UNCHANGED args, stage # "exited",
         stage' \in Before => stage \in Before,
         stage' \in After => stage \in After \/ (stage = "server" /\ ~args.bind)
  PROVE  Server!TypeOK' /\ ServerPlaced'
<1>1. UNCHANGED <<cancelled, listener, down, serve, watcher, closer, expired, request>>
  BY DEF server
<1>2. Server!TypeOK'
  BY <1>1 DEF IInv, TypeOK, Server!TypeOK
<1>3. ServerPlaced'
  <2>1. stage \in Before => closer = "none"
    BY DEF IInv, ServerPlaced
  <2>2. /\ stage' \in Before => closer = "none"
        /\ stage' \in After /\ args.bind => closer = "ready"
        /\ stage' \in After /\ ~args.bind => closer = "none"
    BY <2>1 DEF IInv, ServerPlaced, Before, After
  <2> QED
    BY <1>1, <2>2 DEF IInv, ServerPlaced
<1> QED
  BY <1>2, <1>3

-----------------------------------------------------------------------------
\* The stages, one by one.
LEMMA StagesPreserve ==
  ASSUME IInv,
         ParseArgs \/ LoadConfig \/ BuildLogger \/ ResolveMetadata \/ BuildController
  PROVE  IInv'
<1> USE DEF Before, After
<1>0. code = 0 /\ cause = "none" /\ pool = "none"
  BY DEF IInv, TypeOK, NoVerdictYet, PoolPlaced, ParseArgs, LoadConfig, BuildLogger,
         ResolveMetadata, BuildController
<1>1. CASE ParseArgs
  <2>1. CASE stage' = "exited"
    <3>1. \E why, status : Fits(why, status) /\ GiveUp(why, status)
      BY <1>1, <2>1, Order DEF ParseArgs, Fits, Causes, Proceed
    <3> QED
      BY <1>1, <2>1, <3>1, Order, GivingUpIsSound DEF ParseArgs, Proceed
  <2>2. CASE stage' # "exited"
    <3>1. /\ stage = "args" /\ stage' = "config" /\ UNCHANGED server
          /\ args' = args /\ ctx' = ctx /\ timer' = timer /\ signal' = signal
          /\ handler' = handler /\ controller' = controller /\ pool' = pool
          /\ code' = code /\ cause' = cause
          /\ mode' = NormalizedMode(args.mode) /\ ValidMode(NormalizedMode(args.mode))
      BY <1>1, <2>2, Order DEF ParseArgs, GiveUp, Leave, Proceed
    <3>2. Server!TypeOK' /\ ServerPlaced'
      BY <3>1, ServerUntouched
    <3>3. mode' \in {"enforce", "dry-run", "noop"}
      BY <3>1 DEF ValidMode
    <3>4. controller = "none"
      BY <3>1 DEF IInv, ControllerPlaced
    <3>5. TypeOK'
      <4>1. stage' \in Stages
        BY <3>1 DEF Stages
      <4> QED
        BY <3>1, <3>2, <3>3, <4>1, TypesKept DEF IInv
    <3>6. ControllerPlaced' /\ PoolPlaced' /\ NoVerdictYet'
      BY <1>0, <3>1, <3>4 DEF ControllerPlaced, PoolPlaced, NoVerdictYet
    <3> QED
      BY <2>2, <3>2, <3>5, <3>6, GoingOnIsSound
  <2> QED
    BY <2>1, <2>2
<1>2. CASE LoadConfig
  <2>1. CASE stage' = "exited"
    <3>1. /\ stage = "config"
          /\ \E invalid \in BOOLEAN : GiveUp("config", CodeForConfigError(invalid))
      BY <1>2, <2>1, Order DEF LoadConfig, Proceed
    <3>2. \A invalid \in BOOLEAN : Fits("config", CodeForConfigError(invalid))
      BY DEF Fits, Causes, CodeForConfigError
    <3> QED
      BY <1>2, <3>1, <3>2, GivingUpIsSound DEF LoadConfig, GiveUp, Leave
  <2>2. CASE stage' # "exited"
    <3>1. /\ stage = "config" /\ stage' = "logger" /\ UNCHANGED server
          /\ args' = args /\ mode' = mode /\ ctx' = ctx /\ timer' = timer
          /\ signal' = signal /\ handler' = handler /\ controller' = controller
          /\ pool' = pool /\ code' = code /\ cause' = cause
      BY <1>2, <2>2, Order DEF LoadConfig, GiveUp, Leave, Proceed
    <3>2. Server!TypeOK' /\ ServerPlaced'
      BY <3>1, ServerUntouched
    <3>3. TypeOK'
      <4>1. stage' \in Stages
        BY <3>1 DEF Stages
      <4> QED
        BY <3>1, <3>2, <4>1, TypesKept DEF IInv
    <3>4. ControllerPlaced' /\ PoolPlaced' /\ NoVerdictYet'
      BY <1>0, <3>1 DEF IInv, ControllerPlaced, PoolPlaced, NoVerdictYet
    <3> QED
      BY <2>2, <3>2, <3>3, <3>4, GoingOnIsSound
  <2> QED
    BY <2>1, <2>2
<1>3. CASE BuildLogger
  <2>1. CASE stage' = "exited"
    <3>1. stage = "logger" /\ GiveUp("logger", 1) /\ UNCHANGED timer
      BY <1>3, <2>1, Order DEF BuildLogger, Proceed
    <3>2. Fits("logger", 1)
      BY DEF Fits, Causes
    <3> QED
      BY <1>3, <3>1, <3>2, GivingUpIsSound DEF BuildLogger
  <2>2. CASE stage' # "exited"
    <3>1. /\ stage = "logger" /\ stage' = "metadata" /\ UNCHANGED server
          /\ timer' \in {"none", "armed"}
          /\ args' = args /\ mode' = mode /\ ctx' = ctx /\ signal' = signal
          /\ handler' = handler /\ controller' = controller /\ pool' = pool
          /\ code' = code /\ cause' = cause
      BY <1>3, <2>2, Order DEF BuildLogger, GiveUp, Leave, Proceed
    <3>2. Server!TypeOK' /\ ServerPlaced'
      BY <3>1, ServerUntouched
    <3>3. TypeOK'
      <4>1. stage' \in Stages
        BY <3>1 DEF Stages
      <4> QED
        BY <3>1, <3>2, <4>1, TypesKept DEF IInv
    <3>4. ControllerPlaced' /\ PoolPlaced' /\ NoVerdictYet'
      BY <1>0, <3>1 DEF IInv, ControllerPlaced, PoolPlaced, NoVerdictYet
    <3> QED
      BY <2>2, <3>2, <3>3, <3>4, GoingOnIsSound
  <2> QED
    BY <2>1, <2>2
<1>4. CASE ResolveMetadata
  <2>1. CASE stage' = "exited"
    <3>1. stage = "metadata" /\ \E why \in {"metadata", "context"} : GiveUp(why, 1)
      BY <1>4, <2>1, Order DEF ResolveMetadata, Proceed
    <3>2. \A why \in {"metadata", "context"} : Fits(why, 1)
      BY DEF Fits, Causes
    <3> QED
      BY <1>4, <3>1, <3>2, GivingUpIsSound DEF ResolveMetadata
  <2>2. CASE stage' # "exited"
    <3>1. /\ stage = "metadata" /\ stage' = "controller" /\ UNCHANGED server
          /\ args' = args /\ mode' = mode /\ ctx' = ctx /\ timer' = timer
          /\ signal' = signal /\ handler' = handler /\ controller' = controller
          /\ pool' = pool /\ code' = code /\ cause' = cause
      BY <1>4, <2>2, Order DEF ResolveMetadata, GiveUp, Leave, Proceed
    <3>2. Server!TypeOK' /\ ServerPlaced'
      BY <3>1, ServerUntouched
    <3>3. TypeOK'
      <4>1. stage' \in Stages
        BY <3>1 DEF Stages
      <4> QED
        BY <3>1, <3>2, <4>1, TypesKept DEF IInv
    <3>4. ControllerPlaced' /\ PoolPlaced' /\ NoVerdictYet'
      BY <1>0, <3>1 DEF IInv, ControllerPlaced, PoolPlaced, NoVerdictYet
    <3> QED
      BY <2>2, <3>2, <3>3, <3>4, GoingOnIsSound
  <2> QED
    BY <2>1, <2>2
<1>5. CASE BuildController
  <2>1. CASE stage' = "exited"
    <3>1. /\ stage = "controller" /\ UNCHANGED controller
          /\ \E invalid \in BOOLEAN : GiveUp("controller", CodeForConfigError(invalid))
      BY <1>5, <2>1, Order DEF BuildController, Proceed
    <3>2. \A invalid \in BOOLEAN : Fits("controller", CodeForConfigError(invalid))
      BY DEF Fits, Causes, CodeForConfigError
    <3> QED
      BY <1>5, <3>1, <3>2, GivingUpIsSound DEF BuildController
  <2>2. CASE stage' # "exited"
    <3>1. /\ stage = "controller" /\ stage' = "server" /\ UNCHANGED server
          /\ controller' = IF mode = "noop" THEN "noop" ELSE "adaptive"
          /\ args' = args /\ mode' = mode /\ ctx' = ctx /\ timer' = timer
          /\ signal' = signal /\ handler' = handler /\ pool' = pool
          /\ code' = code /\ cause' = cause
      BY <1>5, <2>2, Order DEF BuildController, GiveUp, Leave, Proceed
    <3>2. Server!TypeOK' /\ ServerPlaced'
      BY <3>1, ServerUntouched
    <3>3. TypeOK'
      <4>1. stage' \in Stages
        BY <3>1 DEF Stages
      <4> QED
        BY <3>1, <3>2, <4>1, TypesKept DEF IInv
    <3>4. ControllerPlaced' /\ PoolPlaced' /\ NoVerdictYet'
      BY <1>0, <3>1 DEF ControllerPlaced, PoolPlaced, NoVerdictYet
    <3> QED
      BY <2>2, <3>2, <3>3, <3>4, GoingOnIsSound
  <2> QED
    BY <2>1, <2>2
<1> QED
  BY <1>1, <1>2, <1>3, <1>4, <1>5

\* The server is started, or refuses and ends the program.
LEMMA StartServerPreserves ==
  ASSUME IInv, StartServer
  PROVE  IInv'
<1> USE DEF Before, After
<1>0. /\ stage = "server" /\ code = 0 /\ cause = "none" /\ pool = "none"
      /\ closer = "none" /\ serve = "none" /\ controller \in {"noop", "adaptive"}
  BY DEF IInv, TypeOK, Server!TypeOK, NoVerdictYet, PoolPlaced, ServerPlaced,
         ControllerPlaced, StartServer
<1>1. CASE stage' = "exited"
  <2>1. GiveUp("listen", 1)
    BY <1>1, <1>0, Order DEF StartServer, Proceed
  <2>2. Fits("listen", 1)
    BY DEF Fits, Causes
  <2> QED
    BY <1>0, <2>1, <2>2, GivingUpIsSound DEF StartServer
<1>2. CASE stage' # "exited"
  <2>1. /\ stage' = "pool"
        /\ args' = args /\ mode' = mode /\ ctx' = ctx /\ timer' = timer
        /\ signal' = signal /\ handler' = handler /\ controller' = controller
        /\ pool' = pool /\ code' = code /\ cause' = cause
        /\ IF args.bind THEN Server!Start ELSE UNCHANGED server
    BY <1>0, <1>2, Order DEF StartServer, GiveUp, Leave, Proceed
  <2>2. Server!TypeOK' /\ ServerPlaced'
    <3>1. CASE ~args.bind
      BY <1>0, <2>1, <3>1, ServerUntouched
    <3>2. CASE args.bind
      <4>1. /\ listener' = "bound" /\ serve' = "starting"
            /\ watcher' = "waiting" /\ closer' = "ready"
            /\ UNCHANGED <<cancelled, down, expired, request>>
        BY <2>1, <3>2 DEF Server!Start
      <4>2. Server!TypeOK'
        BY <4>1 DEF IInv, TypeOK, Server!TypeOK
      <4>3. ServerPlaced'
        BY <1>0, <2>1, <3>2, <4>1 DEF IInv, ServerPlaced
      <4> QED
        BY <4>2, <4>3
    <3> QED
      BY <3>1, <3>2
  <2>3. stage' \in Stages
    BY <2>1 DEF Stages
  <2>4. TypeOK'
    BY <2>1, <2>2, <2>3, TypesKept DEF IInv
  <2>5. ControllerPlaced' /\ PoolPlaced' /\ NoVerdictYet'
    BY <1>0, <2>1 DEF IInv, ControllerPlaced, PoolPlaced, NoVerdictYet
  <2> QED
    BY <1>2, <2>2, <2>4, <2>5, GoingOnIsSound
<1> QED
  BY <1>1, <1>2

\* The stages with the workers, up to the end of the run.
LEMMA RunningPreserves ==
  ASSUME IInv, StartPool \/ LogMetadata \/ RunReturns
  PROVE  IInv'
<1> USE DEF Before, After
<1>0. /\ stage \in {"pool", "log", "run"} /\ code = 0 /\ cause = "none"
      /\ stage = "pool" => pool = "none"
  BY DEF IInv, TypeOK, NoVerdictYet, PoolPlaced, StartPool, LogMetadata, RunReturns
<1>1. /\ \/ /\ stage = "pool" /\ stage' = "log" /\ controller' = controller
            /\ pool' = IF controller = "adaptive" THEN "started" ELSE pool
         \/ /\ stage = "log" /\ stage' = "run" /\ controller' = controller /\ pool' = pool
         \/ /\ stage = "run" /\ stage' = "cleanup" /\ controller' = "returned"
            /\ pool' = pool
      /\ args' = args /\ mode' = mode /\ ctx' = ctx /\ timer' = timer
      /\ signal' = signal /\ handler' = handler /\ code' = code /\ cause' = cause
      /\ UNCHANGED server
  BY Order DEF StartPool, LogMetadata, RunReturns, Proceed
<1>2. Server!TypeOK' /\ ServerPlaced'
  BY <1>0, <1>1, ServerUntouched
<1>3. TypeOK'
  <2>1. stage' \in Stages
    BY <1>1 DEF Stages
  <2> QED
    BY <1>1, <1>2, <2>1, TypesKept DEF IInv
<1>4. PoolPlaced'
  <2>1. /\ controller \in {"noop", "adaptive"}
        /\ controller = "adaptive" => mode # "noop"
        /\ args.bind => closer = "ready"
    BY <1>0 DEF IInv, ControllerPlaced, ServerPlaced
  <2>2. closer' = closer
    BY <1>1 DEF server
  <2> QED
    BY <1>1, <2>1, <2>2 DEF IInv, PoolPlaced
<1>5. ControllerPlaced' /\ NoVerdictYet'
  BY <1>0, <1>1 DEF IInv, ControllerPlaced, NoVerdictYet
<1> QED
  BY <1>1, <1>2, <1>3, <1>4, <1>5, GoingOnIsSound

\* The clean-up: the server's shutdown step by step, then the exit.
LEMMA CleanUpPreserves ==
  ASSUME IInv, CleanUp
  PROVE  IInv'
<1> USE DEF Before, After
<1>0. /\ stage = "cleanup" /\ code = 0 /\ cause = "none" /\ controller = "returned"
      /\ Server!TypeOK
  BY DEF IInv, TypeOK, NoVerdictYet, ControllerPlaced, CleanUp
<1>1. /\ args' = args /\ mode' = mode /\ timer' = timer /\ signal' = signal
      /\ handler' = handler /\ controller' = controller /\ pool' = pool
      /\ code' = code /\ cause' = cause
  BY DEF CleanUp
<1>2. CASE stage' = "exited"
  <2>1. /\ Leave /\ closer \in {"none", "returned"}
        /\ ctx' = IF ctx = "live" THEN "canceled" ELSE ctx
    BY <1>0, <1>2 DEF CleanUp
  <2>2. Server!TypeOK' /\ ServerPlaced' /\ ExitFreesAddress' /\ RequestsFinish'
    BY <2>1, LeavingIsClean
  <2>3. TypeOK'
    <3>1. stage' \in Stages
      BY <1>2 DEF Stages
    <3> QED
      BY <1>1, <2>1, <2>2, <3>1, TypesKept DEF IInv
  <2>4. ExitExplained'
    BY <1>0, <1>1, <1>2 DEF ExitExplained
  <2>5. PoolPlaced'
    BY <1>1, <1>2, <2>1 DEF IInv, PoolPlaced, Leave
  <2>6. ControllerPlaced' /\ NoVerdictYet'
    BY <1>0, <1>1, <1>2 DEF ControllerPlaced, NoVerdictYet
  <2> QED
    BY <2>2, <2>3, <2>4, <2>5, <2>6 DEF IInv
<1>3. CASE stage' # "exited"
  <2>1. /\ stage' = "cleanup" /\ ctx' = ctx
        /\ Server!ContextEnds \/ Server!Close \/ Server!Drain
             \/ Server!TimeOut \/ Server!Join
    BY <1>0, <1>3 DEF CleanUp, Leave
  <2>2. Server!TypeOK'
    BY <1>0, <2>1 DEF Server!TypeOK, Server!ContextEnds, Server!Close, Server!Shutdown,
       Server!Drain, Server!TimeOut, Server!Join
  <2>3. closer' \in {"none", "refused"} => closer' = closer
    BY <2>1 DEF Server!ContextEnds, Server!Close, Server!Shutdown,
       Server!Drain, Server!TimeOut, Server!Join
  <2>4. ServerPlaced'
    <3>1. CASE Server!ContextEnds
      BY <1>0, <2>1, <3>1 DEF IInv, ServerPlaced, Server!ContextEnds
    <3>2. CASE Server!Close
      BY <1>0, <2>1, <3>2 DEF IInv, ServerPlaced, Server!Close, Server!Shutdown
    <3>3. CASE Server!Drain
      BY <1>0, <2>1, <3>3 DEF IInv, ServerPlaced, Server!Drain, Server!Active
    <3>4. CASE Server!TimeOut
      BY <1>0, <2>1, <3>4 DEF IInv, ServerPlaced, Server!TimeOut
    <3>5. CASE Server!Join
      BY <1>0, <2>1, <3>5 DEF IInv, ServerPlaced, Server!Join, Server!ServeDone
    <3> QED
      BY <2>1, <3>1, <3>2, <3>3, <3>4, <3>5
  <2>5. TypeOK'
    <3>1. stage' \in Stages
      BY <2>1 DEF Stages
    <3> QED
      BY <1>1, <2>1, <2>2, <3>1, TypesKept DEF IInv
  <2>6. PoolPlaced'
    BY <1>0, <1>1, <2>1, <2>3 DEF IInv, PoolPlaced
  <2>7. ControllerPlaced' /\ NoVerdictYet'
    BY <1>0, <1>1, <2>1 DEF ControllerPlaced, NoVerdictYet
  <2> QED
    BY <1>3, <2>2, <2>4, <2>5, <2>6, <2>7, GoingOnIsSound
<1> QED
  BY <1>2, <1>3

\* Signals and the timer end contexts and nothing else.
LEMMA EventsPreserve ==
  ASSUME IInv, Signal \/ HandleSignal \/ TimerFires
  PROVE  IInv'
<1>1. /\ stage # "exited" /\ stage' = stage
      /\ args' = args /\ mode' = mode /\ controller' = controller /\ pool' = pool
      /\ code' = code /\ cause' = cause
  BY DEF Signal, HandleSignal, TimerFires
<1>2. /\ ctx' = ctx \/ ctx' \in {"canceled", "deadline"}
      /\ timer' = timer \/ timer' = "fired"
      /\ signal' \in {signal, 0, 1}
      /\ handler' = handler \/ handler' = "gone"
      /\ cancelled' = cancelled \/ cancelled' = TRUE
      /\ UNCHANGED <<listener, down, serve, watcher, closer, expired, request>>
  BY DEF Signal, HandleSignal, TimerFires, EndContext, server
<1>3. Server!TypeOK'
  BY <1>2 DEF IInv, TypeOK, Server!TypeOK
<1>4. TypeOK'
  <2>1. stage' \in Stages
    BY <1>1 DEF IInv, TypeOK
  <2> QED
    BY <1>1, <1>2, <1>3, <2>1, TypesKept DEF IInv
<1>5. ControllerPlaced' /\ PoolPlaced' /\ ServerPlaced' /\ NoVerdictYet'
  BY <1>1, <1>2 DEF IInv, ControllerPlaced, PoolPlaced, ServerPlaced, NoVerdictYet
<1> QED
  BY <1>1, <1>4, <1>5, GoingOnIsSound

\* The server's own goroutines, and the requests.
LEMMA ServingPreserves ==
  ASSUME IInv, Serving
  PROVE  IInv'
<1>1. /\ stage # "exited" /\ stage' = stage
      /\ args' = args /\ mode' = mode /\ ctx' = ctx /\ timer' = timer
      /\ signal' = signal /\ handler' = handler /\ controller' = controller
      /\ pool' = pool /\ code' = code /\ cause' = cause
  BY DEF Serving, own
<1>2. Server!TypeOK /\ ServerPlaced
  BY DEF IInv, TypeOK
<1>3. Server!Goroutines /\ closer' = closer /\ expired' = expired
  BY DEF Serving, Server!Goroutines, Server!Serve, Server!ServeReturns,
     Server!WatcherWakes, Server!WatcherEnds, Server!Connect, Server!Respond
<1>4. Server!TypeOK' /\ ServerPlaced'
  <2>1. CASE Server!Serve
    <3>1. Server!TypeOK'
      BY <1>2, <2>1 DEF Server!TypeOK, Server!Serve
    <3>2. ServerPlaced'
      BY <1>1, <1>2, <2>1 DEF ServerPlaced, Server!Serve, Before, After
    <3> QED
      BY <3>1, <3>2
  <2>2. CASE Server!ServeReturns
    <3>1. Server!TypeOK'
      BY <1>2, <2>2 DEF Server!TypeOK, Server!ServeReturns
    <3>2. ServerPlaced'
      BY <1>1, <1>2, <2>2 DEF ServerPlaced, Server!ServeReturns, Before, After
    <3> QED
      BY <3>1, <3>2
  <2>3. CASE Server!WatcherWakes
    <3>1. Server!TypeOK'
      BY <1>2, <2>3 DEF Server!TypeOK, Server!WatcherWakes, Server!Shutdown
    <3>2. ServerPlaced'
      BY <1>1, <1>2, <2>3 DEF ServerPlaced, Server!WatcherWakes, Server!Shutdown, Before, After
    <3> QED
      BY <3>1, <3>2
  <2>4. CASE Server!WatcherEnds
    <3>1. Server!TypeOK'
      BY <1>2, <2>4 DEF Server!TypeOK, Server!WatcherEnds
    <3>2. ServerPlaced'
      BY <1>1, <1>2, <2>4 DEF ServerPlaced, Server!WatcherEnds, Before, After
    <3> QED
      BY <3>1, <3>2
  <2>5. ASSUME NEW r \in Requests, Server!Connect(r)
        PROVE  Server!TypeOK' /\ ServerPlaced'
    <3>1. Server!TypeOK'
      BY <1>2, <2>5 DEF Server!TypeOK, Server!Connect
    <3>2. ServerPlaced'
      BY <1>1, <1>2, <2>5 DEF ServerPlaced, Server!TypeOK, Server!Connect, Before, After
    <3> QED
      BY <3>1, <3>2
  <2>6. ASSUME NEW r \in Requests, Server!Respond(r)
        PROVE  Server!TypeOK' /\ ServerPlaced'
    <3>1. Server!TypeOK'
      BY <1>2, <2>6 DEF Server!TypeOK, Server!Respond
    <3>2. ServerPlaced'
      BY <1>1, <1>2, <2>6 DEF ServerPlaced, Server!TypeOK, Server!Respond, Before, After
    <3> QED
      BY <3>1, <3>2
  <2> QED
    BY <1>3, <2>1, <2>2, <2>3, <2>4, <2>5, <2>6 DEF Server!Goroutines
<1>5. TypeOK'
  <2>1. stage' \in Stages
    BY <1>1 DEF IInv, TypeOK
  <2> QED
    BY <1>1, <1>4, <2>1, TypesKept DEF IInv
<1>6. ControllerPlaced' /\ PoolPlaced' /\ NoVerdictYet'
  BY <1>1, <1>3 DEF IInv, ControllerPlaced, PoolPlaced, NoVerdictYet
<1> QED
  BY <1>1, <1>4, <1>5, <1>6, GoingOnIsSound

-----------------------------------------------------------------------------
\* The inductive invariant.
THEOREM Safety == Spec => []IInv
<1>1. Init => IInv
  <2> SUFFICES ASSUME Init PROVE IInv
    OBVIOUS
  <2>1. Server!TypeOK
    BY DEF Init, Server!Init, Server!TypeOK
  <2>2. TypeOK
    <3>1. args \in Arguments /\ code \in 0 .. 2 /\ signal \in {0, 1} /\ stage \in Stages
      <4>1. args \in Arguments
        BY Zenon DEF Init
      <4>2. code \in 0 .. 2 /\ signal \in {0, 1}
        <5>1. code = 0 /\ signal = 0
          BY Zenon DEF Init
        <5> QED
          BY <5>1
      <4>3. stage \in Stages
        BY DEF Init, Stages
      <4> QED
        BY <4>1, <4>2, <4>3
    <3>2. /\ mode \in {"", "enforce", "dry-run", "noop"}
          /\ cause \in Causes
          /\ ctx \in {"live", "canceled", "deadline"}
      BY DEF Init, Causes
    <3>3. /\ timer \in {"none", "armed", "fired"} /\ handler \in {"waiting", "gone"}
          /\ controller \in {"none", "noop", "adaptive", "returned"}
          /\ pool \in {"none", "started"}
      BY DEF Init
    <3> QED
      BY <2>1, <3>1, <3>2, <3>3 DEF TypeOK, Causes
  <2>3. ServerPlaced
    BY DEF Init, Server!Init, ServerPlaced, Before, After
  <2>4. ControllerPlaced /\ PoolPlaced /\ NoVerdictYet
    BY DEF Init, ControllerPlaced, PoolPlaced, NoVerdictYet, Before, After
  <2>5. ExitExplained /\ ExitFreesAddress /\ RequestsFinish
    BY DEF Init, ExitExplained, ExitFreesAddress, RequestsFinish
  <2> QED
    BY <2>2, <2>3, <2>4, <2>5 DEF IInv
<1>2. IInv /\ [Next]_vars => IInv'
  <2> SUFFICES ASSUME IInv, [Next]_vars PROVE IInv'
    OBVIOUS
  <2>1. CASE UNCHANGED vars
    <3>1. UNCHANGED <<args, mode, stage, code, cause, ctx, timer, signal, handler,
                      controller, pool>>
      BY <2>1 DEF vars, own
    <3>2. UNCHANGED <<cancelled, listener, down, serve, watcher, closer, expired, request>>
      BY <2>1 DEF vars, server
    <3>3. TypeOK'
      <4>1. Server!TypeOK'
        BY <3>2 DEF IInv, TypeOK, Server!TypeOK
      <4>2. stage' \in Stages
        BY <3>1 DEF IInv, TypeOK
      <4> QED
        BY <3>1, <4>1, <4>2, TypesKept DEF IInv
    <3>4. /\ ControllerPlaced' /\ PoolPlaced' /\ ServerPlaced' /\ NoVerdictYet'
          /\ ExitExplained' /\ ExitFreesAddress' /\ RequestsFinish'
      BY <3>1, <3>2 DEF IInv, ControllerPlaced, PoolPlaced, ServerPlaced, NoVerdictYet,
         ExitExplained, ExitFreesAddress, RequestsFinish
    <3> QED
      BY <3>3, <3>4 DEF IInv
  <2> QED
    BY <2>1, StagesPreserve, StartServerPreserves, RunningPreserves, CleanUpPreserves,
       EventsPreserve, ServingPreserves DEF Next, Main
<1> QED
  BY <1>1, <1>2, PTL DEF Spec

\* However and whenever the program ends, the exit code tells the cause, the
\* address is free, and no request is cut off that had time left.
THEOREM ExitIsSound == Spec => []ExitSound
<1>1. IInv => ExitSound
  BY DEF IInv, ExitSound
<1> QED
  BY <1>1, Safety, PTL

\* No worker runs in noop, without a controller, or hidden from a configured server.
THEOREM WorkersAreObservable == Spec => []WorkIsObservable
<1>1. IInv => WorkIsObservable
  BY DEF IInv, PoolPlaced, WorkIsObservable
<1> QED
  BY <1>1, Safety, PTL
=============================================================================
