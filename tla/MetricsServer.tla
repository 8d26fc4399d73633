---------------------------- MODULE MetricsServer ----------------------------
(***************************************************************************)
(* The life of the HTTP server (internal/metricsserver/metricsserver.go):  *)
(* one goroutine serves, one waits for the context and shuts the server    *)
(* down, and the function StartServer returns shuts it down too and then   *)
(* waits for the first goroutine.  net/http is external: after Shutdown no *)
(* request begins, the listener is closed once Serve has registered it,    *)
(* and Shutdown returns when no request is left or its own deadline is     *)
(* over.  A request may take for ever: only its header has a timeout.      *)
(***************************************************************************)
CONSTANT Requests

VARIABLES
  cancelled,  \* the server's context is done
  listener,   \* the bound socket
  down,       \* http.Server: Shutdown has been called
  serve,      \* the goroutine that calls Serve
  watcher,    \* the goroutine that waits for the context
  closer,     \* the function StartServer returns
  expired,    \* the closer gave up waiting for requests
  request     \* what became of each request

serverVars == <<cancelled, listener, down, serve, watcher, closer, expired, request>>

Init ==
  /\ cancelled = FALSE
  /\ listener = "none"
  /\ down = FALSE
  /\ serve = "none"
  /\ watcher = "none"
  /\ closer = "none"
  /\ expired = FALSE
  /\ request = [r \in Requests |-> "none"]

Active == {r \in Requests : request[r] = "active"}

-----------------------------------------------------------------------------
\* Mutated form: a failed bind still hands out the shutdown function.
MutRefuse ==
  /\ closer = "none"
  /\ closer' = "ready"
  /\ UNCHANGED <<cancelled, listener, down, serve, watcher, expired, request>>

\* StartServer: the address cannot be bound.
Refuse ==
  /\ closer = "none"
  /\ closer' = "refused"
  /\ UNCHANGED <<cancelled, listener, down, serve, watcher, expired, request>>

\* StartServer: the listener is bound before either goroutine runs.
Start ==
  /\ closer = "none"
  /\ listener' = "bound" /\ serve' = "starting"
  /\ watcher' = "waiting" /\ closer' = "ready"
  /\ UNCHANGED <<cancelled, down, expired, request>>

\* Serve registers the listener, or closes it if Shutdown came first.
Serve ==
  /\ serve = "starting"
  /\ IF down THEN serve' = "stopped" /\ listener' = "closed"
             ELSE serve' = "serving" /\ UNCHANGED listener
  /\ UNCHANGED <<cancelled, down, watcher, closer, expired, request>>

Connect(r) ==
  /\ serve = "serving" /\ ~down /\ request[r] = "none"
  /\ request' = [request EXCEPT ![r] = "active"]
  /\ UNCHANGED <<cancelled, listener, down, serve, watcher, closer, expired>>

Respond(r) ==
  /\ request[r] = "active"
  /\ request' = [request EXCEPT ![r] = "served"]
  /\ UNCHANGED <<cancelled, listener, down, serve, watcher, closer, expired>>

\* Serve returns, after Shutdown or because accepting failed for good.
ServeReturns ==
  /\ serve = "serving"
  /\ serve' = "stopped" /\ listener' = "closed"
  /\ UNCHANGED <<cancelled, down, watcher, closer, expired, request>>

\* http.Server.Shutdown up to the point where it waits.
Shutdown ==
  /\ down' = TRUE
  /\ listener' = IF serve = "serving" THEN "closed" ELSE listener

\* Mutated form: the goroutine on the context only logs.
MutWatcherWakes ==
  /\ watcher = "waiting" /\ cancelled
  /\ watcher' = "draining"
  /\ UNCHANGED <<cancelled, listener, down, serve, closer, expired, request>>

\* The goroutine on the context shuts the server down with a deadline of its own.
WatcherWakes ==
  /\ watcher = "waiting" /\ cancelled
  /\ Shutdown /\ watcher' = "draining"
  /\ UNCHANGED <<cancelled, serve, closer, expired, request>>

WatcherEnds ==
  /\ watcher = "draining"
  /\ watcher' = "done"
  /\ UNCHANGED <<cancelled, listener, down, serve, closer, expired, request>>

\* Mutated form: the shutdown is left to the goroutine on the context.
MutClose ==
  /\ closer = "ready"
  /\ closer' = "joining"
  /\ UNCHANGED <<cancelled, listener, down, serve, watcher, expired, request>>

\* The returned function begins its own shutdown, whatever the watcher does.
Close ==
  /\ closer = "ready"
  /\ Shutdown /\ closer' = "draining"
  /\ UNCHANGED <<cancelled, serve, watcher, expired, request>>

\* Its Shutdown returns because no request is left ...
Drain ==
  /\ closer = "draining" /\ Active = {}
  /\ closer' = "joining"
  /\ UNCHANGED <<cancelled, listener, down, serve, watcher, expired, request>>

\* Mutated form: the shutdown's context has no deadline.
MutTimeOut == FALSE /\ UNCHANGED serverVars

\* ... or because its deadline is over.
TimeOut ==
  /\ closer = "draining" /\ Active # {}
  /\ closer' = "joining" /\ expired' = TRUE
  /\ UNCHANGED <<cancelled, listener, down, serve, watcher, request>>

\* Mutated form: the serving goroutine is not waited for.
MutServeDone == TRUE

ServeDone == serve = "stopped"

\* The receive from serveDone.
Join ==
  /\ closer = "joining" /\ ServeDone
  /\ closer' = "returned"
  /\ UNCHANGED <<cancelled, listener, down, serve, watcher, expired, request>>

\* The context ends, at the latest when the application cleans up.
ContextEnds ==
  /\ ~cancelled /\ cancelled' = TRUE
  /\ UNCHANGED <<listener, down, serve, watcher, closer, expired, request>>

\* What the server's own goroutines do.
Goroutines ==
  \/ Serve \/ ServeReturns \/ WatcherWakes \/ WatcherEnds
  \/ \E r \in Requests : Connect(r) \/ Respond(r)

Next ==
  \/ Refuse \/ Start \/ Goroutines
  \/ Close \/ Drain \/ TimeOut \/ Join
  \/ ContextEnds

\* Goroutines run and deadlines come.  No request need ever end.
ServerFairness ==
  /\ WF_serverVars(Serve) /\ WF_serverVars(down /\ ServeReturns)
  /\ WF_serverVars(WatcherWakes) /\ WF_serverVars(WatcherEnds)
  /\ WF_serverVars(Drain) /\ WF_serverVars(TimeOut) /\ WF_serverVars(Join)

Spec == Init /\ [][Next]_serverVars /\ ServerFairness

-----------------------------------------------------------------------------
\* The types, and a goroutine serves exactly if the listener was bound.
TypeOK ==
  /\ cancelled \in BOOLEAN /\ down \in BOOLEAN /\ expired \in BOOLEAN
  /\ listener \in {"none", "bound", "closed"}
  /\ serve \in {"none", "starting", "serving", "stopped"}
  /\ watcher \in {"none", "waiting", "draining", "done"}
  /\ closer \in {"none", "refused", "ready", "draining", "joining", "returned"}
  /\ request \in [Requests -> {"none", "active", "served", "dropped"}]
  /\ closer \in {"none", "refused"} <=> serve = "none"

\* When the returned function is past its shutdown, requests are still under
\* way only if it ran out of time, however the other shutdown fared
\* (metricsserver.go, StartServer).
CloseIsGraceful ==
  closer \in {"joining", "returned"} /\ ~expired => Active = {}

\* When it has returned, nobody serves and the address is free, even if it was
\* called before the serving goroutine ran.
ReturnFreesAddress ==
  closer = "returned" => serve = "stopped" /\ listener = "closed"

\* It returns although a request never ends.
CloseReturns == closer = "draining" ~> closer = "returned"

\* A context that ends leaves no goroutine behind, closed explicitly or not.
ContextStopsServer ==
  (cancelled /\ watcher = "waiting") ~> (watcher = "done" /\ serve = "stopped")
=============================================================================
