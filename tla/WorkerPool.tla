----------------------------- MODULE WorkerPool -----------------------------
(***************************************************************************)
(* The worker goroutines of shape.Pool (pkg/shape).  A worker wakes once   *)
(* per quantum, looks at the pause flag, then reads the duty cycle, then   *)
(* burns that share of the quantum and sleeps the rest.  The flag and the  *)
(* duty cycle are two atomics: a pause that falls between the two reads    *)
(* does not stop the slice about to begin.  The pool's client sets both at *)
(* any time.                                                               *)
(***************************************************************************)
EXTENDS PoolGuard

CONSTANTS
  Workers,            \* the worker goroutines
  Targets,            \* what a client passes to SetTarget
  Utils, Runnables    \* the host loads a client reports

ASSUME ClientAssumption ==
  /\ Targets \subseteq Int /\ Utils \subseteq 0 .. Full /\ Runnables \subseteq Nat

VARIABLES
  targetBits,   \* the duty cycle in force
  paused,       \* the pause flag
  pc,           \* where each worker stands
  slice,        \* the busy share of the worker's current quantum
  late,         \* history: busy slices begun since the pause flag went up, 0, 1 or 2
  cancelled     \* the pool's context is cancelled

vars == <<targetBits, paused, pc, slice, late, cancelled>>

\* NewPool and Start: duty cycle zero, not paused.
Init ==
  /\ targetBits = PoolTarget(0) /\ paused = FALSE /\ cancelled = FALSE
  /\ pc = [w \in Workers |-> "starting"]
  /\ slice = [w \in Workers |-> 0]
  /\ late = [w \in Workers |-> 0]

-----------------------------------------------------------------------------
Move(w, from, to) == pc[w] = from /\ pc' = [pc EXCEPT ![w] = to]

\* The start hook has run; a hook that failed is reported and ignored.
Started(w) ==
  /\ Move(w, "starting", "selecting")
  /\ UNCHANGED <<targetBits, paused, slice, late, cancelled>>

\* Mutated form: the context is looked at in the paused branch only.
MutExit(w) ==
  /\ cancelled /\ paused
  /\ Move(w, "selecting", "exited")
  /\ UNCHANGED <<targetBits, paused, slice, late, cancelled>>

\* The select takes ctx.Done().
Exit(w) ==
  /\ cancelled
  /\ Move(w, "selecting", "exited")
  /\ UNCHANGED <<targetBits, paused, slice, late, cancelled>>

\* The select takes the tick, also when the context is cancelled already.
Wake(w) ==
  /\ Move(w, "selecting", "checking")
  /\ UNCHANGED <<targetBits, paused, slice, late, cancelled>>

\* Mutated form: a worker that has worked before does not look at the flag.
MutCheckPaused(w) ==
  /\ Move(w, "checking", IF paused /\ slice[w] = 0 THEN "resting" ELSE "reading")
  /\ UNCHANGED <<targetBits, paused, slice, late, cancelled>>

\* p.Paused(): sleep the quantum away, or go on.
CheckPaused(w) ==
  /\ Move(w, "checking", IF paused THEN "resting" ELSE "reading")
  /\ UNCHANGED <<targetBits, paused, slice, late, cancelled>>

\* The count of late slices stops at LateBound; a second one is one too many.
LateBound == 2
LateAfter(w) == IF paused /\ targetBits > 0 /\ late[w] < LateBound THEN late[w] + 1 ELSE late[w]

\* Mutated form: the slice keeps the duty cycle of the quantum before.
MutReadTarget(w) ==
  /\ Move(w, "reading", IF slice[w] + targetBits > 0 THEN "busy" ELSE "resting")
  /\ slice' = [slice EXCEPT ![w] = IF slice[w] > 0 THEN slice[w] ELSE targetBits]
  /\ late' = [late EXCEPT ![w] = LateAfter(w)]
  /\ UNCHANGED <<targetBits, paused, cancelled>>

\* p.Target(): a zero duty cycle only yields, then sleeps the whole quantum.
ReadTarget(w) ==
  /\ Move(w, "reading", IF targetBits > 0 THEN "busy" ELSE "resting")
  /\ slice' = [slice EXCEPT ![w] = targetBits]
  /\ late' = [late EXCEPT ![w] = LateAfter(w)]
  /\ UNCHANGED <<targetBits, paused, cancelled>>

\* busyFn returns; a full duty cycle leaves nothing to sleep.
Burn(w) ==
  /\ Move(w, "busy", IF slice[w] < Full THEN "resting" ELSE "selecting")
  /\ UNCHANGED <<targetBits, paused, slice, late, cancelled>>

\* Mutated form: the paused branch returns where it should continue.
MutRest(w) ==
  /\ Move(w, "resting", IF paused THEN "exited" ELSE "selecting")
  /\ UNCHANGED <<targetBits, paused, slice, late, cancelled>>

\* sleepFn returns.
Rest(w) ==
  /\ Move(w, "resting", "selecting")
  /\ UNCHANGED <<targetBits, paused, slice, late, cancelled>>

-----------------------------------------------------------------------------
\* Pool.SetTarget
SetTarget(t) ==
  /\ targetBits' = PoolTarget(t)
  /\ UNCHANGED <<paused, pc, slice, late, cancelled>>

\* Pool.ObserveHostLoad.  A new pause starts the count of late slices over.
ObserveHostLoad(util, runnable) ==
  /\ paused' = PausedAfter(paused, util, runnable)
  /\ late' = IF paused /\ paused' THEN late ELSE [w \in Workers |-> 0]
  /\ UNCHANGED <<targetBits, pc, slice, cancelled>>

\* The run context is cancelled.
Cancel ==
  /\ ~cancelled
  /\ cancelled' = TRUE
  /\ UNCHANGED <<targetBits, paused, pc, slice, late>>

Worker(w) ==
  \/ Started(w) \/ Exit(w) \/ Wake(w) \/ CheckPaused(w)
  \/ ReadTarget(w) \/ Burn(w) \/ Rest(w)

Client ==
  \/ \E t \in Targets : SetTarget(t)
  \/ \E util \in Utils, runnable \in Runnables : ObserveHostLoad(util, runnable)
  \/ Cancel

Next == (\E w \in Workers : Worker(w)) \/ Client

Spec == Init /\ [][Next]_vars

(***************************************************************************)
(* Fairness: the Go scheduler runs every worker; the ticker fires; busyFn  *)
(* and sleepFn return.  A select with both cases ready takes each of them  *)
(* ever and again, hence strong fairness on Exit.  Nothing is assumed of   *)
(* the client.                                                             *)
(***************************************************************************)
Fairness == \A w \in Workers : WF_vars(Worker(w)) /\ SF_vars(Exit(w))

FairSpec == Spec /\ Fairness

-----------------------------------------------------------------------------
\* The variables keep their types and bounds.
TypeOK ==
  /\ targetBits \in 0 .. Full /\ paused \in BOOLEAN /\ cancelled \in BOOLEAN
  /\ pc \in [Workers -> {"starting", "selecting", "checking", "reading",
                         "busy", "resting", "exited"}]
  /\ slice \in [Workers -> 0 .. Full]
  /\ late \in [Workers -> 0 .. LateBound]

\* A pause stops every worker within one slice: only a worker caught between
\* the look at the flag and the read of the duty cycle still burns, once, and
\* not again for as long as the pause lasts.
AtMostOneLateSlice ==
  \A w \in Workers : late[w] <= 1 /\ (late[w] = 1 /\ paused => pc[w] # "reading")

\* With the duty cycle at zero no new slice begins, whatever a worker burned
\* before: the controller's zero needs no pause to be obeyed.
ZeroStartsNothing ==
  [][\A w \in Workers :
       targetBits = 0 /\ pc'[w] = "busy" => pc[w] = "busy"]_vars

\* A pause that lasts idles the pool for good.
PauseSettles == <>[]paused => <>[](\A w \in Workers : pc[w] # "busy")

\* A worker neither starves nor forgets to look: with a duty cycle in force
\* and no pause, every worker that goes on burns ever and again.
WorkResumes ==
  <>[](~paused /\ targetBits > 0 /\ ~cancelled) =>
    \A w \in Workers : []<>(pc[w] = "busy")

\* Cancelling the context ends every worker, from wherever it stands.
WorkersExit == cancelled ~> \A w \in Workers : pc[w] = "exited"
=============================================================================
