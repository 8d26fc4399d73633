------------------------------ MODULE Sampler -------------------------------
(***************************************************************************)
(* The host-load sampler (pkg/est).  Every tick it reads the kernel's      *)
(* cumulative jiffy counters, forms the difference to the last snapshot it *)
(* could read and sends it over a channel that holds one observation.  The *)
(* receiver is the controller's consumer goroutine; when it lags the       *)
(* sampler blocks, when it is gone only the context frees the sampler.     *)
(*                                                                         *)
(* A sampler runs once: each caller of Run gets a channel, but only the    *)
(* first call starts the goroutine; a later one finds an error and a       *)
(* closed channel.                                                         *)
(*                                                                         *)
(* Not kept: timestamps, the run queue (copied from the snapshot, divided  *)
(* by the number of CPUs) and the quotient of the two differences.         *)
(***************************************************************************)
EXTENDS Integers

CONSTANTS
  Callers,          \* the callers of Run
  MaxJiffies,       \* bound on each kernel counter
  MaxRegressions    \* how often the idle counter may be corrected downwards

ASSUME BoundAssumption == MaxJiffies \in Nat /\ MaxRegressions \in Nat

VARIABLES
  kernel,       \* /proc/stat: busy and idle (idle + iowait) jiffies since boot
  regressions,  \* downward corrections of the idle counter so far
  started,      \* Sampler.started
  pc,           \* where the goroutine (or the refused call) of a caller stands
  first, last,  \* its first and its latest snapshot
  outbox,       \* the observation it is trying to send
  slot,         \* the caller's channel, of capacity one
  got,          \* what its receiver has taken: sums over the samples
  warned,       \* ... and whether an error was among it
  receiving,    \* the receiver is still there
  cancelled     \* the context is cancelled

sampling == <<pc, first, last, outbox>>
received == <<got, warned>>
vars == <<kernel, regressions, started, sampling, slot, received, receiving, cancelled>>

\* A snapshot as FileSource.Snapshot returns it: the idle counters and the
\* sum of all counters.
Snapshot == [idle |-> kernel.idle, total |-> kernel.busy + kernel.idle]
Boot == [idle |-> 0, total |-> 0]

Zero == [busy |-> 0, total |-> 0]
Nothing == [kind |-> "nothing", busy |-> 0, total |-> 0]
Error == [kind |-> "error", busy |-> 0, total |-> 0]

\* Mutated form: the plain difference.
MutDiff(previous, current) == current - previous

\* diffCounter: a counter that went backwards counts as unmoved.
Diff(previous, current) == IF current >= previous THEN current - previous ELSE 0

\* Mutated form: the busy share is formed without looking at its operands.
MutObservation(previous, current) ==
  [kind  |-> "sample",
   busy  |-> Diff(previous.total, current.total) - (current.idle - previous.idle),
   total |-> Diff(previous.total, current.total)]

\* buildObservation
Observation(previous, current) ==
  LET total == Diff(previous.total, current.total)
      idle  == Diff(previous.idle, current.idle)
  IN  [kind  |-> "sample",
       busy  |-> IF total > 0 /\ idle <= total THEN total - idle ELSE 0,
       total |-> total]

Init ==
  /\ kernel = [busy |-> 0, idle |-> 0] /\ regressions = 0
  /\ started = FALSE /\ cancelled = FALSE
  /\ pc = [c \in Callers |-> "idle"]
  /\ first = [c \in Callers |-> Boot] /\ last = [c \in Callers |-> Boot]
  /\ outbox = [c \in Callers |-> Nothing] /\ slot = [c \in Callers |-> Nothing]
  /\ got = [c \in Callers |-> Zero] /\ warned = [c \in Callers |-> FALSE]
  /\ receiving = [c \in Callers |-> FALSE]

-----------------------------------------------------------------------------
(***************************************************************************)
(* The kernel.  Linux documents that iowait, one of the two idle counters, *)
(* may decrease.                                                           *)
(***************************************************************************)
KernelTick ==
  /\ \/ kernel.busy < MaxJiffies /\ kernel' = [kernel EXCEPT !.busy = @ + 1]
     \/ kernel.idle < MaxJiffies /\ kernel' = [kernel EXCEPT !.idle = @ + 1]
  /\ UNCHANGED <<regressions, started, sampling, slot, received, receiving, cancelled>>

IdleRegresses ==
  /\ regressions < MaxRegressions
  /\ regressions' = regressions + 1
  /\ \E i \in 0 .. kernel.idle - 1 : kernel' = [kernel EXCEPT !.idle = i]
  /\ UNCHANGED <<started, sampling, slot, received, receiving, cancelled>>

-----------------------------------------------------------------------------
(***************************************************************************)
(* The sampler.                                                            *)
(***************************************************************************)

\* publishError and publishObservation begin: the send is in progress.
Publish(c, item, next) ==
  /\ outbox' = [outbox EXCEPT ![c] = item]
  /\ pc' = [pc EXCEPT ![c] = next]

\* Mutated form: the flag is looked at but not taken.
MutClaim(c) ==
  /\ started' = started
  /\ IF ~started
     THEN pc' = [pc EXCEPT ![c] = "starting"] /\ UNCHANGED outbox
     ELSE Publish(c, Error, "failing")

\* started.CompareAndSwap: the first caller gets the goroutine, any other an
\* error on a channel of its own, which is then closed.
Claim(c) ==
  /\ started' = TRUE
  /\ IF ~started
     THEN pc' = [pc EXCEPT ![c] = "starting"] /\ UNCHANGED outbox
     ELSE Publish(c, Error, "failing")

\* Run returns the channel to a caller that goes on to receive from it.
Run(c) ==
  /\ pc[c] = "idle"
  /\ Claim(c)
  /\ receiving' = [receiving EXCEPT ![c] = TRUE]
  /\ UNCHANGED <<kernel, regressions, first, last, slot, received, cancelled>>

\* Mutated form: a failed first snapshot returns without a word.
MutFirstSnapshot(c) ==
  /\ pc[c] = "starting"
  /\ \/ /\ first' = [first EXCEPT ![c] = Snapshot]
        /\ last' = [last EXCEPT ![c] = Snapshot]
        /\ pc' = [pc EXCEPT ![c] = "sampling"]
        /\ UNCHANGED outbox
     \/ Publish(c, Nothing, "closed") /\ UNCHANGED <<first, last>>
  /\ UNCHANGED <<kernel, regressions, started, slot, received, receiving, cancelled>>

\* startSampling: without a first snapshot the sampler reports and gives up.
FirstSnapshot(c) ==
  /\ pc[c] = "starting"
  /\ \/ /\ first' = [first EXCEPT ![c] = Snapshot]
        /\ last' = [last EXCEPT ![c] = Snapshot]
        /\ pc' = [pc EXCEPT ![c] = "sampling"]
        /\ UNCHANGED outbox
     \/ Publish(c, Error, "failing") /\ UNCHANGED <<first, last>>
  /\ UNCHANGED <<kernel, regressions, started, slot, received, receiving, cancelled>>

\* Mutated form: a snapshot that shows a correction is not kept.
MutLastAfter(c) == IF Snapshot.idle >= last[c].idle THEN Snapshot ELSE last[c]

\* last = snap, whatever the difference was.
LastAfter(c) == Snapshot

\* The tick, with a readable /proc/stat.
Sample(c) ==
  /\ pc[c] = "sampling"
  /\ Publish(c, Observation(last[c], Snapshot), "publishing")
  /\ last' = [last EXCEPT ![c] = LastAfter(c)]
  /\ UNCHANGED <<kernel, regressions, started, first, slot, received, receiving, cancelled>>

\* The tick, with a snapshot that fails: the last one stays, so the next
\* observation covers both periods.
SampleFails(c) ==
  /\ pc[c] = "sampling"
  /\ Publish(c, Error, "publishing")
  /\ UNCHANGED <<kernel, regressions, started, first, last, slot, received, receiving,
                 cancelled>>

\* Mutated form: the send overwrites what the receiver has not taken yet.
MutHasRoom(c) == TRUE

\* A send on a channel of capacity one waits until it is empty.
HasRoom(c) == slot[c] = Nothing

\* The select takes the send.
Send(c) ==
  /\ pc[c] \in {"publishing", "failing"} /\ HasRoom(c)
  /\ slot' = [slot EXCEPT ![c] = outbox[c]]
  /\ Publish(c, Nothing, IF pc[c] = "publishing" THEN "sampling" ELSE "closed")
  /\ UNCHANGED <<kernel, regressions, started, first, last, received, receiving, cancelled>>

\* Mutated form: only the send before a return looks at the context.
MutAbandon(c) ==
  /\ pc[c] = "failing" /\ cancelled
  /\ Publish(c, Nothing, "closed")
  /\ UNCHANGED <<kernel, regressions, started, first, last, slot, received, receiving,
                 cancelled>>

\* The select takes ctx.Done() and the observation is lost.  After a sample
\* the loop returns; after an error it goes on and will find the context done.
Abandon(c) ==
  /\ pc[c] \in {"publishing", "failing"} /\ cancelled
  /\ Publish(c, Nothing, IF pc[c] = "publishing" /\ outbox[c] = Error
                         THEN "sampling" ELSE "closed")
  /\ UNCHANGED <<kernel, regressions, started, first, last, slot, received, receiving,
                 cancelled>>

\* The loop takes ctx.Done() and closes the channel.
Quit(c) ==
  /\ pc[c] = "sampling" /\ cancelled
  /\ pc' = [pc EXCEPT ![c] = "closed"]
  /\ UNCHANGED <<kernel, regressions, started, first, last, outbox, slot, received,
                 receiving, cancelled>>

-----------------------------------------------------------------------------
(***************************************************************************)
(* The receiver: AdaptiveController.consumeEstimator.                      *)
(***************************************************************************)
Receive(c) ==
  /\ receiving[c] /\ slot[c] # Nothing
  /\ got' = [got EXCEPT ![c] = [busy  |-> @.busy + slot[c].busy,
                                total |-> @.total + slot[c].total]]
  /\ warned' = [warned EXCEPT ![c] = @ \/ slot[c] = Error]
  /\ slot' = [slot EXCEPT ![c] = Nothing]
  /\ UNCHANGED <<kernel, regressions, started, sampling, receiving, cancelled>>

\* Mutated form: a closed channel ends the receiver before it is drained.
MutStopReceiving(c) ==
  /\ receiving[c]
  /\ cancelled \/ pc[c] = "closed"
  /\ receiving' = [receiving EXCEPT ![c] = FALSE]
  /\ UNCHANGED <<kernel, regressions, started, sampling, slot, received, cancelled>>

\* Mutated form: an observation with an error ends the receiver.
MutStopOnError(c) ==
  /\ receiving[c]
  /\ cancelled \/ warned[c] \/ (pc[c] = "closed" /\ slot[c] = Nothing)
  /\ receiving' = [receiving EXCEPT ![c] = FALSE]
  /\ UNCHANGED <<kernel, regressions, started, sampling, slot, received, cancelled>>

\* The context is done, or the channel is closed and drained.
StopReceiving(c) ==
  /\ receiving[c]
  /\ cancelled \/ (pc[c] = "closed" /\ slot[c] = Nothing)
  /\ receiving' = [receiving EXCEPT ![c] = FALSE]
  /\ UNCHANGED <<kernel, regressions, started, sampling, slot, received, cancelled>>

Cancel ==
  /\ ~cancelled
  /\ cancelled' = TRUE
  /\ UNCHANGED <<kernel, regressions, started, sampling, slot, received, receiving>>

Goroutine(c) ==
  FirstSnapshot(c) \/ Sample(c) \/ SampleFails(c) \/ Send(c) \/ Abandon(c) \/ Quit(c)

Receiver(c) == Receive(c) \/ StopReceiving(c)

Next ==
  \/ KernelTick
  \/ IdleRegresses
  \/ \E c \in Callers : Run(c) \/ Goroutine(c) \/ Receiver(c)
  \/ Cancel

Spec == Init /\ [][Next]_vars

(***************************************************************************)
(* Fairness: the goroutines run, the ticker fires.  Both selects take a    *)
(* ready ctx.Done() ever and again, hence the strong fairness.  Callers,   *)
(* the kernel and the success of a snapshot are left free.                 *)
(***************************************************************************)
Fairness ==
  \A c \in Callers :
    /\ WF_vars(Goroutine(c))
    /\ WF_vars(Receiver(c))
    /\ SF_vars(Quit(c))
    /\ SF_vars(Abandon(c))

FairSpec == Spec /\ Fairness

-----------------------------------------------------------------------------
Snapshots == [idle : Nat, total : Nat]
Items == [kind : {"nothing", "error", "sample"}, busy : Nat, total : Nat]

\* The variables keep their types and bounds.
TypeOK ==
  /\ kernel \in [busy : 0 .. MaxJiffies, idle : 0 .. MaxJiffies]
  /\ regressions \in 0 .. MaxRegressions
  /\ started \in BOOLEAN /\ cancelled \in BOOLEAN
  /\ pc \in [Callers -> {"idle", "starting", "sampling", "publishing", "failing", "closed"}]
  /\ first \in [Callers -> Snapshots] /\ last \in [Callers -> Snapshots]
  /\ outbox \in [Callers -> Items] /\ slot \in [Callers -> Items]
  /\ got \in [Callers -> [busy : Nat, total : Nat]]
  /\ warned \in [Callers -> BOOLEAN] /\ receiving \in [Callers -> BOOLEAN]

Live(c) == pc[c] \in {"sampling", "publishing"}

\* What the sampler has reported so far: taken, in the channel, on its way.
Reported(c) ==
  [busy  |-> got[c].busy + slot[c].busy + outbox[c].busy,
   total |-> got[c].total + slot[c].total + outbox[c].total]

Busy(snapshot) == snapshot.total - snapshot.idle

\* As long as the counters only grow every jiffy between the first and the
\* last snapshot is reported exactly once: failed snapshots, a slow receiver
\* and the two places an observation waits in lose and repeat nothing.
JiffiesConserved ==
  regressions = 0 =>
    \A c \in Callers : Live(c) =>
      /\ Reported(c).total = last[c].total - first[c].total
      /\ Reported(c).busy = Busy(last[c]) - Busy(first[c])

\* A correction of the idle counter never makes the host look busier than it
\* was: the reported work is at most the work done.
WorkNotOverstated ==
  \A c \in Callers : Reported(c).busy <= kernel.busy - Busy(first[c])

\* The quotient the controller compares with its thresholds is a ratio, and
\* no busy jiffies come without elapsed ones.
RatioDefined ==
  \A c \in Callers :
    /\ slot[c].busy \in 0 .. slot[c].total
    /\ outbox[c].busy \in 0 .. outbox[c].total

\* An observation can be trusted whatever the counters and the receiver did:
\* it is a ratio, of time that passed and of no more work than was done.
ObservationsSound == WorkNotOverstated /\ RatioDefined

\* However often Run is called, one goroutine reads the counters.
OneSampler ==
  \A c, d \in Callers :
    pc[c] \in {"starting", "sampling", "publishing"} /\
    pc[d] \in {"starting", "sampling", "publishing"} => c = d

\* A channel closed on a live context tells why: a refused Run and a failed
\* first snapshot leave an error the receiver has seen or will see.
ClosedWithReason ==
  \A c \in Callers : pc[c] = "closed" /\ ~cancelled => warned[c] \/ slot[c] = Error

\* Every caller of Run is served: by the one sampler, or with the reason why not.
CallersServed == OneSampler /\ ClosedWithReason

\* The guard never dies in silence: the receiver of a channel closed on a
\* live context has seen the error by the time it leaves.
DeathIsReported ==
  \A c \in Callers :
    pc[c] = "closed" /\ ~cancelled ~> warned[c] \/ cancelled

\* Once the context is cancelled every goroutine ends, also one that was
\* blocked on a full channel whose receiver has left.
SamplerStops ==
  \A c \in Callers :
    /\ cancelled /\ pc[c] # "idle" ~> pc[c] = "closed"
    /\ cancelled /\ receiving[c] ~> ~receiving[c]

\* A send in progress ends: neither side waits for the other for ever.
SendsComplete ==
  \A c \in Callers : pc[c] = "publishing" ~> pc[c] # "publishing"

\* The channel of one element deadlocks nobody, before and after cancellation.
SamplerMoves == SamplerStops /\ SendsComplete
=============================================================================
