-------------------------- MODULE WorkerPoolProofs --------------------------
(***************************************************************************)
(* Proofs about WorkerPool, for any number of workers, any grid and any    *)
(* thresholds.                                                             *)
(***************************************************************************)
EXTENDS WorkerPool, TLAPS

USE DEF LateBound

\* SetTarget stores a value of the grid.
LEMMA PoolTargetOnGrid ==
  ASSUME NEW t \in Int
  PROVE  PoolTarget(t) \in 0 .. Full
BY PoolAssumption DEF PoolTarget, Clamp

\* The type invariant is needed for the count to be a number, the worker's
\* place for the count to be at most one.
IInv == TypeOK /\ AtMostOneLateSlice

\* NewPool and Start establish the invariant.
LEMMA InitEstablishes == Init => IInv
<1> SUFFICES ASSUME Init PROVE IInv
  OBVIOUS
<1>1. targetBits \in 0 .. Full
  BY PoolTargetOnGrid DEF Init
<1>2. 0 \in 0 .. Full /\ 0 \in 0 .. LateBound
  BY PoolAssumption
<1>3. TypeOK
  <2>1. slice \in [Workers -> 0 .. Full] /\ late \in [Workers -> 0 .. LateBound]
    BY <1>2 DEF Init
  <2> QED
    BY <1>1, <2>1 DEF Init, TypeOK
<1>4. AtMostOneLateSlice
  BY DEF Init, AtMostOneLateSlice
<1> QED
  BY <1>3, <1>4 DEF IInv

\* A step that moves one worker and neither reads the duty cycle nor sends
\* the worker to read it under a pause keeps the count.
LEMMA MovePreserves ==
  ASSUME IInv, NEW w \in Workers, NEW from, NEW to, Move(w, from, to),
         to \in {"selecting", "checking", "reading", "busy", "resting", "exited"},
         to = "reading" => ~paused,
         UNCHANGED <<targetBits, paused, slice, late, cancelled>>
  PROVE  IInv'
<1>1. TypeOK'
  BY DEF IInv, TypeOK, Move
<1>2. AtMostOneLateSlice'
  BY DEF IInv, TypeOK, AtMostOneLateSlice, Move
<1> QED
  BY <1>1, <1>2 DEF IInv

\* Reading the duty cycle is the only step that counts a slice, and it takes
\* the worker away from the place the invariant is about.
LEMMA ReadTargetPreserves ==
  ASSUME IInv, NEW w \in Workers, ReadTarget(w)
  PROVE  IInv'
<1>1. pc[w] = "reading" /\ late[w] \in 0 .. 1
  BY DEF IInv, TypeOK, AtMostOneLateSlice, ReadTarget, Move
<1>2. paused => late[w] = 0
  BY <1>1 DEF IInv, AtMostOneLateSlice
<1>3. TypeOK'
  BY <1>1 DEF IInv, TypeOK, ReadTarget, LateAfter, Move
<1>4. ASSUME NEW v \in Workers
      PROVE  late'[v] <= 1 /\ (late'[v] = 1 /\ paused' => pc'[v] # "reading")
  <2>1. CASE v = w
    <3>1. pc'[w] # "reading"
      BY DEF IInv, TypeOK, ReadTarget, Move
    <3>2. late'[w] <= 1
      BY <1>1, <1>2 DEF IInv, TypeOK, ReadTarget, LateAfter
    <3> QED
      BY <2>1, <3>1, <3>2
  <2>2. CASE v # w
    BY <2>2 DEF IInv, TypeOK, AtMostOneLateSlice, ReadTarget, Move
  <2> QED
    BY <2>1, <2>2
<1> QED
  BY <1>3, <1>4 DEF IInv, AtMostOneLateSlice

\* A client call moves no worker; a new pause counts from zero.
LEMMA ClientPreserves ==
  ASSUME IInv, Client
  PROVE  IInv'
<1>1. CASE \E t \in Targets : SetTarget(t)
  <2>1. PICK t \in Targets : SetTarget(t)
    BY <1>1
  <2>2. targetBits' \in 0 .. Full
    BY <2>1, ClientAssumption, PoolTargetOnGrid DEF SetTarget
  <2> QED
    BY <2>1, <2>2 DEF SetTarget, IInv, TypeOK, AtMostOneLateSlice
<1>2. CASE \E util \in Utils, runnable \in Runnables : ObserveHostLoad(util, runnable)
  <2>1. PICK util \in Utils, runnable \in Runnables : ObserveHostLoad(util, runnable)
    BY <1>2
  <2>2. paused' \in BOOLEAN
    BY <2>1 DEF ObserveHostLoad, PausedAfter, RunnableGuardHit
  <2>3. CASE paused /\ paused'
    BY <2>1, <2>2, <2>3 DEF ObserveHostLoad, IInv, TypeOK, AtMostOneLateSlice
  <2>4. CASE ~(paused /\ paused')
    BY <2>1, <2>2, <2>4 DEF ObserveHostLoad, IInv, TypeOK, AtMostOneLateSlice
  <2> QED
    BY <2>3, <2>4
<1>3. CASE Cancel
  BY <1>3 DEF Cancel, IInv, TypeOK, AtMostOneLateSlice
<1> QED
  BY <1>1, <1>2, <1>3 DEF Client

\* The invariant holds for every pool.
THEOREM Safety == Spec => []IInv
<1>1. IInv /\ [Next]_vars => IInv'
  <2> SUFFICES ASSUME IInv, [Next]_vars PROVE IInv'
    OBVIOUS
  <2>1. CASE Client
    BY <2>1, ClientPreserves
  <2>2. ASSUME NEW w \in Workers, Worker(w) PROVE IInv'
    <3>1. CASE Started(w)
      BY <3>1, MovePreserves DEF Started
    <3>2. CASE Exit(w)
      BY <3>2, MovePreserves DEF Exit
    <3>3. CASE Wake(w)
      BY <3>3, MovePreserves DEF Wake
    <3>4. CASE CheckPaused(w)
      <4>1. CASE paused
        BY <3>4, <4>1, MovePreserves DEF CheckPaused
      <4>2. CASE ~paused
        BY <3>4, <4>2, MovePreserves DEF CheckPaused
      <4> QED
        BY <4>1, <4>2
    <3>5. CASE ReadTarget(w)
      BY <3>5, ReadTargetPreserves
    <3>6. CASE Burn(w)
      BY <3>6, MovePreserves DEF Burn
    <3>7. CASE Rest(w)
      BY <3>7, MovePreserves DEF Rest
    <3> QED
      BY <2>2, <3>1, <3>2, <3>3, <3>4, <3>5, <3>6, <3>7 DEF Worker
  <2>3. CASE UNCHANGED vars
    BY <2>3 DEF vars, IInv, TypeOK, AtMostOneLateSlice
  <2> QED
    BY <2>1, <2>2, <2>3 DEF Next
<1> QED
  BY <1>1, InitEstablishes, PTL DEF Spec

\* A pause costs at most one slice per worker.
THEOREM PauseIsPrompt == Spec => []AtMostOneLateSlice
BY Safety, PTL DEF IInv

\* Type correctness.
THEOREM TypeCorrect == Spec => []TypeOK
BY Safety, PTL DEF IInv

\* A zero duty cycle starts no slice.
THEOREM ZeroIsObeyed == Spec => ZeroStartsNothing
<1> DEFINE Obeys(w) == targetBits = 0 /\ pc'[w] = "busy" => pc[w] = "busy"
<1>1. ASSUME IInv, [Next]_vars, NEW w \in Workers
      PROVE  Obeys(w)
  <2>1. CASE UNCHANGED pc
    BY <2>1
  <2>2. ASSUME NEW v \in Workers, Worker(v) PROVE Obeys(w)
    <3>1. CASE ReadTarget(v)
      BY <1>1, <3>1 DEF ReadTarget, Move, IInv, TypeOK
    <3>2. CASE ~ReadTarget(v)
      BY <1>1, <2>2, <3>2
         DEF Worker, Started, Exit, Wake, CheckPaused, Burn, Rest, Move, IInv, TypeOK
    <3> QED
      BY <3>1, <3>2
  <2> QED
    BY <1>1, <2>1, <2>2 DEF Next, Client, SetTarget, ObserveHostLoad, Cancel, vars
<1>2. IInv /\ [Next]_vars => [\A w \in Workers : Obeys(w)]_vars
  BY <1>1
<1>3. QED
  BY <1>2, Safety, PTL DEF Spec, ZeroStartsNothing
=============================================================================
