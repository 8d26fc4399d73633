--------------------------- MODULE SamplerProofs ----------------------------
(***************************************************************************)
(* Proofs about Sampler, for any callers and any bounds on the counters    *)
(* and their corrections.                                                  *)
(***************************************************************************)
EXTENDS Sampler, TLAPS

USE DEF Snapshots, Items

\* An observation is well formed, its busy part within its total, and neither
\* more than the counters moved by.
LEMMA ObservationFacts ==
  ASSUME NEW previous \in Snapshots, NEW current \in Snapshots
  PROVE  /\ Observation(previous, current) \in Items
         /\ Observation(previous, current).kind = "sample"
         /\ Observation(previous, current).busy \in 0 .. Observation(previous, current).total
BY DEF Observation, Diff

\* On counters that only grew the observation is the exact difference.
LEMMA ObservationExact ==
  ASSUME NEW previous \in Snapshots, NEW current \in Snapshots,
         previous.idle <= current.idle,
         Busy(previous) <= Busy(current)
  PROVE  /\ Observation(previous, current).total = current.total - previous.total
         /\ Observation(previous, current).busy = Busy(current) - Busy(previous)
BY DEF Observation, Diff, Busy

\* On idle counters that moved either way the busy part is not overstated.
LEMMA ObservationBounded ==
  ASSUME NEW previous \in Snapshots, NEW current \in Snapshots,
         Busy(previous) <= Busy(current)
  PROVE  Observation(previous, current).busy <= Busy(current) - Busy(previous)
BY DEF Observation, Diff, Busy

-----------------------------------------------------------------------------
(***************************************************************************)
(* The inductive invariant.  An observation is formed only while none is   *)
(* on its way (Placed), and the last snapshot is never ahead of the kernel *)
(* (Accounted); without these two facts the conservation of jiffies says   *)
(* nothing about the next tick.                                            *)
(***************************************************************************)
Placed(c) ==
  /\ pc[c] \in {"idle", "starting"} =>
       /\ first[c] = Boot /\ last[c] = Boot
       /\ got[c] = Zero /\ slot[c] = Nothing /\ outbox[c] = Nothing
  /\ pc[c] \in {"sampling", "closed"} => outbox[c] = Nothing
  /\ pc[c] = "failing" => outbox[c] = Error

Accounted(c) ==
  /\ Busy(first[c]) <= Busy(last[c]) /\ Busy(last[c]) <= kernel.busy
  /\ Reported(c).busy <= Busy(last[c]) - Busy(first[c])
  /\ regressions = 0 => last[c].idle <= kernel.idle
  /\ regressions = 0 /\ Live(c) =>
       /\ Reported(c).total = last[c].total - first[c].total
       /\ Reported(c).busy = Busy(last[c]) - Busy(first[c])

Ratio(c) ==
  /\ slot[c].busy \in 0 .. slot[c].total
  /\ outbox[c].busy \in 0 .. outbox[c].total

Reason(c) == pc[c] = "closed" /\ ~cancelled => warned[c] \/ slot[c] = Error

CallerInv(c) == Placed(c) /\ Accounted(c) /\ Ratio(c) /\ Reason(c)

IInv ==
  /\ TypeOK
  /\ \A c \in Callers : CallerInv(c)
  /\ ~started => \A c \in Callers : pc[c] = "idle"
  /\ OneSampler

\* What a step leaves alone keeps its part of the invariant.
LEMMA OthersKeep ==
  ASSUME NEW c \in Callers, CallerInv(c), UNCHANGED <<kernel, regressions>>,
         cancelled => cancelled',
         pc'[c] = pc[c], first'[c] = first[c], last'[c] = last[c], outbox'[c] = outbox[c],
         slot'[c] = slot[c], got'[c] = got[c], warned'[c] = warned[c]
  PROVE  CallerInv(c)'
BY DEF CallerInv, Placed, Accounted, Ratio, Reason, Reported, Live, Busy

\* NewSampler establishes the invariant.
LEMMA InitEstablishes == Init => IInv
<1> SUFFICES ASSUME Init PROVE IInv
  OBVIOUS
<1>1. /\ Boot \in Snapshots /\ Nothing \in Items /\ Zero \in [busy : Nat, total : Nat]
      /\ kernel \in [busy : 0 .. MaxJiffies, idle : 0 .. MaxJiffies]
  BY BoundAssumption DEF Init, Boot, Nothing, Zero
<1>2. TypeOK
  <2>1. first \in [Callers -> Snapshots] /\ last \in [Callers -> Snapshots]
    BY <1>1 DEF Init
  <2>2. outbox \in [Callers -> Items] /\ slot \in [Callers -> Items]
    BY <1>1 DEF Init
  <2>3. got \in [Callers -> [busy : Nat, total : Nat]]
    BY <1>1 DEF Init
  <2>4. /\ pc \in [Callers -> {"idle", "starting", "sampling", "publishing",
                             "failing", "closed"}]
    BY DEF Init
  <2>5. warned \in [Callers -> BOOLEAN] /\ receiving \in [Callers -> BOOLEAN]
    BY Zenon DEF Init
  <2>6. regressions \in 0 .. MaxRegressions
    BY BoundAssumption DEF Init
  <2>7. started \in BOOLEAN /\ cancelled \in BOOLEAN
    BY DEF Init
  <2> QED
    BY <1>1, <2>1, <2>2, <2>3, <2>4, <2>5, <2>6, <2>7 DEF TypeOK
<1>3. ASSUME NEW c \in Callers PROVE CallerInv(c)
  <2>1. /\ pc[c] = "idle" /\ first[c] = Boot /\ last[c] = Boot
        /\ got[c] = Zero /\ slot[c] = Nothing /\ outbox[c] = Nothing
        /\ kernel.busy = 0
    BY DEF Init
  <2>2. Placed(c) /\ Reason(c)
    BY <2>1 DEF Placed, Reason
  <2>3. Ratio(c)
    BY <2>1 DEF Ratio, Nothing
  <2>4. Accounted(c)
    <3>1. Busy(Boot) = 0
      BY DEF Busy, Boot
    <3>2. Reported(c).busy = 0 /\ Reported(c).total = 0
      BY <2>1 DEF Reported, Zero, Nothing
    <3>3. last[c].idle = 0 /\ kernel.idle = 0
      BY <2>1 DEF Init, Boot
    <3> QED
      BY <2>1, <3>1, <3>2, <3>3 DEF Accounted, Live
  <2> QED
    BY <2>2, <2>3, <2>4 DEF CallerInv
<1> QED
  BY <1>2, <1>3 DEF Init, IInv, OneSampler

\* The kernel moves its counters; the sampler has not looked yet.
LEMMA KernelPreserves ==
  ASSUME IInv, KernelTick \/ IdleRegresses
  PROVE  IInv'
<1>1. /\ kernel'.busy \in 0 .. MaxJiffies /\ kernel'.idle \in 0 .. MaxJiffies
      /\ kernel' \in [busy : 0 .. MaxJiffies, idle : 0 .. MaxJiffies]
      /\ kernel.busy <= kernel'.busy
      /\ regressions' \in 0 .. MaxRegressions
      /\ regressions' = 0 => regressions = 0 /\ kernel.idle <= kernel'.idle
  BY BoundAssumption DEF IInv, TypeOK, KernelTick, IdleRegresses
<1>2. UNCHANGED <<started, sampling, slot, received, receiving, cancelled>>
  BY DEF KernelTick, IdleRegresses
<1>3. TypeOK'
  BY <1>1, <1>2 DEF IInv, TypeOK, sampling, received
<1>4. ASSUME NEW c \in Callers PROVE CallerInv(c)'
  <2>1. last[c] \in Snapshots /\ kernel.busy \in Nat /\ kernel.idle \in Nat
    BY DEF IInv, TypeOK
  <2> QED
    BY <1>1, <1>2, <2>1
       DEF IInv, CallerInv, Placed, Accounted, Ratio, Reason, Reported, Live, Busy,
           sampling, received
<1> QED
  BY <1>2, <1>3, <1>4 DEF IInv, OneSampler, sampling

Active == {"starting", "sampling", "publishing"}

\* A step of one caller's goroutine or receiver preserves the invariant if it
\* preserves that caller's part and does not make an idle caller active.
LEMMA OneCallerMoves ==
  ASSUME IInv, NEW c \in Callers,
         TypeOK', CallerInv(c)',
         UNCHANGED <<kernel, regressions, started, cancelled>>,
         pc'[c] = pc[c] \/ pc[c] # "idle",
         pc'[c] \in Active => pc[c] \in Active,
         \A d \in Callers \ {c} :
           /\ pc'[d] = pc[d] /\ first'[d] = first[d] /\ last'[d] = last[d]
           /\ outbox'[d] = outbox[d] /\ slot'[d] = slot[d]
           /\ got'[d] = got[d] /\ warned'[d] = warned[d]
  PROVE  IInv'
<1>1. ASSUME NEW d \in Callers PROVE CallerInv(d)'
  <2>1. CASE d = c
    BY <2>1
  <2>2. CASE d # c
    BY <2>2, OthersKeep DEF IInv
  <2> QED
    BY <2>1, <2>2
<1>2. ~started' => \A d \in Callers : pc'[d] = "idle"
  <2> SUFFICES ASSUME ~started', NEW d \in Callers PROVE pc'[d] = "idle"
    OBVIOUS
  <2>1. pc[d] = "idle" /\ pc[c] = "idle"
    BY DEF IInv
  <2> QED
    BY <2>1
<1>3. OneSampler'
  <2> SUFFICES ASSUME NEW d \in Callers, NEW e \in Callers,
                      pc'[d] \in Active, pc'[e] \in Active
               PROVE  d = e
    BY DEF OneSampler, Active
  <2>1. pc[d] \in Active /\ pc[e] \in Active
    OBVIOUS
  <2> QED
    BY <2>1 DEF IInv, OneSampler, Active
<1> QED
  BY <1>1, <1>2, <1>3 DEF IInv

\* The compare-and-swap lets one caller through.
LEMMA RunPreserves ==
  ASSUME IInv, NEW c \in Callers, Run(c)
  PROVE  IInv'
<1>1. /\ pc[c] = "idle" /\ started' = TRUE
      /\ ~started => pc' = [pc EXCEPT ![c] = "starting"] /\ outbox' = outbox
      /\ started => /\ pc' = [pc EXCEPT ![c] = "failing"]
                    /\ outbox' = [outbox EXCEPT ![c] = Error]
  BY DEF Run, Claim, Publish
<1>2. /\ UNCHANGED <<kernel, regressions, first, last, slot, got, warned, cancelled>>
      /\ receiving' = [receiving EXCEPT ![c] = TRUE]
  BY DEF Run, received
<1>3. Error \in Items
  BY DEF Error
<1>4. TypeOK'
  <2>1. pc' \in [Callers -> {"idle", "starting", "sampling", "publishing",
                             "failing", "closed"}]
    BY <1>1 DEF IInv, TypeOK
  <2>2. outbox' \in [Callers -> Items]
    BY <1>1, <1>3 DEF IInv, TypeOK
  <2>3. receiving' \in [Callers -> BOOLEAN]
    BY <1>2 DEF IInv, TypeOK
  <2> QED
    BY <1>1, <1>2, <2>1, <2>2, <2>3 DEF IInv, TypeOK
<1>5. ASSUME NEW d \in Callers PROVE CallerInv(d)'
  <2>1. CASE d # c
    BY <1>1, <1>2, <2>1, OthersKeep DEF IInv, TypeOK
  <2>2. CASE d = c
    <3>1. \/ pc'[c] = "starting" /\ outbox'[c] = outbox[c]
          \/ pc'[c] = "failing" /\ outbox'[c] = Error
      BY <1>1 DEF IInv, TypeOK
    <3>2. CallerInv(c)
      BY DEF IInv
    <3>3. Placed(c)' /\ Reason(c)'
      BY <1>1, <1>2, <3>1, <3>2 DEF CallerInv, Placed, Reason
    <3>4. outbox[c] = Nothing /\ outbox'[c].busy = 0 /\ outbox'[c].total = 0
      BY <1>1, <3>1, <3>2 DEF CallerInv, Placed, Error, Nothing
    <3>5. Ratio(c)'
      BY <1>2, <3>2, <3>4 DEF CallerInv, Ratio
    <3>6. Accounted(c)'
      BY <1>2, <3>1, <3>2, <3>4 DEF CallerInv, Accounted, Reported, Busy, Live, Nothing
    <3> QED
      BY <2>2, <3>3, <3>5, <3>6 DEF CallerInv
  <2> QED
    BY <2>1, <2>2
<1>6. OneSampler'
  <2>1. CASE started
    BY <1>1, <2>1 DEF IInv, OneSampler, TypeOK
  <2>2. CASE ~started
    <3>1. \A d \in Callers : pc[d] = "idle"
      BY <2>2 DEF IInv
    <3>2. \A d \in Callers : d # c => pc'[d] = "idle"
      BY <1>1, <2>2, <3>1 DEF IInv, TypeOK
    <3> QED
      BY <3>2 DEF OneSampler
  <2> QED
    BY <2>1, <2>2
<1> QED
  BY <1>1, <1>4, <1>5, <1>6 DEF IInv

\* The snapshot the kernel offers.
LEMMA SnapshotFacts ==
  ASSUME TypeOK
  PROVE  /\ Snapshot \in Snapshots
         /\ Busy(Snapshot) = kernel.busy /\ Snapshot.idle = kernel.idle
BY BoundAssumption DEF TypeOK, Snapshot, Busy

\* The first snapshot starts the account at zero.
LEMMA FirstSnapshotPreserves ==
  ASSUME IInv, NEW c \in Callers, FirstSnapshot(c)
  PROVE  IInv'
<1>1. pc[c] = "starting" /\ got[c] = Zero /\ slot[c] = Nothing /\ outbox[c] = Nothing
  BY DEF FirstSnapshot, IInv, CallerInv, Placed
<1>2. UNCHANGED <<kernel, regressions, started, slot, got, warned, receiving, cancelled>>
  BY DEF FirstSnapshot, received
<1>3. CASE /\ first' = [first EXCEPT ![c] = Snapshot]
           /\ last' = [last EXCEPT ![c] = Snapshot]
           /\ pc' = [pc EXCEPT ![c] = "sampling"]
           /\ UNCHANGED outbox
  <2>1. /\ pc'[c] = "sampling" /\ first'[c] = Snapshot /\ last'[c] = Snapshot
        /\ outbox'[c] = Nothing
    BY <1>1, <1>3 DEF IInv, TypeOK
  <2>2. TypeOK'
    BY <1>2, <1>3, SnapshotFacts DEF IInv, TypeOK
  <2>3. Reported(c)'.busy = 0 /\ Reported(c)'.total = 0
    BY <1>1, <1>2, <2>1 DEF Reported, Zero, Nothing
  <2>4. Accounted(c)'
    BY <1>2, <2>1, <2>3, SnapshotFacts DEF IInv, TypeOK, Accounted, Busy
  <2>5. Placed(c)' /\ Reason(c)' /\ Ratio(c)'
    BY <1>1, <1>2, <2>1 DEF Placed, Reason, Ratio, Nothing
  <2> QED
    BY <1>1, <1>2, <1>3, <2>1, <2>2, <2>4, <2>5, OneCallerMoves
       DEF CallerInv, Active, IInv, TypeOK
<1>4. CASE Publish(c, Error, "failing") /\ UNCHANGED <<first, last>>
  <2>1. pc'[c] = "failing" /\ outbox'[c] = Error
    BY <1>4 DEF Publish, IInv, TypeOK
  <2>2. TypeOK'
    <3>1. Error \in Items
      BY DEF Error
    <3> QED
      BY <1>2, <1>4, <3>1 DEF Publish, IInv, TypeOK
  <2>3. Accounted(c)'
    BY <1>1, <1>2, <1>4, <2>1
       DEF IInv, CallerInv, Accounted, Reported, Busy, Live, Nothing, Error, Zero
  <2>4. Placed(c)' /\ Reason(c)' /\ Ratio(c)'
    BY <1>1, <1>2, <2>1 DEF Placed, Reason, Ratio, Nothing, Error
  <2> QED
    BY <1>1, <1>2, <1>4, <2>1, <2>2, <2>3, <2>4, OneCallerMoves
       DEF CallerInv, Active, IInv, TypeOK, Publish
<1> QED
  BY <1>3, <1>4 DEF FirstSnapshot

\* A tick reports exactly what the counters moved by since the last snapshot.
LEMMA SamplePreserves ==
  ASSUME IInv, NEW c \in Callers, Sample(c)
  PROVE  IInv'
<1> DEFINE item == Observation(last[c], Snapshot)
<1>1. /\ pc[c] = "sampling" /\ outbox[c] = Nothing
      /\ last[c] \in Snapshots /\ first[c] \in Snapshots
      /\ got[c] \in [busy : Nat, total : Nat] /\ slot[c] \in Items
  BY DEF Sample, IInv, CallerInv, Placed, TypeOK
<1>2. /\ UNCHANGED <<kernel, regressions, started, first, slot, got, warned,
                     receiving, cancelled>>
      /\ pc' = [pc EXCEPT ![c] = "publishing"]
      /\ outbox' = [outbox EXCEPT ![c] = item]
      /\ last' = [last EXCEPT ![c] = Snapshot]
  BY DEF Sample, Publish, LastAfter, received
<1>3. /\ Snapshot \in Snapshots /\ Busy(Snapshot) = kernel.busy
      /\ Snapshot.idle = kernel.idle
  BY SnapshotFacts DEF IInv
<1>4. Busy(last[c]) <= Busy(Snapshot) /\ (regressions = 0 => last[c].idle <= Snapshot.idle)
  BY <1>3 DEF IInv, CallerInv, Accounted
<1>5. /\ item \in Items /\ item.busy \in 0 .. item.total
      /\ item.busy <= Busy(Snapshot) - Busy(last[c])
      /\ regressions = 0 =>
           /\ item.total = Snapshot.total - last[c].total
           /\ item.busy = Busy(Snapshot) - Busy(last[c])
  BY <1>1, <1>3, <1>4, ObservationFacts, ObservationExact, ObservationBounded
<1> HIDE DEF item
<1>6. TypeOK'
  <2>1. outbox' \in [Callers -> Items] /\ last' \in [Callers -> Snapshots]
    BY <1>2, <1>3, <1>5 DEF IInv, TypeOK
  <2> QED
    BY <1>2, <2>1 DEF IInv, TypeOK
<1>7. pc'[c] = "publishing" /\ outbox'[c] = item /\ last'[c] = Snapshot
  BY <1>2 DEF IInv, TypeOK
<1>8. Accounted(c)'
  <2>1. /\ Reported(c)'.busy = Reported(c).busy + item.busy
        /\ Reported(c)'.total = Reported(c).total + item.total
        /\ Reported(c).busy \in Int /\ Reported(c).total \in Int
    BY <1>1, <1>2, <1>5, <1>7 DEF Reported, Nothing
  <2>2. /\ Busy(first[c]) \in Int /\ Busy(last[c]) \in Int /\ Busy(Snapshot) \in Int
        /\ item.busy \in Int /\ item.total \in Int
    BY <1>1, <1>3, <1>5 DEF Busy
  <2>3. /\ Busy(first[c]) <= Busy(last[c])
        /\ Reported(c).busy <= Busy(last[c]) - Busy(first[c])
        /\ regressions = 0 =>
             /\ Reported(c).total = last[c].total - first[c].total
             /\ Reported(c).busy = Busy(last[c]) - Busy(first[c])
    BY <1>1 DEF IInv, CallerInv, Accounted, Live
  <2>4. Busy(first[c])' = Busy(first[c]) /\ Busy(last[c])' = Busy(Snapshot)
    BY <1>2, <1>7 DEF Busy
  <2>5. /\ Busy(first[c])' <= Busy(last[c])' /\ Busy(last[c])' <= kernel'.busy
        /\ Reported(c)'.busy <= Busy(last[c])' - Busy(first[c])'
        /\ regressions' = 0 => last'[c].idle <= kernel'.idle
    BY <1>2, <1>3, <1>4, <1>5, <1>7, <2>1, <2>2, <2>3, <2>4 DEF IInv, TypeOK
  <2>6. regressions' = 0 =>
          /\ Reported(c)'.total = last'[c].total - first'[c].total
          /\ Reported(c)'.busy = Busy(last[c])' - Busy(first[c])'
    BY <1>1, <1>2, <1>3, <1>5, <1>7, <2>1, <2>2, <2>3, <2>4
  <2> QED
    BY <2>5, <2>6 DEF Accounted
<1>9. Placed(c)' /\ Reason(c)' /\ Ratio(c)'
  BY <1>1, <1>2, <1>5, <1>7 DEF IInv, CallerInv, Placed, Reason, Ratio
<1> QED
  BY <1>1, <1>2, <1>6, <1>7, <1>8, <1>9, OneCallerMoves
     DEF CallerInv, Active, IInv, TypeOK

\* A failed snapshot reports nothing and forgets nothing.
LEMMA SampleFailsPreserves ==
  ASSUME IInv, NEW c \in Callers, SampleFails(c)
  PROVE  IInv'
<1>1. pc[c] = "sampling" /\ outbox[c] = Nothing
  BY DEF SampleFails, IInv, CallerInv, Placed
<1>2. /\ UNCHANGED <<kernel, regressions, started, first, last, slot, got, warned,
                     receiving, cancelled>>
      /\ pc' = [pc EXCEPT ![c] = "publishing"]
      /\ outbox' = [outbox EXCEPT ![c] = Error]
  BY DEF SampleFails, Publish, received
<1>3. TypeOK'
  <2>1. Error \in Items
    BY DEF Error
  <2> QED
    BY <1>2, <2>1 DEF IInv, TypeOK
<1>4. pc'[c] = "publishing" /\ outbox'[c] = Error
  BY <1>2 DEF IInv, TypeOK
<1>5. Accounted(c)'
  BY <1>1, <1>2, <1>4
     DEF IInv, CallerInv, Accounted, Reported, Busy, Live, Nothing, Error
<1>6. Placed(c)' /\ Reason(c)' /\ Ratio(c)'
  BY <1>1, <1>2, <1>4 DEF IInv, CallerInv, Placed, Reason, Ratio, Error
<1> QED
  BY <1>1, <1>2, <1>3, <1>4, <1>5, <1>6, OneCallerMoves
     DEF CallerInv, Active, IInv, TypeOK

\* A send moves the observation from the sampler into the channel.
LEMMA SendPreserves ==
  ASSUME IInv, NEW c \in Callers, Send(c)
  PROVE  IInv'
<1> DEFINE next == IF pc[c] = "publishing" THEN "sampling" ELSE "closed"
<1>1. /\ pc[c] \in {"publishing", "failing"} /\ slot[c] = Nothing
      /\ outbox[c] \in Items
      /\ pc[c] = "failing" => outbox[c] = Error
  BY DEF Send, HasRoom, IInv, CallerInv, Placed, TypeOK
<1>2. /\ UNCHANGED <<kernel, regressions, started, first, last, got, warned,
                     receiving, cancelled>>
      /\ pc' = [pc EXCEPT ![c] = next]
      /\ outbox' = [outbox EXCEPT ![c] = Nothing]
      /\ slot' = [slot EXCEPT ![c] = outbox[c]]
  BY DEF Send, Publish, received
<1>3. TypeOK'
  <2>1. Nothing \in Items
    BY DEF Nothing
  <2>2. outbox' \in [Callers -> Items] /\ slot' \in [Callers -> Items]
    BY <1>1, <1>2, <2>1 DEF IInv, TypeOK
  <2> QED
    BY <1>2, <2>2 DEF IInv, TypeOK
<1>4. pc'[c] = next /\ outbox'[c] = Nothing /\ slot'[c] = outbox[c]
  BY <1>2 DEF IInv, TypeOK
<1>5. Accounted(c)'
  <2>1. Reported(c)' = Reported(c)
    BY <1>1, <1>2, <1>4 DEF Reported, Nothing, IInv, TypeOK
  <2> QED
    BY <1>1, <1>2, <1>4, <2>1 DEF IInv, CallerInv, Accounted, Busy, Live
<1>6. Placed(c)' /\ Reason(c)' /\ Ratio(c)'
  BY <1>1, <1>2, <1>4 DEF IInv, CallerInv, Placed, Reason, Ratio, Nothing
<1> QED
  BY <1>1, <1>2, <1>3, <1>4, <1>5, <1>6, OneCallerMoves
     DEF CallerInv, Active, IInv, TypeOK

\* A send given up loses the observation, and the sampler is on its way out.
LEMMA AbandonPreserves ==
  ASSUME IInv, NEW c \in Callers, Abandon(c)
  PROVE  IInv'
<1> DEFINE next == IF pc[c] = "publishing" /\ outbox[c] = Error THEN "sampling" ELSE "closed"
<1>1. /\ pc[c] \in {"publishing", "failing"} /\ cancelled
      /\ outbox[c] \in Items /\ slot[c] \in Items
      /\ got[c] \in [busy : Nat, total : Nat]
  BY DEF Abandon, IInv, TypeOK
<1>2. /\ UNCHANGED <<kernel, regressions, started, first, last, slot, got, warned,
                     receiving, cancelled>>
      /\ pc' = [pc EXCEPT ![c] = next]
      /\ outbox' = [outbox EXCEPT ![c] = Nothing]
  BY DEF Abandon, Publish, received
<1>3. TypeOK'
  <2>1. Nothing \in Items
    BY DEF Nothing
  <2> QED
    BY <1>2, <2>1 DEF IInv, TypeOK
<1>4. pc'[c] = next /\ outbox'[c] = Nothing
  BY <1>2 DEF IInv, TypeOK
<1>5. Accounted(c)'
  <2>1. /\ Reported(c)'.busy <= Reported(c).busy
        /\ outbox[c] = Error => Reported(c)' = Reported(c)
        /\ Reported(c).busy \in Int /\ Reported(c)'.busy \in Int
    BY <1>1, <1>2, <1>4 DEF Reported, Nothing, Error
  <2>2. first[c] \in Snapshots /\ last[c] \in Snapshots
    BY DEF IInv, TypeOK
  <2> QED
    BY <1>1, <1>2, <1>4, <2>1, <2>2 DEF IInv, CallerInv, Accounted, Busy, Live
<1>6. Placed(c)' /\ Reason(c)' /\ Ratio(c)'
  BY <1>1, <1>2, <1>4 DEF IInv, CallerInv, Placed, Reason, Ratio, Nothing
<1> QED
  BY <1>1, <1>2, <1>3, <1>4, <1>5, <1>6, OneCallerMoves
     DEF CallerInv, Active, IInv, TypeOK

\* Leaving the loop loses nothing that was sent.
LEMMA QuitPreserves ==
  ASSUME IInv, NEW c \in Callers, Quit(c)
  PROVE  IInv'
<1>1. pc[c] = "sampling" /\ cancelled
  BY DEF Quit
<1>2. /\ UNCHANGED <<kernel, regressions, started, first, last, outbox, slot, got,
                     warned, receiving, cancelled>>
      /\ pc' = [pc EXCEPT ![c] = "closed"]
  BY DEF Quit, received
<1>3. TypeOK' /\ pc'[c] = "closed"
  BY <1>2 DEF IInv, TypeOK
<1>4. CallerInv(c)'
  BY <1>1, <1>2, <1>3
     DEF IInv, CallerInv, Placed, Accounted, Reason, Ratio, Reported, Busy, Live
<1> QED
  BY <1>1, <1>2, <1>3, <1>4, OneCallerMoves DEF Active, IInv, TypeOK

\* Receiving moves the observation from the channel to the receiver's sums.
LEMMA ReceivePreserves ==
  ASSUME IInv, NEW c \in Callers, Receive(c)
  PROVE  IInv'
<1>1. /\ slot[c] \in Items /\ outbox[c] \in Items
      /\ got[c] \in [busy : Nat, total : Nat]
      /\ slot[c] # Nothing
  BY DEF Receive, IInv, TypeOK
<1>2. /\ UNCHANGED <<kernel, regressions, started, pc, first, last, outbox,
                     receiving, cancelled>>
      /\ got' = [got EXCEPT ![c] = [busy  |-> got[c].busy + slot[c].busy,
                                    total |-> got[c].total + slot[c].total]]
      /\ warned' = [warned EXCEPT ![c] = warned[c] \/ slot[c] = Error]
      /\ slot' = [slot EXCEPT ![c] = Nothing]
  BY DEF Receive, sampling
<1>3. TypeOK'
  <2>1. Nothing \in Items
    BY DEF Nothing
  <2>2. slot' \in [Callers -> Items]
    BY <1>2, <2>1 DEF IInv, TypeOK
  <2>3. got' \in [Callers -> [busy : Nat, total : Nat]]
    BY <1>1, <1>2 DEF IInv, TypeOK
  <2>4. warned' \in [Callers -> BOOLEAN]
    BY <1>2 DEF IInv, TypeOK
  <2> QED
    BY <1>2, <2>2, <2>3, <2>4 DEF IInv, TypeOK
<1>4. /\ slot'[c] = Nothing
      /\ got'[c] = [busy  |-> got[c].busy + slot[c].busy,
                    total |-> got[c].total + slot[c].total]
      /\ warned'[c] = (warned[c] \/ slot[c] = Error)
  <2>1. slot'[c] = Nothing
    BY <1>2 DEF IInv, TypeOK
  <2>2. got'[c] = [busy  |-> got[c].busy + slot[c].busy,
                   total |-> got[c].total + slot[c].total]
    BY <1>2 DEF IInv, TypeOK
  <2>3. warned'[c] = (warned[c] \/ slot[c] = Error)
    BY <1>2, Zenon DEF IInv, TypeOK
  <2> QED
    BY <2>1, <2>2, <2>3
<1>5. Accounted(c)'
  <2>1. Reported(c)' = Reported(c)
    BY <1>1, <1>2, <1>4 DEF Reported, Nothing
  <2> QED
    BY <1>2, <2>1 DEF IInv, CallerInv, Accounted, Busy, Live
<1>6. Placed(c)'
  <2>1. pc[c] \notin {"idle", "starting"}
    BY <1>1 DEF IInv, CallerInv, Placed
  <2> QED
    BY <1>2, <2>1 DEF IInv, CallerInv, Placed
<1>7. Reason(c)' /\ Ratio(c)'
  <2>1. Reason(c)
    BY DEF IInv, CallerInv
  <2>2. Reason(c)'
    BY <1>2, <1>4, <2>1, Zenon DEF Reason
  <2>3. Ratio(c)'
    BY <1>2, <1>4 DEF IInv, CallerInv, Ratio, Nothing
  <2> QED
    BY <2>2, <2>3
<1>8. CallerInv(c)'
  BY <1>5, <1>6, <1>7 DEF CallerInv
<1>9. ASSUME NEW d \in Callers \ {c}
      PROVE  slot'[d] = slot[d] /\ got'[d] = got[d] /\ warned'[d] = warned[d]
  <2>1. slot'[d] = slot[d] /\ got'[d] = got[d]
    BY <1>2 DEF IInv, TypeOK
  <2>2. warned'[d] = warned[d]
    BY <1>2, Zenon DEF IInv, TypeOK
  <2> QED
    BY <2>1, <2>2
<1> QED
  BY <1>2, <1>3, <1>8, <1>9, OneCallerMoves

\* Leaving changes nothing that was reported.
LEMMA StopReceivingPreserves ==
  ASSUME IInv, NEW c \in Callers, StopReceiving(c)
  PROVE  IInv'
<1>1. /\ UNCHANGED <<kernel, regressions, started, pc, first, last, outbox, slot,
                     got, warned, cancelled>>
      /\ receiving' = [receiving EXCEPT ![c] = FALSE]
  BY DEF StopReceiving, sampling, received
<1>2. TypeOK'
  BY <1>1 DEF IInv, TypeOK
<1>3. \A d \in Callers : CallerInv(d)'
  BY <1>1, OthersKeep DEF IInv
<1> QED
  BY <1>1, <1>2, <1>3 DEF IInv, OneSampler

\* Cancelling only removes obligations.
LEMMA CancelPreserves ==
  ASSUME IInv, Cancel
  PROVE  IInv'
<1>1. /\ UNCHANGED <<kernel, regressions, started, pc, first, last, outbox, slot,
                     got, warned, receiving>>
      /\ cancelled' = TRUE
  BY DEF Cancel, sampling, received
<1>2. TypeOK'
  BY <1>1 DEF IInv, TypeOK
<1>3. \A d \in Callers : CallerInv(d)'
  BY <1>1, OthersKeep DEF IInv
<1> QED
  BY <1>1, <1>2, <1>3 DEF IInv, OneSampler

-----------------------------------------------------------------------------
\* The invariant holds for every sampler.
THEOREM Safety == Spec => []IInv
<1>1. IInv /\ [Next]_vars => IInv'
  <2> SUFFICES ASSUME IInv, [Next]_vars PROVE IInv'
    OBVIOUS
  <2>1. CASE KernelTick \/ IdleRegresses
    BY <2>1, KernelPreserves
  <2>2. ASSUME NEW c \in Callers, Run(c) \/ Goroutine(c) \/ Receiver(c)
        PROVE  IInv'
    BY <2>2, RunPreserves, FirstSnapshotPreserves, SamplePreserves, SampleFailsPreserves,
       SendPreserves, AbandonPreserves, QuitPreserves, ReceivePreserves,
       StopReceivingPreserves
       DEF Goroutine, Receiver
  <2>3. CASE Cancel
    BY <2>3, CancelPreserves
  <2>4. CASE UNCHANGED vars
    <3>1. /\ UNCHANGED <<kernel, regressions, started, pc, first, last, outbox, slot,
                         got, warned, receiving, cancelled>>
      BY <2>4 DEF vars, sampling, received
    <3>2. TypeOK'
      BY <3>1 DEF IInv, TypeOK
    <3>3. \A d \in Callers : CallerInv(d)'
      BY <3>1, OthersKeep DEF IInv
    <3> QED
      BY <3>1, <3>2, <3>3 DEF IInv, OneSampler
  <2> QED
    BY <2>1, <2>2, <2>3, <2>4 DEF Next
<1> QED
  BY <1>1, InitEstablishes, PTL DEF Spec

\* Type correctness.
THEOREM TypeCorrect == Spec => []TypeOK
BY Safety, PTL DEF IInv

\* No jiffy is lost or reported twice while the counters only grow.
THEOREM JiffiesAreConserved == Spec => []JiffiesConserved
<1>1. IInv => JiffiesConserved
  BY DEF IInv, CallerInv, Accounted, JiffiesConserved
<1> QED
  BY <1>1, Safety, PTL

\* A correction of the idle counters never adds work.
THEOREM WorkIsNotOverstated == Spec => []WorkNotOverstated
<1>1. ASSUME IInv, NEW c \in Callers
      PROVE  Reported(c).busy <= kernel.busy - Busy(first[c])
  <2>1. /\ kernel.busy \in Int /\ first[c] \in Snapshots /\ last[c] \in Snapshots
        /\ got[c] \in [busy : Nat, total : Nat]
        /\ slot[c] \in Items /\ outbox[c] \in Items
    BY <1>1 DEF IInv, TypeOK
  <2>2. Busy(first[c]) \in Int /\ Busy(last[c]) \in Int /\ Reported(c).busy \in Int
    BY <2>1 DEF Busy, Reported
  <2>3. /\ Busy(last[c]) <= kernel.busy
        /\ Reported(c).busy <= Busy(last[c]) - Busy(first[c])
    BY <1>1 DEF IInv, CallerInv, Accounted
  <2> QED
    BY <2>1, <2>2, <2>3
<1>2. IInv => WorkNotOverstated
  BY <1>1 DEF WorkNotOverstated
<1> QED
  BY <1>2, Safety, PTL

\* An observation is a ratio, and of no more work than was done.
THEOREM ObservationsAreSound == Spec => []ObservationsSound
<1>1. IInv => RatioDefined
  BY DEF IInv, CallerInv, Ratio, RatioDefined
<1>2. WorkNotOverstated /\ RatioDefined => ObservationsSound
  BY DEF ObservationsSound
<1> QED
  BY <1>1, <1>2, WorkIsNotOverstated, Safety, PTL

\* One goroutine samples, however many callers there are, and a channel closed
\* on a live context leaves its error behind.
THEOREM CallersAreServed == Spec => []CallersServed
<1>1. IInv => OneSampler
  BY DEF IInv
<1>2. IInv => ClosedWithReason
  BY DEF IInv, CallerInv, Reason, ClosedWithReason
<1>3. OneSampler /\ ClosedWithReason => CallersServed
  BY DEF CallersServed
<1> QED
  BY <1>1, <1>2, <1>3, Safety, PTL
=============================================================================
