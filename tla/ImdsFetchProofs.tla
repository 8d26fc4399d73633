--------------------------- MODULE ImdsFetchProofs ---------------------------
(***************************************************************************)
(* What the program reads of its surroundings.  First the metadata         *)
(* client's retry loop: its promises for every budget, every set of        *)
(* statuses and every way the context may be cancelled.  Then the control  *)
(* group: what is reported of it, for every list of lines, every content   *)
(* of the two files and every moment at which they may vanish.             *)
(***************************************************************************)
EXTENDS ImdsFetch, ControlGroup, SequenceTheorems, TLAPS

Transient(o) ==
  \/ o.kind = "transport"
  \/ /\ o.kind = "response"
     /\ o.status \in {408, 429} \union ((500 .. 599) \ {501})

\* The number of answers follows the loop's counter, and only transient answers
\* lead on.
Counting ==
  /\ pc = "requesting" => Len(tries) = attempt - 1 /\ attempt <= maxAttempt
  /\ pc = "waiting" => Len(tries) = attempt /\ attempt < maxAttempt
  /\ pc = "idle" => Len(tries) <= maxAttempt
  /\ result = "exhausted" => Len(tries) = maxAttempt
  /\ pc # "idle" => result = "none"

Leading ==
  /\ \A i \in 1 .. Len(tries) - 1 : Transient(tries[i])
  /\ pc # "idle" => \A i \in 1 .. Len(tries) : Transient(tries[i])

\* Nobody waits any more once an attempt was begun with the context done.
Lateness ==
  /\ late <= 1
  /\ late > 0 => cancelled
  /\ pc = "waiting" => late = 0

IInv == TypeOK /\ Counting /\ Leading /\ Lateness /\ ResultExplained

LEMMA OutcomeFacts ==
  ASSUME NEW o \in Outcomes
  PROVE  /\ o.kind \in {"build", "transport", "read", "close", "response"}
         /\ o.kind = "response" => o.status \in Statuses /\ o.status \in 100 .. 599
BY ImdsAssumption DEF Outcomes, Failures, Responses

LEMMA RetryIsTransient ==
  ASSUME NEW o \in Outcomes, Retry(o)
  PROVE  Transient(o)
BY OutcomeFacts DEF Retry, IsRetryable, Transient

LEMMA InitInvariant == Init => IInv
<1> SUFFICES ASSUME Init PROVE IInv
  OBVIOUS
<1>1. maxAttempt \in Nat \ {0}
  BY ImdsAssumption DEF Init, WithMaxAttempts
<1>2. tries = <<>> /\ Len(tries) = 0 /\ tries \in Seq(Outcomes)
  BY DEF Init
<1>3. TypeOK
  BY <1>1, <1>2 DEF Init, TypeOK, Results
<1>4. Counting /\ Leading
  BY <1>1, <1>2 DEF Init, Counting, Leading
<1>5. Lateness /\ ResultExplained
  BY <1>2 DEF Init, Lateness, ResultExplained
<1> QED
  BY <1>3, <1>4, <1>5 DEF IInv

LEMMA CallKeeps ==
  ASSUME IInv, NEW o \in Operations, Call(o)
  PROVE  IInv'
<1>1. tries' = <<>> /\ Len(tries') = 0 /\ tries' \in Seq(Outcomes)
  BY DEF Call
<1> QED
  BY <1>1 DEF Call, IInv, TypeOK, Counting, Leading, Lateness, ResultExplained, Results

LEMMA RespondKeeps ==
  ASSUME IInv, Respond
  PROVE  IInv'
<1>1. PICK o \in Outcomes :
        /\ Possible(o)
        /\ tries' = Append(tries, o)
        /\ \/ /\ o.kind = "response" /\ o.status = 200
              /\ Return(IF Usable(o) THEN "value" ELSE "useless")
           \/ /\ ~(o.kind = "response" /\ o.status = 200) /\ ~Retry(o)
              /\ Return("terminal")
           \/ Retry(o) /\ LastAttempt(attempt) /\ Return("exhausted")
           \/ Retry(o) /\ ~LastAttempt(attempt) /\ pc' = "waiting" /\ UNCHANGED result
  BY DEF Respond
<1>2. /\ pc = "requesting"
      /\ maxAttempt' = maxAttempt /\ op' = op /\ attempt' = attempt
      /\ cancelled' = cancelled /\ late' = late
  BY DEF Respond
<1>3. /\ tries \in Seq(Outcomes) /\ Len(tries) \in Nat
      /\ Len(tries) = attempt - 1 /\ attempt <= maxAttempt
      /\ attempt \in Nat /\ maxAttempt \in Nat \ {0} /\ late \in Nat
  BY <1>2 DEF IInv, TypeOK, Counting
<1>4. /\ tries' \in Seq(Outcomes)
      /\ Len(tries') = attempt
      /\ tries'[Len(tries')] = o
      /\ \A i \in 1 .. Len(tries) : tries'[i] = tries[i]
  BY <1>1, <1>3
<1>5. \A i \in 1 .. Len(tries') - 1 : Transient(tries'[i])
  BY <1>2, <1>3, <1>4 DEF IInv, Leading
<1>6. pc' # "idle" => Retry(o)
  BY <1>1 DEF Return
<1>7. pc' # "idle" => \A i \in 1 .. Len(tries') : Transient(tries'[i])
  <2> SUFFICES ASSUME Retry(o), NEW i \in 1 .. Len(tries')
               PROVE  Transient(tries'[i])
    BY <1>6
  <2>1. CASE i = Len(tries')
    BY <2>1, <1>4, RetryIsTransient
  <2>2. CASE i # Len(tries')
    BY <2>2, <1>5, <1>4, <1>3
  <2> QED
    BY <2>1, <2>2
<1>8. TypeOK'
  BY <1>1, <1>2, <1>3, <1>4 DEF IInv, TypeOK, Return, Results
<1>9. Counting'
  BY <1>1, <1>2, <1>3, <1>4 DEF IInv, Counting, Return, LastAttempt
<1>10. Lateness'
  <2>1. pc' = "waiting" => late = 0
    BY <1>1, <1>3, OutcomeFacts DEF IInv, Lateness, Possible, Retry, Return
  <2> QED
    BY <2>1, <1>2, <1>3 DEF IInv, Lateness
<1>11. ResultExplained'
  <2>1. CASE o.kind = "response" /\ o.status = 200
                /\ Return(IF Usable(o) THEN "value" ELSE "useless")
    <3>1. result' \in {"value", "useless"} /\ (result' = "value" => Usable(o))
      BY <2>1 DEF Return
    <3>2. result' = "value" /\ op' \in TextOps => o.body # "blank"
      BY <3>1, <1>2 DEF Usable
    <3>3. Len(tries') > 0
      BY <1>2, <1>3, <1>4
    <3> QED
      BY <2>1, <3>1, <3>2, <3>3, <1>4 DEF ResultExplained
  <2>2. CASE result' \in {"terminal", "exhausted", "none"}
    BY <2>2 DEF ResultExplained
  <2>3. result = "none"
    BY <1>2 DEF IInv, Counting
  <2> QED
    BY <2>1, <2>2, <2>3, <1>1 DEF Return
<1> QED
  BY <1>5, <1>7, <1>8, <1>9, <1>10, <1>11 DEF IInv, Leading

LEMMA TimerKeeps ==
  ASSUME IInv, TimerFires
  PROVE  IInv'
<1>1. tries' = tries /\ Len(tries) \in Nat /\ late = 0 /\ attempt \in Nat
  BY DEF IInv, TypeOK, TimerFires, Lateness
<1> QED
  BY <1>1 DEF IInv, TypeOK, TimerFires, Counting, Leading, Lateness,
     ResultExplained, Transient

LEMMA WaitCancelledKeeps ==
  ASSUME IInv, WaitCancelled
  PROVE  IInv'
<1>1. tries' = tries /\ Len(tries) \in Nat /\ maxAttempt \in Nat /\ attempt \in Nat
  BY DEF IInv, TypeOK, WaitCancelled
<1> QED
  BY <1>1 DEF IInv, TypeOK, WaitCancelled, Return, Counting, Leading, Lateness,
     ResultExplained, Transient, Results

LEMMA OthersKeep ==
  ASSUME IInv, Cancel \/ UNCHANGED vars
  PROVE  IInv'
<1>1. CASE Cancel
  BY <1>1 DEF IInv, TypeOK, Cancel, Counting, Leading, Lateness, ResultExplained, Transient
<1>2. CASE UNCHANGED vars
  BY <1>2 DEF IInv, TypeOK, vars, Counting, Leading, Lateness, ResultExplained, Transient
<1> QED
  BY <1>1, <1>2

LEMMA StepInvariant == IInv /\ [Next]_vars => IInv'
BY CallKeeps, RespondKeeps, TimerKeeps, WaitCancelledKeeps, OthersKeep DEF Next, Wait

LEMMA Safety == Spec => []IInv
BY InitInvariant, StepInvariant, PTL DEF Spec

\* Types are kept, and whatever WithMaxAttempts is given the budget is positive.
THEOREM TypeCorrect == Spec => []TypeOK
<1>1. IInv => TypeOK
  BY DEF IInv
<1> QED
  BY <1>1, Safety, PTL

\* The retry budget is kept, used up before it is called exhausted, and no wait
\* follows the last attempt.
THEOREM RetryBudgetKept == Spec => []BudgetKept
<1>1. IInv => BudgetKept
  <2> SUFFICES ASSUME IInv PROVE BudgetKept
    OBVIOUS
  <2>1. Len(tries) \in Nat /\ attempt \in Nat /\ maxAttempt \in Nat
    BY DEF IInv, TypeOK
  <2>2. pc \in {"idle", "requesting", "waiting"}
    BY DEF IInv, TypeOK
  <2> QED
    BY <2>1, <2>2 DEF IInv, Counting, BudgetKept
<1> QED
  BY <1>1, Safety, PTL

\* No request is repeated after an answer that will not get better.
THEOREM OnlyTransientRetried == Spec => []RetriesOnlyTransient
<1>1. IInv => RetriesOnlyTransient
  BY DEF IInv, Leading, Transient, RetriesOnlyTransient
<1> QED
  BY <1>1, Safety, PTL

\* Every result has its cause in the last answer or in the context.
THEOREM ResultsExplained == Spec => []ResultExplained
<1>1. IInv => ResultExplained
  BY DEF IInv
<1> QED
  BY <1>1, Safety, PTL

\* At most one request is begun after the context is done.
THEOREM CancellationStops == Spec => []CancelStopsSoon
<1>1. IInv => CancelStopsSoon
  BY DEF IInv, Lateness, CancelStopsSoon
<1> QED
  BY <1>1, Safety, PTL

\* So the requests are bounded by the budget, and by the context once it is done.
THEOREM RequestsAreBounded == Spec => []RequestsBounded
<1>1. BudgetKept /\ CancelStopsSoon => RequestsBounded
  BY DEF RequestsBounded
<1> QED
  BY <1>1, RetryBudgetKept, CancellationStops, PTL

\* And every repetition and result has its cause in the outcomes before it.
THEOREM OutcomesAreExplained == Spec => []OutcomesExplained
<1>1. RetriesOnlyTransient /\ ResultExplained => OutcomesExplained
  BY DEF OutcomesExplained
<1> QED
  BY <1>1, OnlyTransientRetried, ResultsExplained, PTL

-----------------------------------------------------------------------------
(***************************************************************************)
(* The control group.  What is known of it grows stage by stage: the       *)
(* lines passed over, then the path, then the weight, then the limit.      *)
(***************************************************************************)
Values == {0} \union Numbers

\* A weight is a number read, or an error and zero.
WeightInfos ==
  {w \in [value : Values, err : BOOLEAN] : w.err => w.value = 0}

\* A limit is a quota and a period, a period without a limit, or an error.
LimitInfos ==
  {m \in [quota : Values, period : Values, unlimited : BOOLEAN, err : BOOLEAN] :
     /\ m.err => m.quota = 0 /\ m.period = 0 /\ ~m.unlimited
     /\ m.unlimited => m.quota = 0}

Infos == [path : {"blank"} \union Paths, weight : WeightInfos, max : LimitInfos]

FilesTyped ==
  /\ proc.readable \in BOOLEAN
  /\ proc.lines \in UNION {[1 .. n -> Lines] : n \in 0 .. MaxLines}
  /\ weightFile \in {Missing} \union {File(f) : f \in Contents}
  /\ maxFile \in {Missing} \union {File(f) : f \in Contents}

\* No line before the scanner is the one it looks for.
Scanned ==
  /\ at \in 1 .. Len(proc.lines) + 1
  /\ \A j \in 1 .. Len(proc.lines) : j < at => ~IsUnified(proc.lines[j])
  /\ stage \in {"weight", "max", "report"} =>
       /\ at \in 1 .. Len(proc.lines)
       /\ IsUnified(proc.lines[at])
       /\ cpu.path = proc.lines[at].path
  /\ stage = "failed" /\ proc.readable => at = Len(proc.lines) + 1

\* What is not read yet is an error.
ReadSoFar ==
  /\ cpu \in Infos
  /\ stage \in {"open", "scan", "failed"} => cpu = NotRead
  /\ stage = "weight" => cpu.weight = NotRead.weight
  /\ stage \in {"weight", "max"} => cpu.max = NotRead.max
  /\ ReadAsWritten

\* The gauges and the block of /healthz are made of one and the same report.
Reported ==
  stage = "done" =>
    \/ /\ health = Shown(cpu)
       /\ gauges = Gauged(cpu)
    \/ /\ cpu.path = "blank"
       /\ ~health.present
       /\ gauges = Exported(0, 0, 0, FALSE)

InspectInv ==
  /\ stage \in {"open", "scan", "weight", "max", "report", "failed", "done"}
  /\ FilesTyped
  /\ Scanned
  /\ ReadSoFar
  /\ Reported
  /\ stage # "done" => ~health.present

\* The lines are a list of at most MaxLines lines.
LEMMA LinesFacts ==
  ASSUME FilesTyped
  PROVE  /\ Len(proc.lines) \in 0 .. MaxLines
         /\ \A i \in 1 .. Len(proc.lines) : proc.lines[i] \in Lines
<1> DEFINE lines == proc.lines
<1>1. PICK n \in 0 .. MaxLines : lines \in [1 .. n -> Lines]
  BY DEF FilesTyped
<1>2. n \in Nat /\ MaxLines \in Nat
  BY ControlGroupAssumption
<1> HIDE DEF lines
<1>3. lines \in Seq(Lines) /\ DOMAIN lines = 1 .. n
  BY <1>1, <1>2, SeqDef
<1>4. Len(lines) = n
  BY <1>2, <1>3, LenProperties
<1> QED
  BY <1>1, <1>2, <1>4 DEF lines

\* The line of the unified hierarchy carries a path.
LEMMA UnifiedFacts ==
  ASSUME NEW line \in Lines, IsUnified(line)
  PROVE  line.path \in Paths /\ line.path # "blank" /\ line.controllers = "blank"
BY ControlGroupAssumption DEF IsUnified

\* A content of one or two words is the list of its words.
LEMMA ContentFacts ==
  ASSUME NEW f \in Contents
  PROVE  /\ Len(f) \in Nat
         /\ \A i \in 1 .. Len(f) : f[i] \in Words
         /\ Len(f) = 1 => f = <<f[1]>>
         /\ Len(f) = 2 => f = <<f[1], f[2]>>
<1>1. PICK n \in 0 .. MaxWords : f \in [1 .. n -> Words]
  BY DEF Contents
<1>2. n \in Nat /\ MaxWords \in Nat
  BY ControlGroupAssumption
<1>3. f \in Seq(Words) /\ DOMAIN f = 1 .. n
  BY <1>1, <1>2, SeqDef
<1>4. Len(f) = n
  BY <1>2, <1>3, LenProperties
<1> QED
  BY <1>1, <1>2, <1>3, <1>4

\* A text that is no number is below every number.
LEMMA WordFacts ==
  ASSUME NEW word \in Words
  PROVE  /\ word \in Int
         /\ word >= 0 <=> word \in Numbers
         /\ word < 0 <=> word \notin Numbers
         /\ Max \notin Numbers
BY ControlGroupAssumption DEF Words, NaN, Max

\* readWeight returns the one number of its file, or an error if there is none.
LEMMA WeightFacts ==
  ASSUME NEW file \in {Missing} \union {File(f) : f \in Contents}
  PROVE  /\ Weight(file) \in WeightInfos
         /\ file.present /\ Weight(file).err => \A n \in Numbers : file.fields # <<n>>
         /\ file.present /\ ~Weight(file).err => file.fields = <<Weight(file).value>>
<1> DEFINE one == file.present /\ Len(file.fields) = 1 /\ file.fields[1] >= 0
<1>1. CASE one
  <2>1. PICK f \in Contents : file = File(f)
    BY <1>1 DEF Missing
  <2>2. file.fields = f
    BY <2>1 DEF File
  <2>3. f = <<f[1]>> /\ f[1] \in Words
    BY <1>1, <2>2, ContentFacts
  <2>4. f[1] \in Numbers
    BY <1>1, <2>2, <2>3, WordFacts
  <2>5. Weight(file) = [value |-> f[1], err |-> FALSE]
    BY <1>1, <2>2 DEF Weight
  <2> QED
    BY <2>2, <2>3, <2>4, <2>5 DEF WeightInfos, Values
<1>2. CASE ~one
  <2>1. Weight(file) = NotRead.weight
    BY <1>2 DEF Weight
  <2>2. ASSUME NEW n \in Numbers, file.present, file.fields = <<n>> PROVE FALSE
    <3>1. n \in Nat
      BY ControlGroupAssumption
    <3> QED
      BY <1>2, <2>2, <3>1
  <2> QED
    BY <2>1, <2>2 DEF NotRead, WeightInfos, Values
<1> QED
  BY <1>1, <1>2

\* readMax returns the period of its file with the quota or the absence of one,
\* or an error if the file holds no such pair.
LEMMA LimitFacts ==
  ASSUME NEW file \in {Missing} \union {File(f) : f \in Contents}
  PROVE  /\ Limit(file) \in LimitInfos
         /\ file.present /\ Limit(file).err =>
              \A q \in Numbers \union {Max}, n \in Numbers : file.fields # <<q, n>>
         /\ file.present /\ ~Limit(file).err =>
              file.fields = <<IF Limit(file).unlimited THEN Max ELSE Limit(file).quota,
                              Limit(file).period>>
<1> DEFINE two == /\ file.present /\ Len(file.fields) = 2
                  /\ ~(file.fields[2] < 0)
                  /\ file.fields[1] = Max \/ ~(file.fields[1] < 0)
<1>1. CASE two
  <2>1. PICK f \in Contents : file = File(f)
    BY <1>1 DEF Missing
  <2>2. file.fields = f
    BY <2>1 DEF File
  <2>3. f = <<f[1], f[2]>> /\ f[1] \in Words /\ f[2] \in Words
    BY <1>1, <2>2, ContentFacts
  <2>4. f[2] \in Numbers /\ f[1] \in Numbers \union {Max} /\ Max \notin Numbers
    BY <1>1, <2>2, <2>3, WordFacts
  <2>5. CASE f[1] = Max
    <3>1. Limit(file) = [quota |-> 0, period |-> f[2], unlimited |-> TRUE, err |-> FALSE]
      BY <1>1, <2>2, <2>5, Zenon DEF Limit
    <3> QED
      BY <2>2, <2>3, <2>4, <2>5, <3>1 DEF LimitInfos, Values
  <2>6. CASE f[1] # Max
    <3>1. Limit(file) = [quota |-> f[1], period |-> f[2], unlimited |-> FALSE, err |-> FALSE]
      BY <1>1, <2>2, <2>6, Zenon DEF Limit
    <3> QED
      BY <2>2, <2>3, <2>4, <2>6, <3>1 DEF LimitInfos, Values
  <2> QED
    BY <2>5, <2>6
<1>2. CASE ~two
  <2>1. Limit(file) = NotRead.max
    BY <1>2, Zenon DEF Limit
  <2>2. ASSUME NEW q \in Numbers \union {Max}, NEW n \in Numbers,
               file.present, file.fields = <<q, n>>
        PROVE  FALSE
    <3>1. n \in Nat /\ (q \in Nat \/ q = Max)
      BY ControlGroupAssumption
    <3>2. Len(<<q, n>>) = 2 /\ <<q, n>>[1] = q /\ <<q, n>>[2] = n
      OBVIOUS
    <3>3. ~(n < 0) /\ (q = Max \/ ~(q < 0))
      BY <3>1
    <3> QED
      BY <1>2, <2>2, <3>2, <3>3, Zenon
  <2>3. NotRead.max \in LimitInfos /\ NotRead.max.err
    BY DEF NotRead, LimitInfos, Values
  <2> QED
    BY <2>1, <2>2, <2>3
<1> QED
  BY <1>1, <1>2

LEMMA InspectInitEstablishes ==
  ASSUME InspectInit
  PROVE  InspectInv
<1>1. /\ stage = "open" /\ at = 1 /\ cpu = NotRead /\ ~health.present
  BY DEF InspectInit
<1>2. FilesTyped
  BY DEF InspectInit, FilesTyped
<1>3. Scanned
  BY <1>1, <1>2, LinesFacts, ControlGroupAssumption DEF Scanned
<1>4. ReadSoFar
  BY <1>1, ControlGroupAssumption
     DEF ReadSoFar, ReadAsWritten, WeightRead, LimitRead, Infos, WeightInfos, LimitInfos,
         Values, NotRead
<1>5. Reported
  BY <1>1 DEF Reported
<1> QED
  BY <1>1, <1>2, <1>3, <1>4, <1>5 DEF InspectInv

\* Opening the list of groups, and passing over or taking one of its lines.
LEMMA ScanKeeps ==
  ASSUME InspectInv, Open \/ Scan
  PROVE  InspectInv'
<1>1. /\ proc' = proc /\ weightFile' = weightFile /\ maxFile' = maxFile
      /\ gauges' = gauges /\ health' = health
  BY DEF Open, Scan
<1>2. FilesTyped'
  BY <1>1 DEF InspectInv, FilesTyped
<1>3. /\ Len(proc.lines) \in Nat
      /\ \A i \in 1 .. Len(proc.lines) : proc.lines[i] \in Lines
  BY LinesFacts, ControlGroupAssumption DEF InspectInv
<1>4. CASE Open
  <2>1. stage = "open" /\ stage' \in {"scan", "failed"} /\ at' = at /\ cpu' = cpu
    BY <1>4 DEF Open
  <2>2. stage' = "failed" => ~proc.readable
    BY <1>4 DEF Open
  <2>3. Scanned'
    BY <1>1, <2>1, <2>2 DEF InspectInv, Scanned, IsUnified
  <2>4. ReadSoFar'
    BY <1>1, <2>1 DEF InspectInv, ReadSoFar, ReadAsWritten, WeightRead, LimitRead
  <2>5. Reported' /\ ~health'.present
    BY <1>1, <2>1 DEF InspectInv, Reported
  <2> QED
    BY <1>2, <2>1, <2>3, <2>4, <2>5 DEF InspectInv
<1>5. CASE Scan
  <2>1. stage = "scan" /\ cpu = NotRead
    BY <1>5 DEF Scan, InspectInv, ReadSoFar
  <2>2. CASE at > Len(proc.lines)
    <3>1. stage' = "failed" /\ at' = at /\ cpu' = cpu
      BY <1>5, <2>2 DEF Scan
    <3>2. Scanned'
      BY <1>1, <1>3, <2>2, <3>1 DEF InspectInv, Scanned, IsUnified
    <3>3. ReadSoFar'
      BY <1>1, <2>1, <3>1 DEF InspectInv, ReadSoFar, ReadAsWritten, WeightRead, LimitRead
    <3>4. Reported' /\ ~health'.present
      BY <1>1, <2>1, <3>1 DEF InspectInv, Reported
    <3> QED
      BY <1>2, <3>1, <3>2, <3>3, <3>4 DEF InspectInv
  <2>3. CASE ~(at > Len(proc.lines)) /\ IsUnified(proc.lines[at])
    <3>1. /\ stage' = "weight" /\ at' = at
          /\ cpu' = [cpu EXCEPT !.path = proc.lines[at].path]
      BY <1>5, <2>3 DEF Scan
    <3>2. at \in 1 .. Len(proc.lines)
      BY <1>3, <2>3 DEF InspectInv, Scanned
    <3>3. /\ cpu'.path = proc.lines[at].path
          /\ cpu'.weight = NotRead.weight /\ cpu'.max = NotRead.max
          /\ cpu' \in Infos
      <4>1. proc.lines[at].path \in Paths
        BY <1>3, <2>3, <3>2, UnifiedFacts
      <4>2. cpu \in Infos
        BY DEF InspectInv, ReadSoFar
      <4> QED
        BY <2>1, <3>1, <4>1, <4>2 DEF Infos
    <3>4. Scanned'
      BY <1>1, <2>3, <3>1, <3>2, <3>3 DEF InspectInv, Scanned, IsUnified
    <3>5. ReadSoFar'
      BY <1>1, <3>1, <3>3 DEF ReadSoFar, ReadAsWritten, WeightRead, LimitRead, NotRead
    <3>6. Reported' /\ ~health'.present
      BY <1>1, <2>1, <3>1 DEF InspectInv, Reported
    <3> QED
      BY <1>2, <3>1, <3>4, <3>5, <3>6 DEF InspectInv
  <2>4. CASE ~(at > Len(proc.lines)) /\ ~IsUnified(proc.lines[at])
    <3>1. stage' = stage /\ at' = at + 1 /\ cpu' = cpu
      BY <1>5, <2>4 DEF Scan
    <3>2. Scanned'
      BY <1>1, <1>3, <2>1, <2>4, <3>1 DEF InspectInv, Scanned, IsUnified
    <3>3. ReadSoFar'
      BY <1>1, <3>1 DEF InspectInv, ReadSoFar, ReadAsWritten, WeightRead, LimitRead
    <3>4. Reported' /\ ~health'.present
      BY <1>1, <2>1, <3>1 DEF InspectInv, Reported
    <3> QED
      BY <1>2, <2>1, <3>1, <3>2, <3>3, <3>4 DEF InspectInv
  <2> QED
    BY <2>2, <2>3, <2>4
<1> QED
  BY <1>4, <1>5

\* Reading the two files; one that cannot be read leaves the other as it was.
LEMMA ReadsKeep ==
  ASSUME InspectInv, ReadWeight \/ ReadMax
  PROVE  InspectInv'
<1>1. /\ proc' = proc /\ weightFile' = weightFile /\ maxFile' = maxFile /\ at' = at
      /\ gauges' = gauges /\ health' = health
  BY DEF ReadWeight, ReadMax
<1>2. FilesTyped'
  BY <1>1 DEF InspectInv, FilesTyped
<1>3. cpu \in Infos
  BY DEF InspectInv, ReadSoFar
<1>4. CASE ReadWeight
  <2>1. /\ stage = "weight" /\ stage' = "max"
        /\ cpu' = [cpu EXCEPT !.weight = Weight(weightFile)]
    BY <1>4 DEF ReadWeight
  <2>2. /\ Weight(weightFile) \in WeightInfos
        /\ weightFile.present =>
             IF Weight(weightFile).err THEN \A n \in Numbers : weightFile.fields # <<n>>
             ELSE weightFile.fields = <<Weight(weightFile).value>>
    BY WeightFacts DEF InspectInv, FilesTyped
  <2>3. /\ cpu' \in Infos /\ cpu'.path = cpu.path /\ cpu'.max = cpu.max
        /\ cpu'.weight = Weight(weightFile)
    BY <1>3, <2>1, <2>2 DEF Infos
  <2>4. Scanned'
    BY <1>1, <2>1, <2>3 DEF InspectInv, Scanned, IsUnified
  <2>5. ReadSoFar'
    BY <1>1, <2>1, <2>2, <2>3
       DEF InspectInv, ReadSoFar, ReadAsWritten, WeightRead, LimitRead
  <2>6. Reported' /\ ~health'.present
    BY <1>1, <2>1 DEF InspectInv, Reported
  <2> QED
    BY <1>2, <2>1, <2>4, <2>5, <2>6 DEF InspectInv
<1>5. CASE ReadMax
  <2>1. /\ stage = "max" /\ stage' = "report"
        /\ cpu' = [cpu EXCEPT !.max = Limit(maxFile)]
    BY <1>5 DEF ReadMax
  <2>2. /\ Limit(maxFile) \in LimitInfos
        /\ maxFile.present =>
             IF Limit(maxFile).err
             THEN \A q \in Numbers \union {Max}, n \in Numbers : maxFile.fields # <<q, n>>
             ELSE maxFile.fields = <<IF Limit(maxFile).unlimited THEN Max
                                     ELSE Limit(maxFile).quota, Limit(maxFile).period>>
    BY LimitFacts DEF InspectInv, FilesTyped
  <2>3. /\ cpu' \in Infos /\ cpu'.path = cpu.path /\ cpu'.weight = cpu.weight
        /\ cpu'.max = Limit(maxFile)
    BY <1>3, <2>1, <2>2 DEF Infos
  <2>4. Scanned'
    BY <1>1, <2>1, <2>3 DEF InspectInv, Scanned, IsUnified
  <2>5. ReadSoFar'
    BY <1>1, <2>1, <2>2, <2>3
       DEF InspectInv, ReadSoFar, ReadAsWritten, WeightRead, LimitRead
  <2>6. Reported' /\ ~health'.present
    BY <1>1, <2>1 DEF InspectInv, Reported
  <2> QED
    BY <1>2, <2>1, <2>4, <2>5, <2>6 DEF InspectInv
<1> QED
  BY <1>4, <1>5

\* The report, and a file that vanishes at any moment before it.
LEMMA ReportKeeps ==
  ASSUME InspectInv, Report \/ ReportNothing \/ Withdraw \/ UNCHANGED inspection
  PROVE  InspectInv'
<1>1. proc' = proc /\ at' = at /\ cpu' = cpu
  BY DEF Report, ReportNothing, Withdraw, inspection
<1>2. CASE Report
  <2>1. /\ stage' = "done" /\ gauges' = Gauged(cpu) /\ health' = Shown(cpu)
        /\ weightFile' = weightFile /\ maxFile' = maxFile
    BY <1>2 DEF Report
  <2>2. FilesTyped'
    BY <1>1, <2>1 DEF InspectInv, FilesTyped
  <2>scanned. Scanned'
    BY <1>1, <1>2, <2>1 DEF InspectInv, Scanned, IsUnified, Report
  <2>read. ReadAsWritten'
    BY <1>1, <1>2, <2>1
       DEF InspectInv, ReadSoFar, ReadAsWritten, WeightRead, LimitRead, Report
  <2>3. Scanned' /\ ReadSoFar'
    BY <1>1, <2>1, <2>scanned, <2>read DEF InspectInv, ReadSoFar
  <2>4. Reported'
    BY <1>1, <2>1 DEF Reported, Gauged, Shown, Exported
  <2> QED
    BY <2>1, <2>2, <2>3, <2>4 DEF InspectInv
<1>3. CASE ReportNothing
  <2>1. /\ stage = "failed" /\ stage' = "done" /\ gauges' = Exported(0, 0, 0, FALSE)
        /\ health' = health /\ weightFile' = weightFile /\ maxFile' = maxFile
    BY <1>3 DEF ReportNothing
  <2>2. FilesTyped'
    BY <1>1, <2>1 DEF InspectInv, FilesTyped
  <2>4. cpu.path = "blank" /\ ~health.present
    BY <2>1 DEF InspectInv, ReadSoFar, NotRead
  <2>read. ReadAsWritten'
    BY <1>1, <2>1, <2>4 DEF ReadAsWritten, WeightRead, LimitRead
  <2>3. Scanned' /\ ReadSoFar'
    BY <1>1, <2>1, <2>read DEF InspectInv, Scanned, ReadSoFar, IsUnified
  <2>5. Reported'
    BY <1>1, <2>1, <2>4 DEF Reported, Exported
  <2> QED
    BY <2>1, <2>2, <2>3, <2>5 DEF InspectInv
<1>4. CASE Withdraw
  <2>1. /\ stage # "done" /\ stage' = stage /\ gauges' = gauges /\ health' = health
        /\ weightFile' \in {weightFile, Missing} /\ maxFile' \in {maxFile, Missing}
    BY <1>4 DEF Withdraw
  <2>2. FilesTyped'
    BY <1>1, <2>1 DEF InspectInv, FilesTyped
  <2>3. Scanned'
    BY <1>1, <2>1 DEF InspectInv, Scanned, IsUnified
  <2>4. ~Missing.present
    BY DEF Missing
  <2>5. ReadSoFar'
    BY <1>1, <2>1, <2>4 DEF InspectInv, ReadSoFar, ReadAsWritten, WeightRead, LimitRead
  <2> QED
    BY <2>1, <2>2, <2>3, <2>5 DEF InspectInv, Reported
<1>5. CASE UNCHANGED inspection
  <2>1. /\ stage' = stage /\ gauges' = gauges /\ health' = health
        /\ weightFile' = weightFile /\ maxFile' = maxFile
    BY <1>5 DEF inspection
  <2>2. FilesTyped' /\ Scanned'
    BY <1>1, <2>1 DEF InspectInv, FilesTyped, Scanned, IsUnified
  <2>3. ReadSoFar' /\ Reported'
    BY <1>1, <2>1
       DEF InspectInv, ReadSoFar, ReadAsWritten, WeightRead, LimitRead, Reported, Gauged,
           Shown, Exported
  <2> QED
    BY <2>1, <2>2, <2>3 DEF InspectInv
<1> QED
  BY <1>2, <1>3, <1>4, <1>5

\* Every step of the inspection preserves its invariant.
LEMMA InspectSafety == InspectSpec => []InspectInv
<1>1. InspectInit => InspectInv
  BY InspectInitEstablishes
<1>2. InspectInv /\ [InspectNext]_inspection => InspectInv'
  BY ScanKeeps, ReadsKeep, ReportKeeps DEF InspectNext
<1> QED
  BY <1>1, <1>2, PTL DEF InspectSpec

\* What is reported of the control group is all that could be read, and no
\* more, whatever words and numbers the files hold: the first line of the
\* unified hierarchy gives the path, a figure stands for all its file held, a
\* file that fails costs only its own figures, and every figure of /healthz is
\* on its gauge, what is unknown as a zero.
THEOREM ReportIsSound == InspectSpec => []ReportSound
<1>1. InspectInv => ReportSound
  <2> SUFFICES ASSUME InspectInv PROVE ReportSound
    OBVIOUS
  <2>1. Len(proc.lines) \in 0 .. MaxLines /\ MaxLines \in Nat
    BY LinesFacts, ControlGroupAssumption DEF InspectInv
  <2>2. cpu \in Infos
    BY DEF InspectInv, ReadSoFar
  <2>3. InspectTypeOK
    <3>1. at \in 1 .. MaxLines + 1
      BY <2>1 DEF InspectInv, Scanned
    <3>2. cpu.weight.value \in Values /\ cpu.max.quota \in Values /\ cpu.max.period \in Values
      BY <2>2 DEF Infos, WeightInfos, LimitInfos
    <3>3. cpu.path \in {"blank"} \union Paths
      BY <2>2 DEF Infos
    <3> QED
      BY <3>1, <3>2, <3>3 DEF InspectTypeOK, InspectInv, Values
  <2>4. PathIsFirstUnified
    <3>1. ASSUME stage \in {"weight", "max", "report"}
          PROVE  /\ proc.lines[at].path = cpu.path /\ proc.lines[at].controllers = "blank"
                 /\ \A j \in Unified : at <= j
      <4>1. at \in 1 .. Len(proc.lines) /\ IsUnified(proc.lines[at])
            /\ cpu.path = proc.lines[at].path
        BY <3>1 DEF InspectInv, Scanned
      <4>2. \A j \in Unified : at <= j
        BY <2>1, <4>1 DEF InspectInv, Scanned, Unified
      <4> QED
        BY <4>1, <4>2 DEF IsUnified
    <3>2. ASSUME stage \in {"weight", "max", "report"} PROVE at \in 1 .. Len(proc.lines)
      BY <3>2 DEF InspectInv, Scanned
    <3>3. ASSUME stage = "failed", proc.readable PROVE Unified = {}
      BY <2>1, <3>3 DEF InspectInv, Scanned, Unified
    <3> QED
      BY <3>1, <3>2, <3>3 DEF PathIsFirstUnified
  <2>5. GaugesTellHealth /\ PartialKept
    <3> SUFFICES ASSUME stage = "done" PROVE GaugesTellHealth /\ PartialKept
      BY DEF GaugesTellHealth, PartialKept
    <3>1. CASE health = Shown(cpu) /\ gauges = Gauged(cpu)
      <4>1. /\ cpu.weight.err \in BOOLEAN /\ cpu.max.err \in BOOLEAN
            /\ cpu.max.unlimited \in BOOLEAN
            /\ cpu.max.unlimited => cpu.max.quota = 0
        BY <2>2 DEF Infos, WeightInfos, LimitInfos
      <4>2. /\ health = [present |-> TRUE, path |-> cpu.path,
                         weight |-> cpu.weight, max |-> cpu.max]
            /\ health.present /\ health.weight = cpu.weight /\ health.max = cpu.max
        BY <3>1 DEF Shown
      <4>3. /\ gauges.weight = IF cpu.weight.err THEN 0 ELSE cpu.weight.value
            /\ gauges.period = IF cpu.max.err THEN 0 ELSE cpu.max.period
            /\ gauges.unlimited = IF ~cpu.max.err /\ cpu.max.unlimited THEN 1 ELSE 0
            /\ gauges.quota = IF ~cpu.max.err /\ cpu.max.unlimited THEN 0
                              ELSE IF cpu.max.err THEN 0 ELSE cpu.max.quota
        BY <3>1 DEF Gauged, Exported
      <4>4. PartialKept
        BY <4>2 DEF PartialKept
      <4> QED
        BY <4>1, <4>2, <4>3, <4>4 DEF GaugesTellHealth
    <3>2. CASE cpu.path = "blank" /\ ~health.present /\ gauges = Exported(0, 0, 0, FALSE)
      <4>1. /\ gauges.weight = 0 /\ gauges.quota = 0
            /\ gauges.period = 0 /\ gauges.unlimited = 0
        BY <3>2 DEF Exported
      <4>2. PartialKept
        BY <3>2 DEF PartialKept
      <4>3. ~(gauges.unlimited = 1)
        BY <4>1
      <4>4. GaugesTellHealth
        BY <3>2, <4>1, <4>3, Zenon DEF GaugesTellHealth
      <4> QED
        BY <4>2, <4>4
    <3> QED
      BY <3>1, <3>2 DEF InspectInv, Reported
  <2>6. ReadAsWritten
    BY DEF InspectInv, ReadSoFar
  <2> QED
    BY <2>3, <2>4, <2>5, <2>6 DEF ReportSound
<1> QED
  BY <1>1, InspectSafety, PTL
=============================================================================
