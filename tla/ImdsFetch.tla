------------------------------ MODULE ImdsFetch ------------------------------
(***************************************************************************)
(* The instance metadata client (pkg/imds): one operation of an HTTPClient *)
(* asks the metadata service up to maxAttempt times, waits between two     *)
(* attempts, and gives up early on an answer that will not get better or   *)
(* when its context is done.  The service, net/http and the timer are      *)
(* external.                                                               *)
(***************************************************************************)
EXTENDS Integers, Sequences

CONSTANTS
  DefaultAttempts,   \* defaultMaxAttempts
  AttemptOptions,    \* what WithMaxAttempts may be given
  Statuses           \* the HTTP status codes the service answers with

ASSUME ImdsAssumption ==
  /\ DefaultAttempts \in Nat \ {0}
  /\ AttemptOptions \subseteq Int
  /\ Statuses \subseteq 100 .. 599

VARIABLES
  maxAttempt,   \* HTTPClient.maxAttempt
  pc,           \* "idle", "requesting" or "waiting" (between two attempts)
  op,           \* the operation under way
  attempt,      \* the loop's counter
  tries,        \* what the attempts of this operation brought
  cancelled,    \* the context is done
  late,         \* attempts of this operation begun when it was
  result        \* what the last operation returned

vars == <<maxAttempt, pc, op, attempt, tries, cancelled, late, result>>

TextOps == {"Region", "InstanceID", "CompartmentID"}
Operations == TextOps \union {"CanonicalRegion", "ShapeConfig"}

\* Bodies: white space, text, a JSON object with the field that is asked for,
\* one without it.
Bodies == {"blank", "text", "object", "bare"}

\* What tryFetch may meet: the request cannot be built or sent, the body cannot
\* be read or closed, or there is a response.
Failures  == [kind : {"build", "transport", "read", "close"}, status : {0}, body : {"blank"}]
Responses == [kind : {"response"}, status : Statuses, body : Bodies]
Outcomes  == Failures \union Responses

Results == {"none", "value", "useless", "terminal", "exhausted", "cancelled"}

\* Mutated form: the option is taken as it comes.
MutWithMaxAttempts(n) == n

\* NewClient with WithMaxAttempts(n).
WithMaxAttempts(n) == IF n > 0 THEN n ELSE DefaultAttempts

Init ==
  /\ maxAttempt \in {WithMaxAttempts(n) : n \in AttemptOptions} \union {DefaultAttempts}
  /\ pc = "idle" /\ op \in Operations
  /\ attempt = 0 /\ tries = <<>> /\ late = 0
  /\ cancelled = FALSE
  /\ result = "none"

-----------------------------------------------------------------------------
\* Mutated form: 501 is a server error like the others.
MutIsRetryable(status) == status \in {408, 429} \/ status >= 500

IsRetryable(status) == status \in {408, 429} \/ (status >= 500 /\ status # 501)

\* Mutated form: a failed exchange is retried whatever the context says.
MutRetry(o) ==
  \/ o.kind = "transport"
  \/ o.kind = "response" /\ o.status # 200 /\ IsRetryable(o.status)

\* The retry flag of tryFetch.
Retry(o) ==
  \/ o.kind = "transport" /\ ~cancelled
  \/ o.kind = "response" /\ o.status # 200 /\ IsRetryable(o.status)

\* Mutated form: whatever a 200 carries is taken.
MutUsable(o) == op \in TextOps \/ o.body \in {"object", "bare"}

\* getText refuses white space, getJSON what does not decode, CanonicalRegion a
\* document without the name; a shape without its fields is a zero shape.
Usable(o) ==
  IF op \in TextOps THEN o.body # "blank"
  ELSE IF op = "CanonicalRegion" THEN o.body = "object"
  ELSE o.body \in {"object", "bare"}

\* net/http sends nothing for a context that is done.
Possible(o) == late = 0 \/ o.kind \in {"build", "transport"}

Call(o) ==
  /\ pc = "idle" /\ pc' = "requesting"
  /\ op' = o /\ attempt' = 1 /\ tries' = <<>> /\ result' = "none"
  /\ late' = IF cancelled THEN 1 ELSE 0
  /\ UNCHANGED <<maxAttempt, cancelled>>

\* Mutated form: one attempt too many.
MutLastAttempt(n) == n > maxAttempt

LastAttempt(n) == n = maxAttempt

Return(r) == pc' = "idle" /\ result' = r

\* tryFetch returns, and fetch decides.
Respond ==
  /\ pc = "requesting"
  /\ \E o \in Outcomes :
       /\ Possible(o)
       /\ tries' = Append(tries, o)
       /\ \/ /\ o.kind = "response" /\ o.status = 200
             /\ Return(IF Usable(o) THEN "value" ELSE "useless")
          \/ /\ ~(o.kind = "response" /\ o.status = 200) /\ ~Retry(o)
             /\ Return("terminal")
          \/ Retry(o) /\ LastAttempt(attempt) /\ Return("exhausted")
          \/ Retry(o) /\ ~LastAttempt(attempt) /\ pc' = "waiting" /\ UNCHANGED result
  /\ UNCHANGED <<maxAttempt, op, attempt, cancelled, late>>

\* Mutated form: the timer has been stopped before the select.
MutTimerFires == FALSE /\ UNCHANGED vars

\* wait: the timer's case of the select, which may be taken even when the
\* context is done.
TimerFires ==
  /\ pc = "waiting" /\ pc' = "requesting"
  /\ attempt' = attempt + 1
  /\ late' = IF cancelled THEN late + 1 ELSE late
  /\ UNCHANGED <<maxAttempt, op, tries, cancelled, result>>

WaitCancelled ==
  /\ pc = "waiting" /\ cancelled /\ Return("cancelled")
  /\ UNCHANGED <<maxAttempt, op, attempt, tries, cancelled, late>>

\* A signal, or the shutdown timer.
Cancel ==
  /\ ~cancelled /\ cancelled' = TRUE
  /\ UNCHANGED <<maxAttempt, pc, op, attempt, tries, late, result>>

Wait == TimerFires \/ WaitCancelled

Next == (\E o \in Operations : Call(o)) \/ Respond \/ Wait \/ Cancel

\* An exchange ends, at the latest at the HTTP client's timeout, and timers fire.
Fairness == WF_vars(Respond) /\ WF_vars(Wait)

Spec == Init /\ [][Next]_vars /\ Fairness

-----------------------------------------------------------------------------
\* The variables keep their types and bounds.
TypeOK ==
  /\ maxAttempt \in Nat \ {0}
  /\ pc \in {"idle", "requesting", "waiting"}
  /\ op \in Operations
  /\ attempt \in Nat /\ late \in Nat
  /\ tries \in Seq(Outcomes)
  /\ cancelled \in BOOLEAN
  /\ result \in Results

\* The service is asked at most maxAttempt times, the budget is used up before
\* it is said to be exhausted, and nobody waits after the last attempt
\* (transport.go, fetch).
BudgetKept ==
  /\ Len(tries) <= maxAttempt
  /\ result = "exhausted" => Len(tries) = maxAttempt
  /\ pc = "waiting" => Len(tries) < maxAttempt

\* Only what may get better is asked for again: a failed exchange, or a status
\* that docs/02-imds-v2.md names (transport.go, tryFetch).
RetriesOnlyTransient ==
  \A i \in 1 .. Len(tries) - 1 :
    \/ tries[i].kind = "transport"
    \/ /\ tries[i].kind = "response"
       /\ tries[i].status \in {408, 429} \union ((500 .. 599) \ {501})

\* A value comes from the last attempt's 200; the other results have their cause.
ResultExplained ==
  /\ result \in {"value", "useless"} =>
       /\ Len(tries) > 0
       /\ tries[Len(tries)].kind = "response" /\ tries[Len(tries)].status = 200
  /\ result = "value" /\ op \in TextOps => tries[Len(tries)].body # "blank"
  /\ result = "cancelled" => cancelled

\* Once the context is done at most one more request is begun, although the
\* select may prefer the timer (transport.go, wait and tryFetch).
CancelStopsSoon == late <= 1

\* The requests are bounded by the budget, and by the context once it is done.
RequestsBounded == BudgetKept /\ CancelStopsSoon

\* Every repetition and every result has its cause in the outcomes before it.
OutcomesExplained == RetriesOnlyTransient /\ ResultExplained

\* Every operation returns.
FetchEnds == pc # "idle" ~> pc = "idle"
=============================================================================
