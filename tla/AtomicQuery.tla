----------------------------- MODULE AtomicQuery -----------------------------
(***************************************************************************)
(* What a MetricsClient promises the controller: a query either fails or   *)
(* tells the 95th percentile of ALL the datapoints Monitoring holds for    *)
(* the window, with the time of the newest one, or that there are none.    *)
(* MetricsQuery, which fetches the datapoints page by page, implements it. *)
(***************************************************************************)
EXTENDS Integers, FiniteSets, Sequences

CONSTANTS
  Datapoints,   \* the datapoints Monitoring may hold
  Value, Time,  \* what is measured, and when; NoValue where the field is absent
  NoValue,
  Layouts       \* the ways Monitoring may cut them into pages

VARIABLES
  phase,   \* "idle" or "asking"
  held,    \* the pages Monitoring holds for the query under way
  answer   \* the last answer

Usable(S) == {d \in S : Value[d] # NoValue /\ Time[d] # NoValue}

AtOrBelow(S, v) == {d \in S : Value[d] <= v}

\* The nearest-rank definition: at least 95% of the datapoints are at or below
\* v, and of no smaller value that is true.
IsP95(S, v) ==
  /\ 20 * Cardinality(AtOrBelow(S, v)) >= 19 * Cardinality(S)
  /\ \A d \in S :
       Value[d] < v => 20 * Cardinality(AtOrBelow(S, Value[d])) < 19 * Cardinality(S)

IsNewest(S, t) == (\E d \in S : Time[d] = t) /\ \A d \in S : Time[d] <= t

All(pages) == Usable(UNION {pages[i] : i \in DOMAIN pages})

Pending == [kind |-> "pending", value |-> 0, time |-> 0]
Failed  == [kind |-> "error", value |-> 0, time |-> 0]
NoData  == [kind |-> "noData", value |-> 0, time |-> 0]
P95(v, t) == [kind |-> "p95", value |-> v, time |-> t]

Init == phase = "idle" /\ held \in Layouts /\ answer = Failed

Ask ==
  /\ phase = "idle"
  /\ phase' = "asking" /\ held' \in Layouts /\ answer' = Pending

\* A query that is refused before it is sent.
Refuse == phase = "idle" /\ answer' = Failed /\ UNCHANGED <<phase, held>>

Fail == phase = "asking" /\ phase' = "idle" /\ answer' = Failed /\ UNCHANGED held

Tell ==
  /\ phase = "asking" /\ phase' = "idle" /\ UNCHANGED held
  /\ IF All(held) = {} THEN answer' = NoData
     ELSE \E d, e \in All(held) :
            /\ IsP95(All(held), Value[d]) /\ IsNewest(All(held), Time[e])
            /\ answer' = P95(Value[d], Time[e])

Next == Ask \/ Refuse \/ Fail \/ Tell

Spec == Init /\ [][Next]_<<phase, held, answer>>
=============================================================================
