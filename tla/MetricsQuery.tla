---------------------------- MODULE MetricsQuery ----------------------------
(***************************************************************************)
(* The OCI Monitoring client (pkg/oci): QueryP95CPU fetches the window's   *)
(* datapoints page by page, collects their values and picks one by its     *)
(* rank.  The Monitoring service and the SDK's transport are external: a   *)
(* call returns the page its token names, or fails (request, transport,    *)
(* status or decoding), and the loop cannot tell the failures apart.       *)
(*                                                                         *)
(* A datapoint has an identity and is held on one page, so the slice of    *)
(* values is the set of the datapoints it was filled from.                 *)
(***************************************************************************)
EXTENDS Integers, FiniteSets, Sequences

CONSTANTS
  Datapoints, Value, Time, NoValue, Layouts,   \* see AtomicQuery
  Blank,        \* a page token of white space only
  NoToken,      \* no page token
  MaxCalls      \* bound: the counter of calls stays there, the calls go on

\* Every layout is a sequence of pages and has one.
ASSUME LayoutAssumption ==
  /\ IsFiniteSet(Datapoints)
  /\ \A d \in Datapoints : /\ Value[d] \in Int \union {NoValue}
                           /\ Time[d] \in Nat \union {NoValue}
  /\ NoValue \notin Int
  /\ \A l \in Layouts : l \in Seq(SUBSET Datapoints) /\ Len(l) > 0

ASSUME TokenAssumption ==
  /\ Blank # NoToken /\ Blank \notin Nat /\ NoToken \notin Nat
  /\ MaxCalls \in Nat /\ \A l \in Layouts : Len(l) <= MaxCalls

VARIABLES
  pc,          \* "idle", "calling", "digesting" or "ranking"
  held,        \* the pages Monitoring holds for this query
  token,       \* pageToken
  reply,       \* the response of the last call: a page and the next token
  collected,   \* values: the datapoints they were appended from
  latest,      \* the newest timestamp seen; 0 is time.Time{}
  calls,       \* calls made by this query
  answer       \* what QueryP95CPU returned last

vars == <<pc, held, token, reply, collected, latest, calls, answer>>

Atomic == INSTANCE AtomicQuery WITH phase <- IF pc = "idle" THEN "idle" ELSE "asking"

NoReply == [page |-> {}, next |-> NoToken]

Init ==
  /\ pc = "idle"
  /\ held \in Layouts
  /\ token = NoToken /\ reply = NoReply
  /\ collected = {} /\ latest = 0 /\ calls = 0
  /\ answer = Atomic!Failed

-----------------------------------------------------------------------------
\* QueryP95CPU without an instance OCID.
QueryNothing ==
  /\ pc = "idle"
  /\ answer' = Atomic!Failed
  /\ UNCHANGED <<pc, held, token, reply, collected, latest, calls>>

\* QueryP95CPU: a fresh window, no token, nothing collected.
Query ==
  /\ pc = "idle"
  /\ pc' = "calling"
  /\ held' \in Layouts
  /\ token' = NoToken /\ collected' = {} /\ latest' = 0 /\ calls' = 0
  /\ answer' = Atomic!Pending
  /\ UNCHANGED reply

\* Mutated form: a blank token is passed on.
MutNormalizePageToken(t) == t

\* normalizePageToken.
NormalizePageToken(t) == IF t = Blank THEN NoToken ELSE t

\* The service: without a page parameter it starts at the first page; after the
\* last page the Opc-Next-Page header is missing or blank.
Serve ==
  /\ pc = "calling"
  /\ LET t == NormalizePageToken(token)
         p == IF t \in DOMAIN held THEN t ELSE 1
     IN \E last \in {NoToken, Blank} :
          reply' = [page |-> held[p],
                    next |-> NormalizePageToken(IF p < Len(held) THEN p + 1 ELSE last)]
  /\ calls' = IF calls < MaxCalls THEN calls + 1 ELSE calls
  /\ pc' = "digesting"
  /\ UNCHANGED <<held, token, collected, latest, answer>>

\* Mutated form: what was collected so far is ranked.
MutCallFails ==
  /\ pc = "calling" /\ pc' = "ranking"
  /\ UNCHANGED <<held, token, reply, collected, latest, calls, answer>>

\* Any failure ends the query and discards what was collected.
CallFails ==
  /\ pc = "calling" /\ pc' = "idle"
  /\ answer' = Atomic!Failed
  /\ UNCHANGED <<held, token, reply, collected, latest, calls>>

\* Mutated form: only an absent timestamp is looked for.
MutKept(page) == {d \in page : Time[d] # NoValue}

\* The datapoints of a page that appendMetricValues does not skip.
Kept(page) == Atomic!Usable(page)

Later(t, points) ==
  IF \E d \in points : Time[d] > t
  THEN CHOOSE u \in {Time[d] : d \in points} : \A d \in points : Time[d] <= u
  ELSE t

\* appendMetricValues, and the end of the loop's body.
Digest ==
  /\ pc = "digesting"
  /\ collected' = collected \union Kept(reply.page)
  /\ latest' = Later(latest, Kept(reply.page))
  /\ token' = NormalizePageToken(reply.next)
  /\ pc' = IF token' = NoToken THEN "ranking" ELSE "calling"
  /\ UNCHANGED <<held, reply, calls, answer>>

\* Mutated form: the rank is rounded down.
MutRank(n) == IF (19 * n) \div 20 < 1 THEN 1 ELSE (19 * n) \div 20

\* percentile: max(ceil(0.95 * n), 1), within the slice.
Rank(n) ==
  LET r == (19 * n + 19) \div 20
  IN IF r < 1 THEN 1 ELSE IF r > n THEN n ELSE r

Below(S, v) == {d \in S : Value[d] < v}

\* The element at index rank - 1 of the sorted slice.
IsRanked(S, r, v) ==
  Cardinality(Below(S, v)) < r /\ r <= Cardinality(Atomic!AtOrBelow(S, v))

\* The end of collectLatestDatapoint and of QueryP95CPU.
Finish ==
  /\ pc = "ranking" /\ pc' = "idle"
  /\ IF collected = {} THEN answer' = Atomic!NoData
     ELSE \E d \in collected :
            /\ IsRanked(collected, Rank(Cardinality(collected)), Value[d])
            /\ answer' = Atomic!P95(Value[d], latest)
  /\ UNCHANGED <<held, token, reply, collected, latest, calls>>

CallReturns == Serve \/ CallFails

Next == QueryNothing \/ Query \/ CallReturns \/ Digest \/ Finish

\* Calls return: the SDK's transport has its own timeouts.
Fairness == WF_vars(CallReturns) /\ WF_vars(Digest) /\ WF_vars(Finish)

Spec == Init /\ [][Next]_vars /\ Fairness

-----------------------------------------------------------------------------
\* The variables keep their types and bounds.
TypeOK ==
  /\ pc \in {"idle", "calling", "digesting", "ranking"}
  /\ held \in Layouts
  /\ token \in Nat \union {NoToken, Blank}
  /\ reply \in [page : SUBSET Datapoints, next : Nat \union {NoToken, Blank}]
  /\ collected \subseteq Atomic!Usable(Datapoints)
  /\ latest \in Nat
  /\ calls \in 0 .. MaxCalls

\* The loop has collected exactly the pages before the one its token names, and
\* each of them once: one call per page (query.go, collectLatestDatapoint).
PagesInOrder ==
  /\ pc = "calling" /\ token = NoToken => calls = 0
  /\ pc = "calling" /\ token \in Nat => calls = token - 1
  /\ pc \in {"calling", "ranking"} =>
       collected = Atomic!Usable(UNION {held[i] : i \in DOMAIN held \intersect 1 .. calls})
  /\ pc = "ranking" => calls = Len(held)

\* Page by page, with failures at any page, the client implements the one
\* atomic query the controller's model takes it for.
ImplementsAtomicQuery == Atomic!Spec

\* Every query ends: the paging loop, which has no bound of its own, stops with
\* the service's last page or a failure.
QueryEnds == pc = "calling" ~> pc = "idle"
=============================================================================
