-------------------------- MODULE MetricsQueryProofs --------------------------
(***************************************************************************)
(* Proofs about MetricsQuery: however Monitoring cuts the datapoints into  *)
(* pages and wherever a call fails, the paging client implements the one   *)
(* atomic query of AtomicQuery.                                            *)
(***************************************************************************)
EXTENDS MetricsQuery, FiniteSetTheorems, TLAPS

Usable(S) == Atomic!Usable(S)

\* The datapoints of the first n pages.
Pages(n) == Usable(UNION {held[i] : i \in 1 .. n})

Typed ==
  /\ pc \in {"idle", "calling", "digesting", "ranking"}
  /\ held \in Layouts
  /\ calls \in Nat
  /\ collected \subseteq Usable(Datapoints)
  /\ latest \in Nat

\* Where the loop stands: the page its token names is the one after those it
\* has collected, and a reply in hand is that page with the token of the next.
InOrder ==
  /\ pc = "calling" =>
       /\ calls < Len(held)
       /\ token = IF calls = 0 THEN NoToken ELSE calls + 1
       /\ collected = Pages(calls)
  /\ pc = "digesting" =>
       /\ calls \in 1 .. Len(held)
       /\ reply.page = held[calls]
       /\ reply.next = IF calls < Len(held) THEN calls + 1 ELSE NoToken
       /\ collected = Pages(calls - 1)
  /\ pc = "ranking" => calls = Len(held) /\ collected = Pages(calls)

\* The newest timestamp is that of a datapoint collected.
LatestIsNewest ==
  IF collected = {} THEN latest = 0 ELSE Atomic!IsNewest(collected, latest)

IInv == Typed /\ InOrder /\ LatestIsNewest

-----------------------------------------------------------------------------
\* A finite set of integers that is not empty has a greatest element: there is
\* no smallest set without one.
LEMMA FiniteMaximum ==
  ASSUME NEW T \in SUBSET Int, IsFiniteSet(T), T # {}
  PROVE  \E m \in T : \A x \in T : x <= m
<1> DEFINE Bounded(U) == \E m \in U : \A x \in U : x <= m
           Bad == {U \in FiniteSubsetsOf(T) : U # {} /\ ~Bounded(U)}
<1>1. ASSUME Bad # {} PROVE FALSE
  <2>1. PICK U \in Bad : \A V \in Bad : <<V, U>> \notin StrictSubsetOrdering(T)
    <3>1. Bad \subseteq FiniteSubsetsOf(T)
      OBVIOUS
    <3> QED
      BY <1>1, <3>1, WFMin, FS_StrictSubsetOrderingWellFounded
  <2>2. U \subseteq T /\ IsFiniteSet(U) /\ U # {} /\ ~Bounded(U)
    BY <2>1 DEF FiniteSubsetsOf
  <2>3. PICK x \in U : TRUE
    BY <2>2
  <2> DEFINE V == U \ {x}
  <2>4. V \subseteq T /\ IsFiniteSet(V) /\ <<V, U>> \in StrictSubsetOrdering(T)
    BY <2>2, <2>3, FS_RemoveElement DEF StrictSubsetOrdering
  <2>5. CASE V = {}
    <3>1. \A y \in U : y = x
      BY <2>5
    <3> QED
      BY <2>2, <2>3, <3>1
  <2>6. CASE V # {}
    <3>1. Bounded(V)
      BY <2>1, <2>4, <2>6 DEF FiniteSubsetsOf
    <3>2. PICK m \in V : \A y \in V : y <= m
      BY <3>1
    <3>3. CASE x <= m
      <4>1. m \in U /\ \A y \in U : y <= m
        BY <3>2, <3>3
      <4> QED
        BY <2>2, <4>1
    <3>4. CASE m <= x
      <4>1. \A y \in U : y <= x
        BY <2>2, <3>2, <3>4
      <4> QED
        BY <2>2, <2>3, <4>1
    <3> QED
      BY <2>2, <2>3, <3>2, <3>3, <3>4
  <2> QED
    BY <2>5, <2>6
<1>2. T \in FiniteSubsetsOf(T)
  BY DEF FiniteSubsetsOf
<1> QED
  BY <1>1, <1>2

\* A usable datapoint has a value and a time, and any set of them is finite.
LEMMA UsableFacts ==
  ASSUME NEW S \in SUBSET Datapoints
  PROVE  /\ Usable(S) \subseteq Datapoints /\ Usable(S) \subseteq S
         /\ IsFiniteSet(Usable(S))
         /\ \A d \in Usable(S) : Value[d] \in Int /\ Time[d] \in Nat
<1>1. Usable(S) \subseteq S
  BY DEF Usable, Atomic!Usable
<1>2. IsFiniteSet(Usable(S))
  BY <1>1, LayoutAssumption, FS_Subset
<1>3. \A d \in Usable(S) : Value[d] \in Int /\ Time[d] \in Nat
  BY LayoutAssumption DEF Usable, Atomic!Usable
<1> QED
  BY <1>1, <1>2, <1>3

\* Later is the latest of a time and those of some datapoints.
LEMMA LaterFacts ==
  ASSUME NEW t \in Nat, NEW S \in SUBSET Datapoints, IsFiniteSet(S),
         \A d \in S : Time[d] \in Nat
  PROVE  /\ Later(t, S) \in Nat
         /\ Later(t, S) >= t /\ \A d \in S : Time[d] <= Later(t, S)
         /\ Later(t, S) = t \/ \E d \in S : Time[d] = Later(t, S)
<1>1. CASE \E d \in S : Time[d] > t
  <2> DEFINE T == {Time[d] : d \in S}
             Newest(u) == u \in T /\ \A d \in S : Time[d] <= u
  <2>1. IsFiniteSet(T)
    <3>1. [d \in S |-> Time[d]] \in Surjection(S, T)
      BY DEF Surjection
    <3> QED
      BY <3>1, FS_Surjection
  <2>2. \E u : Newest(u)
    <3>1. T \in SUBSET Int /\ T # {}
      BY <1>1
    <3>2. PICK m \in T : \A x \in T : x <= m
      BY <2>1, <3>1, FiniteMaximum
    <3> QED
      BY <3>2
  <2>3. Later(t, S) = CHOOSE u \in T : \A d \in S : Time[d] <= u
    BY <1>1 DEF Later
  <2>4. Newest(Later(t, S))
    BY <2>2, <2>3
  <2> QED
    BY <1>1, <2>4
<1>2. CASE ~\E d \in S : Time[d] > t
  BY <1>2 DEF Later
<1> QED
  BY <1>1, <1>2

\* The rank is the smallest number of datapoints that makes up 95 percent.
LEMMA RankFacts ==
  ASSUME NEW n \in Nat \ {0}
  PROVE  Rank(n) \in 1 .. n /\ 20 * Rank(n) >= 19 * n /\ 20 * (Rank(n) - 1) < 19 * n
<1> DEFINE r == (19 * n + 19) \div 20
<1>1. r \in Int /\ 20 * r <= 19 * n + 19 /\ 19 * n + 19 < 20 * r + 20
  OBVIOUS
<1>2. Rank(n) = IF r < 1 THEN 1 ELSE IF r > n THEN n ELSE r
  BY DEF Rank
<1> HIDE DEF r
<1> QED
  BY <1>1, <1>2

\* The element at the rank is the 95th percentile by its definition.
THEOREM RankedIsP95 ==
  ASSUME NEW S \in SUBSET Datapoints, IsFiniteSet(S), S # {},
         \A d \in S : Value[d] \in Int,
         NEW v \in Int, IsRanked(S, Rank(Cardinality(S)), v)
  PROVE  Atomic!IsP95(S, v)
<1> DEFINE n == Cardinality(S)
           Below95(w) == Cardinality(Atomic!AtOrBelow(S, w))
<1>1. n \in Nat \ {0}
  BY FS_CardinalityType, FS_EmptySet
<1>2. \A w : IsFiniteSet(Atomic!AtOrBelow(S, w)) /\ Below95(w) \in Nat
  <2>1. \A w : Atomic!AtOrBelow(S, w) \in SUBSET S
    BY DEF Atomic!AtOrBelow
  <2> QED
    BY <2>1, FS_Subset, FS_CardinalityType
<1>3. IsFiniteSet(Below(S, v)) /\ Cardinality(Below(S, v)) \in Nat
  <2>1. Below(S, v) \in SUBSET S
    BY DEF Below
  <2> QED
    BY <2>1, FS_Subset, FS_CardinalityType
<1>4. Cardinality(Below(S, v)) < Rank(n) /\ Rank(n) <= Below95(v)
  BY DEF IsRanked
<1>5. 20 * Below95(v) >= 19 * n
  BY <1>1, <1>2, <1>4, RankFacts
<1>6. ASSUME NEW d \in S, Value[d] < v
      PROVE  20 * Below95(Value[d]) < 19 * n
  <2>1. Atomic!AtOrBelow(S, Value[d]) \in SUBSET Below(S, v)
    BY <1>6 DEF Atomic!AtOrBelow, Below
  <2>2. Below95(Value[d]) <= Cardinality(Below(S, v))
    BY <2>1, <1>3, FS_Subset
  <2>3. Rank(n) \in Nat /\ 20 * (Rank(n) - 1) < 19 * n
    BY <1>1, RankFacts
  <2> HIDE DEF n, Below95
  <2> QED
    BY <1>1, <1>2, <1>3, <1>4, <2>2, <2>3
<1>7. \A d \in S : Value[d] < v => 20 * Below95(Value[d]) < 19 * n
  BY <1>6
<1>8. \A T : Atomic!Cardinality(T) = Cardinality(T)
  BY DEF Atomic!Cardinality, Cardinality
<1> QED
  BY <1>5, <1>7, <1>8 DEF Atomic!IsP95

-----------------------------------------------------------------------------
\* Every layout is a sequence of at least one page of datapoints.
LEMMA HeldFacts ==
  ASSUME Typed
  PROVE  /\ held \in Seq(SUBSET Datapoints)
         /\ Len(held) \in Nat \ {0} /\ Len(held) <= MaxCalls
         /\ DOMAIN held = 1 .. Len(held)
         /\ \A i \in 1 .. Len(held) : held[i] \in SUBSET Datapoints
BY LayoutAssumption, TokenAssumption DEF Typed

\* No page has been collected, one more has, or all have.
LEMMA PagesFacts ==
  ASSUME Typed
  PROVE  /\ Pages(0) = {}
         /\ \A n \in 1 .. Len(held) : Pages(n) = Pages(n - 1) \union Usable(held[n])
         /\ Pages(Len(held)) = Atomic!All(held)
<1>1. Pages(0) = {}
  BY DEF Pages, Usable, Atomic!Usable
<1>2. ASSUME NEW n \in 1 .. Len(held)
      PROVE  Pages(n) = Pages(n - 1) \union Usable(held[n])
  <2>1. 1 .. n = (1 .. n - 1) \union {n}
    BY HeldFacts
  <2>2. UNION {held[i] : i \in 1 .. n} = (UNION {held[i] : i \in 1 .. n - 1}) \union held[n]
    BY <2>1
  <2> QED
    BY <2>2 DEF Pages, Usable, Atomic!Usable
<1>3. Pages(Len(held)) = Atomic!All(held)
  BY HeldFacts DEF Pages, Usable, Atomic!All
<1> QED
  BY <1>1, <1>2, <1>3

\* The initial states.
LEMMA Start == Init => IInv
<1> SUFFICES ASSUME Init PROVE IInv
  OBVIOUS
<1>1. Typed
  BY DEF Init, Typed
<1>2. InOrder /\ LatestIsNewest
  BY DEF Init, InOrder, LatestIsNewest
<1> QED
  BY <1>1, <1>2 DEF IInv

\* A query begins before the first page, with nothing collected.
LEMMA QueryPreserves == IInv /\ (QueryNothing \/ Query) => IInv'
<1> SUFFICES ASSUME IInv, QueryNothing \/ Query PROVE IInv'
  OBVIOUS
<1>1. CASE QueryNothing
  <2>1. UNCHANGED <<pc, held, token, reply, collected, latest, calls>>
    BY <1>1 DEF QueryNothing
  <2> QED
    BY <2>1 DEF IInv, Typed, InOrder, LatestIsNewest, Pages
<1>2. CASE Query
  <2>1. /\ pc' = "calling" /\ held' \in Layouts
        /\ token' = NoToken /\ collected' = {} /\ latest' = 0 /\ calls' = 0
    BY <1>2 DEF Query
  <2>2. Typed'
    BY <2>1 DEF Typed
  <2>3. Len(held') > 0 /\ Pages(0)' = {}
    <3>1. Len(held') > 0
      BY <2>1, LayoutAssumption
    <3> QED
      BY <3>1 DEF Pages, Usable, Atomic!Usable
  <2>4. InOrder'
    BY <2>1, <2>3 DEF InOrder
  <2>5. LatestIsNewest'
    BY <2>1 DEF LatestIsNewest
  <2> QED
    BY <2>2, <2>4, <2>5 DEF IInv
<1> QED
  BY <1>1, <1>2

\* A call returns the page that comes next, and the token of the one after.
LEMMA ServePreserves == IInv /\ Serve => IInv'
<1> SUFFICES ASSUME IInv, Serve PROVE IInv'
  OBVIOUS
<1> DEFINE p == calls + 1
<1>1. /\ pc = "calling" /\ pc' = "digesting"
      /\ UNCHANGED <<held, token, collected, latest, answer>>
  BY DEF Serve
<1>2. /\ calls \in Nat /\ calls < Len(held) /\ Len(held) \in Nat /\ Len(held) <= MaxCalls
      /\ token = IF calls = 0 THEN NoToken ELSE p
      /\ collected = Pages(calls)
      /\ DOMAIN held = 1 .. Len(held)
  BY <1>1, HeldFacts DEF IInv, Typed, InOrder
<1>3. (IF NormalizePageToken(token) \in DOMAIN held THEN NormalizePageToken(token) ELSE 1) = p
  BY <1>2, TokenAssumption DEF NormalizePageToken
<1>4. PICK last \in {NoToken, Blank} :
        reply' = [page |-> held[p],
                  next |-> NormalizePageToken(IF p < Len(held) THEN p + 1 ELSE last)]
  BY <1>3 DEF Serve
<1>5. calls' = p
  BY <1>2, TokenAssumption DEF Serve
<1>6. reply'.page = held[p]
  BY <1>4
<1>7. reply'.next = IF p < Len(held) THEN p + 1 ELSE NoToken
  BY <1>2, <1>4, TokenAssumption DEF NormalizePageToken
<1>8. Typed'
  BY <1>1, <1>2, <1>5 DEF IInv, Typed
<1>9. InOrder'
  <2>1. calls' \in 1 .. Len(held') /\ calls' - 1 = calls /\ pc' = "digesting"
    BY <1>1, <1>2, <1>5
  <2>2. collected' = Usable(UNION {held'[i] : i \in 1 .. calls' - 1})
    BY <1>1, <1>2, <2>1 DEF Pages
  <2>3. reply'.page = held'[calls'] /\ reply'.next = IF calls' < Len(held') THEN calls' + 1 ELSE NoToken
    BY <1>1, <1>5, <1>6, <1>7
  <2> QED
    BY <2>1, <2>2, <2>3 DEF InOrder, Pages, Usable
<1>10. LatestIsNewest'
  BY <1>1 DEF IInv, LatestIsNewest
<1> QED
  BY <1>8, <1>9, <1>10 DEF IInv

\* A page is digested: its usable datapoints are collected, once.
LEMMA DigestPreserves == IInv /\ Digest => IInv'
<1> SUFFICES ASSUME IInv, Digest PROVE IInv'
  OBVIOUS
<1> DEFINE K == Usable(held[calls])
<1>1. /\ pc = "digesting" /\ token' = NormalizePageToken(reply.next)
      /\ pc' = IF token' = NoToken THEN "ranking" ELSE "calling"
      /\ UNCHANGED <<held, reply, calls, answer>>
  BY DEF Digest
<1>2. /\ calls \in 1 .. Len(held) /\ reply.page = held[calls]
      /\ reply.next = IF calls < Len(held) THEN calls + 1 ELSE NoToken
      /\ collected = Pages(calls - 1)
      /\ Len(held) \in Nat
  BY <1>1, HeldFacts DEF IInv, InOrder
<1>3. held[calls] \in SUBSET Datapoints
  BY <1>2, HeldFacts DEF IInv
<1>4. /\ collected' = collected \union K
      /\ latest' = Later(latest, K)
  BY <1>2 DEF Digest, Kept, Usable
<1>5. /\ K \subseteq Datapoints /\ IsFiniteSet(K) /\ K \subseteq Usable(Datapoints)
      /\ \A d \in K : Time[d] \in Nat
  BY <1>3, UsableFacts DEF Usable, Atomic!Usable
<1>6. /\ latest' \in Nat /\ latest' >= latest /\ \A d \in K : Time[d] <= latest'
      /\ latest' = latest \/ \E d \in K : Time[d] = latest'
  BY <1>4, <1>5, LaterFacts DEF IInv, Typed
<1>7. Typed'
  BY <1>1, <1>4, <1>5, <1>6 DEF IInv, Typed
<1>8. InOrder'
  <2>1. collected' = Pages(calls)
    BY <1>2, <1>4, PagesFacts DEF IInv
  <2>2. Pages(calls) = Pages(calls)'
    BY <1>1 DEF Pages
  <2>3. CASE calls < Len(held)
    <3>1. token' = calls + 1 /\ pc' = "calling"
      BY <1>1, <1>2, <2>3, TokenAssumption DEF NormalizePageToken
    <3> QED
      BY <1>1, <1>2, <2>1, <2>2, <2>3, <3>1 DEF InOrder
  <2>4. CASE calls = Len(held)
    <3>1. pc' = "ranking"
      BY <1>1, <1>2, <2>4, TokenAssumption DEF NormalizePageToken
    <3> QED
      BY <1>1, <2>1, <2>2, <2>4, <3>1 DEF InOrder
  <2> QED
    BY <1>2, <2>3, <2>4
<1>9. LatestIsNewest'
  <2>1. \A d \in collected : Time[d] \in Nat
    BY UsableFacts DEF IInv, Typed
  <2>2. CASE collected = {}
    <3>1. latest = 0 /\ collected' = K
      BY <1>4, <2>2 DEF IInv, LatestIsNewest
    <3>2. CASE K = {}
      BY <1>6, <3>1, <3>2 DEF LatestIsNewest
    <3>3. CASE K # {}
      <4>1. \E d \in K : Time[d] = latest'
        BY <1>5, <1>6, <3>1, <3>3
      <4> QED
        BY <1>6, <3>1, <3>3, <4>1 DEF LatestIsNewest, Atomic!IsNewest
    <3> QED
      BY <3>2, <3>3
  <2>3. CASE collected # {}
    <3>1. (\E d \in collected : Time[d] = latest) /\ \A d \in collected : Time[d] <= latest
      BY <2>3 DEF IInv, LatestIsNewest, Atomic!IsNewest
    <3>2. \A d \in collected' : Time[d] <= latest'
      BY <1>4, <1>6, <2>1, <3>1 DEF IInv, Typed
    <3>3. \E d \in collected' : Time[d] = latest'
      BY <1>4, <1>6, <3>1
    <3> QED
      BY <3>2, <3>3 DEF LatestIsNewest, Atomic!IsNewest
  <2> QED
    BY <2>2, <2>3
<1> QED
  BY <1>7, <1>8, <1>9 DEF IInv

\* A query ends.
LEMMA EndPreserves == IInv /\ (CallFails \/ Finish) => IInv'
<1> SUFFICES ASSUME IInv, CallFails \/ Finish PROVE IInv'
  OBVIOUS
<1>1. pc' = "idle" /\ UNCHANGED <<held, token, reply, collected, latest, calls>>
  BY DEF CallFails, Finish
<1> QED
  BY <1>1 DEF IInv, Typed, InOrder, LatestIsNewest

\* The inductive invariant: the loop has collected exactly the pages before the
\* one it asks for, each once, and knows the newest time among them.
THEOREM Safety == Spec => []IInv
<1>1. IInv /\ UNCHANGED vars => IInv'
  BY DEF IInv, Typed, InOrder, LatestIsNewest, Pages, vars
<1>2. IInv /\ [Next]_vars => IInv'
  BY <1>1, QueryPreserves, ServePreserves, DigestPreserves, EndPreserves
     DEF Next, CallReturns
<1> QED
  BY Start, <1>2, PTL DEF Spec

-----------------------------------------------------------------------------
\* The end of a query tells the 95th percentile of all that Monitoring holds.
LEMMA FinishTells == IInv /\ Finish => Atomic!Tell
<1> SUFFICES ASSUME IInv, Finish PROVE Atomic!Tell
  OBVIOUS
<1>1. /\ pc = "ranking" /\ pc' = "idle" /\ held' = held
      /\ collected = Atomic!All(held)
  BY PagesFacts DEF Finish, IInv, InOrder
<1>2. CASE collected = {}
  BY <1>1, <1>2 DEF Finish, Atomic!Tell
<1>3. CASE collected # {}
  <2>1. PICK d \in collected :
          /\ IsRanked(collected, Rank(Cardinality(collected)), Value[d])
          /\ answer' = Atomic!P95(Value[d], latest)
    BY <1>3 DEF Finish
  <2>2. /\ collected \in SUBSET Datapoints /\ IsFiniteSet(collected)
        /\ \A e \in collected : Value[e] \in Int
    BY UsableFacts, FS_Subset DEF IInv, Typed
  <2>3. Atomic!IsP95(collected, Value[d])
    BY <1>3, <2>1, <2>2, RankedIsP95
  <2>4. PICK e \in collected : Time[e] = latest /\ Atomic!IsNewest(collected, Time[e])
    BY <1>3 DEF IInv, LatestIsNewest, Atomic!IsNewest
  <2> QED
    BY <1>1, <1>3, <2>1, <2>3, <2>4 DEF Atomic!Tell
<1> QED
  BY <1>2, <1>3

\* Page by page, whatever call fails and wherever, the client implements the
\* atomic query: an answer that is not a failure is the 95th percentile of ALL
\* the datapoints of the window and carries the newest time
\* (query.go, QueryP95CPU and collectLatestDatapoint).
THEOREM Refinement == Spec => ImplementsAtomicQuery
<1>1. Init => Atomic!Init
  BY DEF Init, Atomic!Init
<1>2. ASSUME IInv, [Next]_vars
      PROVE  [Atomic!Next]_<<IF pc = "idle" THEN "idle" ELSE "asking", held, answer>>
  <2>1. CASE QueryNothing
    BY <2>1 DEF QueryNothing, Atomic!Next, Atomic!Refuse
  <2>2. CASE Query
    BY <2>2 DEF Query, Atomic!Next, Atomic!Ask
  <2>3. CASE Serve
    BY <2>3 DEF Serve
  <2>4. CASE CallFails
    BY <2>4 DEF CallFails, Atomic!Next, Atomic!Fail
  <2>5. CASE Digest
    BY <2>5 DEF Digest
  <2>6. CASE Finish
    BY <1>2, <2>6, FinishTells DEF Atomic!Next
  <2>7. CASE UNCHANGED vars
    BY <2>7 DEF vars
  <2> QED
    BY <1>2, <2>1, <2>2, <2>3, <2>4, <2>5, <2>6, <2>7 DEF Next, CallReturns
<1> QED
  BY <1>1, <1>2, Safety, PTL DEF Spec, ImplementsAtomicQuery, Atomic!Spec
=============================================================================
