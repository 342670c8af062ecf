--------------------------- MODULE ResolutionProofs ---------------------------
(***************************************************************************)
(* Proofs about module Resolution: a pack's answer is whole or an error, a *)
(* verdict is the answer that dominates, in whatever order the packs were  *)
(* asked, and the query cache keeps only complete answers.                 *)
(***************************************************************************)
EXTENDS Resolution, FiniteSetTheorems, TLAPS

-----------------------------------------------------------------------------
(* Orders                                                                  *)

\* A strict total order on a finite set, given as its pairs, has a first element.
LEMMA FirstExists ==
  ASSUME NEW S, IsFiniteSet(S), S # {}, NEW Q,
         \A x \in S : <<x, x>> \notin Q,
         \A x, y \in S : x = y \/ <<x, y>> \in Q \/ <<y, x>> \in Q,
         \A x, y, z \in S : <<x, y>> \in Q /\ <<y, z>> \in Q => <<x, z>> \in Q
  PROVE  \E x \in S : \A y \in S \ {x} : <<x, y>> \in Q
<1> DEFINE First(U) == \E x \in U : \A y \in U \ {x} : <<x, y>> \in Q
           Bad == {U \in SUBSET S : U # {} /\ ~First(U)}
<1>1. SUFFICES ASSUME Bad # {} PROVE FALSE
  OBVIOUS
<1>2. IsWellFoundedOn(StrictSubsetOrdering(S), SUBSET S)
  BY FS_StrictSubsetOrderingWellFounded, FS_FiniteSubsetsOfFinite
<1>3. PICK U \in Bad : \A V \in Bad : <<V, U>> \notin StrictSubsetOrdering(S)
  <2>1. Bad \subseteq SUBSET S
    OBVIOUS
  <2> HIDE DEF Bad
  <2> QED
    BY <1>1, <1>2, <2>1, WFMin
<1>4. PICK u \in U : TRUE
  BY <1>3
<1>5. U \ {u} \notin Bad
  <2>1. <<U \ {u}, U>> \in StrictSubsetOrdering(S)
    <3>1. U \in SUBSET S /\ U \ {u} \in SUBSET S /\ U \ {u} # U
      BY <1>3, <1>4
    <3> HIDE DEF Bad
    <3> QED
      BY <3>1 DEF StrictSubsetOrdering
  <2> QED
    BY <1>3, <2>1
<1>6. CASE U = {u}
  BY <1>3, <1>4, <1>6
<1>7. CASE U # {u}
  <2>1. PICK m \in U \ {u} : \A y \in (U \ {u}) \ {m} : <<m, y>> \in Q
    BY <1>3, <1>5, <1>7
  <2>2. First(U)
    <3>1. CASE <<u, m>> \in Q
      BY <1>3, <1>4, <2>1, <3>1
    <3>2. CASE <<m, u>> \in Q
      BY <1>3, <1>4, <2>1, <3>2
    <3> QED
      BY <1>3, <1>4, <2>1, <3>1, <3>2
  <2> QED
    BY <1>3, <2>2
<1> QED
  BY <1>6, <1>7

\* A set of naturals with an element has a least one.
LEMMA LeastExists ==
  ASSUME NEW S \in SUBSET Nat, S # {}
  PROVE  \E n \in S : \A m \in S : n <= m
<1>1. PICK k \in S : TRUE
  OBVIOUS
<1> DEFINE T == {n \in S : n <= k}
           Q == {z \in T \X T : z[1] < z[2]}
<1>2. IsFiniteSet(T) /\ T # {}
  BY <1>1, FS_BoundedSetOfNaturals
<1>3. \E x \in T : \A y \in T \ {x} : <<x, y>> \in Q
  <2>1. \A x \in T : <<x, x>> \notin Q
    OBVIOUS
  <2>2. \A x, y \in T : x = y \/ <<x, y>> \in Q \/ <<y, x>> \in Q
    OBVIOUS
  <2>3. \A x, y, z \in T : <<x, y>> \in Q /\ <<y, z>> \in Q => <<x, z>> \in Q
    OBVIOUS
  <2> HIDE DEF T, Q
  <2> QED
    BY <1>2, <2>1, <2>2, <2>3, FirstExists
<1>4. PICK n \in T : \A y \in T \ {n} : <<n, y>> \in Q
  BY <1>3
<1>5. \A m \in S : n <= m
  <2>1. TAKE m \in S
  <2>2. CASE m \in T \ {n}
    <3>1. <<n, m>> \in Q
      BY <1>4, <2>2
    <3> QED
      BY <1>4, <3>1
  <2>3. CASE m \notin T
    BY <1>1, <1>4, <2>3
  <2> QED
    BY <1>4, <2>2, <2>3
<1> QED
  BY <1>4, <1>5

\* A finite set of integers with an element has a greatest one, Max.
LEMMA GreatestExists ==
  ASSUME NEW S \in SUBSET Int, S # {}, IsFiniteSet(S)
  PROVE  Max(S) \in S /\ \A m \in S : Max(S) >= m
<1> DEFINE T == S
           Q == {z \in T \X T : z[1] > z[2]}
<1>1. /\ \A x \in T : <<x, x>> \notin Q
      /\ \A x, y \in T : x = y \/ <<x, y>> \in Q \/ <<y, x>> \in Q
      /\ \A x, y, z \in T : <<x, y>> \in Q /\ <<y, z>> \in Q => <<x, z>> \in Q
  OBVIOUS
<1>2. \E x \in T : \A y \in T \ {x} : <<x, y>> \in Q
  <2>1. T # {} /\ IsFiniteSet(T)
    OBVIOUS
  <2> HIDE DEF T, Q
  <2> QED
    BY <1>1, <2>1, FirstExists
<1>3. PICK x \in T : \A y \in T \ {x} : <<x, y>> \in Q
  BY <1>2
<1>4. \A m \in T : x >= m
  <2>1. TAKE m \in T
  <2>2. m = x \/ <<x, m>> \in Q
    BY <1>3
  <2> QED
    BY <1>3, <2>2
<1> QED
  BY <1>3, <1>4 DEF Max
\* Min of a set of naturals with an element.
LEMMA MinIsLeast ==
  ASSUME NEW S \in SUBSET Nat, S # {}
  PROVE  Min(S) \in S /\ \A m \in S : Min(S) <= m
BY LeastExists DEF Min

\* A sequence has finitely many elements.
LEMMA RangeIsFinite ==
  ASSUME NEW s, NEW n \in Nat, DOMAIN s = 1 .. n
  PROVE  IsFiniteSet(Range(s))
<1> DEFINE f == [i \in 1 .. n |-> s[i]]
<1>1. f \in Surjection(1 .. n, Range(s))
  BY DEF Surjection, Range
<1> QED
  BY <1>1, FS_Interval, FS_Surjection

-----------------------------------------------------------------------------
(* The packs asked and their order                                         *)

\* An order in which packs may be asked and ranked: it names every pack.
GoodOrder(order) == order \in Seq(Pack) /\ Pack \subseteq Range(order)

\* Place is where the order names the pack, so two packs have two places.
LEMMA Places ==
  ASSUME NEW order, GoodOrder(order), NEW p \in Pack
  PROVE  Place(order, p) \in Nat /\ order[Place(order, p)] = p
<1>1. \E i \in DOMAIN order : order[i] = p
  BY DEF GoodOrder, Range
<1> QED
  BY <1>1 DEF Place, GoodOrder

\* FirstOf names one of the packs it is given.
LEMMA FirstOfIsIn ==
  ASSUME NEW order, GoodOrder(order), NEW S \in SUBSET Pack, S # {}
  PROVE  FirstOf(order, S) \in S
<1> DEFINE P == {Place(order, p) : p \in S}
<1>1. P \in SUBSET Nat /\ P # {}
  BY Places
<1>2. PICK n \in P : \A m \in P : n <= m
  <2> HIDE DEF P
  <2> QED
    BY <1>1, LeastExists
<1>3. \E p \in S : \A q \in S : Place(order, p) <= Place(order, q)
  BY <1>2
<1> QED
  BY <1>3 DEF FirstOf

\* Both the order of loading and its reverse are such orders, and the packs are few.
LEMMA LoadedOrders ==
  GoodOrder(Loaded) /\ GoodOrder(Reverse(Loaded)) /\ IsFiniteSet(Pack)
<1>1. GoodOrder(Loaded)
  BY ResolutionAssumption DEF GoodOrder
<1>2. Reverse(Loaded) \in Seq(Pack)
  BY ResolutionAssumption DEF Reverse
<1>3. \A p \in Pack : p \in Range(Reverse(Loaded))
  <2>1. TAKE p \in Pack
  <2>2. PICK i \in 1 .. Len(Loaded) : Loaded[i] = p
    BY ResolutionAssumption DEF Range
  <2> DEFINE j == Len(Loaded) - i + 1
  <2>3. Len(Loaded) \in Nat /\ j \in 1 .. Len(Loaded) /\ (Len(Loaded) - j) + 1 = i
    BY <2>2, ResolutionAssumption
  <2> HIDE DEF j
  <2>4. Reverse(Loaded)[j] = p
    BY <2>2, <2>3 DEF Reverse
  <2>5. DOMAIN Reverse(Loaded) = 1 .. Len(Loaded)
    BY DEF Reverse
  <2> QED
    BY <2>3, <2>4, <2>5 DEF Range
<1>4. IsFiniteSet(Pack)
  <2>1. DOMAIN Loaded = 1 .. Len(Loaded) /\ Len(Loaded) \in Nat
    BY ResolutionAssumption
  <2>2. IsFiniteSet(Range(Loaded))
    BY <2>1, RangeIsFinite
  <2> QED
    BY <2>2, FS_Subset, ResolutionAssumption
<1> QED
  BY <1>1, <1>2, <1>3, <1>4 DEF GoodOrder

-----------------------------------------------------------------------------
(* Which sources are asked                                                 *)

\* K is what Asked says of the sources before n: those of them that are asked.
Heard(q, p, K, n) ==
  /\ K \subseteq Primaries(p) /\ \A i \in K : i < n
  /\ \A m \in Primaries(p) : m < n => (m \in K <=> Due(q, p, K, m))

\* Positions of a plan are positions of sources.
LEMMA PlanDomain ==
  ASSUME NEW p \in Pack
  PROVE  /\ Len(Plan[p]) \in Nat /\ DOMAIN Plan[p] = 1 .. Len(Plan[p])
         /\ \A i \in DOMAIN Plan[p] : Plan[p][i] \in Source
         /\ Primaries(p) \subseteq 1 .. Len(Plan[p])
<1>1. Plan[p] \in Seq(Source)
  BY PackRunnerAssumption
<1> QED
  BY <1>1 DEF Primaries

\* Whether a source is due depends only on the sources asked before it.
LEMMA DueDependsOnEarlier ==
  ASSUME NEW q, NEW p, NEW K \in SUBSET Nat, NEW L \in SUBSET Nat, NEW m \in Nat,
         \A i \in Nat : i < m => (i \in K <=> i \in L)
  PROVE  Due(q, p, K, m) <=> Due(q, p, L, m)
<1>1. \A n \in Nat : n < m => UpTo(K, n) = UpTo(L, n)
  <2>1. TAKE n \in Nat
  <2>2. HAVE n < m
  <2>3. \A i : i \in K /\ i <= n <=> i \in L /\ i <= n
    <3>1. TAKE i
    <3>2. CASE i \in Nat
      BY <2>2, <3>2
    <3>3. CASE i \notin Nat
      BY <3>3
    <3> QED
      BY <3>2, <3>3
  <2> QED
    BY <2>3 DEF UpTo
<1>2. UpTo(K, m - 1) = UpTo(L, m - 1)
  <2>1. CASE m = 0
    <3>1. \A i \in Nat : ~(i <= m - 1)
      BY <2>1
    <3>2. UpTo(K, m - 1) = {} /\ UpTo(L, m - 1) = {}
      BY <3>1 DEF UpTo
    <3> QED
      BY <3>2
  <2>2. CASE m # 0
    <3>1. m - 1 \in Nat /\ m - 1 < m
      BY <2>2
    <3> QED
      BY <1>1, <3>1
  <2> QED
    BY <2>1, <2>2
<1>3. \A i \in UpTo(K, m - 1) : UpTo(K, i) = UpTo(L, i)
  <2>1. \A i \in UpTo(K, m - 1) : i \in Nat /\ i < m
    BY DEF UpTo
  <2> QED
    BY <1>1, <2>1
<1> QED
  BY <1>2, <1>3 DEF Due

\* One more source heard, if it is due, or passed over, if it is not, and the plan is
\* heard that much further.
LEMMA HeardOneMore ==
  ASSUME NEW p \in Pack, NEW q, NEW K, NEW n \in 1 .. Len(Plan[p]),
         Heard(q, p, K, n)
  PROVE  /\ n \notin Primaries(p) => Heard(q, p, K, n + 1)
         /\ n \in Primaries(p) /\ ~Due(q, p, K, n) => Heard(q, p, K, n + 1)
         /\ n \in Primaries(p) /\ Due(q, p, K, n) => Heard(q, p, K \cup {n}, n + 1)
<1>1. n \in Nat /\ Primaries(p) \subseteq Nat /\ K \subseteq Nat
  BY PlanDomain DEF Heard
<1>2. \A m \in Primaries(p) : m < n + 1 <=> m < n \/ m = n
  BY <1>1
<1>3. ASSUME n \notin Primaries(p) \/ ~Due(q, p, K, n)
      PROVE  Heard(q, p, K, n + 1)
  <2>1. \A i \in K : i \in Nat /\ i < n
    BY <1>1 DEF Heard
  <2>2. n \notin K /\ \A i \in K : i < n + 1
    BY <1>1, <2>1
  <2> QED
    BY <1>2, <1>3, <2>2 DEF Heard
<1>4. ASSUME n \in Primaries(p), Due(q, p, K, n)
      PROVE  Heard(q, p, K \cup {n}, n + 1)
  <2>1. ASSUME NEW m \in Primaries(p), m < n + 1
        PROVE  Due(q, p, K \cup {n}, m) <=> Due(q, p, K, m)
    <3>1. m \in Nat /\ K \in SUBSET Nat /\ K \cup {n} \in SUBSET Nat
      BY <1>1
    <3>2. \A i \in Nat : i < m => (i \in K \cup {n} <=> i \in K)
      BY <1>1, <2>1, <3>1
    <3> QED
      BY <3>1, <3>2, DueDependsOnEarlier
  <2>2. K \cup {n} \subseteq Primaries(p) /\ \A i \in K \cup {n} : i < n + 1
    <3>1. \A i \in K : i \in Nat /\ i < n
      BY <1>1 DEF Heard
    <3>2. \A i \in K : i < n + 1
      BY <1>1, <3>1
    <3> QED
      BY <1>1, <1>4, <3>2 DEF Heard
  <2>3. \A m \in Primaries(p) : m < n + 1 => (m \in K \cup {n} <=> Due(q, p, K \cup {n}, m))
    <3>1. TAKE m \in Primaries(p)
    <3>2. CASE m = n
      BY <1>1, <1>4, <2>1, <3>2
    <3>3. CASE m # n
      BY <1>1, <1>2, <2>1, <3>3 DEF Heard
    <3> QED
      BY <3>2, <3>3
  <2> QED
    BY <2>2, <2>3 DEF Heard
<1> QED
  BY <1>3, <1>4

\* No source after one that has stopped the others is due.
LEMMA HeardStopped ==
  ASSUME NEW p \in Pack, NEW q, NEW K, NEW n \in 1 .. Len(Plan[p]),
         Heard(q, p, K, n + 1), n \in K, Stops(q, Plan[p][n], Evidence(q, p, UpTo(K, n)))
  PROVE  Heard(q, p, K, Len(Plan[p]) + 1)
<1>1. n \in Nat /\ Len(Plan[p]) \in Nat /\ Primaries(p) \subseteq 1 .. Len(Plan[p]) /\ K \subseteq Primaries(p)
  BY PlanDomain DEF Heard
<1>2. \A i \in K : i < Len(Plan[p]) + 1
  BY <1>1
<1>3. \A m \in Primaries(p) : m >= n + 1 => m \notin K /\ ~Due(q, p, K, m)
  <2>1. TAKE m \in Primaries(p)
  <2>2. ASSUME m >= n + 1
        PROVE  m \notin K /\ ~Due(q, p, K, m)
    <3>1. m \notin K
      BY <1>1, <2>2 DEF Heard
    <3>2. n \in UpTo(K, m - 1)
      BY <1>1, <2>2 DEF UpTo
    <3> QED
      BY <3>1, <3>2 DEF Due
  <2> QED
    BY <2>2
<1>4. \A m \in Primaries(p) : m >= n + 1 \/ m < n + 1
  BY <1>1
<1> QED
  BY <1>1, <1>2, <1>3, <1>4 DEF Heard

\* A plan heard to its end is asked as it should be.
LEMMA HeardAllIsAsked ==
  ASSUME NEW p \in Pack, NEW q, NEW K
  PROVE  K \in SUBSET Primaries(p) /\ Asked(q, p, K) <=> Heard(q, p, K, Len(Plan[p]) + 1)
<1>1. \A m \in Primaries(p) : m < Len(Plan[p]) + 1
  BY PlanDomain
<1> QED
  BY <1>1 DEF Heard, Asked

\* The sources asked are determined: two such sets first differ at a source which, the
\* sources before it being the same, is due in both or in neither.
LEMMA AskedIsUnique ==
  ASSUME NEW p \in Pack, NEW q,
         NEW K \in SUBSET Primaries(p), Asked(q, p, K), NEW L \in SUBSET Primaries(p), Asked(q, p, L)
  PROVE  K = L
<1> DEFINE D == {n \in Primaries(p) : ~(n \in K <=> n \in L)}
<1>1. Primaries(p) \subseteq Nat
  BY PlanDomain
<1>2. SUFFICES ASSUME D # {} PROVE FALSE
  OBVIOUS
<1>3. PICK n \in D : \A m \in D : n <= m
  <2>1. D \in SUBSET Nat
    BY <1>1
  <2> HIDE DEF D
  <2> QED
    BY <1>2, <2>1, LeastExists
<1>4. \A i \in Nat : i < n => (i \in K <=> i \in L)
  BY <1>1, <1>3
<1>5. Due(q, p, K, n) <=> Due(q, p, L, n)
  BY <1>1, <1>4, DueDependsOnEarlier
<1> QED
  BY <1>3, <1>5 DEF Asked

\* And there is one: it grows source by source.
LEMMA AskedExists ==
  ASSUME NEW p \in Pack, NEW q
  PROVE  \E K \in SUBSET Primaries(p) : Asked(q, p, K)
<1> DEFINE N == Len(Plan[p]) + 1
           Bad == {n \in 1 .. N : \A K \in SUBSET Primaries(p) : ~Heard(q, p, K, n)}
<1>1. Len(Plan[p]) \in Nat /\ Primaries(p) \subseteq 1 .. Len(Plan[p])
  BY PlanDomain
<1>2. Bad = {}
  <2>1. SUFFICES ASSUME Bad # {} PROVE FALSE
    OBVIOUS
  <2>2. PICK n \in Bad : \A m \in Bad : n <= m
    <3>1. Bad \in SUBSET Nat
      BY <1>1
    <3> HIDE DEF Bad
    <3> QED
      BY <2>1, <3>1, LeastExists
  <2>3. n # 1
    <3>1. Heard(q, p, {}, 1)
      BY <1>1 DEF Heard
    <3> QED
      BY <2>2, <3>1
  <2> DEFINE k == n - 1
  <2>4. k \in 1 .. Len(Plan[p]) /\ k \in 1 .. N /\ k < n /\ k + 1 = n
    BY <1>1, <2>2, <2>3
  <2> HIDE DEF k
  <2>5. k \notin Bad
    BY <1>1, <2>2, <2>4
  <2>6. PICK K \in SUBSET Primaries(p) : Heard(q, p, K, k)
    BY <2>4, <2>5
  <2>7. \E L : Heard(q, p, L, k + 1)
    BY <2>4, <2>6, HeardOneMore
  <2>8. \E L \in SUBSET Primaries(p) : Heard(q, p, L, n)
    BY <2>4, <2>7 DEF Heard
  <2> QED
    BY <2>2, <2>8
<1>3. N \in 1 .. N
  BY <1>1
<1>4. PICK K \in SUBSET Primaries(p) : Heard(q, p, K, N)
  BY <1>2, <1>3
<1> QED
  BY <1>4, HeardAllIsAsked

\* So the evidence of a pack is that of any such set, and none of it a reranker's.
LEMMA GatheredIs ==
  ASSUME NEW p \in Pack, NEW q, NEW K \in SUBSET Primaries(p), Asked(q, p, K)
  PROVE  Gathered(q, p) = Evidence(q, p, K)
<1> DEFINE L == CHOOSE M \in SUBSET Primaries(p) : Asked(q, p, M)
<1>1. L \in SUBSET Primaries(p) /\ Asked(q, p, L)
  OBVIOUS
<1> HIDE DEF L
<1>2. L = K
  BY <1>1, AskedIsUnique
<1> QED
  BY <1>2 DEF Gathered, L

-----------------------------------------------------------------------------
(* The evidence and its order                                              *)

\* Evidence that the pack's sources may have given.
Sound(q, p, ev) == \A x \in ev : \E i \in DOMAIN Plan[p] : x \in Hits(q, Plan[p][i])

\* What a query of the model gives is well typed.
LEMMA QueryTypes ==
  ASSUME NEW q \in Query, NEW s \in Source
  PROVE  /\ Len(q.hits[s]) \in Nat /\ DOMAIN q.hits[s] = 1 .. Len(q.hits[s])
         /\ \A k \in DOMAIN q.hits[s] : q.hits[s][k].id \in Entity /\ q.hits[s][k].raw \in Nat
<1> DEFINE list == q.hits[s]
           T == [id : Entity, raw : Nat]
<1>1. list \in Seq(T)
  BY ResolutionAssumption
<1>2. \A h \in T : h.id \in Entity /\ h.raw \in Nat
  OBVIOUS
<1> HIDE DEF list, T
<1>3. /\ Len(list) \in Nat /\ DOMAIN list = 1 .. Len(list)
      /\ \A k \in DOMAIN list : list[k] \in T
  BY <1>1
<1>4. \A k \in DOMAIN list : list[k].id \in Entity /\ list[k].raw \in Nat
  BY <1>2, <1>3
<1> QED
  BY <1>3, <1>4 DEF list

\* A hit has a place in its source's list, and a raw score.
LEMMA HitTypes ==
  ASSUME NEW q \in Query, NEW s \in Source, NEW x \in Hits(q, s)
  PROVE  \E e \in Entity : /\ x = <<s, e>> /\ RawOf(q, x) \in Nat
                         /\ \E k \in DOMAIN q.hits[s] : q.hits[s][k].id = e
<1>1. PICK h \in Range(q.hits[s]) : x = <<s, h.id>>
  BY DEF Hits
<1>2. PICK k \in DOMAIN q.hits[s] : q.hits[s][k] = h
  BY DEF Range
<1>3. x = <<s, x[2]>> /\ x[1] = s /\ x[2] = h.id
  BY <1>1
<1>4. h.id \in Entity
  BY <1>2, QueryTypes
<1> DEFINE g == CHOOSE g \in Range(q.hits[x[1]]) : g.id = x[2]
<1>5. g \in Range(q.hits[s])
  BY <1>3
<1> HIDE DEF g
<1>6. g.raw \in Nat
  BY <1>5, QueryTypes DEF Range
<1>7. RawOf(q, x) = g.raw * 100
  BY DEF RawOf, g
<1>8. RawOf(q, x) \in Nat
  BY <1>6, <1>7
<1> QED
  BY <1>2, <1>3, <1>4, <1>8

\* There are finitely many hits.
LEMMA SoundIsFinite ==
  ASSUME NEW q \in Query, NEW p \in Pack, NEW ev, Sound(q, p, ev)
  PROVE  /\ IsFiniteSet(ev) /\ ev \subseteq Source \X Entity
         /\ \A x \in ev : x \in Hits(q, x[1]) /\ x[1] \in Range(Plan[p])
<1>1. ASSUME NEW x \in ev
      PROVE  x \in Range(Plan[p]) \X Entity /\ x \in Source \X Entity /\ x \in Hits(q, x[1])
  <2>1. PICK s \in Source : s \in Range(Plan[p]) /\ x \in Hits(q, s)
    <3>1. PICK i \in DOMAIN Plan[p] : x \in Hits(q, Plan[p][i])
      BY DEF Sound
    <3> QED
      BY <3>1, PlanDomain DEF Range
  <2>2. PICK e \in Entity : x = <<s, e>>
    BY <2>1, HitTypes
  <2> QED
    BY <2>1, <2>2
<1>2. IsFiniteSet(Range(Plan[p]) \X Entity)
  <2>1. IsFiniteSet(Range(Plan[p]))
    BY PlanDomain, RangeIsFinite
  <2> QED
    BY <2>1, FS_Product, PackRunnerAssumption
<1>3. ev \subseteq Range(Plan[p]) \X Entity
  BY <1>1
<1>4. IsFiniteSet(ev)
  BY <1>2, <1>3, FS_Subset
<1> QED
  BY <1>1, <1>4

\* What the order of the candidates is made of is well defined.
LEMMA KeyTypes ==
  ASSUME NEW q \in Query, NEW p \in Pack,
         NEW ev, Sound(q, p, ev), NEW e \in Entities(ev)
  PROVE  /\ BestRaw(q, ev, e) \in Int
         /\ FirstNamed(p, ev, e) \in DOMAIN Plan[p]
         /\ FirstNamed(p, ev, e) \in Nat
         /\ \A s : s = Plan[p][FirstNamed(p, ev, e)] =>
              Rank(q, s, e) \in Nat /\ q.hits[s][Rank(q, s, e)].id = e
<1>1. PICK x \in ev : x[2] = e
  BY DEF Entities
<1>2. /\ IsFiniteSet(ev)
      /\ \A y \in ev : /\ y[1] \in Source /\ y = <<y[1], y[2]>> /\ y \in Hits(q, y[1])
                       /\ y[1] \in Range(Plan[p])
  <2>1. /\ IsFiniteSet(ev) /\ ev \subseteq Source \X Entity
        /\ \A y \in ev : y \in Hits(q, y[1]) /\ y[1] \in Range(Plan[p])
    BY SoundIsFinite
  <2> QED
    BY <2>1
<1>3. BestRaw(q, ev, e) \in Int
  <2> DEFINE Y == {y \in ev : y[2] = e}
             T == {RawOf(q, y) : y \in Y}
             f == [y \in Y |-> RawOf(q, y)]
  <2>1. \A y \in ev : RawOf(q, y) \in Nat
    <3>1. \A s \in Source : \A y \in Hits(q, s) : RawOf(q, y) \in Nat
      BY HitTypes
    <3> QED
      BY <1>2, <3>1
  <2>6. T \in SUBSET Int /\ T # {}
    BY <1>1, <2>1
  <2>2. IsFiniteSet(Y)
    BY <1>2, FS_Subset
  <2>3. f \in Surjection(Y, T)
    BY DEF Surjection
  <2> HIDE DEF Y, f
  <2>4. IsFiniteSet(T)
    BY <2>2, <2>3, FS_Surjection
  <2> HIDE DEF T
  <2>5. Max(T) \in Int
    BY <2>6, <2>4, GreatestExists
  <2> QED
    BY <2>5 DEF BestRaw, T, Y
<1>4. /\ FirstNamed(p, ev, e) \in DOMAIN Plan[p] /\ FirstNamed(p, ev, e) \in Nat
      /\ <<Plan[p][FirstNamed(p, ev, e)], e>> \in ev
  <2> DEFINE I == {i \in DOMAIN Plan[p] : <<Plan[p][i], e>> \in ev}
  <2>1. I \in SUBSET Nat
    BY PlanDomain
  <2>2. I # {}
    BY <1>1, <1>2 DEF Range
  <2>3. Min(I) \in I
    <3> HIDE DEF I
    <3> QED
      BY <2>1, <2>2, MinIsLeast
  <2> QED
    BY <2>1, <2>3 DEF FirstNamed
<1> DEFINE s == Plan[p][FirstNamed(p, ev, e)]
<1>5. Rank(q, s, e) \in Nat /\ q.hits[s][Rank(q, s, e)].id = e
  <2> DEFINE H == {k \in DOMAIN q.hits[s] : q.hits[s][k].id = e}
  <2>1. s \in Source /\ <<s, e>> \in Hits(q, s)
    <3>1. <<s, e>>[1] = s
      OBVIOUS
    <3> QED
      BY <1>2, <1>4, <3>1
  <2> HIDE DEF s
  <2>2. H \in SUBSET Nat
    <3>1. Len(q.hits[s]) \in Nat /\ DOMAIN q.hits[s] = 1 .. Len(q.hits[s])
      BY <2>1, QueryTypes
    <3> QED
      BY <3>1
  <2>3. H # {}
    <3>1. PICK d \in Entity : <<s, e>> = <<s, d>> /\ \E k \in DOMAIN q.hits[s] : q.hits[s][k].id = d
      BY <2>1, HitTypes
    <3>2. d = e
      BY <3>1
    <3> QED
      BY <3>1, <3>2
  <2>4. Min(H) \in H
    <3> HIDE DEF H
    <3> QED
      BY <2>2, <2>3, MinIsLeast
  <2> QED
    BY <2>2, <2>4 DEF Rank
<1> QED
  BY <1>3, <1>4, <1>5

\* Pairs that order a set strictly and totally.
Orders(Q, T) == /\ \A d \in T : <<d, d>> \notin Q
                /\ \A d, e \in T : d = e \/ <<d, e>> \in Q \/ <<e, d>> \in Q
                /\ \A d, e, f \in T : <<d, e>> \in Q /\ <<e, f>> \in Q => <<d, f>> \in Q

\* Candidates are strictly and totally ordered.
LEMMA BeforeOrders ==
  ASSUME NEW q \in Query, NEW p \in Pack, NEW ev, Sound(q, p, ev),
         NEW S \in SUBSET Entities(ev), NEW w, \A e \in S : w[e] \in Int,
         NEW T \in SUBSET S
  PROVE  Orders(Before(q, p, ev, w, S), T)
<1> DEFINE Q == Before(q, p, ev, w, S)
           B == [d \in S |-> BestRaw(q, ev, d)]
           F == [d \in S |-> FirstNamed(p, ev, d)]
           R == [d \in S |-> Rank(q, Plan[p][F[d]], d)]
<1>1. \A d \in S : w[d] \in Int /\ B[d] \in Int /\ F[d] \in Nat /\ R[d] \in Nat
  BY KeyTypes
<1>2. \A d, e \in S : F[d] = F[e] /\ R[d] = R[e] => d = e
  <2>1. TAKE d, e \in S
  <2>2. HAVE F[d] = F[e] /\ R[d] = R[e]
  <2>3. q.hits[Plan[p][F[d]]][R[d]].id = d
    BY KeyTypes
  <2>4. q.hits[Plan[p][F[e]]][R[e]].id = e
    BY KeyTypes
  <2> QED
    BY <2>2, <2>3, <2>4
<1>3. \A d, e \in S : <<d, e>> \in Q <=>
        \/ w[d] > w[e]
        \/ w[d] = w[e] /\ \/ B[d] > B[e]
                          \/ B[d] = B[e] /\ (F[d] < F[e] \/ (F[d] = F[e] /\ R[d] < R[e]))
  <2>1. TAKE d, e \in S
  <2>2. Earlier(q, p, ev, d, e) <=>
          \/ B[d] > B[e]
          \/ B[d] = B[e] /\ (F[d] < F[e] \/ (F[d] = F[e] /\ R[d] < R[e]))
    BY DEF Earlier
  <2>3. <<d, e>> \in Q <=> w[d] > w[e] \/ (w[d] = w[e] /\ Earlier(q, p, ev, d, e))
    BY DEF Before
  <2> HIDE DEF Q, B, F, R
  <2> QED
    BY <2>2, <2>3
<1> HIDE DEF Q, B, F, R
<1>4. \A d \in T : <<d, d>> \notin Q
  BY <1>1, <1>3
<1>5. \A d, e \in T : d = e \/ <<d, e>> \in Q \/ <<e, d>> \in Q
  <2>1. TAKE d, e \in T
  <2>2. d \in S /\ e \in S
    OBVIOUS
  <2>3. w[d] = w[e] /\ B[d] = B[e] /\ F[d] = F[e] /\ R[d] = R[e] => d = e
    BY <1>2, <2>2
  <2>4. \/ w[d] > w[e] \/ w[e] > w[d] \/ B[d] > B[e] \/ B[e] > B[d] \/ F[d] < F[e] \/ F[e] < F[d]
        \/ R[d] < R[e] \/ R[e] < R[d] \/ (w[d] = w[e] /\ B[d] = B[e] /\ F[d] = F[e] /\ R[d] = R[e])
    BY <1>1, <2>2
  <2> QED
    BY <1>1, <1>3, <2>2, <2>3, <2>4
<1>6. \A d, e, f \in T : <<d, e>> \in Q /\ <<e, f>> \in Q => <<d, f>> \in Q
  BY <1>1, <1>3
<1> QED
  BY <1>4, <1>5, <1>6 DEF Orders, Q

\* So some of them is the first, with none before it.
LEMMA BestIsIn ==
  ASSUME NEW Q, NEW T, T # {}, IsFiniteSet(T), Orders(Q, T)
  PROVE  Best(Q, T) \in T /\ \A e \in T : <<e, Best(Q, T)>> \notin Q
<1>1. PICK d \in T : \A e \in T \ {d} : <<d, e>> \in Q
  BY FirstExists DEF Orders
<1>2. Best(Q, T) \in T /\ \A e \in T \ {Best(Q, T)} : <<Best(Q, T), e>> \in Q
  BY <1>1 DEF Best
<1>3. ASSUME NEW e \in T, <<e, Best(Q, T)>> \in Q PROVE FALSE
  <2>1. e = Best(Q, T) \/ <<Best(Q, T), e>> \in Q
    BY <1>2
  <2>2. <<e, e>> \in Q
    BY <1>2, <1>3, <2>1 DEF Orders
  <2> QED
    BY <2>2 DEF Orders
<1> QED
  BY <1>2, <1>3

\* What is listed, and its order: some candidates, ordered strictly and totally.
LEMMA ListedSome ==
  ASSUME NEW Q, NEW S, S # {}, IsFiniteSet(S), Orders(Q, S)
  PROVE  Leading(Q, S) \in SUBSET S /\ Leading(Q, S) # {}
<1>1. Best(Q, S) \in S /\ {d \in S : <<d, Best(Q, S)>> \in Q} = {}
  BY BestIsIn
<1>2. Cardinality({d \in S : <<d, Best(Q, S)>> \in Q}) = 0
  BY <1>1, FS_EmptySet
<1>3. Best(Q, S) \in Leading(Q, S)
  BY <1>1, <1>2, PackRunnerAssumption DEF Leading
<1> QED
  BY <1>3 DEF Leading

LEMMA ArrangedOrders ==
  ASSUME NEW q \in Query, NEW Q, NEW w, NEW T, T \subseteq Entity,
         \A e \in T : w[e] \in Nat, Orders(Q, T)
  PROVE  Orders(Arranged(q, Q, w, T), T)
<1> DEFINE A == [e \in T |-> About(w[e])]
           P == [e \in T |-> q.place[e]]
           R == {x \in T \X T :
                  \/ About(w[x[1]]) > About(w[x[2]])
                  \/ /\ About(w[x[1]]) = About(w[x[2]])
                     /\ \/ q.place[x[1]] < q.place[x[2]]
                        \/ q.place[x[1]] = q.place[x[2]] /\ x \in Q}
<1>1. Arranged(q, Q, w, T) \in {Q, R}
  BY DEF Arranged
<1>2. \A e \in T : A[e] \in Int /\ P[e] \in Int
  <2>1. q.place \in [Entity -> Nat]
    BY ResolutionAssumption
  <2>2. \A n \in Nat : About(n) \in Int
    BY DEF About
  <2> QED
    BY <2>1, <2>2
<1>3. \A d, e \in T : <<d, e>> \in R <=>
        A[d] > A[e] \/ (A[d] = A[e] /\ (P[d] < P[e] \/ (P[d] = P[e] /\ <<d, e>> \in Q)))
  OBVIOUS
<1> HIDE DEF A, P, R
<1>4. Orders(R, T)
  <2>1. ASSUME NEW d \in T PROVE <<d, d>> \notin R
    <3>1. <<d, d>> \notin Q /\ A[d] \in Int /\ P[d] \in Int
      BY <1>2 DEF Orders
    <3>2. ~(A[d] > A[d]) /\ ~(P[d] < P[d])
      BY <3>1
    <3> QED
      BY <1>3, <3>1, <3>2
  <2>2. ASSUME NEW d \in T, NEW e \in T PROVE d = e \/ <<d, e>> \in R \/ <<e, d>> \in R
    <3>1. d = e \/ <<d, e>> \in Q \/ <<e, d>> \in Q
      BY DEF Orders
    <3>2. \/ A[d] > A[e] \/ A[e] > A[d] \/ P[d] < P[e] \/ P[e] < P[d]
          \/ (A[d] = A[e] /\ P[d] = P[e])
      BY <1>2
    <3>3. A[d] = A[e] /\ P[d] = P[e] /\ <<d, e>> \in Q => <<d, e>> \in R
      BY <1>3
    <3>4. A[d] = A[e] /\ P[d] = P[e] /\ <<e, d>> \in Q => <<e, d>> \in R
      BY <1>3
    <3>5. A[d] > A[e] => <<d, e>> \in R
      BY <1>3
    <3>6. A[e] > A[d] => <<e, d>> \in R
      BY <1>3
    <3>7. A[d] = A[e] /\ P[d] < P[e] => <<d, e>> \in R
      BY <1>3
    <3>8. A[d] = A[e] /\ P[e] < P[d] => <<e, d>> \in R
      BY <1>3
    <3>9. A[d] > A[e] \/ A[e] > A[d] \/ A[d] = A[e]
      BY <1>2
    <3> QED
      BY <3>1, <3>2, <3>3, <3>4, <3>5, <3>6, <3>7, <3>8, <3>9
  <2>3. \A d, e, f \in T : <<d, e>> \in R /\ <<e, f>> \in R => <<d, f>> \in R
    BY <1>2, <1>3 DEF Orders
  <2> QED
    BY <2>1, <2>2, <2>3 DEF Orders
<1> QED
  BY <1>1, <1>4

\* The tier of a candidate is one of the tiers of its evidence.
LEMMA TierType ==
  ASSUME NEW ev \in SUBSET (Source \X Entity), NEW e \in Entities(ev)
  PROVE  Tier(ev, e) \in Int
<1> DEFINE T == {Trait[x[1]].emits : x \in {y \in ev : y[2] = e}}
<1>1. T # {}
  BY DEF Entities
<1>2. T \subseteq 0 .. 5
  <2>1. \A s \in Source : Trait[s].emits \in 0 .. 5
    BY PackRunnerAssumption DEF Fallback, ExactCode
  <2>2. \A x \in ev : x[1] \in Source
    OBVIOUS
  <2> QED
    BY <2>1, <2>2
<1>3. IsFiniteSet(T) /\ T \in SUBSET Int
  <2>1. IsFiniteSet(0 .. 5) /\ 0 .. 5 \subseteq Int
    <3>1. 0 \in Int /\ 5 \in Int /\ 0 .. 5 \subseteq Int
      OBVIOUS
    <3> QED
      BY <3>1, FS_Interval, Zenon
  <2> HIDE DEF T
  <2> QED
    BY <1>2, <2>1, FS_Subset
<1> HIDE DEF T
<1>4. Max(T) \in Int
  BY <1>1, <1>3, GreatestExists
<1> QED
  BY <1>4 DEF Tier, T

\* An answer that lists candidates lists some.
LEMMA ShownIsSome ==
  ASSUME NEW before, NEW S, IsFiniteSet(S), S # {}
  PROVE  Shown(before, S) # <<>>
<1>1. Cardinality(S) \in Nat \ {0}
  BY FS_CardinalityType, FS_EmptySet
<1>2. 1 \in DOMAIN Shown(before, S)
  BY <1>1 DEF Shown
<1>3. DOMAIN <<>> = {}
  OBVIOUS
<1> QED
  BY <1>2, <1>3

-----------------------------------------------------------------------------
(* Answers                                                                 *)

\* What the merging of answers relies on.
AnswerOK(r) ==
  /\ r.status \in {"error", "no match", "resolved", "ambiguous"}
  /\ r.status = "resolved" => r.conf \in Nat /\ r.tier \in Int
  /\ r.status = "ambiguous" => r.lead \in Nat /\ r.list # <<>>

\* A policy given some candidates names one of its verdicts, with a confidence.
LEMMA DecideIsOK ==
  ASSUME NEW q \in Query, NEW p \in Pack, NEW ev, Sound(q, p, ev),
         NEW S \in SUBSET Entities(Primary(ev)), S # {}
  PROVE  AnswerOK(Decide(q, p, ev, S, S))
<1> DEFINE w == Weights(q, ev, S, S)
           P == Primary(ev)
           before == Before(q, p, P, w, S)
           shown == Leading(before, S)
           listing == Arranged(q, before, w, shown)
           list == Shown(listing, shown)
           top == Best(before, S)
           won == Preferred(q, p, w, S, top, EffectiveGap(q, p, S))
<1>1. Sound(q, p, P) /\ P \subseteq ev /\ S \subseteq Entities(ev)
  BY DEF Primary, Sound, Entities
<1>2. ev \in SUBSET (Source \X Entity) /\ S \subseteq Entity
  <2>1. ev \subseteq Source \X Entity
    BY SoundIsFinite
  <2> QED
    BY <1>1, <2>1 DEF Entities
<1>3. IsFiniteSet(S)
  BY <1>2, FS_Subset, PackRunnerAssumption
<1>4. \A e \in S : w[e] \in Nat
  <2>1. \A e \in Entity : q.score[e] \in Nat /\ q.close[e] \in Nat
    BY ResolutionAssumption
  <2>2. \A n \in Nat : Capped(n) \in Nat
    BY DEF Capped
  <2>3. \A e \in S : w[e] = IF Rerankings(ev, e) = {} THEN Capped(q.score[e]) ELSE Capped(q.close[e])
    BY DEF Weights
  <2> HIDE DEF w
  <2> QED
    BY <1>2, <2>1, <2>2, <2>3
<1> HIDE DEF w
<1>5. Orders(before, S) /\ top \in S
  <2>1. Orders(before, S)
    BY <1>1, <1>4, BeforeOrders
  <2> HIDE DEF before
  <2> QED
    BY <2>1, <1>3, BestIsIn
<1>6. list # <<>> /\ Best(listing, shown) \in S
  <2> HIDE DEF before
  <2>1. shown \in SUBSET S /\ shown # {}
    BY <1>3, <1>5, ListedSome
  <2>2. IsFiniteSet(shown)
    BY <1>3, <2>1, FS_Subset
  <2>3. Orders(before, shown)
    BY <1>5, <2>1 DEF Orders
  <2> HIDE DEF shown
  <2>4. Orders(listing, shown)
    BY <1>2, <1>4, <2>1, <2>3, ArrangedOrders
  <2> HIDE DEF listing
  <2> QED
    BY <2>1, <2>2, <2>4, ShownIsSome, BestIsIn
<1>7. won \subseteq S
  BY <1>5 DEF Preferred, Close
<1>8. \A e \in S : Tier(ev, e) \in Int
  BY <1>1, <1>2, TierType
<1>9. ASSUME NEW e \in S, NEW why
      PROVE  AnswerOK(Resolve(e, why, ev, w, list))
  BY <1>4, <1>8 DEF AnswerOK, Resolve
<1>10. \A n : AnswerOK([NoMatch("below threshold") EXCEPT !.list = n])
  BY DEF AnswerOK, NoMatch
<1>11. \A n : AnswerOK([status |-> "ambiguous", reason |-> "low gap", conf |-> 0,
                        lead |-> w[Best(listing, shown)], tier |-> n, list |-> list])
  BY <1>4, <1>6 DEF AnswerOK
<1>12. won # {} => (CHOOSE e \in won : TRUE) \in S
  BY <1>7
<1> HIDE DEF list, listing, shown, top, won, P, before
<1> QED
  BY <1>5, <1>9, <1>10, <1>11, <1>12 DEF Decide, w, list, listing, shown, top, won, P, before

-----------------------------------------------------------------------------
(* The verdict                                                             *)

\* Answers of packs that the merge may meet.
Answers(R) == DOMAIN R \subseteq Pack /\ \A p \in DOMAIN R : AnswerOK(R[p])

\* Confidences normalize to naturals, whatever the bands.
LEMMA NormType ==
  ASSUME NEW p \in Pack, NEW n \in Nat
  PROVE  Norm(p, n) \in Int
<1> DEFINE b == Band[p]
<1>1. b.low \in Nat /\ b.medium \in Nat /\ b.high \in Nat
  BY ResolutionAssumption
<1> HIDE DEF b
<1>2. \A x \in Int : \A y \in Nat : y > 0 => x \div y \in Int
  OBVIOUS
<1>3. \A f, s, z, t \in Nat : t > f => s + ((n - f) * z) \div (t - f) \in Int
  <2>1. TAKE f, s, z, t \in Nat
  <2>2. HAVE t > f
  <2>3. (n - f) * z \in Int /\ t - f \in Nat /\ t - f > 0
    BY <2>2
  <2>4. ((n - f) * z) \div (t - f) \in Int
    BY <1>2, <2>3
  <2> QED
    BY <2>4
<1>4. b.low > 0 => (n * 3000) \div b.low \in Int
  BY <1>1, <1>2
<1> QED
  BY <1>1, <1>3, <1>4 DEF Norm, b

\* Tiers and confidences of resolved answers can be compared, for few packs.
LEMMA ResolvedTypes ==
  ASSUME NEW R, Answers(R)
  PROVE  /\ \A p \in With(R, "resolved") : R[p].tier \in Int /\ Level(R, p) \in Int
         /\ \A p \in With(R, "ambiguous") : Lead(R, p) \in Int /\ R[p].list # <<>>
         /\ \A status : With(R, status) \in SUBSET Pack /\ IsFiniteSet(With(R, status))
         /\ Answered(R) \in SUBSET Pack /\ IsFiniteSet(Answered(R))
<1>1. \A p \in With(R, "resolved") : R[p].tier \in Int /\ Level(R, p) \in Int
  BY NormType DEF Answers, AnswerOK, With, Level
<1>2. \A p \in With(R, "ambiguous") : Lead(R, p) \in Int /\ R[p].list # <<>>
  BY NormType DEF Answers, AnswerOK, With, Lead
<1>3. \A S : S \subseteq Pack => IsFiniteSet(S)
  BY LoadedOrders, FS_Subset
<1> QED
  BY <1>1, <1>2, <1>3 DEF Answers, With, Answered

\* Resolved answers are strictly and totally ranked, so one of them is the foremost.
LEMMA ForemostIs ==
  ASSUME NEW R, Answers(R), NEW order, GoodOrder(order),
         NEW S \in SUBSET With(R, "resolved"), S # {}
  PROVE  /\ Foremost(R, order, S) \in S
         /\ \A q \in S \ {Foremost(R, order, S)} : Ahead(R, order, Foremost(R, order, S), q)
<1> DEFINE Q == {z \in S \X S : Ahead(R, order, z[1], z[2])}
           T == [p \in S |-> R[p].tier]
           L == [p \in S |-> Level(R, p)]
           P == [p \in S |-> Place(order, p)]
<1>1. S \subseteq Pack /\ IsFiniteSet(S)
  <2>1. With(R, "resolved") \in SUBSET Pack /\ IsFiniteSet(With(R, "resolved"))
    BY ResolvedTypes
  <2> QED
    BY <2>1, FS_Subset
<1>2. \A p \in S : T[p] \in Int /\ L[p] \in Int /\ P[p] \in Nat
  BY <1>1, ResolvedTypes, Places
<1>3. \A p, q \in S : P[p] = P[q] => p = q
  <2>1. \A p \in S : order[P[p]] = p
    BY <1>1, Places
  <2> HIDE DEF P
  <2> QED
    BY <2>1
<1>4. \A p, q \in S : <<p, q>> \in Q <=>
        \/ T[p] > T[q] \/ (T[p] = T[q] /\ L[p] > L[q])
        \/ ~(T[q] > T[p] \/ (T[q] = T[p] /\ L[q] > L[p])) /\ P[p] < P[q]
  BY DEF Ahead, Outranks
<1> HIDE DEF Q, T, L, P
<1>5. \A p \in S : <<p, p>> \notin Q
  BY <1>2, <1>4
<1>6. \A p, q \in S : p = q \/ <<p, q>> \in Q \/ <<q, p>> \in Q
  <2>1. TAKE p, q \in S
  <2>2. P[p] = P[q] \/ P[p] < P[q] \/ P[q] < P[p]
    BY <1>2
  <2> QED
    BY <1>2, <1>3, <1>4, <2>2
<1>7. \A p, q, r \in S : <<p, q>> \in Q /\ <<q, r>> \in Q => <<p, r>> \in Q
  BY <1>2, <1>4
<1>8. \E p \in S : \A q \in S \ {p} : <<p, q>> \in Q
  BY <1>1, <1>5, <1>6, <1>7, FirstExists
<1>9. \E p \in S : \A q \in S \ {p} : Ahead(R, order, p, q)
  BY <1>8 DEF Q
<1> QED
  BY <1>9 DEF Foremost

\* With one answer, or one resolved answer, there is no choice.
LEMMA OnlyOne ==
  ASSUME NEW S \in SUBSET Pack, NEW order, GoodOrder(order), NEW p \in S, Cardinality(S) = 1
  PROVE  S = {p} /\ FirstOf(order, S) = p
<1>1. IsFiniteSet(S)
  BY LoadedOrders, FS_Subset
<1>2. \E x : S = {x}
  BY <1>1, FS_Singleton
<1>3. FirstOf(order, S) \in S
  BY FirstOfIsIn
<1> QED
  BY <1>2, <1>3

\* The answer that dominates, if any, is the one that the merge returns.
LEMMA DominatingIsMerged ==
  ASSUME NEW R, Answers(R), NEW order, GoodOrder(order), NEW p, Dominates(R, p)
  PROVE  p \in With(R, "resolved") /\ Merged(R, order) = R[p]
<1> DEFINE won == With(R, "resolved")
           ok == Answered(R)
<1>1. /\ p \in won /\ won \subseteq ok /\ ok \subseteq DOMAIN R /\ p \in DOMAIN R
      /\ won \in SUBSET Pack /\ ok \in SUBSET Pack
  BY DEF Dominates, With, Answered, Answers
<1>2. CASE Cardinality(ok) = 1
  <2>1. FirstOf(order, ok) = p
    BY <1>1, <1>2, OnlyOne
  <2> QED
    BY <1>1, <1>2, <2>1 DEF Merged
<1>3. CASE Cardinality(ok) # 1 /\ Cardinality(won) = 1
  <2>1. won = {p} /\ FirstOf(order, won) = p
    BY <1>1, <1>3, OnlyOne
  <2>2. \A q \in With(R, "ambiguous") : Lead(R, q) < Level(R, p)
    BY <2>1 DEF Dominates
  <2>3. \A q \in With(R, "ambiguous") : ~(Lead(R, q) >= Level(R, p))
    <3>1. Level(R, p) \in Int /\ \A q \in With(R, "ambiguous") : Lead(R, q) \in Int
      BY <1>1, ResolvedTypes
    <3> QED
      BY <2>2, <3>1
  <2>4. OneResolved(R, order, p) = R[p]
    BY <2>3 DEF OneResolved
  <2> QED
    BY <1>1, <1>3, <2>1, <2>4 DEF Merged
<1>4. CASE Cardinality(ok) # 1 /\ Cardinality(won) # 1
  <2> DEFINE top == Foremost(R, order, won)
             next == Foremost(R, order, won \ {top})
  <2>1. \A q \in won : R[q].tier \in Int /\ Level(R, q) \in Int
    BY ResolvedTypes
  <2>2. top \in won /\ \A q \in won \ {top} : Ahead(R, order, top, q)
    BY <1>1, ForemostIs
  <2>3. DomainGap \in Nat /\ DomainGap > 0
    BY ResolutionAssumption
  <2>4. top = p
    <3>1. SUFFICES ASSUME top # p PROVE FALSE
      OBVIOUS
    <3>2. Ahead(R, order, top, p)
      BY <1>1, <2>2, <3>1
    <3>3. \/ R[p].tier > R[top].tier
          \/ R[p].tier = R[top].tier /\ Level(R, p) >= Level(R, top) + DomainGap
      BY <2>2, <3>1 DEF Dominates
    <3> HIDE DEF top, won
    <3> QED
      BY <1>1, <2>1, <2>2, <2>3, <3>2, <3>3 DEF Ahead, Outranks
  <2>5. won \ {top} # {}
    <3>1. SUFFICES ASSUME won \ {top} = {} PROVE FALSE
      OBVIOUS
    <3>2. won = {top}
      BY <2>2, <3>1
    <3> QED
      BY <1>4, <3>2, FS_Singleton
  <2>6. next \in won \ {top}
    BY <2>5, ForemostIs
  <2>7. R[top].tier > R[next].tier \/ Level(R, top) >= Level(R, next) + DomainGap
    BY <2>4, <2>6 DEF Dominates
  <2>8. SeveralResolved(R, order) = R[p]
    BY <2>4, <2>7 DEF SeveralResolved
  <2> QED
    BY <1>1, <1>4, <2>8 DEF Merged
<1> QED
  BY <1>2, <1>3, <1>4

\* A collision is ambiguous.
LEMMA CollisionStatus ==
  ASSUME NEW R, NEW order, NEW S
  PROVE  Collision(R, order, S).status = "ambiguous"
BY DEF Collision

\* A merge that resolves returns an answer that dominates; one that does not has a status
\* which the answers alone determine.
StatusOf(R) ==
  IF DOMAIN R = {} THEN "no match"
  ELSE IF Answered(R) = {} THEN "error"
  ELSE IF With(R, "resolved") \cup With(R, "ambiguous") # {} THEN "ambiguous" ELSE "no match"

\* And when the merge is resolved, the answer it returns dominates.
LEMMA MergedIsDominating ==
  ASSUME NEW R, Answers(R), NEW order, GoodOrder(order)
  PROVE  \/ Merged(R, order).status = "resolved" /\ \E p : Dominates(R, p) /\ Merged(R, order) = R[p]
         \/ Merged(R, order).status = StatusOf(R) /\ StatusOf(R) # "resolved"
<1> DEFINE won == With(R, "resolved")
           unsure == With(R, "ambiguous")
           ok == Answered(R)
           M == Merged(R, order)
<1>1. /\ won \subseteq ok /\ unsure \subseteq ok /\ ok \subseteq DOMAIN R /\ DOMAIN R \in SUBSET Pack
      /\ won \in SUBSET Pack /\ ok \in SUBSET Pack /\ unsure \in SUBSET Pack
      /\ won \cap unsure = {}
      /\ \A p \in ok : R[p].status \in {"no match", "resolved", "ambiguous"}
      /\ \A p \in DOMAIN R \ ok : R[p].status = "error"
      /\ \A p \in ok : /\ R[p].status = "resolved" <=> p \in won
                       /\ R[p].status = "ambiguous" <=> p \in unsure
      /\ IsFiniteSet(won)
  <2>1. IsFiniteSet(won)
    BY ResolvedTypes
  <2> QED
    BY <2>1 DEF With, Answered, Answers, AnswerOK
<1>2. StatusOf(R) # "resolved"
  BY DEF StatusOf
<1>3. CASE DOMAIN R = {}
  BY <1>2, <1>3 DEF Merged, NoMatch, StatusOf
<1>4. CASE DOMAIN R # {} /\ ok = {}
  <2>1. FirstOf(order, DOMAIN R) \in DOMAIN R \ ok
    BY <1>1, <1>4, FirstOfIsIn
  <2>2. M = R[FirstOf(order, DOMAIN R)]
    BY <1>4 DEF Merged
  <2> QED
    BY <1>1, <1>2, <1>4, <2>1, <2>2 DEF StatusOf
<1>5. CASE Cardinality(ok) = 1
  <2>1. ok # {}
    BY <1>5, FS_EmptySet
  <2>2. PICK p \in ok : TRUE
    BY <2>1
  <2>3. ok = {p} /\ FirstOf(order, ok) = p
    <3>1. ok \in SUBSET Pack /\ Cardinality(ok) = 1 /\ p \in ok
      BY <1>1, <1>5, <2>2
    <3> HIDE DEF ok
    <3> QED
      BY <3>1, OnlyOne
  <2>4. M = R[p] /\ DOMAIN R # {}
    BY <1>1, <1>5, <2>1, <2>3 DEF Merged
  <2>5. CASE p \in won
    <3>1. won = {p} /\ unsure = {}
      BY <1>1, <2>3, <2>5
    <3>2. Dominates(R, p)
      BY <3>1 DEF Dominates
    <3> QED
      BY <1>1, <2>2, <2>4, <2>5, <3>2
  <2>6. CASE p \notin won
    BY <1>1, <1>2, <2>1, <2>3, <2>4, <2>6 DEF StatusOf
  <2> QED
    BY <2>5, <2>6
<1>6. CASE DOMAIN R # {} /\ ok # {} /\ Cardinality(ok) # 1 /\ won = {}
  <2>1. M = NoneResolved(R, order)
    BY <1>6 DEF Merged
  <2>2. CASE Cardinality(unsure) > 1
    <3>1. M.status = "ambiguous"
      BY <2>1, <2>2, CollisionStatus DEF NoneResolved
    <3>2. unsure # {}
      BY <2>2, FS_EmptySet
    <3> QED
      BY <1>1, <1>2, <1>6, <3>1, <3>2 DEF StatusOf
  <2>3. CASE ~(Cardinality(unsure) > 1) /\ unsure # {}
    <3>1. FirstOf(order, unsure) \in unsure /\ M = R[FirstOf(order, unsure)]
      BY <1>1, <2>1, <2>3, FirstOfIsIn DEF NoneResolved
    <3> QED
      BY <1>1, <1>2, <1>6, <2>3, <3>1 DEF StatusOf
  <2>4. CASE ~(Cardinality(unsure) > 1) /\ unsure = {}
    <3>1. FirstOf(order, ok) \in ok /\ M = R[FirstOf(order, ok)]
      BY <1>1, <1>6, <2>1, <2>4, FirstOfIsIn DEF NoneResolved
    <3> QED
      BY <1>1, <1>2, <1>6, <2>4, <3>1 DEF StatusOf
  <2> QED
    BY <2>2, <2>3, <2>4
<1>7. CASE DOMAIN R # {} /\ ok # {} /\ Cardinality(ok) # 1 /\ won # {} /\ Cardinality(won) = 1
  <2>1. PICK p \in won : TRUE
    BY <1>7
  <2>2. won = {p} /\ FirstOf(order, won) = p
    <3>1. won \in SUBSET Pack /\ Cardinality(won) = 1 /\ p \in won
      BY <1>1, <1>7, <2>1
    <3> HIDE DEF won
    <3> QED
      BY <3>1, OnlyOne
  <2>3. M = OneResolved(R, order, p)
    BY <1>7, <2>2 DEF Merged
  <2> DEFINE rivals == {q \in unsure : R[q].list # <<>> /\ Lead(R, q) >= Level(R, p)}
  <2>4. CASE rivals = {}
    <3>1. M = R[p]
      BY <2>3, <2>4 DEF OneResolved
    <3>2. /\ Level(R, p) \in Int
          /\ \A q \in unsure : Lead(R, q) \in Int /\ R[q].list # <<>>
      BY <2>1, ResolvedTypes
    <3>3. \A q \in unsure : Lead(R, q) < Level(R, p)
      BY <2>4, <3>2
    <3>4. Dominates(R, p)
      BY <2>1, <2>2, <3>3 DEF Dominates
    <3> QED
      BY <1>1, <2>1, <3>1, <3>4
  <2>5. CASE rivals # {}
    <3>1. M.status = "ambiguous"
      BY <2>3, <2>5, CollisionStatus DEF OneResolved
    <3> QED
      BY <1>1, <1>2, <1>7, <3>1 DEF StatusOf
  <2> QED
    BY <2>4, <2>5
<1>8. CASE DOMAIN R # {} /\ ok # {} /\ Cardinality(ok) # 1 /\ won # {} /\ Cardinality(won) # 1
  <2> DEFINE top == Foremost(R, order, won)
             next == Foremost(R, order, won \ {top})
  <2>1. M = SeveralResolved(R, order)
    BY <1>8 DEF Merged
  <2>2. \A q \in won : R[q].tier \in Int /\ Level(R, q) \in Int
    BY ResolvedTypes
  <2>3. top \in won /\ \A q \in won \ {top} : Ahead(R, order, top, q)
    BY <1>8, ForemostIs
  <2>4. won \ {top} # {}
    <3>1. SUFFICES ASSUME won \ {top} = {} PROVE FALSE
      OBVIOUS
    <3>2. won = {top}
      BY <2>3, <3>1
    <3> QED
      BY <1>8, <3>2, FS_Singleton
  <2>5. /\ next \in won \ {top}
        /\ \A q \in (won \ {top}) \ {next} : Ahead(R, order, next, q)
    BY <2>4, ForemostIs
  <2>6. DomainGap \in Nat /\ DomainGap > 0
    BY ResolutionAssumption
  <2>7. CASE R[top].tier > R[next].tier \/ Level(R, top) >= Level(R, next) + DomainGap
    <3>1. M = R[top]
      BY <2>1, <2>7 DEF SeveralResolved
    <3>2. ASSUME NEW q \in won \ {top}
          PROVE  \/ R[top].tier > R[q].tier
                 \/ R[top].tier = R[q].tier /\ Level(R, top) >= Level(R, q) + DomainGap
      <4>1. \/ R[next].tier > R[q].tier
            \/ R[next].tier = R[q].tier /\ Level(R, next) >= Level(R, q)
        <5>1. CASE q = next
          BY <2>2, <3>2, <5>1
        <5>2. CASE q # next
          <6>1. Ahead(R, order, next, q)
            BY <2>5, <3>2, <5>2
          <6> HIDE DEF won, top, next
          <6> QED
            BY <2>2, <2>5, <3>2, <6>1 DEF Ahead, Outranks
        <5> QED
          BY <5>1, <5>2
      <4>2. \/ R[top].tier > R[next].tier
            \/ R[top].tier = R[next].tier /\ Level(R, top) >= Level(R, next)
        <5>1. Ahead(R, order, top, next)
          BY <2>3, <2>5
        <5> HIDE DEF won, top, next
        <5> QED
          BY <2>2, <2>3, <2>5, <5>1 DEF Ahead, Outranks
      <4> HIDE DEF won, top, next
      <4> QED
        BY <2>2, <2>3, <2>5, <2>6, <2>7, <3>2, <4>1, <4>2
    <3>3. won # {top}
      BY <2>4
    <3>4. Dominates(R, top)
      BY <2>3, <3>2, <3>3 DEF Dominates
    <3> QED
      BY <1>1, <2>3, <3>1, <3>4
  <2>8. CASE ~(R[top].tier > R[next].tier \/ Level(R, top) >= Level(R, next) + DomainGap)
    <3>1. M.status = "ambiguous"
      BY <2>1, <2>8, CollisionStatus DEF SeveralResolved
    <3> QED
      BY <1>1, <1>2, <1>8, <3>1 DEF StatusOf
  <2> QED
    BY <2>7, <2>8
<1> QED
  BY <1>3, <1>4, <1>5, <1>6, <1>7, <1>8

-----------------------------------------------------------------------------
(* The inductive invariant                                                 *)

\* The evidence when the rerankers before n have added theirs, and the candidates that the
\* filters before n have left.
Reranked(q, p, n) == Gathered(q, p) \cup
  UNION {Added(q, p, Primary(Gathered(q, p)), Entities(Gathered(q, p)), s) :
           s \in {t \in {Plan[p][i] : i \in 1 .. n - 1} : Trait[t].rerank}}
Filtered(q, p, n) == Entities(Gathered(q, p)) \
  UNION {q.breaks[c] : c \in {Filters[p][i] : i \in 1 .. n - 1}}

\* What a pack's work has come to: unless the deadline has passed, it is a part of the
\* whole pipeline; the filters and what they work on are so even then.
SourcesInv == stage = "sources" =>
  /\ scored = {} /\ at \in 1 .. Len(Plan[pack]) + 1
  /\ ~late => \E K \in SUBSET Primaries(pack) :
       /\ Heard(query, pack, K, at) /\ found = Evidence(query, pack, K)
       /\ at <= Len(Plan[pack]) =>
            \A i \in K : ~Stops(query, Plan[pack][i], Evidence(query, pack, UpTo(K, i)))
RerankInv == stage = "rerank" =>
  /\ scored = {} /\ at \in 1 .. Len(Plan[pack]) + 1
  /\ Gathered(query, pack) # {} /\ cands = Entities(Gathered(query, pack))
  /\ ~late => found = Reranked(query, pack, at)
FilterInv == stage \in {"constrain", "score"} =>
  /\ stage = "constrain" => at \in 1 .. Len(Filters[pack]) + 1
  /\ Gathered(query, pack) # {} /\ found = Reranked(query, pack, Len(Plan[pack]) + 1)
  /\ cands = Filtered(query, pack, IF stage = "constrain" THEN at ELSE Len(Filters[pack]) + 1)
  /\ stage = "constrain" => scored = {}
  /\ stage = "score" => cands # {} /\ scored \subseteq cands
PipelineInv == SourcesInv /\ RerankInv /\ FilterInv

\* The answers so far, and those still due.
ResultsInv ==
  /\ results = [p \in DOMAIN results |-> results[p]]
  /\ \A p \in DOMAIN results :
       /\ AnswerOK(results[p])
       /\ \/ results[p] = Failed /\ "call" \in raised
          \/ results[p] = TimedOut /\ late
          \/ results[p] = Full(query, p)
RouteInv == stage # "idle" =>
  DOMAIN results \cup (todo \ query.blank) \cup (IF stage = "joined" THEN {} ELSE {pack}) =
    Route(query) \ query.blank

\* What the calls before have left.
VerdictInv == Judged => verdict = Preferring(query, Merged(results, Loaded))
CacheInv == cached # None /\ "cached" \notin raised => cached = Complete(query)

IInv == TypeOK /\ PipelineInv /\ ResultsInv /\ RouteInv /\ VerdictInv /\ CacheInv

-----------------------------------------------------------------------------
(* Types                                                                   *)

\* Hits are of known sources and entities.
LEMMA HitsType ==
  ASSUME NEW q \in Query, NEW s \in Source
  PROVE  Hits(q, s) \subseteq Source \X Entity
<1>1. ASSUME NEW x \in Hits(q, s)
      PROVE  x \in Source \X Entity
  <2>1. \E e \in Entity : x = <<s, e>>
    BY HitTypes
  <2> QED
    BY <2>1
<1> QED
  BY <1>1

\* The types hold at first.
LEMMA TypingInit == Init => TypeOK
<1>1. DOMAIN NoResults = {} /\ MaxCalls \in Nat
  BY ResolutionAssumption DEF NoResults
<1>2. 0 \in 0 .. MaxCalls
  BY <1>1
<1> SUFFICES ASSUME Init PROVE TypeOK
  OBVIOUS
<1>3. query \in Query /\ timed \in BOOLEAN /\ late \in BOOLEAN /\ (late => timed)
  BY DEF Init
<1>4. /\ pack \in Pack \cup {None} /\ stage = "idle" /\ at \in Nat \ {0}
      /\ found \subseteq Source \X Entity /\ cands \subseteq Entity /\ scored \subseteq Entity
      /\ todo \subseteq Pack /\ raised \subseteq {"call", "cached"}
  BY DEF Init
<1>5. DOMAIN results \subseteq Pack /\ calls \in 0 .. MaxCalls
  BY <1>1, <1>2 DEF Init
<1> QED
  BY <1>3, <1>4, <1>5 DEF TypeOK

\* The clock may make a call late only if it has a deadline, and never early again.
LEMMA ClockType ==
  ASSUME TypeOK, Clock
  PROVE  late' \in BOOLEAN /\ (late' => timed) /\ (late => late')
BY Zenon DEF TypeOK, Clock

\* A pack that answers is a known one.
LEMMA AnswerType ==
  ASSUME TypeOK, stage \notin {"idle", "joined"}, NEW r, Answer(r), UNCHANGED <<todo, verdict, cached, calls>>,
         raised' \subseteq {"call", "cached"}
  PROVE  TypeOK'
<1>1. late' \in BOOLEAN /\ (late' => timed)
  BY ClockType DEF Answer
<1>2. pack \in Pack /\ DOMAIN results' = DOMAIN results \cup {pack}
  BY DEF TypeOK, Answer
<1> QED
  BY <1>1, <1>2 DEF TypeOK, Answer, inputVars

\* Returning keeps the types.
LEMMA ReturnType ==
  ASSUME TypeOK, NEW v, Return(v)
  PROVE  TypeOK'
BY ResolutionAssumption DEF TypeOK, Return, inputVars, workVars

\* Only packs and entities of the query are ever at work.
LEMMA TypingStep ==
  ASSUME TypeOK, [Next]_vars
  PROVE  TypeOK'
<1>1. CASE UNCHANGED vars
  BY <1>1 DEF TypeOK, vars, runnerVars, frontVars, inputVars, workVars
<1>2. ASSUME NEW deadline \in BOOLEAN, Ask(deadline)
      PROVE  TypeOK'
  <2>1. DOMAIN NoResults = {} /\ Route(query) \subseteq Pack
    BY DEF NoResults, Route
  <2>2. calls' \in 0 .. MaxCalls
    <3>1. MaxCalls \in Nat
      BY ResolutionAssumption
    <3> QED
      BY <1>2, <3>1 DEF Ask, TypeOK
  <2>3. todo' \subseteq Pack /\ stage' \in {"idle", "joined"}
    BY <1>2, <2>1 DEF Ask, Idle, TypeOK
  <2>4. timed' \in BOOLEAN /\ late' = FALSE /\ DOMAIN results' = {} /\ raised' \subseteq {"call", "cached"}
    BY <1>2, <2>1 DEF Ask, TypeOK
  <2> QED
    BY <1>2, <2>2, <2>3, <2>4 DEF TypeOK, Ask, workVars
<1>3. CASE AskPack
  <2>1. CASE late
    BY <1>3, <2>1, ReturnType DEF AskPack
  <2>2. CASE ~late
    <3>1. FirstOf(Loaded, todo) \in Pack
      BY <1>3, LoadedOrders, FirstOfIsIn DEF AskPack, TypeOK
    <3>2. UNCHANGED <<query, timed, late, results, verdict, cached, calls, raised>> /\ todo' \subseteq Pack
      BY <1>3, <2>2 DEF AskPack, TypeOK, inputVars
    <3>3. CASE FirstOf(Loaded, todo) \in query.blank
      BY <1>3, <2>2, <3>2, <3>3 DEF AskPack, TypeOK, workVars
    <3>4. CASE FirstOf(Loaded, todo) \notin query.blank
      BY <1>3, <2>2, <3>1, <3>2, <3>4 DEF AskPack, StartPack, TypeOK
    <3> QED
      BY <3>3, <3>4
  <2> QED
    BY <2>1, <2>2
<1>4. CASE JoinPacks
  BY <1>4, ReturnType DEF JoinPacks
<1>5. CASE Evict
  BY <1>5 DEF Evict, TypeOK, runnerVars, inputVars, workVars
<1>6. CASE Rest
  BY <1>6 DEF Rest, TypeOK, vars, runnerVars, frontVars, inputVars, workVars
<1>7. CASE RunPack
  <2>1. UNCHANGED <<todo, verdict, cached, calls>> /\ raised' \subseteq {"call", "cached"}
    BY <1>7 DEF RunPack, TypeOK
  <2>2. ASSUME stage \notin {"idle", "joined"}, NEW r, Answer(r)
        PROVE  TypeOK'
    BY <2>1, <2>2, AnswerType
  <2>3. CASE Raise
    BY <2>2, <2>3 DEF Raise
  <2>4. CASE Collect
    <3>1. pack \in Pack /\ at \in 1 .. Len(Plan[pack]) /\ Plan[pack][at] \in Source /\ Len(Plan[pack]) \in Nat
      BY <2>4, PlanDomain DEF Collect, InStage, TypeOK
    <3>2. Hits(query, Plan[pack][at]) \subseteq Source \X Entity
      <4>1. query \in Query
        BY DEF TypeOK
      <4> QED
        BY <3>1, <4>1, HitsType
    <3>3. found' \subseteq Source \X Entity
      BY <2>4, <3>2 DEF Collect, TypeOK
    <3>4. at' \in Nat \ {0}
      BY <2>4, <3>1 DEF Collect, TypeOK
    <3>5. late' \in BOOLEAN /\ (late' => timed)
      BY <2>4, ClockType DEF Collect, TypeOK
    <3>6. UNCHANGED <<query, timed, pack, stage, cands, scored, results>>
      BY <2>4 DEF Collect, inputVars
    <3>7. /\ query' \in Query /\ timed' \in BOOLEAN /\ pack' \in Pack /\ stage' = "sources"
          /\ cands' \subseteq Entity /\ scored' \subseteq Entity /\ DOMAIN results' \subseteq Pack
      BY <2>4, <3>1, <3>6 DEF TypeOK, Collect, InStage
    <3>8. todo' \subseteq Pack /\ calls' \in 0 .. MaxCalls
      BY <2>1 DEF TypeOK
    <3>9. /\ pack' \in Pack \cup {None} /\ stage' \notin {"idle", "joined"}
          /\ stage' \in {"idle", "joined", "sources", "rerank", "constrain", "score"}
      BY <3>7
    <3> QED
      BY <2>1, <3>3, <3>4, <3>5, <3>6, <3>7, <3>8, <3>9 DEF TypeOK
  <2>5. CASE Merge
    <3>1. stage \notin {"idle", "joined"}
      BY <2>5 DEF Merge, StageOver
    <3>2. CASE late \/ found = {}
      BY <2>2, <2>5, <3>1, <3>2 DEF Merge
    <3>3. CASE ~late /\ found # {}
      <4>1. Entities(found) \subseteq Entity
        BY DEF Entities, TypeOK
      <4>2. stage = "sources" /\ stage' = "rerank" /\ at' = 1 /\ cands' \subseteq Entity
        BY <2>5, <3>3, <4>1 DEF Merge, GoTo, StageOver
      <4>3. UNCHANGED <<inputVars, late, pack, found, scored, results>>
        BY <2>5, <3>3 DEF Merge
      <4> QED
        BY <2>1, <4>2, <4>3 DEF TypeOK, inputVars
    <3> QED
      BY <3>2, <3>3
  <2>6. CASE Rerank
    <3>1. pack \in Pack /\ at \in 1 .. Len(Plan[pack]) /\ Plan[pack][at] \in Source
      BY <2>6, PlanDomain DEF Rerank, InStage, TypeOK
    <3>2. Added(query, pack, Primary(found), cands, Plan[pack][at]) \subseteq Source \X Entity
      <4>1. query \in Query
        BY DEF TypeOK
      <4>2. Hits(query, Plan[pack][at]) \subseteq Source \X Entity
        BY <3>1, <4>1, HitsType
      <4> QED
        BY <4>2 DEF Added
    <3>3. found' \subseteq Source \X Entity
      BY <2>6, <3>2 DEF Rerank, TypeOK
    <3>4. late' \in BOOLEAN /\ (late' => timed)
      BY <2>6, ClockType DEF Rerank, TypeOK
    <3>5. UNCHANGED <<query, timed, pack, stage, cands, scored, results>> /\ at' \in Nat \ {0}
      BY <2>6, <3>1 DEF Rerank, TypeOK, inputVars
    <3>6. /\ query' \in Query /\ timed' \in BOOLEAN /\ pack' \in Pack /\ stage' = "rerank"
          /\ cands' \subseteq Entity /\ scored' \subseteq Entity /\ DOMAIN results' \subseteq Pack
      BY <2>6, <3>1, <3>5 DEF TypeOK, Rerank, InStage
    <3>7. todo' \subseteq Pack /\ calls' \in 0 .. MaxCalls
      BY <2>1 DEF TypeOK
    <3> QED
      BY <2>1, <3>3, <3>4, <3>5, <3>6, <3>7 DEF TypeOK
  <2>7. CASE EndRerank
    <3>1. stage \notin {"idle", "joined"}
      BY <2>7 DEF EndRerank, StageOver
    <3> QED
      BY <2>1, <2>2, <2>7, <3>1 DEF EndRerank, GoTo, TypeOK, inputVars, workVars
  <2>8. CASE Constrain
    BY <2>1, <2>8 DEF Constrain, InStage, Clock, TypeOK, inputVars
  <2>9. CASE EndConstrain
    <3>1. stage \notin {"idle", "joined"}
      BY <2>9 DEF EndConstrain, StageOver
    <3> QED
      BY <2>1, <2>2, <2>9, <3>1 DEF EndConstrain, GoTo, TypeOK, inputVars, workVars
  <2>10. CASE Score
    <3>1. late' \in BOOLEAN /\ (late' => timed)
      BY <2>10, ClockType DEF Score
    <3>2. scored' \subseteq Entity /\ at' \in Nat \ {0} /\ stage = "score"
      BY <2>10 DEF Score, TypeOK
    <3> QED
      BY <2>1, <2>10, <3>1, <3>2 DEF Score, TypeOK, inputVars
  <2>11. CASE EndScore
    BY <2>2, <2>11 DEF EndScore
  <2> QED
    BY <1>7, <2>3, <2>4, <2>5, <2>6, <2>7, <2>8, <2>9, <2>10, <2>11 DEF RunPack, RunnerStep
<1> QED
  BY <1>1, <1>2, <1>3, <1>4, <1>5, <1>6, <1>7 DEF Next

\* Types: only packs, sources, entities and calls of the model are at work, and only a
\* call with a deadline is ever late.
THEOREM Typing == Spec => []TypeOK
<1>1. Init => TypeOK
  BY TypingInit
<1>2. TypeOK /\ [Next]_vars => TypeOK'
  BY TypingStep
<1> QED
  BY <1>1, <1>2, PTL DEF Spec

-----------------------------------------------------------------------------
(* The whole pipeline, step by step                                        *)

\* The evidence gathered is that of sources other than rerankers.
LEMMA GatheredIsPrimary ==
  ASSUME NEW q \in Query, NEW p \in Pack
  PROVE  Sound(q, p, Gathered(q, p)) /\ Primary(Gathered(q, p)) = Gathered(q, p)
<1> DEFINE G == Gathered(q, p)
<1>1. PICK K \in SUBSET Primaries(p) : G = Evidence(q, p, K)
  BY AskedExists, GatheredIs
<1>2. ASSUME NEW x \in G
      PROVE  \E i \in DOMAIN Plan[p] : x \in Hits(q, Plan[p][i]) /\ ~Trait[x[1]].rerank
  <2>1. PICK i \in K : x \in Hits(q, Plan[p][i])
    BY <1>1 DEF Evidence
  <2>2. i \in DOMAIN Plan[p] /\ ~Trait[Plan[p][i]].rerank
    BY <1>1, <2>1 DEF Primaries
  <2>3. PICK s \in Source : s = Plan[p][i]
    BY <2>2, PlanDomain
  <2>4. \E e \in Entity : x = <<s, e>>
    BY <2>1, <2>3, HitTypes
  <2>5. x[1] = s
    BY <2>4
  <2> QED
    BY <2>1, <2>2, <2>3, <2>5
<1>3. Sound(q, p, G)
  BY <1>2 DEF Sound
<1>4. Primary(G) = G
  BY <1>2 DEF Primary
<1> QED
  BY <1>3, <1>4

\* The evidence of the rerankers heard so far grows by that of the next.
LEMMA RerankedSteps ==
  ASSUME NEW q, NEW p \in Pack
  PROVE  /\ Reranked(q, p, 1) = Gathered(q, p)
         /\ \A n \in 1 .. Len(Plan[p]) : Reranked(q, p, n + 1) =
              IF Trait[Plan[p][n]].rerank
              THEN Reranked(q, p, n) \cup
                     Added(q, p, Primary(Gathered(q, p)), Entities(Gathered(q, p)), Plan[p][n])
              ELSE Reranked(q, p, n)
<1> DEFINE A(s) == Added(q, p, Primary(Gathered(q, p)), Entities(Gathered(q, p)), s)
           T(n) == {t \in {Plan[p][i] : i \in 1 .. n - 1} : Trait[t].rerank}
<1>1. \A n : Reranked(q, p, n) = Gathered(q, p) \cup UNION {A(s) : s \in T(n)}
  BY DEF Reranked
<1>2. T(1) = {}
  OBVIOUS
<1>3. ASSUME NEW n \in 1 .. Len(Plan[p])
      PROVE  T(n + 1) = IF Trait[Plan[p][n]].rerank THEN T(n) \cup {Plan[p][n]} ELSE T(n)
  <2>1. n \in Nat /\ (n + 1) - 1 = n /\ 1 .. n = (1 .. n - 1) \cup {n}
    BY PlanDomain
  <2> QED
    BY <2>1
<1> HIDE DEF A, T
<1>4. Reranked(q, p, 1) = Gathered(q, p)
  BY <1>1, <1>2
<1>5. ASSUME NEW n \in 1 .. Len(Plan[p])
      PROVE  Reranked(q, p, n + 1) =
               IF Trait[Plan[p][n]].rerank THEN Reranked(q, p, n) \cup A(Plan[p][n]) ELSE Reranked(q, p, n)
  <2>1. CASE Trait[Plan[p][n]].rerank
    <3> DEFINE U(m) == {A(s) : s \in T(m)}
    <3>1. U(n + 1) = U(n) \cup {A(Plan[p][n])}
      BY <1>3, <2>1
    <3>2. \A m : Reranked(q, p, m) = Gathered(q, p) \cup UNION U(m)
      BY <1>1
    <3> HIDE DEF U
    <3>3. UNION U(n + 1) = (UNION U(n)) \cup A(Plan[p][n])
      BY <3>1
    <3> QED
      BY <2>1, <3>2, <3>3
  <2>2. CASE ~Trait[Plan[p][n]].rerank
    BY <1>1, <1>3, <2>2
  <2> QED
    BY <2>1, <2>2
<1> QED
  BY <1>4, <1>5 DEF A

\* What the filters so far drop grows by what the next drops.
LEMMA FilteredSteps ==
  ASSUME NEW q, NEW p \in Pack
  PROVE  /\ Len(Filters[p]) \in Nat /\ DOMAIN Filters[p] = 1 .. Len(Filters[p])
         /\ Filtered(q, p, 1) = Entities(Gathered(q, p))
         /\ \A n \in 1 .. Len(Filters[p]) :
              Filtered(q, p, n + 1) = Filtered(q, p, n) \ q.breaks[Filters[p][n]]
         /\ \A n \in 1 .. Len(Filters[p]) + 1 :
              Filtered(q, p, Len(Filters[p]) + 1) \subseteq Filtered(q, p, n)
<1>1. Filters[p] \in Seq(Constraint)
  BY PackRunnerAssumption
<1>2. Len(Filters[p]) \in Nat /\ DOMAIN Filters[p] = 1 .. Len(Filters[p])
  BY <1>1
<1> DEFINE C(n) == {Filters[p][i] : i \in 1 .. n - 1}
<1>3. C(1) = {}
  OBVIOUS
<1>4. \A n \in 1 .. Len(Filters[p]) : C(n + 1) = C(n) \cup {Filters[p][n]}
  <2>1. TAKE n \in 1 .. Len(Filters[p])
  <2>2. (n + 1) - 1 = n /\ 1 .. n = (1 .. n - 1) \cup {n}
    BY <1>2
  <2> QED
    BY <2>2
<1>5. \A n \in 1 .. Len(Filters[p]) + 1 : C(n) \subseteq C(Len(Filters[p]) + 1)
  BY <1>2
<1> HIDE DEF C
<1>6. \A n : Filtered(q, p, n) = Entities(Gathered(q, p)) \ UNION {q.breaks[c] : c \in C(n)}
  BY DEF Filtered, C
<1>7. Filtered(q, p, 1) = Entities(Gathered(q, p))
  BY <1>3, <1>6
<1>8. \A n \in 1 .. Len(Filters[p]) : Filtered(q, p, n + 1) = Filtered(q, p, n) \ q.breaks[Filters[p][n]]
  <2>1. TAKE n \in 1 .. Len(Filters[p])
  <2>2. UNION {q.breaks[c] : c \in C(n + 1)} = (UNION {q.breaks[c] : c \in C(n)}) \cup q.breaks[Filters[p][n]]
    BY <1>4
  <2> QED
    BY <1>6, <2>2
<1>9. \A n \in 1 .. Len(Filters[p]) + 1 : Filtered(q, p, Len(Filters[p]) + 1) \subseteq Filtered(q, p, n)
  BY <1>5, <1>6
<1> QED
  BY <1>2, <1>7, <1>8, <1>9

\* All rerankers heard is what Whole adds to the evidence.
LEMMA RerankedIs ==
  ASSUME NEW q \in Query, NEW p \in Pack, NEW n \in 1 .. Len(Plan[p]) + 1
  PROVE  /\ Sound(q, p, Reranked(q, p, n)) /\ Primary(Reranked(q, p, n)) = Gathered(q, p)
<1> DEFINE G == Gathered(q, p)
           T == {t \in {Plan[p][i] : i \in 1 .. n - 1} : Trait[t].rerank}
           R == Reranked(q, p, n)
<1>1. ASSUME NEW x \in R, x \notin G
      PROVE  (\E i \in DOMAIN Plan[p] : x \in Hits(q, Plan[p][i])) /\ Trait[x[1]].rerank
  <2>1. PICK s \in T : x \in Added(q, p, Primary(G), Entities(G), s)
    BY <1>1 DEF Reranked
  <2>2. x \in Hits(q, s)
    BY <2>1 DEF Added
  <2>3. PICK i \in 1 .. n - 1 : s = Plan[p][i] /\ Trait[s].rerank
    BY <2>1
  <2>4. i \in DOMAIN Plan[p]
    BY <2>3, PlanDomain
  <2>5. s \in Source
    BY <2>3, <2>4, PlanDomain
  <2>6. \E e \in Entity : x = <<s, e>>
    BY <2>2, <2>5, HitTypes
  <2>7. x[1] = s
    BY <2>6
  <2> QED
    BY <2>2, <2>3, <2>4, <2>7
<1>2. G \subseteq R
  BY DEF Reranked
<1>3. Sound(q, p, G) /\ Primary(G) = G
  BY GatheredIsPrimary
<1> HIDE DEF G, R, T
<1>4. Sound(q, p, R)
  BY <1>1, <1>3 DEF Sound
<1>5. Primary(R) = G
  BY <1>1, <1>2, <1>3 DEF Primary
<1> QED
  BY <1>4, <1>5 DEF G, R

\* Full, said of the evidence that the stages reach.
LEMMA FullIs ==
  ASSUME NEW q \in Query, NEW p \in Pack
  PROVE  LET kept == Filtered(q, p, Len(Filters[p]) + 1)
             all == Reranked(q, p, Len(Plan[p]) + 1)
         IN /\ Gathered(q, p) = {} => Full(q, p) = Unmatched(q, p, "no candidates")
            /\ Gathered(q, p) # {} /\ kept = {} => Full(q, p) = Unmatched(q, p, "filtered")
            /\ Gathered(q, p) # {} /\ kept # {} => Full(q, p) = Decide(q, p, all, kept, kept)
            /\ AnswerOK(Full(q, p))
<1> DEFINE kept == Filtered(q, p, Len(Filters[p]) + 1)
           all == Reranked(q, p, Len(Plan[p]) + 1)
<1>1. all = Gathered(q, p) \cup
        UNION {Added(q, p, Primary(Gathered(q, p)), Entities(Gathered(q, p)), s) :
                 s \in {t \in Range(Plan[p]) : Trait[t].rerank}}
  <2>1. Range(Plan[p]) = {Plan[p][i] : i \in 1 .. (Len(Plan[p]) + 1) - 1}
    BY PlanDomain DEF Range
  <2> QED
    BY <2>1 DEF Reranked
<1>2. kept = Entities(Gathered(q, p)) \ UNION {q.breaks[c] : c \in Range(Filters[p])}
  <2>1. Range(Filters[p]) = {Filters[p][i] : i \in 1 .. (Len(Filters[p]) + 1) - 1}
    BY FilteredSteps DEF Range
  <2> QED
    BY <2>1 DEF Filtered
<1>3. Full(q, p) = IF Gathered(q, p) = {} THEN Unmatched(q, p, "no candidates")
                   ELSE IF kept = {} THEN Unmatched(q, p, "filtered")
                   ELSE Decide(q, p, all, kept, kept)
  BY <1>1, <1>2 DEF Full, Whole
<1>4. kept # {} => AnswerOK(Decide(q, p, all, kept, kept))
  <2>1. Len(Plan[p]) + 1 \in 1 .. Len(Plan[p]) + 1
    BY PlanDomain
  <2>2. Sound(q, p, all) /\ Primary(all) = Gathered(q, p)
    BY <2>1, RerankedIs
  <2>3. kept \in SUBSET Entities(Gathered(q, p))
    BY <1>2
  <2> HIDE DEF kept, all
  <2> QED
    BY <2>2, <2>3, DecideIsOK
<1>5. \A why : AnswerOK(Unmatched(q, p, why))
  <2>1. \A why, n : AnswerOK([NoMatch(why) EXCEPT !.list = n])
    BY DEF AnswerOK, NoMatch
  <2> QED
    BY <2>1 DEF Unmatched
<1> HIDE DEF kept, all
<1>6. AnswerOK(Full(q, p))
  BY <1>3, <1>4, <1>5
<1> QED
  BY <1>3, <1>6 DEF kept, all

-----------------------------------------------------------------------------
(* A step of a pack's work moves on along its pipeline, or ends with an    *)
(* answer that is whole, or with a timeout once the deadline has passed.   *)

Working == stage \notin {"idle", "joined"}
MovesOn == /\ Working /\ Working' /\ PipelineInv' /\ (late => late')
           /\ UNCHANGED <<query, timed, pack, results>>
Ends == Working /\ \E r : Answer(r) /\ AnswerOK(r) /\ ((r = TimedOut /\ late) \/ r = Full(query, pack))

\* A pack that times out has ended.
LEMMA TimedOutEnds ==
  ASSUME Working, late, Answer(TimedOut)
  PROVE  Ends
BY DEF Ends, AnswerOK, TimedOut

\* A pack that gives its whole answer has ended.
LEMMA FullEnds ==
  ASSUME TypeOK, Working, Answer(Full(query, pack))
  PROVE  Ends
<1>1. query \in Query /\ pack \in Pack
  BY DEF TypeOK, Working
<1>2. AnswerOK(Full(query, pack))
  BY <1>1, FullIs
<1> QED
  BY <1>2 DEF Ends

\* Collecting: the sources asked grow as Asked says.
LEMMA CollectMoves ==
  ASSUME TypeOK, PipelineInv, Collect
  PROVE  MovesOn
<1> DEFINE s == Plan[pack][at]
           N == Len(Plan[pack])
<1>1. /\ stage = "sources" /\ stage' = "sources" /\ ~late /\ at \in 1 .. N /\ N \in Nat
      /\ pack \in Pack /\ query \in Query /\ UNCHANGED <<query, timed, pack, results>>
  BY PlanDomain DEF Collect, InStage, TypeOK, inputVars
<1>2. at \in DOMAIN Plan[pack]
  BY <1>1, PlanDomain
<1>3. PICK K \in SUBSET Primaries(pack) :
        /\ Heard(query, pack, K, at) /\ found = Evidence(query, pack, K)
        /\ \A i \in K : ~Stops(query, Plan[pack][i], Evidence(query, pack, UpTo(K, i)))
  BY <1>1 DEF PipelineInv, SourcesInv
<1>4. /\ \A i \in K : i \in Nat /\ i < at
      /\ UpTo(K, at - 1) = K
  <2>1. Primaries(pack) \subseteq 1 .. N
    BY <1>1, PlanDomain
  <2>2. \A i \in K : i \in Nat /\ i < at
    BY <1>1, <1>3, <2>1 DEF Heard
  <2> QED
    BY <1>1, <2>2 DEF UpTo
<1>5. at \in Primaries(pack) => (Due(query, pack, K, at) <=> ~Skip(s, found))
  BY <1>3, <1>4 DEF Due
<1>6. SUFFICES /\ at' \in 1 .. N + 1
               /\ ~late' => \E L \in SUBSET Primaries(pack) :
                    /\ Heard(query, pack, L, at') /\ found' = Evidence(query, pack, L)
                    /\ at' <= N =>
                         \A i \in L : ~Stops(query, Plan[pack][i], Evidence(query, pack, UpTo(L, i)))
  <2>1. scored' = {}
    BY <1>1 DEF Collect, PipelineInv, SourcesInv
  <2>2. SourcesInv'
    BY <1>1, <1>6, <2>1 DEF SourcesInv
  <2> QED
    BY <1>1, <2>2 DEF MovesOn, Working, PipelineInv, RerankInv, FilterInv
<1>7. CASE Trait[s].rerank \/ Skip(s, found)
  <2>1. at' = at + 1 /\ found' = found
    BY <1>7 DEF Collect
  <2>2. at \notin Primaries(pack) \/ ~Due(query, pack, K, at)
    BY <1>5, <1>7 DEF Primaries
  <2>3. Heard(query, pack, K, at + 1)
    BY <1>1, <1>3, <2>2, HeardOneMore
  <2> QED
    BY <1>1, <1>3, <2>1, <2>3
<1>8. CASE ~(Trait[s].rerank \/ Skip(s, found))
  <2>1. at' = IF Stops(query, s, found') THEN N + 1 ELSE at + 1
    BY <1>8 DEF Collect
  <2>2. at' \in 1 .. N + 1
    BY <1>1, <2>1
  <2>3. ASSUME ~late'
        PROVE  \E L \in SUBSET Primaries(pack) :
                    /\ Heard(query, pack, L, at') /\ found' = Evidence(query, pack, L)
                    /\ at' <= N =>
                         \A i \in L : ~Stops(query, Plan[pack][i], Evidence(query, pack, UpTo(L, i)))
    <3> DEFINE L == K \cup {at}
    <3>1. found' = found \cup Hits(query, s)
      BY <1>8, <2>3 DEF Collect
    <3>2. at \in Primaries(pack) /\ Due(query, pack, K, at)
      BY <1>2, <1>5, <1>8 DEF Primaries
    <3>3. Heard(query, pack, L, at + 1)
      BY <1>1, <1>3, <3>2, HeardOneMore
    <3>4. L \in SUBSET Primaries(pack) /\ at \in L
      BY <3>2
    <3>5. found' = Evidence(query, pack, L)
      <4>1. Evidence(query, pack, L) = Evidence(query, pack, K) \cup Hits(query, s)
        BY DEF Evidence
      <4> QED
        BY <1>3, <3>1, <4>1
    <3>6. UpTo(L, at) = L
      BY <1>1, <1>4 DEF UpTo
    <3>7. \A i \in K : UpTo(L, i) = UpTo(K, i)
      BY <1>1, <1>4 DEF UpTo
    <3>8. CASE Stops(query, s, found')
      <4>1. Heard(query, pack, L, N + 1)
        <5>1. Stops(query, Plan[pack][at], Evidence(query, pack, UpTo(L, at)))
          BY <3>5, <3>6, <3>8
        <5> HIDE DEF L
        <5> QED
          BY <1>1, <3>3, <3>4, <5>1, HeardStopped
      <4>2. at' = N + 1 /\ ~(at' <= N)
        BY <1>1, <2>1, <3>8
      <4> HIDE DEF L
      <4> QED
        BY <3>4, <3>5, <4>1, <4>2
    <3>9. CASE ~Stops(query, s, found')
      <4>1. \A i \in L : ~Stops(query, Plan[pack][i], Evidence(query, pack, UpTo(L, i)))
        BY <1>3, <3>5, <3>6, <3>7, <3>9
      <4>2. at' = at + 1
        BY <2>1, <3>9
      <4> HIDE DEF L
      <4> QED
        BY <3>3, <3>4, <3>5, <4>1, <4>2
    <3> QED
      BY <3>8, <3>9
  <2> QED
    BY <2>2, <2>3
<1> QED
  BY <1>7, <1>8

\* Merging ends the pack without candidates, or goes on with all of them.
LEMMA MergeIs ==
  ASSUME TypeOK, PipelineInv, Merge
  PROVE  MovesOn \/ Ends
<1>1. stage = "sources" /\ pack \in Pack /\ query \in Query /\ Len(Plan[pack]) \in Nat
  BY PlanDomain DEF Merge, StageOver, TypeOK
<1>2. CASE late
  BY <1>1, <1>2, TimedOutEnds DEF Merge, Working
<1>3. CASE ~late
  <2>1. at = Len(Plan[pack]) + 1
    <3>1. at \in 1 .. Len(Plan[pack]) + 1
      BY <1>1 DEF PipelineInv, SourcesInv
    <3>2. at > Len(Plan[pack])
      BY <1>3 DEF Merge, StageOver
    <3> QED
      BY <1>1, <3>1, <3>2
  <2>2. PICK K \in SUBSET Primaries(pack) :
          Heard(query, pack, K, Len(Plan[pack]) + 1) /\ found = Evidence(query, pack, K)
    BY <1>1, <1>3, <2>1 DEF PipelineInv, SourcesInv
  <2>3. found = Gathered(query, pack)
    BY <1>1, <2>2, HeardAllIsAsked, GatheredIs
  <2>4. CASE found = {}
    <3>1. Full(query, pack) = Unmatched(query, pack, "no candidates")
      BY <1>1, <2>3, <2>4, FullIs
    <3>2. Answer(Full(query, pack))
      BY <1>3, <2>4, <3>1 DEF Merge
    <3> QED
      BY <1>1, <3>2, FullEnds DEF Working
  <2>5. CASE found # {}
    <3>1. /\ stage' = "rerank" /\ at' = 1 /\ cands' = Entities(found) /\ found' = found
          /\ scored' = {} /\ UNCHANGED <<query, timed, pack, results, late>>
      BY <1>1, <1>3, <2>5 DEF Merge, GoTo, inputVars, PipelineInv, SourcesInv
    <3>2. Reranked(query, pack, 1) = Gathered(query, pack)
      BY <1>1, RerankedSteps
    <3>3. RerankInv'
      BY <1>1, <2>3, <2>5, <3>1, <3>2 DEF RerankInv
    <3> QED
      BY <1>1, <3>1, <3>3 DEF MovesOn, Working, PipelineInv, SourcesInv, FilterInv
  <2> QED
    BY <2>4, <2>5
<1> QED
  BY <1>2, <1>3

\* A reranker adds what Whole adds.
LEMMA RerankMoves ==
  ASSUME TypeOK, PipelineInv, Rerank
  PROVE  MovesOn
<1>1. /\ stage = "rerank" /\ stage' = "rerank" /\ ~late /\ at \in 1 .. Len(Plan[pack]) /\ at' = at + 1
      /\ Len(Plan[pack]) \in Nat /\ pack \in Pack /\ query \in Query
      /\ UNCHANGED <<query, timed, pack, results, cands, scored>>
  BY PlanDomain DEF Rerank, InStage, TypeOK, inputVars
<1>2. /\ Gathered(query, pack) # {} /\ cands = Entities(Gathered(query, pack))
      /\ found = Reranked(query, pack, at) /\ scored = {}
  BY <1>1 DEF PipelineInv, RerankInv
<1>3. Primary(found) = Gathered(query, pack)
  <2>1. at \in 1 .. Len(Plan[pack]) + 1
    BY <1>1
  <2> QED
    BY <1>1, <1>2, <2>1, RerankedIs
<1>4. ~late' => found' = Reranked(query, pack, at + 1)
  <2> DEFINE s == Plan[pack][at]
  <2>1. Reranked(query, pack, at + 1) =
          IF Trait[s].rerank
          THEN Reranked(query, pack, at) \cup
                 Added(query, pack, Primary(Gathered(query, pack)), Entities(Gathered(query, pack)), s)
          ELSE Reranked(query, pack, at)
    BY <1>1, RerankedSteps
  <2>2. Primary(Gathered(query, pack)) = Gathered(query, pack)
    BY <1>1, GatheredIsPrimary
  <2>3. CASE Trait[s].rerank
    <3>1. ~late' => found' = found \cup Added(query, pack, Primary(found), cands, s)
      BY <2>3 DEF Rerank
    <3> QED
      BY <1>2, <1>3, <2>1, <2>2, <2>3, <3>1
  <2>4. CASE ~Trait[s].rerank
    BY <1>2, <2>1, <2>4 DEF Rerank
  <2> QED
    BY <2>3, <2>4
<1>5. RerankInv'
  BY <1>1, <1>2, <1>4 DEF RerankInv
<1> QED
  BY <1>1, <1>5 DEF MovesOn, Working, PipelineInv, SourcesInv, FilterInv

\* The end of the rerankers.
LEMMA EndRerankIs ==
  ASSUME TypeOK, PipelineInv, EndRerank
  PROVE  MovesOn \/ Ends
<1>1. stage = "rerank" /\ pack \in Pack /\ query \in Query /\ Len(Plan[pack]) \in Nat
  BY PlanDomain DEF EndRerank, StageOver, TypeOK
<1>2. CASE late
  BY <1>1, <1>2, TimedOutEnds DEF EndRerank, Working
<1>3. CASE ~late
  <2>1. at = Len(Plan[pack]) + 1
    BY <1>1, <1>3 DEF EndRerank, StageOver, PipelineInv, RerankInv
  <2>2. /\ stage' = "constrain" /\ at' = 1 /\ UNCHANGED <<query, timed, late, pack, found, cands, scored, results>>
    BY <1>3 DEF EndRerank, GoTo, inputVars, workVars
  <2>3. /\ Gathered(query, pack) # {} /\ found = Reranked(query, pack, Len(Plan[pack]) + 1)
        /\ cands = Filtered(query, pack, 1) /\ scored = {}
    BY <1>1, <1>3, <2>1, FilteredSteps DEF PipelineInv, RerankInv
  <2>4. 1 \in 1 .. Len(Filters[pack]) + 1
    BY <1>1, FilteredSteps
  <2>5. FilterInv'
    BY <2>2, <2>3, <2>4 DEF FilterInv
  <2> QED
    BY <1>1, <2>2, <2>5 DEF MovesOn, Working, PipelineInv, SourcesInv, RerankInv
<1> QED
  BY <1>2, <1>3

\* A filter drops what it drops from Whole's candidates.
LEMMA ConstrainMoves ==
  ASSUME TypeOK, PipelineInv, Constrain
  PROVE  MovesOn
<1>1. /\ stage = "constrain" /\ stage' = "constrain" /\ ~late /\ at \in 1 .. Len(Filters[pack]) /\ at' = at + 1
      /\ Len(Filters[pack]) \in Nat /\ pack \in Pack /\ query \in Query
      /\ UNCHANGED <<query, timed, pack, found, scored, results>>
      /\ cands' = cands \ query.breaks[Filters[pack][at]]
  BY FilteredSteps DEF Constrain, InStage, TypeOK, inputVars
<1>2. /\ Gathered(query, pack) # {} /\ found = Reranked(query, pack, Len(Plan[pack]) + 1)
      /\ cands = Filtered(query, pack, at) /\ scored = {}
  BY <1>1 DEF PipelineInv, FilterInv
<1>3. cands' = Filtered(query, pack, at + 1)
  BY <1>1, <1>2, FilteredSteps
<1>4. FilterInv'
  BY <1>1, <1>2, <1>3 DEF FilterInv
<1> QED
  BY <1>1, <1>4 DEF MovesOn, Working, PipelineInv, SourcesInv, RerankInv

\* The end of the filters: no candidate is left, or all that pass are scored.
LEMMA EndConstrainIs ==
  ASSUME TypeOK, PipelineInv, EndConstrain
  PROVE  MovesOn \/ Ends
<1>1. /\ stage = "constrain" /\ pack \in Pack /\ query \in Query /\ Len(Filters[pack]) \in Nat
      /\ Gathered(query, pack) # {} /\ found = Reranked(query, pack, Len(Plan[pack]) + 1)
      /\ at \in 1 .. Len(Filters[pack]) + 1 /\ cands = Filtered(query, pack, at)
  BY FilteredSteps DEF EndConstrain, StageOver, TypeOK, PipelineInv, FilterInv
<1>2. CASE cands = {}
  <2>1. Filtered(query, pack, Len(Filters[pack]) + 1) = {}
    BY <1>1, <1>2, FilteredSteps
  <2>2. Full(query, pack) = Unmatched(query, pack, "filtered")
    BY <1>1, <2>1, FullIs
  <2>3. Answer(Full(query, pack))
    BY <1>2, <2>2 DEF EndConstrain
  <2> QED
    BY <1>1, <2>3, FullEnds DEF Working
<1>3. CASE cands # {} /\ late
  BY <1>1, <1>3, TimedOutEnds DEF EndConstrain, Working
<1>4. CASE cands # {} /\ ~late
  <2>1. at = Len(Filters[pack]) + 1
    BY <1>1, <1>4 DEF EndConstrain, StageOver
  <2>2. stage' = "score" /\ UNCHANGED <<query, timed, late, pack, found, cands, scored, results>>
    BY <1>4 DEF EndConstrain, GoTo, inputVars, workVars
  <2>3. scored = {}
    BY <1>1 DEF PipelineInv, FilterInv
  <2>4. FilterInv'
    BY <1>1, <1>4, <2>1, <2>2, <2>3 DEF FilterInv
  <2> QED
    BY <1>1, <2>2, <2>4 DEF MovesOn, Working, PipelineInv, SourcesInv, RerankInv
<1> QED
  BY <1>2, <1>3, <1>4

\* Scoring leaves evidence and candidates alone.
LEMMA ScoreMoves ==
  ASSUME TypeOK, PipelineInv, Score
  PROVE  MovesOn
<1>1. stage = "score" /\ stage' = "score" /\ UNCHANGED <<query, timed, pack, found, cands, results>>
  BY DEF Score, inputVars
<1>2. scored' \subseteq cands
  BY <1>1 DEF Score, PipelineInv, FilterInv
<1>3. late => late'
  BY ClockType DEF Score
<1>4. FilterInv'
  BY <1>1, <1>2 DEF PipelineInv, FilterInv
<1> QED
  BY <1>1, <1>3, <1>4 DEF MovesOn, Working, PipelineInv, SourcesInv, RerankInv

\* Deciding, when every candidate is scored and the deadline has not passed, is Whole's.
LEMMA EndScoreIs ==
  ASSUME TypeOK, PipelineInv, EndScore
  PROVE  Ends
<1>1. stage = "score" /\ pack \in Pack /\ query \in Query
  BY DEF EndScore, TypeOK
<1>2. CASE late
  BY <1>1, <1>2, TimedOutEnds DEF EndScore, Working
<1>3. CASE ~late
  <2> DEFINE kept == Filtered(query, pack, Len(Filters[pack]) + 1)
             all == Reranked(query, pack, Len(Plan[pack]) + 1)
  <2>1. scored = cands /\ cands = kept /\ found = all /\ cands # {} /\ Gathered(query, pack) # {}
    BY <1>1, <1>3 DEF EndScore, PipelineInv, FilterInv
  <2>2. Answer(Decide(query, pack, all, kept, kept))
    BY <1>3, <2>1 DEF EndScore
  <2>3. Full(query, pack) = Decide(query, pack, all, kept, kept)
    BY <1>1, <2>1, FullIs
  <2> QED
    BY <1>1, <2>2, <2>3, FullEnds DEF Working
<1> QED
  BY <1>2, <1>3

\* So each step of a pack goes on, or ends it late or with its whole answer.
LEMMA RunnerStepIs ==
  ASSUME TypeOK, PipelineInv, RunnerStep
  PROVE  MovesOn \/ Ends
BY CollectMoves, MergeIs, RerankMoves, EndRerankIs, ConstrainMoves, EndConstrainIs, ScoreMoves, EndScoreIs
   DEF RunnerStep

-----------------------------------------------------------------------------
(* The invariant is inductive                                              *)

\* What a call that returns leaves.
LEMMA ReturnIs ==
  ASSUME NEW v, Return(v)
  PROVE  /\ stage' = "idle" /\ verdict' = v /\ UNCHANGED <<query, timed, late, results>>
         /\ "call" \in raised => "call" \in raised'
         /\ timed => cached' = cached /\ raised' = raised
         /\ ~timed => cached' = v /\ ("cached" \in raised' <=> "call" \in raised)
BY DEF Return, inputVars

\* The stage's evidence is what it should be.
LEMMA PipelineStep ==
  ASSUME TypeOK, PipelineInv, [Next]_vars
  PROVE  PipelineInv'
<1> USE DEF PipelineInv, SourcesInv, RerankInv, FilterInv
<1>1. CASE UNCHANGED vars
  BY <1>1 DEF vars, runnerVars, frontVars, inputVars, workVars
<1>2. ASSUME NEW deadline \in BOOLEAN, Ask(deadline)
      PROVE  PipelineInv'
  BY <1>2 DEF Ask, Idle
<1>3. CASE AskPack
  <2>1. CASE late
    BY <1>3, <2>1, ReturnIs DEF AskPack
  <2>2. CASE ~late /\ FirstOf(Loaded, todo) \in query.blank
    BY <1>3, <2>2 DEF AskPack
  <2>3. CASE ~late /\ FirstOf(Loaded, todo) \notin query.blank
    <3> DEFINE p == FirstOf(Loaded, todo)
    <3>1. p \in Pack
      BY <1>3, LoadedOrders, FirstOfIsIn DEF AskPack, TypeOK
    <3> HIDE DEF p
    <3>2. /\ pack' = p /\ stage' = "sources" /\ at' = 1 /\ found' = {} /\ scored' = {}
          /\ UNCHANGED <<query, late>>
      BY <1>3, <2>3 DEF AskPack, StartPack, inputVars, p
    <3>3. Len(Plan[p]) \in Nat /\ Primaries(p) \subseteq 1 .. Len(Plan[p])
      BY <3>1, PlanDomain
    <3>4. Heard(query, p, {}, 1) /\ {} = Evidence(query, p, {}) /\ 1 \in 1 .. Len(Plan[p]) + 1
      BY <3>3 DEF Heard, Evidence
    <3> QED
      BY <3>2, <3>4
  <2> QED
    BY <2>1, <2>2, <2>3
<1>4. CASE JoinPacks
  BY <1>4, ReturnIs DEF JoinPacks
<1>5. CASE Evict
  BY <1>5 DEF Evict, runnerVars, inputVars, workVars
<1>6. CASE Rest
  BY <1>6 DEF Rest, vars, runnerVars, frontVars, inputVars, workVars
<1>7. CASE RunPack
  <2>1. ASSUME NEW r, Answer(r)
        PROVE  PipelineInv'
    BY <2>1 DEF Answer
  <2> QED
    BY <1>7, <2>1, RunnerStepIs DEF RunPack, Raise, MovesOn, Ends
<1> QED
  BY <1>1, <1>2, <1>3, <1>4, <1>5, <1>6, <1>7 DEF Next

\* Steps that leave query and answers alone leave them right.
LEMMA SameResults ==
  ASSUME ResultsInv, UNCHANGED <<query, results>>, late => late', "call" \in raised => "call" \in raised'
  PROVE  ResultsInv'
BY DEF ResultsInv

\* And so does one more right answer.
LEMMA OneMoreResult ==
  ASSUME TypeOK, ResultsInv, NEW r, Answer(r), AnswerOK(r),
         "call" \in raised => "call" \in raised',
         \/ r = Failed /\ "call" \in raised'
         \/ r = TimedOut /\ late
         \/ r = Full(query, pack)
  PROVE  ResultsInv'
<1>1. /\ results' = [p \in DOMAIN results \cup {pack} |-> IF p = pack THEN r ELSE results[p]]
      /\ query' = query /\ (late => late')
  BY ClockType DEF Answer, inputVars
<1> QED
  BY <1>1 DEF ResultsInv

\* Every pack's answer so far is whole, late or failed.
LEMMA ResultsStep ==
  ASSUME TypeOK, PipelineInv, ResultsInv, [Next]_vars
  PROVE  ResultsInv'
<1>1. CASE UNCHANGED vars
  BY <1>1, SameResults DEF vars, runnerVars, frontVars, inputVars
<1>2. ASSUME NEW deadline \in BOOLEAN, Ask(deadline)
      PROVE  ResultsInv'
  <2>1. results' = NoResults
    BY <1>2 DEF Ask
  <2> QED
    BY <2>1 DEF ResultsInv, NoResults
<1>3. CASE AskPack
  <2>1. CASE late
    BY <1>3, <2>1, ReturnIs, SameResults DEF AskPack
  <2>2. CASE ~late
    BY <1>3, <2>2, SameResults DEF AskPack, inputVars
  <2> QED
    BY <2>1, <2>2
<1>4. CASE JoinPacks
  BY <1>4, ReturnIs, SameResults DEF JoinPacks
<1>5. CASE Evict
  BY <1>5, SameResults DEF Evict, runnerVars, inputVars
<1>6. CASE Rest
  BY <1>6, SameResults DEF Rest, vars, runnerVars, frontVars, inputVars
<1>7. CASE RunPack
  <2>1. CASE Raise /\ raised' = raised \cup {"call"}
    <3>1. AnswerOK(Failed)
      BY DEF AnswerOK, Failed
    <3> QED
      BY <2>1, <3>1, OneMoreResult DEF Raise
  <2>2. CASE RunnerStep /\ UNCHANGED raised
    <3>1. CASE MovesOn
      BY <2>2, <3>1, SameResults DEF MovesOn
    <3>2. CASE Ends
      BY <2>2, <3>2, OneMoreResult DEF Ends
    <3> QED
      BY <2>2, <3>1, <3>2, RunnerStepIs
  <2> QED
    BY <1>7, <2>1, <2>2 DEF RunPack
<1> QED
  BY <1>1, <1>2, <1>3, <1>4, <1>5, <1>6, <1>7 DEF Next

\* The packs asked, passed over and still to ask are those of the route.
LEMMA RouteStep ==
  ASSUME TypeOK, PipelineInv, RouteInv, [Next]_vars
  PROVE  RouteInv'
<1>1. CASE UNCHANGED vars
  BY <1>1 DEF RouteInv, vars, runnerVars, frontVars, inputVars
<1>2. ASSUME NEW deadline \in BOOLEAN, Ask(deadline)
      PROVE  RouteInv'
  <2>1. query' = query /\ results' = NoResults /\ DOMAIN NoResults = {}
    BY <1>2 DEF Ask, NoResults
  <2>2. stage' = "idle" \/ (stage' = "joined" /\ todo' = Route(query))
    BY <1>2 DEF Ask, Idle
  <2> QED
    BY <2>1, <2>2 DEF RouteInv
<1>3. CASE AskPack
  <2>1. CASE late
    BY <1>3, <2>1, ReturnIs DEF AskPack, RouteInv
  <2> DEFINE p == FirstOf(Loaded, todo)
  <2>2. p \in todo
    BY <1>3, LoadedOrders, FirstOfIsIn DEF AskPack, TypeOK
  <2>3. CASE ~late /\ p \in query.blank
    <3>1. stage = "joined" /\ stage' = "joined" /\ todo' = todo \ {p} /\ UNCHANGED <<query, results>>
      BY <1>3, <2>3 DEF AskPack, inputVars
    <3>2. todo' \ query.blank = todo \ query.blank
      BY <2>3, <3>1
    <3> QED
      BY <3>1, <3>2 DEF RouteInv
  <2>4. CASE ~late /\ p \notin query.blank
    <3>1. /\ stage = "joined" /\ stage' = "sources" /\ pack' = p /\ todo' = todo \ {p}
          /\ UNCHANGED <<query, results>>
      BY <1>3, <2>4 DEF AskPack, StartPack, inputVars
    <3>2. (todo' \ query.blank) \cup {p} = todo \ query.blank
      BY <2>2, <2>4, <3>1
    <3> HIDE DEF p
    <3> QED
      BY <3>1, <3>2 DEF RouteInv
  <2> QED
    BY <2>1, <2>3, <2>4
<1>4. CASE JoinPacks
  BY <1>4, ReturnIs DEF JoinPacks, RouteInv
<1>5. CASE Evict
  BY <1>5 DEF Evict, RouteInv, runnerVars, inputVars
<1>6. CASE Rest
  BY <1>6 DEF Rest, RouteInv, vars, runnerVars, frontVars, inputVars
<1>7. CASE RunPack
  <2>1. ASSUME Working, NEW r, Answer(r)
        PROVE  RouteInv'
    <3>1. /\ stage' = "joined" /\ DOMAIN results' = DOMAIN results \cup {pack}
          /\ UNCHANGED <<query, todo>> /\ stage \notin {"idle", "joined"}
      BY <1>7, <2>1 DEF Answer, RunPack, Working, inputVars
    <3> QED
      BY <3>1 DEF RouteInv
  <2>2. CASE Raise
    BY <2>1, <2>2 DEF Raise, Working
  <2>3. CASE MovesOn
    <3>1. UNCHANGED <<query, pack, results, todo>> /\ {stage, stage'} \cap {"idle", "joined"} = {}
      BY <1>7, <2>3 DEF MovesOn, RunPack, Working
    <3> QED
      BY <3>1 DEF RouteInv
  <2> QED
    BY <1>7, <2>1, <2>2, <2>3, RunnerStepIs DEF RunPack, Ends
<1> QED
  BY <1>1, <1>2, <1>3, <1>4, <1>5, <1>6, <1>7 DEF Next

\* What a call without a deadline and without a raise returns is complete.
LEMMA JoinedIsComplete ==
  ASSUME TypeOK, ResultsInv, RouteInv, stage = "joined", todo = {}, ~timed, "call" \notin raised
  PROVE  Preferring(query, Merged(results, Loaded)) = Complete(query)
<1>1. DOMAIN results = Route(query) \ query.blank
  BY DEF RouteInv
<1>2. \A p \in DOMAIN results : results[p] = Full(query, p)
  BY DEF TypeOK, ResultsInv
<1>3. results = [p \in DOMAIN results |-> results[p]]
  BY DEF ResultsInv
<1>4. results = [p \in Route(query) \ query.blank |-> Full(query, p)]
  BY <1>1, <1>2, <1>3
<1> QED
  BY <1>4 DEF Complete

\* The verdict and the cache hold what the answers make of them.
LEMMA FrontStep ==
  ASSUME IInv, [Next]_vars
  PROVE  VerdictInv' /\ CacheInv'
<1> USE DEF IInv
<1>1. CASE UNCHANGED vars
  BY <1>1 DEF VerdictInv, CacheInv, Judged, Idle, vars, runnerVars, frontVars, inputVars
<1>2. ASSUME NEW deadline \in BOOLEAN, Ask(deadline)
      PROVE  VerdictInv' /\ CacheInv'
  <2>1. results' = NoResults /\ UNCHANGED <<query, cached>> /\ raised' = raised \ {"call"}
    BY <1>2 DEF Ask
  <2> QED
    BY <2>1 DEF VerdictInv, CacheInv, Judged
<1>3. CASE AskPack
  <2>1. CASE late
    <3>1. timed /\ Return(TimedOut)
      BY <1>3, <2>1 DEF AskPack, TypeOK
    <3> QED
      BY <3>1, ReturnIs DEF VerdictInv, CacheInv, Judged
  <2>2. CASE ~late
    <3>1. stage' # "idle" /\ UNCHANGED <<query, cached, raised>>
      BY <1>3, <2>2 DEF AskPack, StartPack, inputVars
    <3> QED
      BY <3>1 DEF VerdictInv, CacheInv, Judged, Idle
  <2> QED
    BY <2>1, <2>2
<1>4. CASE JoinPacks
  <2> DEFINE v == Preferring(query, Merged(results, Loaded))
  <2>1. stage = "joined" /\ todo = {} /\ Return(v)
    BY <1>4 DEF JoinPacks
  <2>2. verdict' = v /\ UNCHANGED <<query, results>>
    BY <2>1, ReturnIs
  <2>3. VerdictInv'
    BY <2>2 DEF VerdictInv
  <2>4. CASE timed
    BY <2>1, <2>3, <2>4, ReturnIs DEF CacheInv
  <2>5. CASE ~timed
    <3>1. cached' = v /\ ("cached" \in raised' <=> "call" \in raised) /\ query' = query
      BY <2>1, <2>5, ReturnIs
    <3>2. "call" \notin raised => v = Complete(query)
      BY <2>1, <2>5, JoinedIsComplete
    <3> HIDE DEF v
    <3> QED
      BY <2>3, <3>1, <3>2 DEF CacheInv
  <2> QED
    BY <2>4, <2>5
<1>5. CASE Evict
  BY <1>5 DEF Evict, VerdictInv, CacheInv, Judged, Idle, runnerVars, inputVars
<1>6. CASE Rest
  BY <1>6 DEF Rest, VerdictInv, CacheInv, Judged, Idle, vars, runnerVars, frontVars, inputVars
<1>7. CASE RunPack
  <2>1. stage' # "idle" /\ query' = query
    BY <1>7, RunnerStepIs DEF RunPack, Raise, Answer, MovesOn, Ends, Working, inputVars
  <2>2. cached' = cached /\ ("cached" \in raised' <=> "cached" \in raised)
    BY <1>7 DEF RunPack
  <2> QED
    BY <2>1, <2>2 DEF VerdictInv, CacheInv, Judged, Idle
<1> QED
  BY <1>1, <1>2, <1>3, <1>4, <1>5, <1>6, <1>7 DEF Next

\* The invariant.
LEMMA Inductive == Spec => []IInv
<1>1. Init => IInv
  <2>1. DOMAIN NoResults = {}
    BY DEF NoResults
  <2>2. Init => ResultsInv
    BY DEF Init, ResultsInv, NoResults
  <2> QED
    BY <2>1, <2>2, TypingInit DEF Init, IInv, PipelineInv, SourcesInv, RerankInv, FilterInv, RouteInv,
       VerdictInv, CacheInv, Judged
<1>2. IInv /\ [Next]_vars => IInv'
  BY TypingStep, PipelineStep, ResultsStep, RouteStep, FrontStep DEF IInv
<1> QED
  BY <1>1, <1>2, PTL DEF Spec

-----------------------------------------------------------------------------
(* The properties                                                          *)

\* No deadline and no step's failure turns part of a pack's work into an answer.
THEOREM AnswersAreWhole == Spec => []PackAnswersAreWhole
<1>1. IInv => PackAnswersAreWhole
  BY DEF IInv, ResultsInv, PackAnswersAreWhole
<1> QED
  BY <1>1, Inductive, PTL

\* The query cache never keeps what a deadline or a failure has cut short.
THEOREM CacheIsComplete == Spec => []CachedAnswerIsComplete
<1>1. IInv => CachedAnswerIsComplete
  BY DEF IInv, CacheInv, CachedAnswerIsComplete
<1> QED
  BY <1>1, Inductive, PTL

\* The answers of the packs are such as the merge may meet.
LEMMA AnswersOfResults ==
  ASSUME IInv
  PROVE  Answers(results)
BY DEF IInv, TypeOK, ResultsInv, Answers

\* A verdict names an entity exactly when one pack's answer dominates.
THEOREM Dominance == Spec => []VerdictIsTheDominant
<1>1. ASSUME IInv, Judged
      PROVE  /\ \A p \in With(results, "resolved") : Dominates(results, p) => verdict = results[p]
             /\ verdict.status = "resolved" /\ verdict.reason # "group" =>
                  \E p \in With(results, "resolved") : Dominates(results, p) /\ verdict = results[p]
  <2> DEFINE M == Merged(results, Loaded)
  <2>1. verdict = Preferring(query, M) /\ Answers(results) /\ GoodOrder(Loaded)
    BY <1>1, AnswersOfResults, LoadedOrders DEF IInv, VerdictInv
  <2>2. M.status # "ambiguous" => verdict = M
    BY <2>1 DEF Preferring
  <2>3. verdict = M \/ verdict.reason = "group"
    BY <2>1 DEF Preferring
  <2>4. ASSUME NEW p \in With(results, "resolved"), Dominates(results, p)
        PROVE  verdict = results[p]
    <3>1. M = results[p]
      BY <2>1, <2>4, DominatingIsMerged
    <3>2. results[p].status = "resolved"
      BY DEF With
    <3> QED
      BY <2>2, <3>1, <3>2
  <2>5. ASSUME verdict.status = "resolved", verdict.reason # "group"
        PROVE  \E p \in With(results, "resolved") : Dominates(results, p) /\ verdict = results[p]
    <3>1. verdict = M
      BY <2>3, <2>5
    <3>2. PICK p : Dominates(results, p) /\ M = results[p]
      BY <2>1, <2>5, <3>1, MergedIsDominating
    <3> QED
      BY <3>1, <3>2 DEF Dominates
  <2> QED
    BY <2>4, <2>5
<1>2. IInv => VerdictIsTheDominant
  BY <1>1 DEF VerdictIsTheDominant
<1> QED
  BY <1>2, Inductive, PTL

\* The order in which packs are asked does not change a verdict's status or entity.
THEOREM OrderIndependence == Spec => []OrderIsIrrelevant
<1>1. ASSUME IInv
      PROVE  Essence(Merged(results, Loaded)) = Essence(Merged(results, Reverse(Loaded)))
  <2> DEFINE M == Merged(results, Loaded)
             N == Merged(results, Reverse(Loaded))
  <2>1. Answers(results) /\ GoodOrder(Loaded) /\ GoodOrder(Reverse(Loaded))
    BY <1>1, AnswersOfResults, LoadedOrders
  <2>2. \/ M.status = "resolved" /\ \E p : Dominates(results, p) /\ M = results[p]
        \/ M.status = StatusOf(results) /\ StatusOf(results) # "resolved"
    BY <2>1, MergedIsDominating
  <2>3. \/ N.status = "resolved" /\ \E p : Dominates(results, p) /\ N = results[p]
        \/ N.status = StatusOf(results) /\ StatusOf(results) # "resolved"
    BY <2>1, MergedIsDominating
  <2>4. ASSUME NEW p, Dominates(results, p)
        PROVE  M = results[p] /\ N = results[p]
    BY <2>1, <2>4, DominatingIsMerged
  <2>5. CASE \E p : Dominates(results, p)
    BY <2>4, <2>5
  <2>6. CASE ~\E p : Dominates(results, p)
    BY <2>2, <2>3, <2>6 DEF Essence
  <2> QED
    BY <2>5, <2>6
<1>2. IInv => OrderIsIrrelevant
  BY <1>1 DEF OrderIsIrrelevant
<1> QED
  BY <1>2, Inductive, PTL
=============================================================================
