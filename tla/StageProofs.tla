----------------------------- MODULE StageProofs -----------------------------
(***************************************************************************)
(* Proofs about three stages of a build run: the discovery of places       *)
(* (Discovery), for any geography, batch size, pool and number of          *)
(* retries; enrichment (Enrichment), for any curated rows, shared store    *)
(* and fetched rows in which each row has its entity; and the publishing   *)
(* of packs (PackPublish), for any recipes, any tolerance and any number   *)
(* of starts.                                                              *)
(*                                                                         *)
(* Discovery.  The invariant says how a call of a stream stands to the     *)
(* batches of its parents (CallOK), that what the walk goes on from are    *)
(* different places (WalkOK), that a scan has seen what it lists (ListOK), *)
(* which batches it has scanned (OrderOK), that the chunks and the buffer  *)
(* share nothing (OnceOK), that no chunk taken from the pool is passed     *)
(* over (TakenOK), how much of each level, of its cities and of what was   *)
(* asked for has been found (MapOK) and that what is listed is written or  *)
(* buffered (KeptOK).  The levels are defined by recursion: facts about    *)
(* them are proved by taking the first level at which one fails.           *)
(*                                                                         *)
(* Enrichment.  The invariant says that a run has rows in hand only        *)
(* between a read and its write (HandsOK) and that, while no merge crossed *)
(* one, those rows and both databases have an entity for each row          *)
(* (AttachedOK).  For what the curated files rule it says besides what the *)
(* store and the rows in hand always are (GroundOK), that rows in hand     *)
(* which nothing from the source has overtaken are those that would be     *)
(* read now (FreshOK), and what a pass has enforced by each of its places  *)
(* (PassedOK, LedOK).                                                      *)
(*                                                                         *)
(* Publishing.  The invariant says what the process has in its hands       *)
(* (InHand), what a snapshot can hold (Kept) and what the gate has seen    *)
(* (Compared).                                                             *)
(***************************************************************************)
EXTENDS Discovery, Enrichment, PackPublish, FiniteSetTheorems, FunctionTheorems, SequenceTheorems, TLAPS

-----------------------------------------------------------------------------
(* Sorting by counting what is smaller, cutting and taking first           *)
(* occurrences.                                                            *)

Increasing(s) == \A i, j \in DOMAIN s : i < j => s[i] < s[j]
Distinct(s) == \A i, j \in DOMAIN s : s[i] = s[j] => i = j

\* A number has as many smaller ones as its place in the order says.
LEMMA SmallerIsFewer ==
  ASSUME NEW S \in SUBSET Nat, IsFiniteSet(S), NEW x \in S, NEW y \in S, x < y
  PROVE  /\ Cardinality({j \in S : j < x}) \in Nat /\ Cardinality({j \in S : j < y}) \in Nat
         /\ Cardinality({j \in S : j < x}) < Cardinality({j \in S : j < y})
         /\ Cardinality({j \in S : j < y}) < Cardinality(S)
<1> DEFINE A == {j \in S : j < x}
           B == {j \in S : j < y}
<1>1. A \in SUBSET S /\ B \in SUBSET S /\ x \notin A /\ y \notin B /\ A \cup {x} \in SUBSET B
      /\ B \cup {y} \in SUBSET S
  <2>1. \A j \in S : j \in Int
    OBVIOUS
  <2>2. ~(x < x) /\ ~(y < y)
    BY <2>1
  <2>3. \A j \in S : j < x => j < y
    BY <2>1
  <2> QED
    BY <2>2, <2>3
<1> HIDE DEF A, B
<1>2. IsFiniteSet(A) /\ IsFiniteSet(B) /\ IsFiniteSet(A \cup {x}) /\ IsFiniteSet(B \cup {y})
  BY <1>1, FS_Subset
<1>3. Cardinality(A) \in Nat /\ Cardinality(B) \in Nat /\ Cardinality(S) \in Nat
  BY <1>2, FS_CardinalityType
<1>4. Cardinality(A \cup {x}) = Cardinality(A) + 1 /\ Cardinality(B \cup {y}) = Cardinality(B) + 1
  BY <1>1, <1>2, FS_AddElement
<1>5. Cardinality(A \cup {x}) <= Cardinality(B)
  BY <1>1, <1>2, FS_Subset
<1>6. Cardinality(B \cup {y}) <= Cardinality(S)
  BY <1>1, FS_Subset
<1>7. Cardinality(A) < Cardinality(B) /\ Cardinality(B) < Cardinality(S)
  BY <1>3, <1>4, <1>5, <1>6
<1> QED
  BY <1>3, <1>7 DEF A, B

\* Sorted lists a finite set of numbers, each once, in increasing order.
LEMMA SortedLists ==
  ASSUME NEW S \in SUBSET Nat, IsFiniteSet(S)
  PROVE  /\ Sorted(S) \in Seq(S) /\ DOMAIN Sorted(S) = 1 .. Cardinality(S)
         /\ \A x \in S : \E k \in DOMAIN Sorted(S) : Sorted(S)[k] = x
         /\ Increasing(Sorted(S)) /\ Distinct(Sorted(S))
<1> DEFINE n == Cardinality(S)
           Rank(x) == Cardinality({j \in S : j < x})
           r == [x \in S |-> Rank(x)]
           At0(k) == CHOOSE i \in S : Rank(i) = k - 1
<1>1. n \in Nat
  BY FS_CardinalityType
<1>2. \A x \in S : Rank(x) \in 0 .. n - 1
  <2> SUFFICES ASSUME NEW x \in S
               PROVE  Rank(x) \in 0 .. n - 1
    OBVIOUS
  <2> DEFINE A == {j \in S : j < x}
  <2>1. A \in SUBSET S /\ x \notin A /\ A \cup {x} \in SUBSET S
    OBVIOUS
  <2> HIDE DEF A
  <2>2. IsFiniteSet(A) /\ Cardinality(A) \in Nat
    BY <2>1, FS_Subset, FS_CardinalityType
  <2>3. Cardinality(A \cup {x}) = Cardinality(A) + 1 /\ Cardinality(A \cup {x}) <= n
    BY <2>1, <2>2, FS_AddElement, FS_Subset
  <2>4. Cardinality(A) \in 0 .. n - 1
    BY <1>1, <2>2, <2>3
  <2> QED
    BY <2>4 DEF A
<1>3. \A x, y \in S : x < y => Rank(x) < Rank(y)
  BY SmallerIsFewer
<1>4. \A x, y \in S : Rank(x) = Rank(y) => x = y
  <2> SUFFICES ASSUME NEW x \in S, NEW y \in S, Rank(x) = Rank(y)
               PROVE  x = y
    OBVIOUS
  <2> HIDE DEF Rank
  <2>1. Rank(x) \in Int /\ ~(x < y) /\ ~(y < x)
    BY <1>1, <1>2, <1>3
  <2> QED
    BY <2>1
<1>5. r \in [S -> 0 .. n - 1] /\ \A x \in S : r[x] = Rank(x)
  BY <1>2
<1> HIDE DEF r, Rank
<1>6. r \in Injection(S, 0 .. n - 1)
  BY <1>4, <1>5, Fun_IsInj
<1>7. IsFiniteSet(0 .. n - 1) /\ Cardinality(0 .. n - 1) = n
  <2>1. 0 \in Int /\ n - 1 \in Int /\ (IF 0 > n - 1 THEN 0 ELSE (n - 1) - 0 + 1) = n
    BY <1>1
  <2> QED
    BY <2>1, FS_Interval
<1>8. r \in Surjection(S, 0 .. n - 1)
  BY <1>6, <1>7, FS_Injection
<1>9. \A k \in 1 .. n : At0(k) \in S /\ Rank(At0(k)) = k - 1
  <2> SUFFICES ASSUME NEW k \in 1 .. n
               PROVE  \E i \in S : Rank(i) = k - 1
    OBVIOUS
  <2>1. k - 1 \in 0 .. n - 1
    BY <1>1
  <2>2. \E i \in S : r[i] = k - 1
    BY <1>8, <2>1 DEF Surjection
  <2> QED
    BY <1>5, <2>2
<1>10. Sorted(S) = [k \in 1 .. n |-> At0(k)]
  BY DEF Sorted, Rank
<1> HIDE DEF At0
<1>11. Sorted(S) \in Seq(S) /\ DOMAIN Sorted(S) = 1 .. n
  <2>1. [k \in 1 .. n |-> At0(k)] \in [1 .. n -> S]
    BY <1>9
  <2> QED
    BY <1>1, <1>10, <2>1
<1>12. \A x \in S : \E k \in 1 .. n : Sorted(S)[k] = x
  <2> SUFFICES ASSUME NEW x \in S
               PROVE  \E k \in 1 .. n : Sorted(S)[k] = x
    OBVIOUS
  <2>1. Rank(x) + 1 \in 1 .. n /\ (Rank(x) + 1) - 1 = Rank(x)
    BY <1>1, <1>2
  <2>2. At0(Rank(x) + 1) = x
    BY <1>4, <1>9, <2>1
  <2> QED
    BY <1>10, <2>1, <2>2
<1>13. \A i, j \in 1 .. n : i < j => At0(i) < At0(j)
  <2> SUFFICES ASSUME NEW i \in 1 .. n, NEW j \in 1 .. n, i < j
               PROVE  At0(i) < At0(j)
    OBVIOUS
  <2>1. At0(i) \in S /\ At0(j) \in S /\ Rank(At0(i)) < Rank(At0(j)) /\ Rank(At0(j)) \in Int
        /\ Rank(At0(i)) \in Int
    BY <1>1, <1>9
  <2>2. ~(At0(j) < At0(i)) /\ At0(j) # At0(i)
    <3>1. At0(j) < At0(i) => Rank(At0(j)) < Rank(At0(i))
      BY <1>3, <2>1
    <3> QED
      BY <2>1, <3>1
  <2>3. At0(i) \in Int /\ At0(j) \in Int
    <3>1. \A x \in S : x \in Int
      OBVIOUS
    <3> QED
      BY <2>1, <3>1, Zenon
  <2> QED
    BY <2>2, <2>3
<1>14. Increasing(Sorted(S))
  BY <1>10, <1>11, <1>13 DEF Increasing
<1>15. Distinct(Sorted(S))
  <2> SUFFICES ASSUME NEW i \in 1 .. n, NEW j \in 1 .. n, At0(i) = At0(j)
               PROVE  i = j
    BY <1>10, <1>11 DEF Distinct
  <2>1. i - 1 = j - 1
    BY <1>9
  <2> QED
    BY <2>1
<1> QED
  BY <1>11, <1>12, <1>14, <1>15

\* A list of distinct entries is its own list of first occurrences.
LEMMA UniqueOfDistinct ==
  ASSUME NEW S, NEW s \in Seq(S), Distinct(s)
  PROVE  Unique(s) = s
<1> DEFINE n == Len(s)
<1>1. n \in Nat /\ DOMAIN s = 1 .. n /\ s \in [1 .. n -> S]
  OBVIOUS
<1>2. Firsts(s) = 1 .. n
  <2>1. \A i \in 1 .. n : \A j \in 1 .. i - 1 : j \in 1 .. n /\ j # i
    BY <1>1
  <2> QED
    BY <1>1, <2>1 DEF Firsts, Distinct
<1>3. 1 .. n \in SUBSET Nat /\ IsFiniteSet(1 .. n) /\ Cardinality(1 .. n) = n
  <2>1. 1 \in Int /\ n \in Int /\ (IF 1 > n THEN 0 ELSE n - 1 + 1) = n /\ 1 .. n \in SUBSET Nat
    BY <1>1
  <2> QED
    BY <2>1, FS_Interval
<1>4. \A i \in 1 .. n : Cardinality({j \in 1 .. n : j < i}) = i - 1
  <2> SUFFICES ASSUME NEW i \in 1 .. n
               PROVE  Cardinality({j \in 1 .. n : j < i}) = i - 1
    OBVIOUS
  <2>1. {j \in 1 .. n : j < i} = 1 .. i - 1
    BY <1>1
  <2>2. 1 \in Int /\ i - 1 \in Int /\ (IF 1 > i - 1 THEN 0 ELSE (i - 1) - 1 + 1) = i - 1
    BY <1>1
  <2>3. Cardinality(1 .. i - 1) = i - 1
    BY <2>2, FS_Interval
  <2> QED
    BY <2>1, <2>3
<1> DEFINE P(k) == CHOOSE i \in 1 .. n : Cardinality({j \in 1 .. n : j < i}) = k - 1
<1>5. \A k \in 1 .. n : P(k) = k
  <2> SUFFICES ASSUME NEW k \in 1 .. n
               PROVE  P(k) = k
    OBVIOUS
  <2>1. P(k) \in 1 .. n /\ Cardinality({j \in 1 .. n : j < P(k)}) = k - 1
    BY <1>4
  <2>2. P(k) - 1 = k - 1
    BY <1>4, <2>1
  <2> HIDE DEF P
  <2> QED
    BY <1>1, <2>1, <2>2
<1>6. Sorted(Firsts(s)) = [k \in 1 .. n |-> P(k)]
  BY <1>2, <1>3 DEF Sorted
<1> HIDE DEF P
<1>7. Unique(s) = [k \in 1 .. n |-> s[k]]
  BY <1>5, <1>6 DEF Unique
<1> QED
  BY <1>1, <1>7

\* The pieces of a list hold what it holds.
LEMMA Pieces ==
  ASSUME NEW S, NEW s \in Seq(S), NEW n \in Nat \ {0}
  PROVE  /\ Split(s, n) \in Seq(Seq(S))
         /\ \A i \in DOMAIN Split(s, n) : ToSet(Split(s, n)[i]) \subseteq ToSet(s)
<1> DEFINE m == (Len(s) + n - 1) \div n
           T == {s[k] : k \in DOMAIN s}
           Low(i) == (i - 1) * n + 1
           High(i) == IF i * n < Len(s) THEN i * n ELSE Len(s)
<1>1. Len(s) \in Nat /\ DOMAIN s = 1 .. Len(s)
  OBVIOUS
<1>2. m \in Int
  BY <1>1
<1>3. \A i \in 1 .. m : Low(i) \in Nat \ {0} /\ High(i) \in Int /\ High(i) <= Len(s)
  <2> SUFFICES ASSUME NEW i \in 1 .. m
               PROVE  Low(i) \in Nat \ {0} /\ High(i) \in Int /\ High(i) <= Len(s)
    OBVIOUS
  <2> HIDE DEF m
  <2>1. i - 1 \in Nat /\ i \in Nat
    BY <1>2
  <2>2. (i - 1) * n \in Nat /\ i * n \in Nat
    BY <2>1
  <2> QED
    BY <1>1, <2>2
<1> HIDE DEF m, Low, High
<1>4. \A i \in 1 .. m : SubSeq(s, Low(i), High(i)) \in Seq(T)
  <2> SUFFICES ASSUME NEW i \in 1 .. m
               PROVE  SubSeq(s, Low(i), High(i)) \in Seq(T)
    OBVIOUS
  <2>1. \A k \in Low(i) .. High(i) : s[k] \in T
    BY <1>1, <1>3
  <2>2. Low(i) \in Int /\ High(i) \in Int
    BY <1>3
  <2> QED
    BY <2>1, <2>2, SubSeqProperties
<1>5. Split(s, n) = [i \in 1 .. m |-> SubSeq(s, Low(i), High(i))]
  BY DEF Split, m, Low, High
<1>6. T \subseteq S /\ ToSet(s) = T
  BY <1>1 DEF ToSet
<1>7. \A i \in 1 .. m : Split(s, n)[i] \in Seq(T)
  BY <1>4, <1>5
<1>8. DOMAIN Split(s, n) = 1 .. m
  BY <1>5
<1> HIDE DEF T
<1>9. \A i \in 1 .. m : Split(s, n)[i] \in Seq(S)
  <2> SUFFICES ASSUME NEW i \in 1 .. m
               PROVE  Split(s, n)[i] \in Seq(S)
    OBVIOUS
  <2> QED
    BY <1>6, <1>7, SeqMonotonic
<1>10. Split(s, n) \in Seq(Seq(S))
  <2>1. Split(s, n) \in [1 .. m -> Seq(S)]
    BY <1>5, <1>8, <1>9
  <2>2. \E q \in Nat : 1 .. m = 1 .. q
    <3>1. CASE m >= 0
      BY <1>2, <3>1
    <3>2. CASE ~(m >= 0)
      <4>1. 1 .. m = 1 .. 0
        BY <1>2, <3>2
      <4> QED
        BY <4>1
    <3> QED
      BY <3>1, <3>2
  <2>3. PICK q \in Nat : 1 .. m = 1 .. q
    BY <2>2
  <2> DEFINE U == Seq(S)
  <2>4. Split(s, n) \in [1 .. q -> U]
    BY <2>1, <2>3
  <2> HIDE DEF U
  <2>5. Split(s, n) \in Seq(U)
    BY <2>4, SeqDef
  <2> QED
    BY <2>5 DEF U
<1>11. \A i \in 1 .. m : ToSet(Split(s, n)[i]) \subseteq T
  BY <1>7 DEF ToSet
<1> QED
  BY <1>6, <1>8, <1>10, <1>11

-----------------------------------------------------------------------------
(* Types and calls                                                         *)

Task == [is : {"queued", "running", "ready", "failed", "taken"}, left : Seq(Seq(Place))]
Calling == pc \in {"fetch", "flush", "advance", "write", "drain"}

\* A stream's call has a request, and a chunk for each piece of its list of
\* parents, which are all different; without a call there is no request.
CallOK ==
  /\ Calling => request # None
  /\ pc \in {"walk", "list", "close", "done"} => request = None
  /\ request = None => work = <<>>
  /\ request # None =>
       /\ request \in [kind : Kind, parents : Seq(Place)] /\ Distinct(request.parents)
       /\ work \in [DOMAIN ParentBatches -> Task]

\* What the walk goes on from are different places.
WalkOK ==
  /\ level \in Nat \ {0} /\ frontier \in Seq(Place) /\ Distinct(frontier)
  /\ DOMAIN seeds \subseteq 0 .. MaxLevel
  /\ \A n \in DOMAIN seeds : seeds[n] \in Seq(Place) /\ Distinct(seeds[n])

\* What a scan lists it has seen, and lists once.
ListOK ==
  /\ Distinct(ordered)
  /\ request # None => ToSet(ordered) \subseteq seen[Scan]

WalkInv == TypeOK /\ CallOK /\ WalkOK /\ ListOK

\* The parents of a call are split alike by the walk and by the fetch.
LEMMA ChunksAreBatches ==
  ASSUME CallOK, request # None
  PROVE  ParentChunks = ParentBatches
<1>1. Unique(request.parents) = request.parents
  BY UniqueOfDistinct DEF CallOK
<1> QED
  BY <1>1 DEF ParentChunks, ParentBatches

LEMMA BatchTypes ==
  ASSUME CallOK, request # None
  PROVE  /\ ParentBatches \in Seq(Seq(Place))
         /\ \A i \in DOMAIN ParentBatches :
              ToSet(ParentBatches[i]) \subseteq Place /\ ToSet(ParentBatches[i]) \subseteq ToSet(request.parents)
<1>1. request.parents \in Seq(Place) /\ ToSet(request.parents) \subseteq Place
  BY DEF CallOK, ToSet
<1> QED
  BY <1>1, Pieces, PlaceFetchAssumption DEF ParentBatches

\* Sorted, of places.
LEMMA SortedPlaces ==
  ASSUME NEW S \in SUBSET Place
  PROVE  /\ Sorted(S) \in Seq(Place) /\ ToSet(Sorted(S)) = S /\ Distinct(Sorted(S))
         /\ Increasing(Sorted(S)) /\ (S = {} => Sorted(S) = <<>>)
<1>1. S \in SUBSET Nat /\ IsFiniteSet(S)
  BY OrderedEmitterAssumption, FS_Subset
<1>2. /\ Sorted(S) \in Seq(S) /\ DOMAIN Sorted(S) = 1 .. Cardinality(S)
      /\ \A x \in S : \E k \in DOMAIN Sorted(S) : Sorted(S)[k] = x
      /\ Increasing(Sorted(S)) /\ Distinct(Sorted(S))
  BY <1>1, SortedLists
<1>3. Sorted(S) \in Seq(Place)
  BY <1>2, SeqMonotonic
<1>4. ToSet(Sorted(S)) = S
  <2>1. \A k \in DOMAIN Sorted(S) : Sorted(S)[k] \in S
    <3>1. \A s \in Seq(S) : \A k \in DOMAIN s : s[k] \in S
      OBVIOUS
    <3> QED
      BY <1>2, <3>1, Zenon
  <2> QED
    BY <1>2, <2>1, Zenon DEF ToSet
<1>5. S = {} => Sorted(S) = <<>>
  BY <1>2
<1> QED
  BY <1>2, <1>3, <1>4, <1>5

LEMMA FoundArePlaces ==
  ASSUME CallOK, request # None, NEW i, NEW parents \in SUBSET Place
  PROVE  Found(i, parents) \in SUBSET Place
<1>1. request.kind \in Kind
  BY DEF CallOK
<1>2. \A p \in Place : Below[request.kind][p] \subseteq Place
  BY <1>1, OrderedEmitterAssumption
<1> QED
  BY <1>2 DEF Found

LEMMA ReportedArePlaces ==
  ASSUME CallOK, request # None, NEW i
  PROVE  Reported(i) \in SUBSET Place
<1>1. ToSet(request.parents) \subseteq Place
  BY DEF CallOK, ToSet
<1> QED
  BY <1>1, ChunksAreBatches, BatchTypes DEF Reported

\* What a flush lists is new, and it is listed once.
LEMMA FlushLists ==
  ASSUME WalkInv, request # None, NEW i, Flush(i)
  PROVE  LET new == Found(i, Reported(i)) \ seen[Scan] IN
         /\ new \in SUBSET Place /\ request' = request /\ ordered' = ordered \o Sorted(new)
         /\ seen' = [seen EXCEPT ![Scan] = @ \cup new] /\ Scan' = Scan /\ Scan \in {"cities", "areas"}
         /\ next' = next /\ i = next /\ pending' = pending \ {i} /\ i \in pending
         /\ ParentBatches' = ParentBatches
<1> DEFINE new == Found(i, Reported(i)) \ seen[Scan]
<1>1. Reported(i) \in SUBSET Place
  BY ReportedArePlaces DEF WalkInv
<1>2. Found(i, Reported(i)) \in SUBSET Place
  BY <1>1, FoundArePlaces DEF WalkInv
<1>3. new \in SUBSET Place
  BY <1>2
<1>4. request' = request
  BY DEF Flush, fetchVars
<1>5. Scan' = Scan /\ Scan \in {"cities", "areas"} /\ ParentBatches' = ParentBatches
  BY <1>4 DEF Scan, ParentBatches
<1>6. FlushBatch(i, Scan, Reported(i), Emits)
  BY DEF Flush
<1>7. /\ ordered' = ordered \o Sorted(new) /\ next' = next /\ i = next /\ pending' = pending \ {i}
      /\ i \in pending /\ seen' = [seen EXCEPT ![Scan] = @ \cup new]
  BY <1>6 DEF FlushBatch, Flushable
<1> QED
  BY <1>3, <1>4, <1>5, <1>7

\* What two lists one after the other hold
LEMMA ConcatSet ==
  ASSUME NEW S, NEW s \in Seq(S), NEW t \in Seq(S)
  PROVE  ToSet(s \o t) = ToSet(s) \cup ToSet(t)
<1> DEFINE u == s \o t
<1>1. /\ Len(s) \in Nat /\ Len(t) \in Nat /\ DOMAIN s = 1 .. Len(s) /\ DOMAIN t = 1 .. Len(t)
      /\ u \in Seq(S) /\ Len(u) = Len(s) + Len(t)
  BY ConcatProperties
<1>2. DOMAIN u = 1 .. Len(s) + Len(t)
  BY <1>1
<1>3. \A i \in 1 .. Len(s) + Len(t) : u[i] = IF i <= Len(s) THEN s[i] ELSE t[i - Len(s)]
  BY ConcatProperties
<1> HIDE DEF u
<1>4. \A i \in DOMAIN u : \/ i \in DOMAIN s /\ u[i] = s[i]
                          \/ i - Len(s) \in DOMAIN t /\ u[i] = t[i - Len(s)]
  BY <1>1, <1>2, <1>3
<1>5. \A i \in DOMAIN s : i \in DOMAIN u /\ u[i] = s[i]
  BY <1>1, <1>2, <1>3
<1>6. \A i \in DOMAIN t : Len(s) + i \in DOMAIN u /\ u[Len(s) + i] = t[i]
  BY <1>1, <1>2, <1>3
<1>7. ToSet(u) \subseteq ToSet(s) \cup ToSet(t)
  BY <1>4 DEF ToSet
<1>8. ToSet(s) \subseteq ToSet(u)
  BY <1>5 DEF ToSet
<1>9. ToSet(t) \subseteq ToSet(u)
  BY <1>6 DEF ToSet
<1> QED
  BY <1>7, <1>8, <1>9 DEF u

LEMMA ConcatDistinct ==
  ASSUME NEW S, NEW s \in Seq(S), NEW t \in Seq(S), Distinct(s), Distinct(t),
         ToSet(s) \cap ToSet(t) = {}
  PROVE  Distinct(s \o t) /\ ToSet(s \o t) = ToSet(s) \cup ToSet(t)
<1> DEFINE u == s \o t
<1>1. /\ Len(s) \in Nat /\ Len(t) \in Nat /\ DOMAIN s = 1 .. Len(s) /\ DOMAIN t = 1 .. Len(t)
      /\ u \in Seq(S) /\ Len(u) = Len(s) + Len(t)
  BY ConcatProperties
<1>2. DOMAIN u = 1 .. Len(s) + Len(t)
  BY <1>1
<1>3. \A i \in 1 .. Len(s) + Len(t) : u[i] = IF i <= Len(s) THEN s[i] ELSE t[i - Len(s)]
  BY ConcatProperties
<1> HIDE DEF u
<1>4. \A i \in DOMAIN u : \/ i \in DOMAIN s /\ u[i] = s[i]
                          \/ i - Len(s) \in DOMAIN t /\ i > Len(s) /\ u[i] = t[i - Len(s)]
  BY <1>1, <1>2, <1>3
<1>5. ToSet(u) = ToSet(s) \cup ToSet(t)
  BY ConcatSet DEF u
<1>6. Distinct(u)
  <2> SUFFICES ASSUME NEW i \in DOMAIN u, NEW j \in DOMAIN u, u[i] = u[j]
               PROVE  i = j
    BY DEF Distinct
  <2>1. CASE i \in DOMAIN s /\ u[i] = s[i] /\ j \in DOMAIN s /\ u[j] = s[j]
    BY <2>1 DEF Distinct
  <2>2. CASE /\ i - Len(s) \in DOMAIN t /\ u[i] = t[i - Len(s)]
             /\ j - Len(s) \in DOMAIN t /\ u[j] = t[j - Len(s)]
    <3>1. i - Len(s) = j - Len(s)
      BY <2>2 DEF Distinct
    <3> QED
      BY <1>1, <1>2, <3>1
  <2>3. CASE i \in DOMAIN s /\ u[i] = s[i] /\ j - Len(s) \in DOMAIN t /\ u[j] = t[j - Len(s)]
    BY <2>3 DEF ToSet
  <2>4. CASE j \in DOMAIN s /\ u[j] = s[j] /\ i - Len(s) \in DOMAIN t /\ u[i] = t[i - Len(s)]
    BY <2>4 DEF ToSet
  <2> QED
    BY <1>4, <2>1, <2>2, <2>3, <2>4
<1> QED
  BY <1>5, <1>6 DEF u

LEMMA QueueOK ==
  ASSUME FetchTypeOK, NEW kind \in Kind, NEW parents \in Seq(Place), Distinct(parents), Queue(kind, parents)
  PROVE  /\ FetchTypeOK' /\ request' # None
         /\ request' \in [kind : Kind, parents : Seq(Place)] /\ Distinct(request'.parents)
         /\ work' \in [DOMAIN ParentBatches' -> Task]
<1>1. request' = [kind |-> kind, parents |-> parents]
  BY DEF Queue
<1>2. request' \in [kind : Kind, parents : Seq(Place)] /\ request'.parents = parents /\ request' # None
  BY <1>1, PlaceFetchAssumption
<1>3. ParentBatches' = Split(parents, BatchSize)
  BY <1>2 DEF ParentBatches
<1>4. Unique(parents) = parents
  BY UniqueOfDistinct
<1>5. Split(parents, BatchSize) \in Seq(Seq(Place))
  BY Pieces, PlaceFetchAssumption
<1>6. DOMAIN ParentBatches' = 1 .. Len(Split(Unique(parents), BatchSize))
  BY <1>3, <1>4, <1>5
<1>7. work' = [c \in DOMAIN ParentBatches' |-> [is |-> "queued", left |-> <<>>]]
  BY <1>6 DEF Queue
<1>8. work' \in [DOMAIN ParentBatches' -> Task]
  <2>1. [is |-> "queued", left |-> <<>>] \in Task
    BY DEF Task
  <2> QED
    BY <1>7, <2>1
<1>9. FetchTypeOK'
  <2>1. tries' = 1 /\ cached' = cached
    BY DEF Queue
  <2>2. 1 \in 0 .. Retries + 1
    BY PlaceFetchAssumption
  <2> QED
    BY <1>2, <1>7, <1>8, <2>1, <2>2 DEF FetchTypeOK, Task, Chunk
<1> QED
  BY <1>2, <1>8, <1>9

\* A stream without parents asks for nothing; each starts a new list.
LEMMA StreamOK ==
  ASSUME WalkInv, pc = "walk", UNCHANGED optionVars, NEW kind \in Kind, NEW parents \in Seq(Place),
         Distinct(parents), NEW scan \in {"cities", "areas"}, NEW own, Stream(kind, parents, scan, own)
  PROVE  FetchTypeOK' /\ EmitterTypeOK' /\ CallOK' /\ ListOK' /\ pc' \in {"walk", "fetch"}
<1> USE DEF WalkInv, TypeOK
<1>1. request = None
  BY DEF CallOK
<1>2. ordered' = <<>> /\ pending' = {} /\ next' = 1 /\ UNCHANGED inventoryVars
      /\ seen' \in [{"cities", "areas"} -> SUBSET Place]
  BY DEF Stream, Reset, EmitterTypeOK
<1>3. EmitterTypeOK'
  BY <1>2 DEF EmitterTypeOK, inventoryVars
<1>4. ListOK'
  BY <1>2 DEF ListOK, Distinct, ToSet
<1>5. CASE parents = <<>>
  <2>1. pc' = "walk" /\ UNCHANGED fetchVars
    BY <1>5 DEF Stream
  <2> QED
    BY <1>1, <1>3, <1>4, <2>1 DEF CallOK, Calling, FetchTypeOK, fetchVars, Chunk
<1>6. CASE parents # <<>>
  <2>1. pc' = "fetch" /\ Queue(kind, parents)
    BY <1>6 DEF Stream
  <2>2. /\ FetchTypeOK' /\ request' # None
        /\ request' \in [kind : Kind, parents : Seq(Place)] /\ Distinct(request'.parents)
        /\ work' \in [DOMAIN ParentBatches' -> Task]
    BY <2>1, QueueOK
  <2> QED
    BY <1>3, <1>4, <2>1, <2>2 DEF CallOK, Calling
<1> QED
  BY <1>5, <1>6

\* A step of the pool keeps the request, and the shape of its work.
LEMMA BecomeOK ==
  ASSUME FetchTypeOK, CallOK, request # None, NEW c \in Chunk, NEW state \in {"running", "ready", "failed", "taken"},
         NEW pieces \in Seq(Seq(Place)), Become(c, state, pieces), cached' \in SUBSET (Kind \X SUBSET Place)
  PROVE  /\ FetchTypeOK' /\ request' = request /\ ParentBatches' = ParentBatches
         /\ work' \in [DOMAIN ParentBatches' -> Task]
<1>1. request' = request /\ tries' = tries
  BY DEF Become
<1>2. ParentBatches' = ParentBatches
  BY <1>1 DEF ParentBatches
<1>3. [is |-> state, left |-> pieces] \in Task
  BY DEF Task
<1>4. work \in [DOMAIN ParentBatches -> Task] /\ c \in DOMAIN ParentBatches
  BY DEF CallOK, Chunk
<1>5. work' \in [DOMAIN ParentBatches -> Task]
  BY <1>3, <1>4 DEF Become
<1>6. FetchTypeOK'
  BY <1>1, <1>5 DEF FetchTypeOK, Chunk, Task
<1> QED
  BY <1>1, <1>2, <1>5, <1>6

LEMMA WorkerOK ==
  ASSUME FetchTypeOK, CallOK, NEW c \in Chunk, WorkerStep(c)
  PROVE  /\ FetchTypeOK' /\ request # None /\ request' = request /\ ParentBatches' = ParentBatches
         /\ work' \in [DOMAIN ParentBatches' -> Task]
<1>1. request # None
  <2>1. DOMAIN <<>> = {}
    OBVIOUS
  <2> QED
    BY <2>1 DEF CallOK, Chunk
<1>2. work \in [DOMAIN ParentBatches -> Task] /\ c \in DOMAIN ParentBatches /\ request.kind \in Kind
  BY <1>1 DEF CallOK, Chunk
<1>3. work[c].left \in Seq(Seq(Place))
  BY <1>2 DEF Task
<1>4. ParentChunks[c] \in Seq(Place) /\ ToSet(ParentChunks[c]) \subseteq Place
  <2>1. ParentBatches \in Seq(Seq(Place)) /\ ToSet(ParentBatches[c]) \subseteq Place
    BY <1>1, <1>2, BatchTypes
  <2>2. ParentBatches[c] \in Seq(Place)
    <3> DEFINE U == Seq(Place)
    <3>1. \A s \in Seq(U) : \A k \in DOMAIN s : s[k] \in U
      OBVIOUS
    <3> QED
      BY <1>2, <2>1, <3>1, Zenon
  <2> QED
    BY <1>1, <2>1, <2>2, ChunksAreBatches
<1>5. cached \in SUBSET (Kind \X SUBSET Place) /\ <<>> \in Seq(Seq(Place))
  BY DEF FetchTypeOK
<1>6. CASE Begin(c)
  <2>1. CASE CacheKey(c) \in cached
    <3>1. Become(c, "ready", <<>>) /\ cached' = cached
      BY <1>6, <2>1 DEF Begin
    <3> QED
      BY <1>1, <1>5, <3>1, BecomeOK
  <2>2. CASE CacheKey(c) \notin cached
    <3>1. Become(c, "running", <<ParentChunks[c]>>) /\ cached' = cached
      BY <1>6, <2>2 DEF Begin
    <3>2. <<ParentChunks[c]>> \in Seq(Seq(Place))
      BY <1>4
    <3> QED
      BY <1>1, <1>5, <3>1, <3>2, BecomeOK
  <2> QED
    BY <2>1, <2>2
<1>7. CASE Answer(c)
  <2>1. Become(c, "running", Tail(work[c].left)) /\ cached' = cached /\ work[c].left # <<>>
    BY <1>7 DEF Answer
  <2>2. Tail(work[c].left) \in Seq(Seq(Place))
    BY <1>3, <2>1, HeadTailProperties
  <2> QED
    BY <1>1, <1>5, <2>1, <2>2, BecomeOK
<1>8. CASE Refuse(c)
  <2> DEFINE piece == Head(work[c].left)
             half == Len(piece) \div 2
             pieces == <<SubSeq(piece, 1, half), SubSeq(piece, half + 1, Len(piece))>> \o Tail(work[c].left)
  <2>1. work[c].left # <<>> /\ cached' = cached
    BY <1>8 DEF Refuse
  <2>2. piece \in Seq(Place) /\ Tail(work[c].left) \in Seq(Seq(Place))
    BY <1>3, <2>1, HeadTailProperties
  <2>3. Become(c, "failed", <<>>) \/ Become(c, "running", pieces)
    BY <1>8 DEF Refuse
  <2>4. pieces \in Seq(Seq(Place))
    <3> HIDE DEF piece
    <3>1. Len(piece) \in Nat /\ half \in Nat /\ half <= Len(piece)
      BY <2>2
    <3>2. \A k \in 1 .. half : piece[k] \in Place
      BY <2>2, <3>1
    <3>3. \A k \in half + 1 .. Len(piece) : piece[k] \in Place
      BY <2>2, <3>1
    <3> HIDE DEF half
    <3>4. SubSeq(piece, 1, half) \in Seq(Place)
      BY <3>1, <3>2, SubSeqProperties
    <3>5. SubSeq(piece, half + 1, Len(piece)) \in Seq(Place)
      BY <3>1, <3>3, SubSeqProperties
    <3>6. <<SubSeq(piece, 1, half), SubSeq(piece, half + 1, Len(piece))>> \in Seq(Seq(Place))
      BY <3>4, <3>5
    <3> QED
      BY <2>2, <3>6, ConcatProperties
  <2> HIDE DEF pieces
  <2> QED
    BY <1>1, <1>5, <2>1, <2>3, <2>4, BecomeOK
<1>9. CASE Store(c)
  <2>1. Become(c, "ready", <<>>) /\ cached' = cached \cup {CacheKey(c)}
    BY <1>9 DEF Store
  <2>2. CacheKey(c) \in Kind \X SUBSET Place
    BY <1>2, <1>4 DEF CacheKey
  <2> QED
    BY <1>1, <1>5, <2>1, <2>2, BecomeOK
<1>10. CASE StoreFails(c)
  <2>1. Become(c, "failed", <<>>) /\ cached' = cached
    BY <1>10 DEF StoreFails
  <2> QED
    BY <1>1, <1>5, <2>1, BecomeOK
<1> QED
  BY <1>6, <1>7, <1>8, <1>9, <1>10 DEF WorkerStep

LEMMA ListTypes ==
  ASSUME EmitterTypeOK, NEW S \in SUBSET Place, List(S)
  PROVE  buffer' \in Seq(Place) /\ inventory' = inventory /\ listed' \subseteq Place
<1>1. Sorted(S \ listed) \in Seq(Place)
  BY SortedPlaces
<1> QED
  BY <1>1, ConcatProperties DEF List, EmitterTypeOK

LEMMA WriteTypes ==
  ASSUME EmitterTypeOK, Write \/ Drop
  PROVE  buffer' \in Seq(Place) /\ inventory' \in Seq(Seq(Place)) /\ listed' = listed
<1> DEFINE m == IF ChunkSize < Len(buffer) THEN ChunkSize ELSE Len(buffer)
<1>1. buffer \in Seq(Place) /\ Len(buffer) \in Nat /\ m \in Nat /\ m <= Len(buffer)
  BY OrderedEmitterAssumption DEF EmitterTypeOK
<1>2. \A k \in 1 .. m : buffer[k] \in Place
  BY <1>1
<1> HIDE DEF m
<1>3. Cut \in Seq(Place) /\ Len(Cut) \in Nat
  <2>1. SubSeq(buffer, 1, m) \in Seq(Place)
    BY <1>1, <1>2, SubSeqProperties
  <2> QED
    BY <2>1 DEF Cut, m
<1>4. \A k \in Len(Cut) + 1 .. Len(buffer) : buffer[k] \in Place
  BY <1>1, <1>3
<1>5. SubSeq(buffer, Len(Cut) + 1, Len(buffer)) \in Seq(Place)
  BY <1>1, <1>3, <1>4, SubSeqProperties
<1>6. Rest \in Seq(Place)
  BY <1>5 DEF Rest
<1>7. Append(inventory, Cut) \in Seq(Seq(Place))
  BY <1>3 DEF EmitterTypeOK
<1> QED
  BY <1>6, <1>7 DEF Write, Drop, EmitterTypeOK

\* The levels that the shared store has are lists of different places.
LEMMA SeedsAreLists ==
  ASSUME NEW ready, seeds = SeedFrontier(ready)
  PROVE  /\ DOMAIN seeds \subseteq 0 .. MaxLevel
         /\ \A n \in DOMAIN seeds : seeds[n] \in Seq(Place) /\ Distinct(seeds[n])
<1> DEFINE D == {m \in {n \in 0 .. MaxLevel : 0 .. n \subseteq ready} : Level[m] # {}}
<1>1. seeds = [n \in D |-> Sorted(Level[n])]
  BY DEF SeedFrontier
<1>2. \A n \in 0 .. MaxLevel : Level[n] \in SUBSET Place
  <2> SUFFICES ASSUME NEW n \in 0 .. MaxLevel
               PROVE  Level[n] \in SUBSET Place
    OBVIOUS
  <2>1. n \in 0 .. MaxLevel + 1
    BY DiscoveryAssumption
  <2> QED
    BY <2>1 DEF Level, Levels
<1>3. \A n \in D : n \in 0 .. MaxLevel
  OBVIOUS
<1> HIDE DEF D
<1>4. \A n \in D : Sorted(Level[n]) \in Seq(Place) /\ Distinct(Sorted(Level[n]))
  BY <1>2, <1>3, SortedPlaces
<1> QED
  BY <1>1, <1>3, <1>4

\* The countries that the walk starts from.
LEMMA CountriesAreAList ==
  ASSUME WalkOK
  PROVE  EnsureCountries \in Seq(Place) /\ Distinct(EnsureCountries)
  BY DiscoveryAssumption DEF WalkOK, EnsureCountries, Distinct

LEMMA Starts ==
  ASSUME Init
  PROVE  WalkInv
<1>1. PICK ready : seeds = SeedFrontier(ready)
  BY DEF Init
<1>2. /\ DOMAIN seeds \subseteq 0 .. MaxLevel
      /\ \A n \in DOMAIN seeds : seeds[n] \in Seq(Place) /\ Distinct(seeds[n])
  BY <1>1, SeedsAreLists
<1>3. wanted \subseteq Unit
  BY DiscoveryAssumption DEF Init, Unit, Cities
<1>4. FetchTypeOK
  BY PlaceFetchAssumption DEF Init, FetchInit, FetchTypeOK, Chunk
<1>5. EmitterTypeOK
  BY DEF Init, EmitterInit, EmitterTypeOK
<1>6. CallOK
  BY DEF Init, FetchInit, CallOK, Calling
<1>7. ListOK
  BY DEF Init, FetchInit, EmitterInit, ListOK, Distinct
<1>8. WalkOK
  BY <1>2 DEF Init, WalkOK, Distinct
<1>9. TypeOK
  <2>1. typed \in BOOLEAN /\ callback \in BOOLEAN /\ lost \in BOOLEAN
    BY DEF Init
  <2>2. phase \in Phase /\ level \in Nat /\ frontier \in Seq(Place) /\ scanned \subseteq Nat
    BY DEF Init, Phase
  <2>3. pc = "walk"
    BY DEF Init
  <2> QED
    BY <1>3, <1>4, <1>5, <2>1, <2>2, <2>3 DEF TypeOK
<1> QED
  BY <1>6, <1>7, <1>8, <1>9 DEF WalkInv

\* A step that leaves the call alone keeps what is said of it.
LEMMA QuietCall ==
  ASSUME WalkInv, UNCHANGED fetchVars,
         pc' \in {"fetch", "flush", "advance", "write", "drain"} => request # None,
         pc' \in {"walk", "list", "close", "done"} => request = None
  PROVE  FetchTypeOK' /\ CallOK'
<1> USE DEF WalkInv, TypeOK, CallOK, Calling, fetchVars
<1>1. ParentBatches' = ParentBatches
  BY DEF ParentBatches
<1>2. FetchTypeOK'
  BY DEF FetchTypeOK, Chunk
<1> QED
  BY <1>1, <1>2

\* A step that leaves the emitter alone keeps what is said of it.
LEMMA QuietEmitter ==
  ASSUME WalkInv, UNCHANGED emitterVars, request' = request
  PROVE  ListOK'
  BY DEF WalkInv, ListOK, emitterVars, Scan, Distinct, ToSet

LEMMA QuietInventory ==
  ASSUME WalkInv, UNCHANGED <<emitterVars, inventoryVars>>
  PROVE  EmitterTypeOK'
  BY DEF WalkInv, TypeOK, EmitterTypeOK, emitterVars, inventoryVars

LEMMA QuietWalk ==
  ASSUME WalkInv, UNCHANGED <<walkVars, optionVars>>
  PROVE  WalkOK'
  BY DEF WalkInv, WalkOK, walkVars, optionVars, Distinct

\* The levels of the walk and the options, apart from the parts above.
OptionOK ==
  /\ typed \in BOOLEAN /\ callback \in BOOLEAN /\ wanted \subseteq Unit
  /\ phase \in Phase /\ scanned \subseteq Nat /\ lost \in BOOLEAN
  /\ pc \in {"walk", "fetch", "flush", "advance", "write", "list", "drain", "close", "done", "failed"}

LEMMA Parts ==
  /\ WalkInv => FetchTypeOK /\ EmitterTypeOK /\ CallOK /\ WalkOK /\ ListOK /\ OptionOK
  /\ FetchTypeOK' /\ EmitterTypeOK' /\ CallOK' /\ WalkOK' /\ ListOK' /\ OptionOK' => WalkInv'
<1>1. level \in Nat \ {0} => level \in Nat
  OBVIOUS
<1>2. level' \in Nat \ {0} => level' \in Nat
  OBVIOUS
<1> QED
  BY <1>1, <1>2, Zenon DEF WalkInv, TypeOK, OptionOK, WalkOK

LEMMA OptionsKept ==
  ASSUME OptionOK, UNCHANGED optionVars, lost' \in BOOLEAN, phase' \in Phase, scanned' \subseteq Nat,
         pc' \in {"walk", "fetch", "flush", "advance", "write", "list", "drain", "close", "done", "failed"}
  PROVE  OptionOK'
<1>1. typed' = typed /\ callback' = callback /\ wanted' = wanted
  BY DEF optionVars
<1> QED
  BY <1>1, Zenon DEF OptionOK

LEMMA WalkKept ==
  ASSUME WalkOK, seeds' = seeds, level' \in Nat \ {0}, frontier' \in Seq(Place), Distinct(frontier)'
  PROVE  WalkOK'
<1>1. Distinct(frontier') <=> Distinct(frontier)'
  BY DEF Distinct
<1>2. \A n \in DOMAIN seeds : Distinct(seeds[n])' <=> Distinct(seeds[n])
  BY DEF Distinct
<1> QED
  BY <1>1, <1>2 DEF WalkOK

LEMMA WalkStepsKeep ==
  ASSUME WalkInv,
         Roots \/ CountryCities \/ Seed \/ SeedCities \/ EndSeeds \/ Areas \/ EndAreas \/ NoAreas
         \/ AreaCities \/ End \/ Listed \/ Close \/ ProgressRaises
  PROVE  WalkInv'
<1>0. FetchTypeOK /\ EmitterTypeOK /\ CallOK /\ WalkOK /\ ListOK /\ OptionOK
  BY Parts
<1>1. EnsureCountries \in Seq(Place) /\ Distinct(EnsureCountries) /\ ToSet(EnsureCountries) \in SUBSET Place
  BY <1>0, CountriesAreAList DEF ToSet
<1>2. City \in Kind
  BY DiscoveryAssumption
<1>3. pc \in {"walk", "list", "close"} /\ request = None
  BY <1>0 DEF At, Roots, CountryCities, Seed, SeedCities, EndSeeds, Areas, EndAreas, NoAreas, AreaCities, End,
              Listed, Close, ProgressRaises, CallOK
<1>4. ordered \in Seq(Place) /\ Distinct(ordered) /\ frontier \in Seq(Place) /\ Distinct(frontier)
  BY <1>0 DEF EmitterTypeOK, ListOK, WalkOK
<1>5. CASE Roots
  <2>1. UNCHANGED fetchVars /\ UNCHANGED emitterVars /\ pc' \in {"list", "walk"}
    BY <1>5 DEF Roots
  <2>2. FetchTypeOK' /\ CallOK' /\ ListOK'
    BY <1>3, <2>1, QuietCall, QuietEmitter DEF fetchVars
  <2>3. EmitterTypeOK'
    <3>1. CASE List(ToSet(EnsureCountries))
      BY <1>0, <1>1, <2>1, <3>1, ListTypes DEF EmitterTypeOK, emitterVars
    <3>2. CASE UNCHANGED inventoryVars
      BY <2>1, <3>2, QuietInventory
    <3> QED
      BY <1>5, <3>1, <3>2 DEF Roots
  <2>4. /\ UNCHANGED optionVars /\ lost' = lost /\ scanned' = scanned /\ phase' \in {"country_cities", "end"}
        /\ level' = 1 /\ frontier' = <<>>
    BY <1>5 DEF Roots, Walk, Keep
  <2>5. OptionOK'
    BY <1>0, <2>1, <2>4, OptionsKept DEF OptionOK, Phase
  <2>6. level' \in Nat \ {0} /\ frontier' \in Seq(Place) /\ seeds' = seeds
    <3>1. level' = 1 /\ frontier' = <<>> /\ seeds' = seeds
      BY <2>4 DEF optionVars
    <3>2. 1 \in Nat \ {0} /\ <<>> \in Seq(Place)
      OBVIOUS
    <3> QED
      BY <3>1, <3>2, Zenon
  <2>7. Distinct(frontier)'
    <3>1. Distinct(<<>>)
      BY DEF Distinct
    <3>2. frontier' = <<>>
      BY <2>4
    <3> QED
      BY <3>1, <3>2, Zenon DEF Distinct
  <2>8. WalkOK'
    BY <1>0, <2>6, <2>7, WalkKept
  <2> QED
    BY <2>2, <2>3, <2>5, <2>8, Parts
<1>6. CASE CountryCities
  <2>1. UNCHANGED optionVars /\ lost' = lost /\ phase' = "seed" /\ level' = 1 /\ frontier' = <<>> /\ pc = "walk"
    BY <1>6 DEF CountryCities, Keep, Walk, At
  <2>2. FetchTypeOK' /\ EmitterTypeOK' /\ CallOK' /\ ListOK' /\ pc' \in {"walk", "fetch"}
    <3>1. CASE Stream(City, EnsureCountries, "cities", FALSE)
      BY <1>1, <1>2, <2>1, <3>1, StreamOK
    <3>2. CASE pc' = "walk" /\ UNCHANGED <<fetchVars, emitterVars, inventoryVars, scanned>>
      BY <1>3, <3>2, QuietCall, QuietEmitter, QuietInventory DEF fetchVars
    <3> QED
      BY <1>6, <3>1, <3>2 DEF CountryCities
  <2>3. scanned' \subseteq Nat
    <3>1. scanned' = {1} \/ scanned' = scanned
      BY <1>6 DEF CountryCities
    <3>2. {1} \subseteq Nat /\ scanned \subseteq Nat
      BY <1>0 DEF OptionOK
    <3> QED
      BY <3>1, <3>2, Zenon
  <2>4. OptionOK'
    BY <1>0, <2>1, <2>2, <2>3, OptionsKept DEF OptionOK, Phase
  <2>5. WalkOK'
    BY <1>0, <2>1, WalkKept DEF optionVars, Distinct
  <2> QED
    BY <2>2, <2>4, <2>5, Parts
<1>7. CASE Seed
  <2>1. /\ UNCHANGED optionVars /\ lost' = lost /\ phase' = "seed_cities" /\ level' = level + 1
        /\ frontier' = seeds[level] /\ pc' = "walk" /\ UNCHANGED fetchVars /\ level \in DOMAIN seeds
        /\ UNCHANGED inventoryVars /\ pending' = pending /\ next' = next /\ ordered' = ordered
        /\ scanned' = scanned
    BY <1>7 DEF Seed, Keep, Walk, At
  <2>2. FetchTypeOK' /\ CallOK'
    BY <1>3, <2>1, QuietCall
  <2>3. ListOK'
    BY <1>0, <1>3, <2>1 DEF ListOK, fetchVars, Distinct
  <2>4. seeds[level] \in Seq(Place) /\ Distinct(seeds[level]) /\ ToSet(seeds[level]) \subseteq Place
    <3>1. seeds[level] \in Seq(Place) /\ Distinct(seeds[level])
      BY <1>0, <2>1, Zenon DEF WalkOK
    <3> QED
      BY <3>1 DEF ToSet
  <2>5. seen' \in [{"cities", "areas"} -> SUBSET Place]
    BY <1>0, <1>7, <2>4 DEF Seed, EmitterTypeOK
  <2>6. EmitterTypeOK'
    BY <1>0, <2>1, <2>5 DEF EmitterTypeOK, inventoryVars
  <2>7. OptionOK'
    BY <1>0, <2>1, OptionsKept DEF OptionOK, Phase
  <2>8. WalkOK'
    <3>1. level' \in Nat \ {0} /\ seeds' = seeds
      <4>1. level' = level + 1 /\ seeds' = seeds
        BY <2>1 DEF optionVars
      <4>2. level \in Nat \ {0}
        BY <1>0 DEF WalkOK
      <4>3. level + 1 \in Nat \ {0}
        BY <4>2
      <4> QED
        BY <4>1, <4>3, Zenon
    <3>2. frontier' \in Seq(Place)
      BY <2>1, <2>4, Zenon
    <3>3. Distinct(frontier)'
      <4>1. frontier' = seeds[level]
        BY <2>1
      <4> DEFINE f == seeds[level]
      <4>2. Distinct(f) /\ frontier' = f
        BY <2>4, <4>1
      <4> HIDE DEF f
      <4> QED
        BY <4>2 DEF Distinct
    <3> QED
      BY <1>0, <3>1, <3>2, <3>3, WalkKept
  <2> QED
    BY <2>2, <2>3, <2>6, <2>7, <2>8, Parts
<1>8. CASE SeedCities
  <2>1. /\ UNCHANGED optionVars /\ lost' = lost /\ phase' = "seed" /\ level' = level /\ frontier' = frontier
        /\ pc = "walk"
    BY <1>8 DEF SeedCities, Keep, Walk, At
  <2>2. FetchTypeOK' /\ EmitterTypeOK' /\ CallOK' /\ ListOK' /\ pc' \in {"walk", "fetch"}
    <3>1. CASE Stream(City, frontier, "cities", FALSE)
      BY <1>2, <1>4, <2>1, <3>1, StreamOK
    <3>2. CASE pc' = "walk" /\ UNCHANGED <<fetchVars, emitterVars, inventoryVars, scanned>>
      BY <1>3, <3>2, QuietCall, QuietEmitter, QuietInventory DEF fetchVars
    <3> QED
      BY <1>8, <3>1, <3>2 DEF SeedCities
  <2>3. scanned' \subseteq Nat
    BY <1>0, <1>8 DEF SeedCities, OptionOK, WalkOK
  <2>4. OptionOK'
    BY <1>0, <2>1, <2>2, <2>3, OptionsKept DEF OptionOK, Phase
  <2>5. WalkOK'
    <3>1. level' \in Nat \ {0} /\ Distinct(frontier)' /\ seeds' = seeds
      BY <1>0, <2>1 DEF WalkOK, Distinct, optionVars
    <3> QED
      BY <1>0, <1>4, <2>1, <3>1, WalkKept
  <2> QED
    BY <2>2, <2>4, <2>5, Parts
<1>9. CASE Areas
  <2>1. UNCHANGED optionVars /\ lost' = lost /\ phase' = "area_cities" /\ UNCHANGED <<frontier, level, scanned>>
        /\ pc = "walk" /\ Stream(AreaKind(level), frontier, "areas", typed) /\ MoreLevels
    BY <1>9 DEF Areas, Keep, At
  <2>2. AreaKind(level) \in Kind
    <3>1. level \in Nat \ {0} /\ MaxLevel \in Nat
      BY <1>0, DiscoveryAssumption DEF WalkOK
    <3>2. typed => level <= MaxLevel
      BY <2>1, Zenon DEF MoreLevels
    <3>3. CASE typed
      BY <3>1, <3>2, <3>3, DiscoveryAssumption DEF AreaKind, KindOf
    <3>4. CASE ~typed
      BY <3>4, DiscoveryAssumption DEF AreaKind, KindOf
    <3> QED
      BY <3>3, <3>4
  <2>3. FetchTypeOK' /\ EmitterTypeOK' /\ CallOK' /\ ListOK' /\ pc' \in {"walk", "fetch"}
    BY <1>4, <2>1, <2>2, StreamOK
  <2>4. OptionOK'
    BY <1>0, <2>1, <2>3, OptionsKept DEF OptionOK, Phase
  <2>5. WalkOK'
    <3>1. level' \in Nat \ {0} /\ Distinct(frontier)' /\ seeds' = seeds
      BY <1>0, <2>1 DEF WalkOK, Distinct, optionVars
    <3> QED
      BY <1>0, <1>4, <2>1, <3>1, WalkKept
  <2> QED
    BY <2>3, <2>4, <2>5, Parts
<1>10. CASE AreaCities
  <2>1. /\ UNCHANGED optionVars /\ lost' = lost /\ phase' = "areas" /\ level' = level + 1 /\ frontier' = ordered
        /\ scanned' = scanned /\ pc = "walk"
    BY <1>10 DEF AreaCities, Keep, Walk, At
  <2>2. FetchTypeOK' /\ EmitterTypeOK' /\ CallOK' /\ ListOK' /\ pc' \in {"walk", "fetch"}
    <3>1. CASE Stream(City, ordered, "cities", FALSE)
      BY <1>2, <1>4, <2>1, <3>1, StreamOK
    <3>2. CASE pc' = "walk" /\ UNCHANGED <<fetchVars, emitterVars, inventoryVars>>
      BY <1>3, <3>2, QuietCall, QuietEmitter, QuietInventory DEF fetchVars
    <3> QED
      BY <1>10, <3>1, <3>2 DEF AreaCities
  <2>3. OptionOK'
    BY <1>0, <2>1, <2>2, OptionsKept DEF OptionOK, Phase
  <2>4. WalkOK'
    <3>1. level' \in Nat \ {0} /\ Distinct(frontier)' /\ seeds' = seeds
      BY <1>0, <1>4, <2>1 DEF WalkOK, Distinct, optionVars
    <3> QED
      BY <1>0, <1>4, <2>1, <3>1, WalkKept
  <2> QED
    BY <2>2, <2>3, <2>4, Parts
<1>11. CASE EndSeeds \/ EndAreas \/ NoAreas \/ End \/ Listed \/ Close \/ ProgressRaises
  <2>1. /\ UNCHANGED <<fetchVars, emitterVars, inventoryVars>> /\ UNCHANGED optionVars /\ lost' = lost
        /\ scanned' = scanned /\ pc' \in {pc, "close", "walk", "done", "failed"}
    BY <1>11 DEF EndSeeds, EndAreas, NoAreas, End, Listed, Close, ProgressRaises, Keep, StayInWalk, walkVars
  <2>2. FetchTypeOK' /\ EmitterTypeOK' /\ CallOK' /\ ListOK'
    BY <1>3, <2>1, QuietCall, QuietEmitter, QuietInventory DEF fetchVars
  <2>3. /\ phase' \in Phase /\ level' = level
        /\ frontier' \in Seq(Place) /\ Distinct(frontier')
    BY <1>0, <1>1, <1>4, <1>11 DEF EndSeeds, EndAreas, NoAreas, End, Listed, Close, ProgressRaises, StayInWalk,
       walkVars, Walk, StartLevel, Phase, OptionOK
  <2>4. WalkOK' /\ OptionOK'
    BY <1>0, <2>1, <2>3 DEF WalkOK, OptionOK, optionVars, Distinct
  <2> QED
    BY <2>2, <2>4, Parts
<1> QED
  BY <1>5, <1>6, <1>7, <1>8, <1>9, <1>10, <1>11

\* Steps of the call leave the walk where it is.
LEMMA WalkStays ==
  ASSUME WalkInv, UNCHANGED walkVars, UNCHANGED optionVars, lost' \in BOOLEAN,
         pc' \in {"walk", "fetch", "flush", "advance", "write", "list", "drain", "close", "done", "failed"}
  PROVE  WalkOK' /\ OptionOK'
<1>0. WalkOK /\ OptionOK
  BY Parts
<1>1. level' = level /\ frontier' = frontier /\ phase' = phase /\ scanned' = scanned /\ seeds' = seeds
  BY DEF walkVars, optionVars
<1>2. OptionOK'
  <2>1. phase' \in Phase /\ scanned' \subseteq Nat
    BY <1>0, <1>1, Zenon DEF OptionOK
  <2> QED
    BY <1>0, <2>1, OptionsKept
<1>3. WalkOK'
  BY QuietWalk, Zenon
<1> QED
  BY <1>2, <1>3

LEMMA RequeueOK ==
  ASSUME FetchTypeOK, CallOK, request # None, Requeue
  PROVE  /\ FetchTypeOK' /\ request' = request /\ ParentBatches' = ParentBatches
         /\ work' \in [DOMAIN ParentBatches' -> Task]
<1>1. request' = request /\ cached' = cached /\ tries' = tries + 1 /\ tries <= Retries
      /\ work' = [c \in Chunk |-> [is |-> "queued", left |-> <<>>]]
  BY DEF Requeue
<1>2. ParentBatches' = ParentBatches
  BY <1>1 DEF ParentBatches
<1>3. [is |-> "queued", left |-> <<>>] \in Task
  BY DEF Task
<1>4. Chunk = DOMAIN ParentBatches
  BY DEF CallOK, Chunk
<1>5. work' \in [DOMAIN ParentBatches -> Task]
  BY <1>1, <1>3, <1>4
<1>6. tries' \in 0 .. Retries + 1
  BY <1>1, PlaceFetchAssumption DEF FetchTypeOK
<1>7. FetchTypeOK'
  BY <1>1, <1>5, <1>6 DEF FetchTypeOK, Chunk, Task
<1> QED
  BY <1>1, <1>2, <1>5, <1>7

LEMMA FlushKeeps ==
  ASSUME WalkInv, NEW i \in pending, Flush(i)
  PROVE  WalkInv'
<1>0. FetchTypeOK /\ EmitterTypeOK /\ CallOK /\ WalkOK /\ ListOK /\ OptionOK
  BY Parts
<1>1. pc = "flush" /\ request # None
  BY <1>0 DEF Flush, CallOK, Calling
<1> DEFINE new == Found(i, Reported(i)) \ seen[Scan]
<1>2. /\ new \in SUBSET Place /\ request' = request /\ ordered' = ordered \o Sorted(new)
      /\ seen' = [seen EXCEPT ![Scan] = @ \cup new] /\ Scan' = Scan /\ Scan \in {"cities", "areas"}
      /\ next' = next /\ i = next /\ pending' = pending \ {i} /\ i \in pending
      /\ ParentBatches' = ParentBatches
  BY <1>1, FlushLists
<1>3. new \cap seen[Scan] = {}
  OBVIOUS
<1>4. UNCHANGED fetchVars /\ UNCHANGED walkVars /\ UNCHANGED optionVars /\ lost' = lost
      /\ pc' \in {"write", "advance"}
  BY DEF Flush, StayInWalk, Keep
<1>5. List(new) \/ UNCHANGED inventoryVars
  BY DEF Flush, FlushBatch
<1> HIDE DEF new
<1>6. FetchTypeOK' /\ CallOK'
  BY <1>1, <1>4, QuietCall
<1>7. WalkOK' /\ OptionOK'
  BY <1>0, <1>4, WalkStays DEF OptionOK
<1>8. /\ Sorted(new) \in Seq(Place) /\ ToSet(Sorted(new)) = new /\ Distinct(Sorted(new))
  BY <1>2, SortedPlaces
<1>9. seen \in [{"cities", "areas"} -> SUBSET Place] /\ ordered \in Seq(Place) /\ pending \subseteq Nat \ {0}
      /\ next \in Nat \ {0} /\ buffer \in Seq(Place) /\ inventory \in Seq(Seq(Place)) /\ listed \subseteq Place
  BY <1>0 DEF EmitterTypeOK
<1>10. /\ seen' \in [{"cities", "areas"} -> SUBSET Place] /\ seen'[Scan] = seen[Scan] \cup new
  BY <1>2, <1>9
<1>11. ToSet(ordered) \subseteq seen[Scan] /\ Distinct(ordered)
  BY <1>0, <1>1 DEF ListOK
<1>12. Distinct(ordered') /\ ToSet(ordered') = ToSet(ordered) \cup new /\ ordered' \in Seq(Place)
  <2>1. ToSet(ordered) \cap ToSet(Sorted(new)) = {}
    BY <1>3, <1>8, <1>11
  <2>2. Distinct(ordered \o Sorted(new)) /\ ToSet(ordered \o Sorted(new)) = ToSet(ordered) \cup ToSet(Sorted(new))
    BY <1>8, <1>9, <1>11, <2>1, ConcatDistinct
  <2>3. ordered \o Sorted(new) \in Seq(Place)
    BY <1>8, <1>9, ConcatProperties
  <2> QED
    BY <1>2, <1>8, <2>2, <2>3
<1>13. ListOK'
  <2>1. ToSet(ordered') \subseteq seen'[Scan']
    BY <1>2, <1>10, <1>11, <1>12
  <2>2. Distinct(ordered)' <=> Distinct(ordered')
    BY DEF Distinct
  <2>3. ToSet(ordered)' = ToSet(ordered')
    BY DEF ToSet
  <2> QED
    BY <1>12, <2>1, <2>2, <2>3 DEF ListOK
<1>14. EmitterTypeOK'
  <2>1. pending' \subseteq Nat \ {0} /\ next' \in Nat \ {0}
    BY <1>2, <1>9
  <2>2. buffer' \in Seq(Place) /\ inventory' \in Seq(Seq(Place)) /\ listed' \subseteq Place
    <3>1. CASE List(new)
      BY <1>0, <1>2, <1>9, <3>1, ListTypes
    <3>2. CASE UNCHANGED inventoryVars
      BY <1>9, <3>2 DEF inventoryVars
    <3> QED
      BY <1>5, <3>1, <3>2
  <2> QED
    BY <1>10, <1>12, <2>1, <2>2 DEF EmitterTypeOK
<1> QED
  BY <1>6, <1>7, <1>13, <1>14, Parts

LEMMA CallStepsKeep ==
  ASSUME WalkInv,
         \/ Again \/ GiveUp \/ RecordInline \/ StreamReturns \/ EndFlush \/ Advance \/ WriteChunk \/ WriteFails
         \/ \E c \in Chunk : Take(c) \/ ChunkRaises(c)
  PROVE  WalkInv'
<1>0. FetchTypeOK /\ EmitterTypeOK /\ CallOK /\ WalkOK /\ ListOK /\ OptionOK
  BY Parts
<1>1. pc \in {"fetch", "flush", "advance", "write", "drain"} => request # None
  BY <1>0 DEF CallOK, Calling
<1>2. UNCHANGED walkVars /\ UNCHANGED optionVars
  BY DEF Again, GiveUp, RecordInline, StreamReturns, EndFlush, Advance, WriteChunk, WriteFails, Take, ChunkRaises,
         StayInWalk, Keep
<1>3. lost' \in BOOLEAN
  BY <1>0 DEF OptionOK, Again, GiveUp, RecordInline, StreamReturns, EndFlush, Advance, WriteChunk, WriteFails, Take,
         ChunkRaises, StayInWalk, Keep
<1>4. pc' \in {"walk", "fetch", "flush", "advance", "write", "list", "drain", "close", "done", "failed"}
  BY <1>0 DEF OptionOK, Again, GiveUp, RecordInline, StreamReturns, EndFlush, Advance, WriteChunk, WriteFails, Take,
         ChunkRaises, Raised
<1>5. WalkOK' /\ OptionOK'
  BY <1>2, <1>3, <1>4, WalkStays
<1>6. /\ pending \subseteq Nat \ {0} /\ next \in Nat \ {0} /\ ordered \in Seq(Place)
      /\ seen \in [{"cities", "areas"} -> SUBSET Place]
      /\ buffer \in Seq(Place) /\ inventory \in Seq(Seq(Place)) /\ listed \subseteq Place
  BY <1>0 DEF EmitterTypeOK
<1>7. CASE GiveUp \/ EndFlush
  <2>1. UNCHANGED fetchVars /\ UNCHANGED <<emitterVars, inventoryVars>> /\ pc' \in {"failed", "fetch"}
        /\ request # None /\ request' = request
    BY <1>1, <1>7 DEF GiveUp, EndFlush, fetchVars
  <2> QED
    BY <1>5, <2>1, QuietCall, QuietEmitter, QuietInventory, Parts
<1>8. CASE RecordInline
  <2>1. UNCHANGED fetchVars /\ UNCHANGED inventoryVars /\ pc' \in {"flush", "failed"} /\ request # None
        /\ request' = request /\ pending' = pending \cup {next} /\ next' = next /\ ordered' = ordered /\ seen' = seen
    BY <1>1, <1>8 DEF RecordInline, fetchVars
  <2>2. FetchTypeOK' /\ CallOK'
    BY <2>1, QuietCall
  <2>3. EmitterTypeOK'
    BY <1>6, <2>1 DEF EmitterTypeOK, inventoryVars
  <2>4. ListOK'
    BY <1>0, <2>1 DEF ListOK, Distinct, Scan, ToSet
  <2> QED
    BY <1>5, <2>2, <2>3, <2>4, Parts
<1>9. CASE Advance
  <2>1. UNCHANGED fetchVars /\ UNCHANGED inventoryVars /\ pc' = "flush" /\ request # None
        /\ request' = request /\ pending' = pending /\ next' = next + 1 /\ ordered' = ordered /\ seen' = seen
    BY <1>1, <1>9 DEF Advance, EndBatch, fetchVars
  <2>2. FetchTypeOK' /\ CallOK'
    BY <2>1, QuietCall
  <2>3. EmitterTypeOK'
    BY <1>6, <2>1 DEF EmitterTypeOK, inventoryVars
  <2>4. ListOK'
    BY <1>0, <2>1 DEF ListOK, Distinct, Scan, ToSet
  <2> QED
    BY <1>5, <2>2, <2>3, <2>4, Parts
<1>10. CASE WriteChunk \/ WriteFails
  <2>1. UNCHANGED fetchVars /\ UNCHANGED emitterVars /\ (Write \/ Drop) /\ pc' \in {pc, Raised} /\ Writing
        /\ request' = request
    BY <1>10 DEF WriteChunk, WriteFails, fetchVars
  <2>2. pc \in {"write", "list", "close"} /\ Raised \in {"drain", "failed"} /\ (Raised = "drain" => pc = "write")
    BY <2>1 DEF Writing, Raised
  <2>3. FetchTypeOK' /\ CallOK'
    BY <1>0, <1>1, <2>1, <2>2, QuietCall DEF CallOK
  <2>4. EmitterTypeOK'
    <3>1. buffer' \in Seq(Place) /\ inventory' \in Seq(Seq(Place)) /\ listed' = listed
      BY <1>0, <2>1, WriteTypes
    <3> QED
      BY <1>6, <2>1, <3>1 DEF EmitterTypeOK, emitterVars
  <2> QED
    BY <1>5, <2>1, <2>3, <2>4, QuietEmitter, Parts
<1>11. CASE Again
  <2>1. UNCHANGED <<emitterVars, inventoryVars>> /\ Requeue /\ pc' = "fetch" /\ request # None
    BY <1>1, <1>11 DEF Again
  <2>2. /\ FetchTypeOK' /\ request' = request /\ ParentBatches' = ParentBatches
        /\ work' \in [DOMAIN ParentBatches' -> Task]
    BY <1>0, <2>1, RequeueOK
  <2>3. CallOK'
    BY <1>0, <2>1, <2>2 DEF CallOK, Calling, Distinct
  <2> QED
    BY <1>5, <2>1, <2>2, <2>3, QuietEmitter, QuietInventory, Parts
<1>12. CASE StreamReturns
  <2>1. UNCHANGED <<emitterVars, inventoryVars>> /\ Idle /\ pc' \in {"walk", "failed"}
    BY <1>12 DEF StreamReturns
  <2>2. request' = None /\ work' = <<>> /\ tries' = 0 /\ cached' = cached
    BY <2>1 DEF Idle
  <2>3. FetchTypeOK' /\ CallOK'
    BY <1>0, <2>1, <2>2, PlaceFetchAssumption DEF FetchTypeOK, CallOK, Calling, Chunk
  <2>4. ListOK'
    BY <1>0, <2>1, <2>2 DEF ListOK, emitterVars, Distinct
  <2> QED
    BY <1>5, <2>1, <2>3, <2>4, QuietInventory, Parts
<1>13. CASE \E c \in Chunk : Take(c)
  <2>1. PICK c \in Chunk : Take(c)
    BY <1>13
  <2>2. Become(c, "taken", <<>>) /\ cached' = cached /\ next' = next /\ ordered' = ordered /\ seen' = seen
        /\ UNCHANGED inventoryVars /\ pc = "fetch" /\ pc' \in {"fetch", "flush", "drain"}
        /\ (pending' = pending \cup {c} \/ pending' = pending)
    BY <2>1 DEF Take
  <2>3. request # None
    BY <1>1, <2>2
  <2>4. cached' \in SUBSET (Kind \X SUBSET Place) /\ <<>> \in Seq(Seq(Place))
    BY <1>0, <2>2 DEF FetchTypeOK
  <2>5. /\ FetchTypeOK' /\ request' = request /\ ParentBatches' = ParentBatches
        /\ work' \in [DOMAIN ParentBatches' -> Task]
    BY <1>0, <2>2, <2>3, <2>4, BecomeOK
  <2>6. CallOK'
    BY <1>0, <2>2, <2>3, <2>5 DEF CallOK, Calling, Distinct
  <2>7. c \in Nat \ {0}
    <3>1. ParentBatches \in Seq(Seq(Place)) /\ Chunk = DOMAIN ParentBatches
      BY <1>0, <2>3, BatchTypes DEF CallOK, Chunk
    <3> QED
      BY <3>1
  <2>8. EmitterTypeOK'
    BY <1>6, <2>2, <2>7 DEF EmitterTypeOK, inventoryVars
  <2>9. ListOK'
    BY <1>0, <2>2, <2>5 DEF ListOK, Distinct, Scan, ToSet
  <2> QED
    BY <1>5, <2>5, <2>6, <2>8, <2>9, Parts
<1>14. CASE \E c \in Chunk : ChunkRaises(c)
  <2>1. UNCHANGED fetchVars /\ UNCHANGED <<emitterVars, inventoryVars>> /\ pc' = "drain" /\ request # None
        /\ request' = request
    BY <1>1, <1>14 DEF ChunkRaises, fetchVars
  <2> QED
    BY <1>5, <2>1, QuietCall, QuietEmitter, QuietInventory, Parts
<1> QED
  BY <1>7, <1>8, <1>9, <1>10, <1>11, <1>12, <1>13, <1>14

LEMMA PoolKeeps ==
  ASSUME WalkInv, NEW c \in Chunk, PoolStep(c)
  PROVE  WalkInv' /\ request' = request /\ ParentBatches' = ParentBatches /\ UNCHANGED <<emitterVars, pc>>
<1>0. FetchTypeOK /\ EmitterTypeOK /\ CallOK /\ WalkOK /\ ListOK /\ OptionOK
  BY Parts
<1>1. WorkerStep(c) /\ UNCHANGED <<emitterVars, inventoryVars>> /\ UNCHANGED walkVars /\ UNCHANGED optionVars
      /\ pc' = pc /\ lost' = lost
  BY DEF PoolStep
<1>2. /\ FetchTypeOK' /\ request # None /\ request' = request /\ ParentBatches' = ParentBatches
      /\ work' \in [DOMAIN ParentBatches' -> Task]
  BY <1>0, <1>1, WorkerOK
<1>3. CallOK'
  BY <1>0, <1>1, <1>2 DEF CallOK, Calling, Distinct
<1>4. WalkOK' /\ OptionOK'
  BY <1>0, <1>1, WalkStays DEF OptionOK
<1> QED
  BY <1>1, <1>2, <1>3, <1>4, QuietEmitter, QuietInventory, Parts

LEMMA NothingMoves ==
  ASSUME WalkInv, UNCHANGED vars
  PROVE  WalkInv'
<1>0. CallOK /\ OptionOK
  BY Parts
<1>1. UNCHANGED fetchVars /\ UNCHANGED <<emitterVars, inventoryVars>> /\ UNCHANGED walkVars /\ UNCHANGED optionVars
      /\ pc' = pc /\ lost' = lost /\ request' = request
  BY DEF vars, fetchVars
<1>2. FetchTypeOK' /\ CallOK'
  BY <1>0, <1>1, QuietCall DEF CallOK, Calling
<1>3. WalkOK' /\ OptionOK'
  BY <1>0, <1>1, WalkStays DEF OptionOK
<1> QED
  BY <1>1, <1>2, <1>3, QuietEmitter, QuietInventory, Parts

LEMMA WalkSteps ==
  ASSUME WalkInv, [Next]_vars
  PROVE  WalkInv'
<1>1. CASE WalkStep
  BY <1>1, WalkStepsKeep, CallStepsKeep, FlushKeeps DEF WalkStep
<1>2. CASE \E c \in Chunk : PoolStep(c)
  BY <1>2, PoolKeeps
<1>3. CASE Ended \/ UNCHANGED vars
  BY <1>3, NothingMoves DEF Ended
<1> QED
  BY <1>1, <1>2, <1>3 DEF Next

(* The variables of the walk, of the pool that fetches for it and of the   *)
(* emitter keep their types: a request asks for a list of places of one    *)
(* kind, a chunk in the pool has lists of parents left to ask for, only    *)
(* places are listed and written, and a call is made at most Retries + 1   *)
(* times, whatever is refused, split, cached or made again.                *)
THEOREM DiscoveryTyping == Spec => []TypeOK
<1>1. Init => WalkInv
  BY Starts
<1>2. WalkInv /\ [Next]_vars => WalkInv'
  BY WalkSteps
<1>3. WalkInv => TypeOK
  BY DEF WalkInv
<1> QED
  BY <1>1, <1>2, <1>3, PTL DEF Spec

-----------------------------------------------------------------------------
(* The order of a scan's list                                              *)

\* The first batch of parents that has a place as a child
IsFirst(x, b) ==
  /\ b \in DOMAIN ParentBatches /\ x \in Found(b, Place)
  /\ \A j \in 1 .. b - 1 : x \notin Found(j, Place)
Scanned(b) == Found(b, Place) \subseteq seen[Scan]
Precedes(x, y) == \A a, b \in DOMAIN ParentBatches : IsFirst(x, a) /\ IsFirst(y, b) =>
  a < b \/ (a = b /\ x < y)

\* Batches before the next one are scanned, so that what a batch adds is there
\* for the first time; what is listed of the next batch itself, in a call that
\* is made again, was listed by one flush of it.
OrderOK ==
  request # None =>
    /\ pending \subseteq DOMAIN ParentBatches
    /\ \A j \in 1 .. next - 1 : Scanned(j)
    /\ \A i \in DOMAIN ordered : \E b \in 1 .. next : IsFirst(ordered[i], b)
    /\ (\E i \in DOMAIN ordered : IsFirst(ordered[i], next)) => Scanned(next)
    /\ pc \in {"advance", "write"} => Scanned(next)
    /\ \A i, j \in DOMAIN ordered : i < j => Precedes(ordered[i], ordered[j])

LEMMA BatchNumbers ==
  ASSUME CallOK, request # None
  PROVE  \A b \in DOMAIN ParentBatches : b \in Nat \ {0}
<1>1. ParentBatches \in Seq(Seq(Place))
  BY BatchTypes
<1> QED
  BY <1>1

LEMMA OneFirst ==
  ASSUME CallOK, request # None, NEW x, NEW a, NEW b, IsFirst(x, a), IsFirst(x, b)
  PROVE  a = b
<1>1. a \in Nat \ {0} /\ b \in Nat \ {0}
  BY BatchNumbers DEF IsFirst
<1>2. ~(a \in 1 .. b - 1) /\ ~(b \in 1 .. a - 1)
  BY Zenon DEF IsFirst
<1> QED
  BY <1>1, <1>2

\* What is found depends on the request alone.
LEMMA SameRequest ==
  ASSUME request' = request
  PROVE  /\ ParentBatches' = ParentBatches /\ Scan' = Scan
         /\ \A b : Found(b, Place)' = Found(b, Place)
         /\ \A x, b : IsFirst(x, b)' <=> IsFirst(x, b)
         /\ \A x, y : Precedes(x, y)' <=> Precedes(x, y)
<1>1. ParentBatches' = ParentBatches /\ Scan' = Scan
  BY DEF ParentBatches, Scan
<1>2. \A b : Found(b, Place)' = Found(b, Place)
  BY <1>1 DEF Found
<1>3. \A x, b : IsFirst(x, b)' <=> IsFirst(x, b)
  BY <1>1, <1>2 DEF IsFirst
<1>4. \A x, y : Precedes(x, y)' <=> Precedes(x, y)
  BY <1>1, <1>3 DEF Precedes
<1> QED
  BY <1>1, <1>2, <1>3, <1>4

LEMMA OrderKept ==
  ASSUME OrderOK, request' = request, ordered' = ordered, seen' = seen, next' = next,
         request # None => pending' \subseteq DOMAIN ParentBatches,
         request # None /\ pc' \in {"advance", "write"} => Scanned(next)
  PROVE  OrderOK'
<1> SUFFICES ASSUME request # None
             PROVE  OrderOK'
  BY DEF OrderOK
<1>1. /\ ParentBatches' = ParentBatches /\ Scan' = Scan
      /\ \A x, b : IsFirst(x, b)' <=> IsFirst(x, b)
      /\ \A x, y : Precedes(x, y)' <=> Precedes(x, y)
  BY SameRequest
<1>2. \A b : Scanned(b)' <=> Scanned(b)
  BY SameRequest DEF Scanned
<1> QED
  BY <1>1, <1>2 DEF OrderOK

\* A scan that starts has listed nothing.
LEMMA OrderOfNothing ==
  ASSUME ordered' = <<>>, next' = 1, pending' = {}, pc' \notin {"advance", "write"}
  PROVE  OrderOK'
<1>1. DOMAIN ordered' = {} /\ 1 .. next' - 1 = {}
  OBVIOUS
<1> QED
  BY <1>1 DEF OrderOK

LEMMA FlushOrders ==
  ASSUME WalkInv, OrderOK, NEW i \in pending, Flush(i)
  PROVE  OrderOK'
<1>0. FetchTypeOK /\ EmitterTypeOK /\ CallOK /\ WalkOK /\ ListOK /\ OptionOK
  BY Parts
<1>1. pc = "flush" /\ request # None
  BY <1>0 DEF Flush, CallOK, Calling
<1> DEFINE new == Found(i, Reported(i)) \ seen[Scan]
<1>2. /\ new \in SUBSET Place /\ request' = request /\ ordered' = ordered \o Sorted(new)
      /\ seen' = [seen EXCEPT ![Scan] = @ \cup new] /\ Scan' = Scan /\ Scan \in {"cities", "areas"}
      /\ next' = next /\ i = next /\ pending' = pending \ {i} /\ i \in pending
      /\ ParentBatches' = ParentBatches
  BY <1>1, FlushLists
<1>3. /\ pending \subseteq DOMAIN ParentBatches
      /\ \A j \in 1 .. next - 1 : Scanned(j)
      /\ \A k \in DOMAIN ordered : \E b \in 1 .. next : IsFirst(ordered[k], b)
      /\ (\E k \in DOMAIN ordered : IsFirst(ordered[k], next)) => Scanned(next)
      /\ \A k, j \in DOMAIN ordered : k < j => Precedes(ordered[k], ordered[j])
  BY <1>1 DEF OrderOK
<1>4. next \in DOMAIN ParentBatches
  BY <1>2, <1>3
<1>5. Found(i, Reported(i)) = Found(next, Place)
  <2>1. ToSet(ParentBatches[next]) \subseteq Place /\ ToSet(ParentBatches[next]) \subseteq ToSet(request.parents)
    BY <1>0, <1>1, <1>4, BatchTypes
  <2>2. ParentChunks = ParentBatches
    BY <1>0, <1>1, ChunksAreBatches
  <2>3. ToSet(ParentBatches[next]) \subseteq Reported(next)
    BY <1>4, <2>1, <2>2 DEF Reported
  <2>4. ToSet(ParentBatches[next]) \cap Reported(next) = ToSet(ParentBatches[next]) \cap Place
    BY <2>1, <2>3
  <2> QED
    BY <1>2, <2>4 DEF Found
<1>6. \A x \in new : x \in Found(next, Place) /\ x \notin seen[Scan]
  BY <1>5
<1>7. Scanned(next) => new = {}
  BY <1>5 DEF Scanned
<1>8. Found(next, Place) \subseteq seen[Scan] \cup new
  BY <1>5
<1> HIDE DEF new
<1>9. /\ seen \in [{"cities", "areas"} -> SUBSET Place] /\ ordered \in Seq(Place) /\ next \in Nat \ {0}
  BY <1>0 DEF EmitterTypeOK
<1>10. seen'[Scan] = seen[Scan] \cup new
  BY <1>2, <1>9
<1>11. /\ \A b : Found(b, Place)' = Found(b, Place)
       /\ \A x, b : IsFirst(x, b)' <=> IsFirst(x, b)
       /\ \A x, y : Precedes(x, y)' <=> Precedes(x, y)
  BY <1>2, SameRequest
<1>12. \A b : Scanned(b) => Scanned(b)'
  BY <1>2, <1>10, <1>11 DEF Scanned
<1>13. Scanned(next)'
  BY <1>2, <1>8, <1>10, <1>11 DEF Scanned
<1>14. \A x \in new : IsFirst(x, next)
  BY <1>3, <1>4, <1>6 DEF IsFirst, Scanned
<1>15. /\ Sorted(new) \in Seq(Place) /\ ToSet(Sorted(new)) = new /\ Increasing(Sorted(new))
  BY <1>2, SortedPlaces
<1> DEFINE t == Sorted(new)
           n == Len(ordered)
<1>16. \A k \in DOMAIN t : t[k] \in new
  BY <1>15 DEF ToSet
<1> HIDE DEF t
<1>17. \A k \in DOMAIN ordered' :
          \/ k \in DOMAIN ordered /\ k <= n /\ ordered'[k] = ordered[k]
          \/ k > n /\ k - n \in DOMAIN t /\ ordered'[k] = t[k - n] /\ t[k - n] \in new
  <2>1. t \in Seq(Place) /\ ordered' = ordered \o t
    BY <1>2, <1>15 DEF t
  <2>2. /\ ordered \o t \in Seq(Place) /\ Len(ordered \o t) = n + Len(t)
        /\ \A k \in 1 .. n + Len(t) : (ordered \o t)[k] = IF k <= n THEN ordered[k] ELSE t[k - n]
    BY <1>9, <2>1, ConcatProperties
  <2>3. n \in Nat /\ Len(t) \in Nat /\ DOMAIN ordered = 1 .. n /\ DOMAIN t = 1 .. Len(t)
    BY <1>9, <2>1
  <2>4. DOMAIN (ordered \o t) = 1 .. n + Len(t)
    BY <2>2, <2>3
  <2> QED
    BY <1>16, <2>1, <2>2, <2>3, <2>4
<1>18. pending' \subseteq DOMAIN ParentBatches'
  BY <1>2, <1>3
<1>19. \A j \in 1 .. next' - 1 : Scanned(j)'
  BY <1>2, <1>3, <1>12
<1>20. \A k \in DOMAIN ordered' : \E b \in 1 .. next' : IsFirst(ordered[k], b)'
  <2> SUFFICES ASSUME NEW k \in DOMAIN ordered'
               PROVE  \E b \in 1 .. next : IsFirst(ordered'[k], b)
    BY <1>2, <1>11
  <2>1. CASE k \in DOMAIN ordered /\ ordered'[k] = ordered[k]
    BY <1>3, <2>1
  <2>2. CASE ordered'[k] \in new
    <3>1. next \in 1 .. next
      BY <1>9
    <3> QED
      BY <1>14, <2>2, <3>1
  <2> QED
    BY <1>17, <2>1, <2>2
<1>21. \A k, j \in DOMAIN ordered' : k < j => Precedes(ordered[k], ordered[j])'
  <2> SUFFICES ASSUME NEW k \in DOMAIN ordered', NEW j \in DOMAIN ordered', k < j
               PROVE  Precedes(ordered'[k], ordered'[j])
    BY <1>11
  <2> SUFFICES ASSUME NEW a \in DOMAIN ParentBatches, NEW b \in DOMAIN ParentBatches,
                      IsFirst(ordered'[k], a), IsFirst(ordered'[j], b)
               PROVE  a < b \/ (a = b /\ ordered'[k] < ordered'[j])
    BY DEF Precedes
  <2>0. \A m \in DOMAIN ordered : m \in Nat
    BY <1>9
  <2>1. CASE k \in DOMAIN ordered /\ j \in DOMAIN ordered /\ ordered'[k] = ordered[k] /\ ordered'[j] = ordered[j]
    BY <1>3, <2>1 DEF Precedes
  <2>2. CASE k \in DOMAIN ordered /\ ordered'[k] = ordered[k] /\ ordered'[j] \in new
    <3>1. b = next
      BY <1>0, <1>1, <1>14, <2>2, OneFirst
    <3>2. PICK c \in 1 .. next : IsFirst(ordered[k], c)
      BY <1>3, <2>2
    <3>3. a = c
      BY <1>0, <1>1, <2>2, <3>2, OneFirst
    <3>4. a # next
      BY <1>3, <1>7, <2>2, <3>2, <3>3
    <3> QED
      BY <1>9, <3>1, <3>2, <3>3, <3>4
  <2>3. CASE /\ k > n /\ j > n /\ k - n \in DOMAIN t /\ j - n \in DOMAIN t /\ ordered'[k] = t[k - n]
             /\ ordered'[j] = t[j - n] /\ t[k - n] \in new /\ t[j - n] \in new
    <3>1. a = next /\ b = next
      BY <1>0, <1>1, <1>14, <2>3, OneFirst
    <3>2. k - n < j - n
      <4>1. t \in Seq(Place) /\ ordered \in Seq(Place)
        BY <1>9, <1>15 DEF t
      <4>2. n \in Nat
        BY <1>9
      <4>3. ordered' \in Seq(Place)
        BY <1>2, <4>1, ConcatProperties DEF t
      <4>4. k \in Nat /\ j \in Nat
        BY <4>3
      <4> QED
        BY <4>2, <4>4
    <3>3. t[k - n] < t[j - n]
      BY <1>15, <2>3, <3>2 DEF Increasing, t
    <3> QED
      BY <2>3, <3>1, <3>3
  <2>4. ~(k > n /\ j \in DOMAIN ordered /\ j <= n)
    <3>1. n \in Nat /\ ordered' \in Seq(Place)
      BY <1>2, <1>9, <1>15, ConcatProperties
    <3>2. k \in Nat /\ j \in Nat
      BY <3>1
    <3> QED
      BY <3>1, <3>2
  <2> QED
    BY <1>17, <2>1, <2>2, <2>3, <2>4
<1> QED
  BY <1>13, <1>18, <1>19, <1>20, <1>21 DEF OrderOK

\* Without a call there is nothing to say.
LEMMA OrderOfNone ==
  ASSUME request' = None
  PROVE  OrderOK'
  BY DEF OrderOK

LEMMA WalkStepsOrder ==
  ASSUME WalkInv,
         Roots \/ CountryCities \/ Seed \/ SeedCities \/ EndSeeds \/ Areas \/ EndAreas \/ NoAreas
         \/ AreaCities \/ End \/ Listed \/ Close \/ ProgressRaises
  PROVE  OrderOK'
<1>1. request = None
  <2>1. pc \in {"walk", "list", "close"}
    BY DEF At, Roots, CountryCities, Seed, SeedCities, EndSeeds, Areas, EndAreas, NoAreas, AreaCities, End,
           Listed, Close, ProgressRaises
  <2> QED
    BY <2>1 DEF WalkInv, CallOK
<1>2. UNCHANGED fetchVars \/ \E kind, parents, scan, own : Stream(kind, parents, scan, own)
  BY DEF Roots, CountryCities, Seed, SeedCities, EndSeeds, Areas, EndAreas, NoAreas, AreaCities, End,
         Listed, Close, ProgressRaises
<1>3. CASE UNCHANGED fetchVars
  BY <1>1, <1>3, OrderOfNone DEF fetchVars
<1>4. CASE \E kind, parents, scan, own : Stream(kind, parents, scan, own)
  <2>1. ordered' = <<>> /\ next' = 1 /\ pending' = {} /\ pc' \in {"walk", "fetch"}
    BY <1>4 DEF Stream, Reset
  <2> QED
    BY <2>1, OrderOfNothing
<1> QED
  BY <1>2, <1>3, <1>4

LEMMA CallStepsOrder ==
  ASSUME WalkInv, OrderOK,
         \/ Again \/ GiveUp \/ RecordInline \/ StreamReturns \/ EndFlush \/ Advance \/ WriteChunk \/ WriteFails
         \/ \E c \in Chunk : Take(c) \/ ChunkRaises(c)
  PROVE  OrderOK'
<1>0. FetchTypeOK /\ EmitterTypeOK /\ CallOK /\ WalkOK /\ ListOK /\ OptionOK
  BY Parts
<1>1. request # None => pending \subseteq DOMAIN ParentBatches
  BY DEF OrderOK
<1>2. CASE GiveUp \/ EndFlush \/ Again \/ \E c \in Chunk : ChunkRaises(c)
  <2>1. request' = request /\ UNCHANGED emitterVars /\ pc' \notin {"advance", "write"}
    BY <1>2 DEF GiveUp, EndFlush, Again, Requeue, ChunkRaises, fetchVars
  <2> QED
    BY <1>1, <2>1, OrderKept DEF emitterVars
<1>3. CASE StreamReturns
  BY <1>3, OrderOfNone DEF StreamReturns, Idle
<1>4. CASE RecordInline
  <2>1. request' = request /\ pending' = pending \cup {next} /\ next' = next /\ ordered' = ordered /\ seen' = seen
        /\ pc' \notin {"advance", "write"} /\ next <= Len(ParentBatches) /\ pc = "fetch"
    BY <1>4 DEF RecordInline, Inline, fetchVars
  <2>2. request # None
    BY <1>0, <2>1 DEF CallOK, Calling
  <2>3. ParentBatches \in Seq(Seq(Place)) /\ next \in Nat \ {0}
    BY <1>0, <2>2, BatchTypes DEF EmitterTypeOK
  <2>4. next \in DOMAIN ParentBatches
    BY <2>1, <2>3
  <2> QED
    BY <1>1, <2>1, <2>4, OrderKept
<1>5. CASE \E c \in Chunk : Take(c)
  <2>1. PICK c \in Chunk : Take(c)
    BY <1>5
  <2>2. request' = request /\ next' = next /\ ordered' = ordered /\ seen' = seen /\ pc = "fetch"
        /\ pc' \notin {"advance", "write"} /\ (pending' = pending \cup {c} \/ pending' = pending)
    BY <2>1 DEF Take, Become
  <2>3. request # None
    BY <1>0, <2>2 DEF CallOK, Calling
  <2>4. c \in DOMAIN ParentBatches
    BY <1>0, <2>3 DEF CallOK, Chunk
  <2> QED
    BY <1>1, <2>2, <2>4, OrderKept
<1>6. CASE WriteChunk \/ WriteFails
  <2>1. request' = request /\ UNCHANGED emitterVars /\ pc' \in {pc, "drain", "failed"} /\ pc \notin {"advance"}
    BY <1>6 DEF WriteChunk, WriteFails, Raised, Writing, fetchVars
  <2>2. request # None /\ pc' \in {"advance", "write"} => Scanned(next)
    BY <2>1 DEF OrderOK
  <2> QED
    BY <1>1, <2>1, <2>2, OrderKept DEF emitterVars
<1>7. CASE Advance
  <2>1. request' = request /\ pending' = pending /\ next' = next + 1 /\ ordered' = ordered /\ seen' = seen
        /\ pc' = "flush" /\ pc \in {"advance", "write"}
    BY <1>7 DEF Advance, EndBatch, fetchVars
  <2>2. request # None
    BY <1>0, <2>1 DEF CallOK, Calling
  <2>3. /\ pending \subseteq DOMAIN ParentBatches /\ Scanned(next)
        /\ \A j \in 1 .. next - 1 : Scanned(j)
        /\ \A i \in DOMAIN ordered : \E b \in 1 .. next : IsFirst(ordered[i], b)
        /\ \A i, j \in DOMAIN ordered : i < j => Precedes(ordered[i], ordered[j])
    BY <2>1, <2>2 DEF OrderOK
  <2>4. /\ ParentBatches' = ParentBatches
        /\ \A x, b : IsFirst(x, b)' <=> IsFirst(x, b)
        /\ \A x, y : Precedes(x, y)' <=> Precedes(x, y)
        /\ \A b : Scanned(b)' <=> Scanned(b)
    BY <2>1, SameRequest DEF Scanned
  <2>5. next \in Nat \ {0}
    BY <1>0 DEF EmitterTypeOK
  <2>6. \A j \in 1 .. next : Scanned(j)
    BY <2>3, <2>5
  <2>7. \A i \in DOMAIN ordered : ~IsFirst(ordered[i], next + 1)
    <3> SUFFICES ASSUME NEW i \in DOMAIN ordered, IsFirst(ordered[i], next + 1)
                 PROVE  FALSE
      OBVIOUS
    <3>1. PICK b \in 1 .. next : IsFirst(ordered[i], b)
      BY <2>3
    <3>2. b = next + 1
      BY <1>0, <2>2, <3>1, OneFirst
    <3> QED
      BY <2>5, <3>2
  <2>8. \A i \in DOMAIN ordered : \E b \in 1 .. next + 1 : IsFirst(ordered[i], b)
    <3>1. \A b \in 1 .. next : b \in 1 .. next + 1
      BY <2>5
    <3> QED
      BY <2>3, <3>1
  <2>9. \A j \in 1 .. next' - 1 : Scanned(j)'
    <3>1. 1 .. next' - 1 = 1 .. next
      BY <2>1, <2>5
    <3> QED
      BY <2>4, <2>6, <3>1
  <2>10. ~(\E i \in DOMAIN ordered' : IsFirst(ordered[i], next)')
    BY <2>1, <2>4, <2>7
  <2>11. \A i \in DOMAIN ordered' : \E b \in 1 .. next' : IsFirst(ordered[i], b)'
    BY <2>1, <2>4, <2>8
  <2>12. \A i, j \in DOMAIN ordered' : i < j => Precedes(ordered[i], ordered[j])'
    BY <2>1, <2>3, <2>4
  <2> QED
    BY <2>1, <2>3, <2>4, <2>9, <2>10, <2>11, <2>12 DEF OrderOK
<1> QED
  BY <1>2, <1>3, <1>4, <1>5, <1>6, <1>7

LEMMA OrderSteps ==
  ASSUME WalkInv, OrderOK, [Next]_vars
  PROVE  OrderOK'
<1>1. CASE WalkStep
  BY <1>1, WalkStepsOrder, CallStepsOrder, FlushOrders DEF WalkStep
<1>2. CASE (\E c \in Chunk : PoolStep(c)) \/ Ended \/ UNCHANGED vars
  <2>1. request' = request /\ UNCHANGED <<emitterVars, pc>>
    BY <1>2, PoolKeeps DEF Ended, vars, fetchVars
  <2>2. request # None => pending' \subseteq DOMAIN ParentBatches /\ (pc' \in {"advance", "write"} => Scanned(next))
    BY <2>1 DEF OrderOK, emitterVars
  <2> QED
    BY <2>1, <2>2, OrderKept DEF emitterVars
<1> QED
  BY <1>1, <1>2 DEF Next

LEMMA OrderIsBatchOrder ==
  ASSUME WalkInv, OrderOK
  PROVE  InBatchOrder
<1> SUFFICES ASSUME request # None, NEW i \in DOMAIN ordered, NEW j \in DOMAIN ordered, i < j
             PROVE  \/ FirstBatch(ordered[i]) < FirstBatch(ordered[j])
                    \/ FirstBatch(ordered[i]) = FirstBatch(ordered[j]) /\ ordered[i] < ordered[j]
  BY DEF InBatchOrder
<1>1. \A x, b : IsFirst(x, b) => IsFirst(x, FirstBatch(x)) /\ FirstBatch(x) \in DOMAIN ParentBatches
  BY DEF IsFirst, FirstBatch
<1>2. \A k \in DOMAIN ordered : \E b \in 1 .. next : IsFirst(ordered[k], b)
  BY DEF OrderOK
<1>3. Precedes(ordered[i], ordered[j])
  BY DEF OrderOK
<1> QED
  BY <1>1, <1>2, <1>3 DEF Precedes

(* What a scan lists is in the order of the parents' batches, and sorted   *)
(* within a batch, in whatever order the pool answers and however often    *)
(* the call is made again: the next level of the walk, its batches and the *)
(* chunks of the inventory do not depend on the threads.                   *)
THEOREM ListedInBatchOrder == Spec => []InBatchOrder
<1>1. Init => WalkInv /\ OrderOK
  <2>1. Init => OrderOK
    BY DEF Init, FetchInit, OrderOK
  <2> QED
    BY <2>1, Starts
<1>2. WalkInv /\ OrderOK /\ [Next]_vars => (WalkInv /\ OrderOK)'
  BY WalkSteps, OrderSteps
<1>3. WalkInv /\ OrderOK => InBatchOrder
  BY OrderIsBatchOrder
<1> QED
  BY <1>1, <1>2, <1>3, PTL DEF Spec

-----------------------------------------------------------------------------
(* Each place once                                                         *)

\* What is written and what is buffered has been listed, in different chunks
\* and at different places.
OnceOK ==
  /\ Distinct(buffer) /\ ToSet(buffer) \subseteq listed
  /\ \A k \in DOMAIN inventory :
       /\ Distinct(inventory[k]) /\ ToSet(inventory[k]) \subseteq listed
       /\ ToSet(inventory[k]) \cap ToSet(buffer) = {}
  /\ \A k, l \in DOMAIN inventory : k # l => ToSet(inventory[k]) \cap ToSet(inventory[l]) = {}

\* The buffer is cut in two.
LEMMA CutInTwo ==
  ASSUME EmitterTypeOK, Distinct(buffer)
  PROVE  /\ Cut \in Seq(Place) /\ Rest \in Seq(Place) /\ Distinct(Cut) /\ Distinct(Rest)
         /\ ToSet(Cut) \subseteq ToSet(buffer) /\ ToSet(Rest) \subseteq ToSet(buffer)
         /\ ToSet(Cut) \cap ToSet(Rest) = {} /\ ToSet(buffer) = ToSet(Cut) \cup ToSet(Rest)
<1> DEFINE m == IF ChunkSize < Len(buffer) THEN ChunkSize ELSE Len(buffer)
           n == Len(buffer)
<1>1. buffer \in Seq(Place) /\ n \in Nat /\ m \in Nat /\ m <= n /\ DOMAIN buffer = 1 .. n
  BY OrderedEmitterAssumption DEF EmitterTypeOK
<1>2. \A k \in 1 .. n : buffer[k] \in Place
  BY <1>1
<1> HIDE DEF m, n
<1>3. Cut = SubSeq(buffer, 1, m)
  BY DEF Cut, m
<1>4. /\ Cut \in Seq(Place) /\ Len(Cut) = m /\ DOMAIN Cut = 1 .. m
      /\ \A k \in 1 .. m : k \in 1 .. n /\ Cut[k] = buffer[k]
  <2>1. \A k \in 1 .. m : buffer[k] \in Place
    BY <1>1, <1>2
  <2>2. /\ SubSeq(buffer, 1, m) \in Seq(Place) /\ Len(SubSeq(buffer, 1, m)) = m
        /\ \A k \in 1 .. m : SubSeq(buffer, 1, m)[k] = buffer[k]
    <3>1. /\ SubSeq(buffer, 1, m) \in Seq(Place)
          /\ Len(SubSeq(buffer, 1, m)) = (IF 1 <= m THEN m - 1 + 1 ELSE 0)
          /\ \A k \in 1 .. m - 1 + 1 : SubSeq(buffer, 1, m)[k] = buffer[1 + k - 1]
      BY <1>1, <2>1, SubSeqProperties
    <3>2. (IF 1 <= m THEN m - 1 + 1 ELSE 0) = m /\ m - 1 + 1 = m /\ \A k \in 1 .. m : 1 + k - 1 = k
      BY <1>1
    <3> QED
      BY <3>1, <3>2
  <2> QED
    BY <1>1, <1>3, <2>2
<1>5. Rest = SubSeq(buffer, m + 1, n)
  BY <1>4 DEF Rest, n
<1>6. /\ Rest \in Seq(Place) /\ DOMAIN Rest = 1 .. n - m
      /\ \A k \in 1 .. n - m : m + k \in 1 .. n /\ Rest[k] = buffer[m + k]
  <2>1. \A k \in m + 1 .. n : buffer[k] \in Place
    BY <1>1, <1>2
  <2>2. /\ SubSeq(buffer, m + 1, n) \in Seq(Place)
        /\ Len(SubSeq(buffer, m + 1, n)) = (IF m + 1 <= n THEN n - (m + 1) + 1 ELSE 0)
        /\ \A k \in 1 .. n - (m + 1) + 1 : SubSeq(buffer, m + 1, n)[k] = buffer[m + 1 + k - 1]
    BY <1>1, <2>1, SubSeqProperties
  <2>3. /\ (IF m + 1 <= n THEN n - (m + 1) + 1 ELSE 0) = n - m /\ n - (m + 1) + 1 = n - m
        /\ \A k \in 1 .. n - m : m + 1 + k - 1 = m + k /\ m + k \in 1 .. n
    BY <1>1
  <2> QED
    BY <1>1, <1>5, <2>2, <2>3
<1>7. \A i, j \in 1 .. n : buffer[i] = buffer[j] => i = j
  BY <1>1 DEF Distinct
<1>8. Distinct(Cut) /\ ToSet(Cut) \subseteq ToSet(buffer)
  BY <1>1, <1>4, <1>7 DEF Distinct, ToSet
<1>9. Distinct(Rest)
  <2>1. \A i, j \in 1 .. n - m : m + i = m + j => i = j
    BY <1>1
  <2> QED
    BY <1>6, <1>7, <2>1 DEF Distinct
<1>10. ToSet(Rest) \subseteq ToSet(buffer)
  BY <1>1, <1>6 DEF ToSet
<1>11. ToSet(Cut) \cap ToSet(Rest) = {}
  <2>1. \A i \in 1 .. m : \A j \in 1 .. n - m : i # m + j
    BY <1>1
  <2>2. \A i \in 1 .. m : \A j \in 1 .. n - m : Cut[i] # Rest[j]
    BY <1>4, <1>6, <1>7, <2>1
  <2> QED
    BY <1>4, <1>6, <2>2 DEF ToSet
<1>12. ToSet(buffer) \subseteq ToSet(Cut) \cup ToSet(Rest)
  <2> SUFFICES ASSUME NEW k \in 1 .. n
               PROVE  buffer[k] \in ToSet(Cut) \cup ToSet(Rest)
    BY <1>1 DEF ToSet
  <2>1. CASE k \in 1 .. m
    BY <1>4, <2>1 DEF ToSet
  <2>2. CASE k \notin 1 .. m
    <3>1. k - m \in 1 .. n - m /\ m + (k - m) = k
      BY <1>1, <2>2
    <3>2. k - m \in DOMAIN Rest /\ Rest[k - m] = buffer[k]
      BY <1>6, <3>1
    <3> QED
      BY <3>2 DEF ToSet
  <2> QED
    BY <2>1, <2>2
<1> QED
  BY <1>4, <1>6, <1>8, <1>9, <1>10, <1>11, <1>12

LEMMA ListOnce ==
  ASSUME EmitterTypeOK, OnceOK, NEW S \in SUBSET Place, List(S)
  PROVE  OnceOK'
<1> DEFINE t == Sorted(S \ listed)
<1>1. t \in Seq(Place) /\ ToSet(t) = S \ listed /\ Distinct(t)
  BY SortedPlaces
<1>2. buffer \in Seq(Place) /\ Distinct(buffer) /\ ToSet(buffer) \subseteq listed
  BY DEF EmitterTypeOK, OnceOK
<1>3. buffer' = buffer \o t /\ listed' = listed \cup S /\ inventory' = inventory
  BY DEF List
<1> HIDE DEF t
<1>4. ToSet(buffer) \cap ToSet(t) = {}
  BY <1>1, <1>2
<1> DEFINE u == buffer \o t
<1>5. Distinct(u) /\ ToSet(u) = ToSet(buffer) \cup ToSet(t)
  BY <1>1, <1>2, <1>4, ConcatDistinct
<1> HIDE DEF u
<1>6. buffer' = u
  BY <1>3 DEF u
<1>7. Distinct(buffer)' /\ ToSet(buffer)' = ToSet(buffer) \cup ToSet(t)
  BY <1>5, <1>6 DEF Distinct, ToSet
<1>8. \A k : /\ Distinct(inventory[k])' <=> Distinct(inventory[k])
             /\ ToSet(inventory[k])' = ToSet(inventory[k])
  BY <1>3 DEF Distinct, ToSet
<1>9. \A k \in DOMAIN inventory : ToSet(inventory[k]) \cap ToSet(t) = {}
  BY <1>1 DEF OnceOK
<1> QED
  BY <1>1, <1>2, <1>3, <1>7, <1>8, <1>9 DEF OnceOK

LEMMA WriteOnce ==
  ASSUME EmitterTypeOK, OnceOK, Write \/ Drop
  PROVE  OnceOK'
<1>1. /\ Cut \in Seq(Place) /\ Rest \in Seq(Place) /\ Distinct(Cut) /\ Distinct(Rest)
      /\ ToSet(Cut) \subseteq ToSet(buffer) /\ ToSet(Rest) \subseteq ToSet(buffer)
      /\ ToSet(Cut) \cap ToSet(Rest) = {}
  BY CutInTwo DEF OnceOK
<1>2. buffer' = Rest /\ listed' = listed
  BY DEF Write, Drop
<1>3. Distinct(buffer)' /\ ToSet(buffer)' = ToSet(Rest)
  BY <1>1, <1>2 DEF Distinct, ToSet
<1> DEFINE Entry(s) == Distinct(s) /\ ToSet(s) \subseteq listed /\ ToSet(s) \cap ToSet(Rest) = {}
<1>4. Entry(Cut) /\ \A k \in DOMAIN inventory : Entry(inventory[k]) /\ ToSet(inventory[k]) \cap ToSet(Cut) = {}
  BY <1>1 DEF OnceOK
<1>5. \A k, l \in DOMAIN inventory : k # l => ToSet(inventory[k]) \cap ToSet(inventory[l]) = {}
  BY DEF OnceOK
<1> HIDE DEF Entry
<1>6. /\ \A k \in DOMAIN inventory' : Entry(inventory'[k])
      /\ \A k, l \in DOMAIN inventory' : k # l => ToSet(inventory'[k]) \cap ToSet(inventory'[l]) = {}
  <2>1. CASE Drop
    <3>1. inventory' = inventory
      BY <2>1 DEF Drop
    <3> QED
      BY <1>4, <1>5, <3>1
  <2>2. CASE Write
    <3>1. inventory' = Append(inventory, Cut) /\ inventory \in Seq(Seq(Place))
      BY <2>2 DEF Write, EmitterTypeOK
    <3>2. \A k \in DOMAIN inventory' : \/ k \in DOMAIN inventory /\ inventory'[k] = inventory[k]
                                       \/ k = Len(inventory) + 1 /\ inventory'[k] = Cut
      BY <1>1, <3>1
    <3> QED
      BY <1>4, <1>5, <3>2
  <2> QED
    BY <2>1, <2>2
<1>7. \A k : /\ Distinct(inventory[k])' <=> Distinct(inventory'[k])
             /\ ToSet(inventory[k])' = ToSet(inventory'[k])
  BY DEF Distinct, ToSet
<1>8. ToSet(Rest) \subseteq listed
  BY <1>1 DEF OnceOK
<1> QED
  BY <1>2, <1>3, <1>6, <1>7, <1>8 DEF OnceOK, Entry

LEMMA OnceKept ==
  ASSUME OnceOK, UNCHANGED inventoryVars
  PROVE  OnceOK'
<1>1. buffer' = buffer /\ inventory' = inventory /\ listed' = listed
  BY DEF inventoryVars
<1> QED
  BY <1>1 DEF OnceOK, Distinct, ToSet

LEMMA OnceSteps ==
  ASSUME WalkInv, OnceOK, [Next]_vars
  PROVE  OnceOK'
<1>0. EmitterTypeOK /\ WalkOK /\ CallOK
  BY Parts
<1>1. CASE \E S \in SUBSET Place : List(S)
  BY <1>0, <1>1, ListOnce
<1>2. CASE Write \/ Drop
  BY <1>0, <1>2, WriteOnce
<1>3. CASE UNCHANGED inventoryVars
  BY <1>3, OnceKept
<1>4. CASE Roots
  <2>1. ToSet(EnsureCountries) \in SUBSET Place
    BY <1>0, CountriesAreAList DEF ToSet
  <2>2. List(ToSet(EnsureCountries)) \/ UNCHANGED inventoryVars
    BY <1>4 DEF Roots
  <2> QED
    BY <1>1, <1>3, <2>1, <2>2
<1>5. CASE CountryCities \/ SeedCities \/ Areas \/ AreaCities
  <2>1. UNCHANGED inventoryVars
    BY <1>5 DEF CountryCities, SeedCities, Areas, AreaCities, Stream
  <2> QED
    BY <1>3, <2>1
<1>6. CASE Seed \/ EndSeeds \/ EndAreas \/ NoAreas \/ End \/ Again \/ GiveUp \/ RecordInline \/ StreamReturns
           \/ EndFlush \/ Advance \/ Listed \/ Close \/ ProgressRaises
           \/ \E c \in Chunk : Take(c) \/ ChunkRaises(c)
  <2>1. UNCHANGED inventoryVars
    BY <1>6 DEF Seed, EndSeeds, EndAreas, NoAreas, End, Again, GiveUp, RecordInline, StreamReturns, EndFlush,
       Advance, Listed, Close, ProgressRaises, Take, ChunkRaises
  <2> QED
    BY <1>3, <2>1
<1>7. CASE WriteChunk \/ WriteFails
  BY <1>2, <1>7 DEF WriteChunk, WriteFails
<1>8. CASE \E i \in pending : Flush(i)
  <2>1. PICK i \in pending : Flush(i)
    BY <1>8
  <2>2. request # None
    BY <1>0, <2>1 DEF Flush, CallOK, Calling
  <2> DEFINE new == Found(i, Reported(i)) \ seen[Scan]
  <2>3. new \in SUBSET Place
    BY <2>1, <2>2, FlushLists
  <2>4. List(new) \/ UNCHANGED inventoryVars
    BY <2>1 DEF Flush, FlushBatch
  <2> QED
    BY <1>1, <1>3, <2>3, <2>4
<1>9. CASE (\E c \in Chunk : PoolStep(c)) \/ Ended \/ UNCHANGED vars
  <2>1. UNCHANGED inventoryVars
    BY <1>9 DEF PoolStep, Ended, vars
  <2> QED
    BY <1>3, <2>1
<1> QED
  BY <1>4, <1>5, <1>6, <1>7, <1>8, <1>9 DEF Next, WalkStep

LEMMA OnceIsListedOnce ==
  ASSUME EmitterTypeOK, OnceOK
  PROVE  ListedOnce
<1> DEFINE all == Append(inventory, buffer)
<1>1. inventory \in Seq(Seq(Place)) /\ buffer \in Seq(Place)
  BY DEF EmitterTypeOK
<1>2. \A k \in DOMAIN all : \/ k \in DOMAIN inventory /\ all[k] = inventory[k]
                            \/ k = Len(inventory) + 1 /\ all[k] = buffer
  BY <1>1
<1> HIDE DEF all
<1>3. \A k \in DOMAIN all : Distinct(all[k])
  BY <1>2 DEF OnceOK
<1>4. \A k, l \in DOMAIN all : k # l => ToSet(all[k]) \cap ToSet(all[l]) = {}
  BY <1>2 DEF OnceOK
<1> SUFFICES ASSUME NEW k \in DOMAIN all, NEW l \in DOMAIN all, NEW i \in DOMAIN all[k], NEW j \in DOMAIN all[l],
                    all[k][i] = all[l][j]
             PROVE  k = l /\ i = j
  BY DEF ListedOnce, all
<1>5. k = l
  BY <1>4 DEF ToSet
<1> QED
  BY <1>3, <1>5 DEF Distinct

(* No place is in the inventory of the run twice, within a chunk, in two   *)
(* chunks or in what is still buffered: a city that several areas contain, *)
(* an area that two levels reach and a batch that is reported again by a   *)
(* repeated call are fetched once.                                         *)
THEOREM EachListedOnce == Spec => []ListedOnce
<1>1. Init => WalkInv /\ OnceOK
  <2>1. Init => OnceOK
    BY DEF Init, EmitterInit, OnceOK, Distinct, ToSet
  <2> QED
    BY <2>1, Starts
<1>2. WalkInv /\ OnceOK /\ [Next]_vars => (WalkInv /\ OnceOK)'
  BY WalkSteps, OnceSteps
<1>3. WalkInv /\ OnceOK => ListedOnce
  BY Parts, OnceIsListedOnce
<1> QED
  BY <1>1, <1>2, <1>3, PTL DEF Spec

-----------------------------------------------------------------------------
(* The levels                                                              *)

\* Numbers of a finite set have a least and a greatest.
LEMMA LeastAndGreatest ==
  ASSUME NEW S \in SUBSET Nat, IsFiniteSet(S), S # {}
  PROVE  (\E x \in S : \A y \in S : x <= y) /\ (\E x \in S : \A y \in S : y <= x)
<1> DEFINE n == Cardinality(S)
           s == Sorted(S)
<1>1. n \in Nat
  BY FS_CardinalityType
<1>2. s \in Seq(S) /\ DOMAIN s = 1 .. n /\ Increasing(s)
      /\ \A x \in S : \E k \in DOMAIN s : s[k] = x
  BY SortedLists
<1> HIDE DEF s, n
<1>3. PICK k \in 1 .. n : s[k] \in S
  BY <1>2
<1>4. 1 \in 1 .. n /\ n \in 1 .. n
  BY <1>1, <1>3
<1>5. \A i \in 1 .. n : s[i] \in S /\ s[i] \in Nat
  <2>1. \A q \in Seq(S) : \A i \in DOMAIN q : q[i] \in S
    OBVIOUS
  <2>2. s \in Seq(S) /\ DOMAIN s = 1 .. n
    BY <1>2
  <2>3. \A i \in 1 .. n : s[i] \in S
    BY <2>1, <2>2, Zenon
  <2> QED
    BY <2>3
<1>6. \A i \in 1 .. n : s[1] <= s[i] /\ s[i] <= s[n]
  <2> SUFFICES ASSUME NEW i \in 1 .. n
               PROVE  s[1] <= s[i] /\ s[i] <= s[n]
    OBVIOUS
  <2>1. i # 1 => s[1] < s[i]
    BY <1>1, <1>2, <1>4 DEF Increasing
  <2>2. i # n => s[i] < s[n]
    BY <1>1, <1>2, <1>4 DEF Increasing
  <2>3. s[1] \in Int /\ s[n] \in Int /\ s[i] \in Int
    BY <1>4, <1>5
  <2> QED
    BY <2>1, <2>2, <2>3
<1>7. \A x \in S : s[1] <= x /\ x <= s[n]
  <2> SUFFICES ASSUME NEW x \in S
               PROVE  s[1] <= x /\ x <= s[n]
    OBVIOUS
  <2>1. PICK i \in 1 .. n : s[i] = x
    BY <1>2
  <2> QED
    BY <1>6, <2>1
<1>8. s[1] \in S /\ s[n] \in S
  BY <1>4, <1>5
<1> QED
  BY <1>7, <1>8, Zenon

\* The least number of an interval at which something does not hold.
LEMMA FirstFailure ==
  ASSUME NEW N \in Nat, NEW Bad \in SUBSET (0 .. N), Bad # {}
  PROVE  \E m \in Bad : \A k \in 0 .. N : k < m => k \notin Bad
<1>1. Bad \in SUBSET Nat /\ \A k \in 0 .. N : k \in Int
  OBVIOUS
<1>2. IsFiniteSet(Bad)
  <2>1. IsFiniteSet(0 .. N)
    BY FS_Interval
  <2> QED
    BY <2>1, FS_Subset
<1>3. PICK m \in Bad : \A k \in Bad : m <= k
  BY <1>1, <1>2, LeastAndGreatest
<1>4. \A k \in 0 .. N : k < m => k \notin Bad
  <2>1. m \in Int
    BY <1>1
  <2> QED
    BY <1>1, <1>3, <2>1
<1> QED
  BY <1>4

\* What a place contains is a place.
LEMMA ChildrenArePlaces ==
  ASSUME NEW kind \in Kind, NEW S \in SUBSET Place
  PROVE  Children(kind, S) \subseteq Place
<1>1. \A p \in S : Below[kind][p] \subseteq Place
  BY OrderedEmitterAssumption
<1> QED
  BY <1>1 DEF Children

\* One level, of the levels above it
LevelStep(t, f, n) ==
  IF n = 0 THEN ToSet(Countries)
  ELSE IF t /\ n > MaxLevel THEN {}
  ELSE Children(KindOf(t, n), f[n - 1]) \ (IF t THEN {} ELSE UNION {f[m] : m \in 1 .. n - 1})

\* A level depends on those above it alone.
LEMMA LevelStepIsLocal ==
  ASSUME NEW t, NEW f, NEW g, NEW n \in Nat, \A k \in 0 .. n - 1 : f[k] = g[k]
  PROVE  LevelStep(t, f, n) = LevelStep(t, g, n)
<1>1. n # 0 => n - 1 \in 0 .. n - 1
  OBVIOUS
<1>2. \A m \in 1 .. n - 1 : m \in 0 .. n - 1
  OBVIOUS
<1>3. {f[m] : m \in 1 .. n - 1} = {g[m] : m \in 1 .. n - 1}
  BY <1>2
<1>4. n # 0 => f[n - 1] = g[n - 1]
  BY <1>1
<1> QED
  BY <1>3, <1>4 DEF LevelStep

\* The recursive definition of the levels has a solution.
LEMMA LevelsExist ==
  ASSUME NEW t
  PROVE  \E f : f = [n \in 0 .. MaxLevel + 1 |-> LevelStep(t, f, n)]
<1> DEFINE N == MaxLevel + 1
           Bad == {m \in 0 .. N : ~ \E f : f = [n \in 0 .. m |-> LevelStep(t, f, n)]}
<1>1. N \in Nat
  BY DiscoveryAssumption
<1> HIDE DEF N
<1>2. Bad = {}
  <2> SUFFICES ASSUME Bad # {}
               PROVE  FALSE
    OBVIOUS
  <2>1. PICK m \in Bad : \A k \in 0 .. N : k < m => k \notin Bad
    BY <1>1, FirstFailure
  <2>2. m \in Nat /\ m \in 0 .. N
    BY <1>1
  <2>3. CASE m = 0
    <3> DEFINE f == [n \in 0 .. 0 |-> ToSet(Countries)]
    <3>1. \A n \in 0 .. 0 : LevelStep(t, f, n) = ToSet(Countries)
      BY DEF LevelStep
    <3>2. f = [n \in 0 .. 0 |-> LevelStep(t, f, n)]
      BY <3>1
    <3> HIDE DEF f
    <3> QED
      BY <2>3, <3>2
  <2>4. CASE m # 0
    <3>1. m - 1 \in 0 .. N /\ m - 1 < m /\ 0 .. m - 1 \subseteq 0 .. m
      BY <1>1, <2>2, <2>4
    <3>2. PICK f : f = [n \in 0 .. m - 1 |-> LevelStep(t, f, n)]
      BY <2>1, <3>1
    <3> DEFINE g == [n \in 0 .. m |-> IF n = m THEN LevelStep(t, f, m) ELSE f[n]]
    <3>3. \A n \in 0 .. m - 1 : g[n] = f[n] /\ n \in Nat /\ n # m
      BY <2>2, <3>1
    <3>4. g = [n \in 0 .. m |-> IF n = m THEN LevelStep(t, f, m) ELSE f[n]]
      OBVIOUS
    <3> HIDE DEF g
    <3>5. \A n \in 0 .. m : LevelStep(t, g, n) = LevelStep(t, f, n)
      <4> SUFFICES ASSUME NEW n \in 0 .. m
                   PROVE  LevelStep(t, g, n) = LevelStep(t, f, n)
        OBVIOUS
      <4>1. \A k \in 0 .. n - 1 : k \in 0 .. m - 1
        BY <2>2
      <4>2. \A k \in 0 .. n - 1 : g[k] = f[k]
        BY <3>3, <4>1
      <4>3. n \in Nat
        BY <2>2
      <4> QED
        BY <4>2, <4>3, LevelStepIsLocal
    <3>6. \A n \in 0 .. m : (IF n = m THEN LevelStep(t, f, m) ELSE f[n]) = LevelStep(t, g, n)
      <4> SUFFICES ASSUME NEW n \in 0 .. m
                   PROVE  (IF n = m THEN LevelStep(t, f, m) ELSE f[n]) = LevelStep(t, g, n)
        OBVIOUS
      <4>1. CASE n = m
        BY <3>5, <4>1
      <4>2. CASE n # m
        <5>1. n \in 0 .. m - 1
          BY <2>2, <4>2
        <5>2. f[n] = LevelStep(t, f, n)
          BY <3>2, <5>1
        <5> QED
          BY <3>5, <4>2, <5>2
      <4> QED
        BY <4>1, <4>2
    <3>7. g = [n \in 0 .. m |-> LevelStep(t, g, n)]
      BY <3>4, <3>6
    <3> QED
      BY <2>2, <3>7
  <2> QED
    BY <2>3, <2>4
<1>3. N \in 0 .. N
  BY <1>1
<1> QED
  BY <1>2, <1>3 DEF N

\* The levels are sets of places, each obtained from those above it.
LEMMA LevelsAre ==
  ASSUME NEW t \in BOOLEAN
  PROVE  /\ Levels(t) \in [0 .. MaxLevel + 1 -> SUBSET Place]
         /\ \A n \in 0 .. MaxLevel + 1 : Levels(t)[n] = LevelStep(t, Levels(t), n)
<1> DEFINE N == MaxLevel + 1
           L == CHOOSE f : f = [n \in 0 .. MaxLevel + 1 |-> LevelStep(t, f, n)]
<1>1. N \in Nat /\ MaxLevel \in Nat
  BY DiscoveryAssumption
<1>2. L = [n \in 0 .. N |-> LevelStep(t, L, n)]
  BY LevelsExist
<1>3. Levels(t) = [n \in 0 .. N |-> L[n] \cap Place]
  BY DEF Levels, LevelStep
<1> HIDE DEF L, N
<1>4. \A n \in 0 .. N : L[n] = LevelStep(t, L, n)
  BY <1>2
<1> DEFINE Bad == {n \in 0 .. N : ~ (L[n] \subseteq Place)}
<1>5. Bad = {}
  <2> SUFFICES ASSUME Bad # {}
               PROVE  FALSE
    OBVIOUS
  <2>1. PICK m \in Bad : \A k \in 0 .. N : k < m => k \notin Bad
    BY <1>1, FirstFailure
  <2>2. m \in 0 .. N /\ m \in Nat
    BY <1>1
  <2>3. L[m] = LevelStep(t, L, m)
    BY <1>4
  <2>4. ToSet(Countries) \subseteq Place
    BY DiscoveryAssumption DEF ToSet
  <2>5. CASE m = 0 \/ (t /\ m > MaxLevel)
    BY <2>3, <2>4, <2>5 DEF LevelStep
  <2>6. CASE m # 0 /\ ~(t /\ m > MaxLevel)
    <3>1. L[m - 1] \subseteq Place
      BY <1>1, <2>1, <2>2, <2>6
    <3>2. KindOf(t, m) \in Kind
      <4>1. t => m \in 1 .. MaxLevel
        BY <1>1, <2>2, <2>6
      <4> QED
        BY <4>1, DiscoveryAssumption DEF KindOf
    <3>3. Children(KindOf(t, m), L[m - 1]) \subseteq Place
      BY <3>1, <3>2, ChildrenArePlaces
    <3>4. L[m] \subseteq Children(KindOf(t, m), L[m - 1])
      BY <2>3, <2>6 DEF LevelStep
    <3> QED
      BY <2>1, <3>3, <3>4
  <2> QED
    BY <2>5, <2>6
<1>6. \A n \in 0 .. N : Levels(t)[n] = L[n]
  BY <1>3, <1>5
<1>7. \A n \in 0 .. N : LevelStep(t, Levels(t), n) = LevelStep(t, L, n)
  <2> SUFFICES ASSUME NEW n \in 0 .. N
               PROVE  LevelStep(t, Levels(t), n) = LevelStep(t, L, n)
    OBVIOUS
  <2>1. \A k \in 0 .. n - 1 : k \in 0 .. N
    BY <1>1
  <2>2. n \in Nat
    BY <1>1
  <2> QED
    BY <1>6, <2>1, <2>2, LevelStepIsLocal
<1> QED
  BY <1>3, <1>4, <1>5, <1>6, <1>7 DEF N

\* The areas of the levels 1 to n, the cities directly below the levels above
\* n, and the places of the units asked for that are at n or above.
AreasTo(n) == UNION {Level[k] : k \in 1 .. n}
CitiesTo(n) == Children(City, UNION {Level[k] : k \in 0 .. n - 1})
WantedTo(n) == UNION {Level[k] : k \in (wanted \ {Cities}) \cap (0 .. n)}

\* The numbers of the levels
LEMMA Numbers ==
  /\ MaxLevel \in Nat \ {0} /\ Cities = MaxLevel + 1
  /\ \A n \in 1 .. MaxLevel + 1 :
       n - 1 \in 0 .. MaxLevel + 1 /\ n \in 0 .. MaxLevel + 1 /\ n \in Nat \ {0} /\ 0 .. n = (0 .. n - 1) \cup {n}
  /\ \A n \in 1 .. MaxLevel + 2 : n - 1 \in 0 .. MaxLevel + 1 /\ n \in Nat \ {0}
  BY DiscoveryAssumption DEF Cities

\* The top level, and what is at most the bottom one
LEMMA LevelTypes ==
  ASSUME OptionOK
  PROVE  /\ Level[0] = ToSet(Countries)
         /\ \A n \in 0 .. MaxLevel + 1 : Level[n] \in SUBSET Place
         /\ typed => Level[MaxLevel + 1] = {}
<1>1. typed \in BOOLEAN /\ Level = Levels(typed)
  BY DEF OptionOK, Level
<1>2. /\ Level \in [0 .. MaxLevel + 1 -> SUBSET Place]
      /\ \A n \in 0 .. MaxLevel + 1 : Level[n] = LevelStep(typed, Level, n)
  BY <1>1, LevelsAre
<1>3. 0 \in 0 .. MaxLevel + 1 /\ MaxLevel + 1 \in 0 .. MaxLevel + 1 /\ MaxLevel + 1 > MaxLevel /\ MaxLevel + 1 # 0
  BY DiscoveryAssumption
<1>4. LevelStep(typed, Level, 0) = ToSet(Countries)
  BY DEF LevelStep
<1>5. typed => LevelStep(typed, Level, MaxLevel + 1) = {}
  BY <1>3 DEF LevelStep
<1> QED
  BY <1>2, <1>3, <1>4, <1>5

\* A level below the countries holds the children of the level above.
LEMMA LevelBelow ==
  ASSUME OptionOK, NEW n \in 1 .. MaxLevel + 1, typed => n <= MaxLevel
  PROVE  /\ AreaKind(n) \in Kind \ {City}
         /\ Level[n] = Children(AreaKind(n), Level[n - 1]) \ (IF typed THEN {} ELSE AreasTo(n - 1))
<1>1. typed \in BOOLEAN /\ Level = Levels(typed)
  BY DEF OptionOK, Level
<1>2. n \in 0 .. MaxLevel + 1 /\ n # 0 /\ (typed => n \in 1 .. MaxLevel) /\ ~(typed /\ n > MaxLevel)
  BY Numbers
<1>3. Level[n] = LevelStep(typed, Level, n)
  BY <1>1, <1>2, LevelsAre
<1>4. AreaKind(n) \in Kind \ {City}
  BY <1>2, DiscoveryAssumption DEF AreaKind, KindOf
<1> QED
  BY <1>2, <1>3, <1>4 DEF LevelStep, AreaKind, AreasTo

\* What one more level adds
LEMMA OneLevelMore ==
  ASSUME OptionOK
  PROVE  /\ AreasTo(0) = {} /\ CitiesTo(0) = {} /\ WantedTo(0) = (IF 0 \in wanted THEN Level[0] ELSE {})
         /\ \A n \in 1 .. MaxLevel + 1 :
              /\ AreasTo(n) = AreasTo(n - 1) \cup Level[n]
              /\ WantedTo(n) = WantedTo(n - 1) \cup (IF n \in WantedLevels THEN Level[n] ELSE {})
         /\ \A n \in 1 .. MaxLevel + 2 : CitiesTo(n) = CitiesTo(n - 1) \cup Children(City, Level[n - 1])
<1>1. AreasTo(0) = {}
  <2>1. 1 .. 0 = {}
    OBVIOUS
  <2> QED
    BY <2>1 DEF AreasTo
<1>2. CitiesTo(0) = {}
  <2>1. 0 .. 0 - 1 = {}
    OBVIOUS
  <2> QED
    BY <2>1 DEF CitiesTo, Children
<1>3. WantedTo(0) = (IF 0 \in wanted THEN Level[0] ELSE {})
  <2>1. 0 .. 0 = {0} /\ Cities # 0
    BY Numbers
  <2>2. (wanted \ {Cities}) \cap (0 .. 0) = IF 0 \in wanted THEN {0} ELSE {}
    BY <2>1
  <2> QED
    BY <2>2 DEF WantedTo
<1>4. ASSUME NEW n \in 1 .. MaxLevel + 1
      PROVE  AreasTo(n) = AreasTo(n - 1) \cup Level[n]
  <2>1. 1 .. n = (1 .. n - 1) \cup {n}
    BY Numbers
  <2> QED
    BY <2>1 DEF AreasTo
<1>5. ASSUME NEW n \in 1 .. MaxLevel + 1
      PROVE  WantedTo(n) = WantedTo(n - 1) \cup (IF n \in WantedLevels THEN Level[n] ELSE {})
  <2>1. 0 .. n = (0 .. n - 1) \cup {n}
    BY Numbers
  <2>2. n \in wanted \ {Cities} <=> n \in WantedLevels
    <3>1. wanted \subseteq 0 .. MaxLevel + 1
      BY DEF OptionOK, Unit, Cities
    <3>2. n # MaxLevel + 1 <=> n \in 1 .. MaxLevel
      BY Numbers
    <3> QED
      BY <3>1, <3>2, Numbers DEF WantedLevels
  <2>3. (wanted \ {Cities}) \cap (0 .. n) =
          ((wanted \ {Cities}) \cap (0 .. n - 1)) \cup (IF n \in WantedLevels THEN {n} ELSE {})
    BY <2>1, <2>2
  <2> QED
    BY <2>3 DEF WantedTo
<1>6. ASSUME NEW n \in 1 .. MaxLevel + 2
      PROVE  CitiesTo(n) = CitiesTo(n - 1) \cup Children(City, Level[n - 1])
  <2>1. 0 .. n - 1 = (0 .. (n - 1) - 1) \cup {n - 1}
    BY Numbers
  <2>2. UNION {Level[k] : k \in 0 .. n - 1} = (UNION {Level[k] : k \in 0 .. (n - 1) - 1}) \cup Level[n - 1]
    BY <2>1
  <2>3. \A A, B : Children(City, A \cup B) = Children(City, A) \cup Children(City, B)
    BY DEF Children
  <2> QED
    BY <2>2, <2>3 DEF CitiesTo
<1> QED
  BY <1>1, <1>2, <1>3, <1>4, <1>5, <1>6

\* Below an empty level there is nothing.
LEMMA NothingBelow ==
  ASSUME OptionOK, NEW n \in 0 .. MaxLevel + 1, Level[n] = {}, NEW m \in n .. MaxLevel + 1
  PROVE  Level[m] = {}
<1> DEFINE N == MaxLevel + 1
           Bad == {k \in 0 .. N : k >= n /\ Level[k] # {}}
<1>1. N \in Nat /\ n \in 0 .. N /\ m \in 0 .. N /\ m >= n /\ MaxLevel \in Nat
  BY Numbers
<1> HIDE DEF N
<1>2. Bad = {}
  <2> SUFFICES ASSUME Bad # {}
               PROVE  FALSE
    OBVIOUS
  <2>1. PICK k \in Bad : \A j \in 0 .. N : j < k => j \notin Bad
    BY <1>1, FirstFailure
  <2>2. k \in 0 .. N /\ k >= n /\ Level[k] # {} /\ k # n
    BY <2>1
  <2>3. k \in 1 .. N /\ k - 1 \in 0 .. N /\ k - 1 >= n /\ k - 1 < k
    BY <1>1, <2>2
  <2>4. Level[k - 1] = {}
    BY <2>1, <2>3
  <2>5. k \in 1 .. MaxLevel + 1
    BY <2>3 DEF N
  <2>6. CASE typed => k <= MaxLevel
    <3>1. Level[k] \subseteq Children(AreaKind(k), Level[k - 1])
      BY <2>5, <2>6, LevelBelow
    <3> QED
      BY <2>2, <2>4, <3>1 DEF Children
  <2>7. CASE typed /\ ~(k <= MaxLevel)
    <3>1. k = MaxLevel + 1
      BY <1>1, <2>5, <2>7
    <3> QED
      BY <2>2, <2>7, <3>1, LevelTypes
  <2> QED
    BY <2>6, <2>7
<1> QED
  BY <1>1, <1>2

\* The level that the walk goes down to
LEMMA DeepestLevel ==
  ASSUME OptionOK
  PROVE  /\ Deepest \in 0 .. MaxLevel + 1 /\ (WithCities => Deepest = MaxLevel + 1)
         /\ \A n \in WantedLevels : n <= Deepest
<1> DEFINE S == WantedLevels \cup {0}
<1>1. MaxLevel \in Nat
  BY Numbers
<1>2. S \in SUBSET (0 .. MaxLevel) /\ S \in SUBSET Nat /\ 0 \in S /\ WantedLevels \subseteq S
  BY <1>1 DEF WantedLevels
<1>3. IsFiniteSet(S)
  <2>1. IsFiniteSet(0 .. MaxLevel)
    BY <1>1, FS_Interval
  <2> QED
    BY <1>2, <2>1, FS_Subset
<1>4. Max(S) \in S /\ \A y \in S : y <= Max(S)
  <2>1. \E x \in S : \A y \in S : y <= x
    BY <1>2, <1>3, LeastAndGreatest
  <2>2. \E x \in S : \A y \in S : x >= y
    <3>1. \A x, y \in S : y <= x <=> x >= y
      BY <1>2
    <3> QED
      BY <2>1, <3>1
  <2> DEFINE x == Max(S)
  <2>3. x \in S /\ \A y \in S : x >= y
    BY <2>2, Zenon DEF Max
  <2> HIDE DEF x
  <2>4. \A y \in S : y <= x
    BY <1>2, <2>3
  <2> QED
    BY <2>3, <2>4 DEF x
<1>5. Deepest = IF WithCities THEN MaxLevel + 1 ELSE Max(S)
  BY DEF Deepest
<1> HIDE DEF S
<1>6. CASE WithCities
  <2>1. Deepest = MaxLevel + 1
    BY <1>5, <1>6
  <2>2. \A n \in WantedLevels : n \in 0 .. MaxLevel
    BY <1>2
  <2> QED
    BY <1>1, <2>1, <2>2
<1>7. CASE ~WithCities
  BY <1>1, <1>2, <1>4, <1>5, <1>7
<1> QED
  BY <1>6, <1>7

\* What is found when no level is left with something to look for.
LEMMA EverythingFound ==
  ASSUME OptionOK, NEW n \in 1 .. MaxLevel + 2,
         \A m \in n .. MaxLevel + 1 : m \in WantedLevels \/ WithCities => Level[m] = {}
  PROVE  WantedTo(n - 1) \cup (IF WithCities THEN CitiesTo(n) ELSE {}) = Expected
<1> DEFINE N == MaxLevel + 1
           Administrative == UNION {Level[u] : u \in wanted \ {Cities}}
           Towns == IF WithCities THEN Children(City, UNION {Level[k] : k \in 0 .. N}) ELSE {}
<1>1. wanted \subseteq 0 .. N /\ Cities = N /\ N \in Nat /\ MaxLevel \in Nat
  BY Numbers DEF OptionOK, Unit, Cities
<1>2. Expected = Administrative \cup Towns
  <2>1. \A u \in wanted \ {Cities} : ThereIs(u) = Level[u]
    BY DEF ThereIs
  <2>2. ThereIs(Cities) = Children(City, UNION {Level[k] : k \in 0 .. N})
    BY DEF ThereIs
  <2> HIDE DEF N
  <2>3. UNION {ThereIs(u) : u \in wanted} =
          (UNION {ThereIs(u) : u \in wanted \ {Cities}}) \cup (IF WithCities THEN ThereIs(Cities) ELSE {})
    BY DEF WithCities
  <2>4. UNION {ThereIs(u) : u \in wanted \ {Cities}} = Administrative
    BY <2>1
  <2> QED
    BY <2>2, <2>3, <2>4 DEF Expected
<1>3. WantedTo(n - 1) = Administrative
  <2>1. \A u \in wanted \ {Cities} : u \in 0 .. n - 1 \/ Level[u] = {}
    <3> SUFFICES ASSUME NEW u \in wanted \ {Cities}, u \notin 0 .. n - 1
                 PROVE  Level[u] = {}
      OBVIOUS
    <3>1. u \in n .. MaxLevel + 1 /\ u \in 1 .. MaxLevel
      BY <1>1
    <3>2. u \in WantedLevels
      BY <3>1 DEF WantedLevels
    <3> QED
      BY <3>1, <3>2
  <2> QED
    BY <2>1 DEF WantedTo
<1>4. WithCities => CitiesTo(n) = Towns
  <2> SUFFICES ASSUME WithCities
               PROVE  CitiesTo(n) = Children(City, UNION {Level[k] : k \in 0 .. N})
    OBVIOUS
  <2>1. 0 .. N = (0 .. n - 1) \cup (n .. N)
    BY <1>1
  <2>2. \A k \in n .. N : Level[k] = {}
    OBVIOUS
  <2> HIDE DEF N
  <2>3. UNION {Level[k] : k \in 0 .. N} = UNION {Level[k] : k \in 0 .. n - 1}
    BY <2>1, <2>2
  <2> QED
    BY <2>3 DEF CitiesTo
<1> HIDE DEF Administrative
<1> QED
  BY <1>2, <1>3, <1>4

\* A step of a run changes none of its options, and so nothing of the map.
LEMMA SameMap ==
  ASSUME UNCHANGED optionVars
  PROVE  /\ typed' = typed /\ callback' = callback /\ wanted' = wanted /\ seeds' = seeds
         /\ Level' = Level /\ Expected' = Expected /\ WantedLevels' = WantedLevels
         /\ \A n : /\ AreasTo(n)' = AreasTo(n) /\ CitiesTo(n)' = CitiesTo(n) /\ WantedTo(n)' = WantedTo(n)
                   /\ AreaKind(n)' = AreaKind(n)
<1>1. typed' = typed /\ callback' = callback /\ wanted' = wanted /\ seeds' = seeds
  BY DEF optionVars
<1>2. Level' = Level
  BY <1>1 DEF Level
<1> QED
  BY <1>1, <1>2 DEF Expected, ThereIs, WantedLevels, AreasTo, CitiesTo, WantedTo, AreaKind

-----------------------------------------------------------------------------
(* What the batches of a call hold together                                *)

\* Division with remainder
LEMMA Quotient ==
  ASSUME NEW a \in Nat, NEW n \in Nat \ {0}
  PROVE  LET q == a \div n IN q \in Nat /\ q * n <= a /\ a < q * n + n
  OBVIOUS

\* The pieces of a list hold all of it.
LEMMA PiecesCover ==
  ASSUME NEW S, NEW s \in Seq(S), NEW n \in Nat \ {0}, NEW x \in ToSet(s)
  PROVE  \E i \in DOMAIN Split(s, n) : x \in ToSet(Split(s, n)[i])
<1> DEFINE l == Len(s)
           m == (l + n - 1) \div n
           Low(i) == (i - 1) * n + 1
           High(i) == IF i * n < l THEN i * n ELSE l
<1>1. l \in Nat /\ DOMAIN s = 1 .. l
  OBVIOUS
<1>2. PICK k \in 1 .. l : s[k] = x
  BY <1>1 DEF ToSet
<1> DEFINE q == (k - 1) \div n
<1>3. k - 1 \in Nat /\ l + n - 1 \in Nat /\ k \in Nat
  BY <1>1
<1>4. q \in Nat /\ q * n <= k - 1 /\ k - 1 < q * n + n
  BY <1>3, Quotient
<1>5. m \in Nat /\ m * n <= l + n - 1 /\ l + n - 1 < m * n + n
  BY <1>3, Quotient
<1>6. Split(s, n) = [i \in 1 .. m |-> SubSeq(s, Low(i), High(i))]
  BY DEF Split
<1> HIDE DEF m, q, Low, High
<1>7. q + 1 \in 1 .. m
  <2>1. q * n \in Nat /\ m * n \in Nat /\ q * n < m * n
    BY <1>1, <1>3, <1>4, <1>5
  <2>2. q < m
    <3>1. q >= m => q * n >= m * n
      BY <1>4, <1>5
    <3> QED
      BY <1>4, <1>5, <2>1, <3>1
  <2> QED
    BY <1>4, <1>5, <2>2
<1>8. Low(q + 1) = q * n + 1 /\ High(q + 1) = (IF q * n + n < l THEN q * n + n ELSE l) /\ q * n \in Nat
  <2>1. (q + 1) - 1 = q /\ (q + 1) * n = q * n + n /\ q * n \in Nat
    BY <1>4
  <2> QED
    BY <2>1 DEF Low, High
<1> DEFINE lo == Low(q + 1)
           hi == High(q + 1)
<1>9. lo \in Nat \ {0} /\ hi \in Nat /\ lo <= k /\ k <= hi /\ hi <= l
  BY <1>1, <1>3, <1>4, <1>8
<1> HIDE DEF lo, hi
<1>10. /\ Len(SubSeq(s, lo, hi)) = hi - lo + 1
       /\ SubSeq(s, lo, hi)[k - lo + 1] = s[k]
       /\ k - lo + 1 \in DOMAIN SubSeq(s, lo, hi)
  <2>1. \A j \in lo .. hi : s[j] \in S
    BY <1>1, <1>9
  <2>2. /\ SubSeq(s, lo, hi) \in Seq(S) /\ Len(SubSeq(s, lo, hi)) = hi - lo + 1
        /\ \A j \in 1 .. hi - lo + 1 : SubSeq(s, lo, hi)[j] = s[lo + j - 1]
    BY <1>3, <1>9, <2>1, SubSeqProperties
  <2>3. k - lo + 1 \in 1 .. hi - lo + 1 /\ lo + (k - lo + 1) - 1 = k
    BY <1>3, <1>9
  <2> QED
    BY <2>2, <2>3
<1>11. Split(s, n)[q + 1] = SubSeq(s, lo, hi) /\ q + 1 \in DOMAIN Split(s, n)
  BY <1>6, <1>7 DEF lo, hi
<1> QED
  BY <1>2, <1>10, <1>11 DEF ToSet

\* When every batch has been scanned, so have all the children asked for.
LEMMA AllScanned ==
  ASSUME CallOK, request # None, \A j \in DOMAIN ParentBatches : Scanned(j)
  PROVE  Children(request.kind, ToSet(request.parents)) \subseteq seen[Scan]
<1>1. request.parents \in Seq(Place) /\ ToSet(request.parents) \subseteq Place
  BY DEF CallOK, ToSet
<1> SUFFICES ASSUME NEW p \in ToSet(request.parents), NEW x \in Below[request.kind][p]
             PROVE  x \in seen[Scan]
  BY DEF Children
<1>2. PICK j \in DOMAIN ParentBatches : p \in ToSet(ParentBatches[j])
  BY <1>1, PiecesCover, PlaceFetchAssumption DEF ParentBatches
<1>3. x \in Found(j, Place)
  BY <1>1, <1>2 DEF Found
<1> QED
  BY <1>2, <1>3 DEF Scanned

-----------------------------------------------------------------------------
(* What a walk has found                                                   *)

\* Where the walk is, and from which places it goes on.
SeedsOK == \A n \in DOMAIN seeds :
  n \in 0 .. MaxLevel /\ n \notin wanted /\ seeds[n] # <<>> /\ ToSet(seeds[n]) = Level[n]
PlaceOK ==
  /\ phase \in {"roots", "country_cities"} => level = 1 /\ scanned = {} /\ request = None
  /\ phase # "end" => level \in 1 .. MaxLevel + 2
  /\ \A n \in scanned : n <= level
  /\ phase = "seed_cities" => level > 1
  /\ phase \in {"seed", "seed_cities"} =>
       IF level = 1 THEN frontier = <<>> ELSE frontier # <<>> /\ ToSet(frontier) = Level[level - 1]
  /\ phase \in {"areas", "area_cities"} => ToSet(frontier) = Level[level - 1]
  /\ phase = "area_cities" => level <= MaxLevel + 1 /\ (typed => level <= MaxLevel)
RequestOK == request # None =>
  /\ phase \in {"seed", "areas", "area_cities"} /\ ToSet(request.parents) = Level[level - 1]
  /\ IF phase = "area_cities" THEN request.kind = AreaKind(level) ELSE request.kind = City /\ WithCities

\* The cities below the levels above the walk's have been seen, and those
\* below its own unless they are being asked for.
CitiesOK ==
  IF ~WithCities THEN seen["cities"] = {}
  ELSE /\ phase \in {"roots", "country_cities"} => seen["cities"] = {}
       /\ phase = "seed_cities" => seen["cities"] = CitiesTo(level - 1)
       /\ phase \in {"seed", "areas", "area_cities"} =>
            IF request # None /\ phase # "area_cities"
            THEN CitiesTo(level - 1) \subseteq seen["cities"] /\ seen["cities"] \subseteq CitiesTo(level)
            ELSE seen["cities"] = CitiesTo(level)

\* So have the areas: with a type per level, those of the level alone.
AreasOK ==
  /\ ~typed /\ phase \notin {"area_cities", "end"} => seen["areas"] = AreasTo(level - 1)
  /\ phase = "area_cities" =>
       /\ seen["areas"] = (IF typed THEN {} ELSE AreasTo(level - 1)) \cup ToSet(ordered)
       /\ ToSet(ordered) \subseteq Level[level]
       /\ request = None => ToSet(ordered) = Level[level]

\* What was asked for of what has been seen is listed.
ListedOK ==
  /\ phase = "roots" => listed = {}
  /\ phase \notin {"roots", "end"} =>
       listed = WantedTo(level - 1) \cup seen["cities"]
                  \cup (IF phase = "area_cities" /\ level \in WantedLevels THEN ToSet(ordered) ELSE {})
  /\ phase = "end" => listed = Expected

MapOK == SeedsOK /\ PlaceOK /\ RequestOK /\ CitiesOK /\ AreasOK /\ ListedOK

\* The shared store's levels are read once.
LEMMA SeedsStay ==
  ASSUME SeedsOK, UNCHANGED optionVars
  PROVE  SeedsOK'
<1>1. seeds' = seeds /\ wanted' = wanted /\ Level' = Level
  BY SameMap
<1>2. \A n : ToSet(seeds[n])' = ToSet(seeds[n])
  BY <1>1 DEF ToSet
<1> QED
  BY <1>1, <1>2 DEF SeedsOK

\* A step that moves neither the walk nor the scans
LEMMA MapStays ==
  ASSUME MapOK, UNCHANGED <<walkVars, optionVars>>, request' = request, seen' = seen, ordered' = ordered,
         listed' = listed
  PROVE  MapOK'
<1>1. phase' = phase /\ level' = level /\ frontier' = frontier /\ scanned' = scanned /\ UNCHANGED optionVars
  BY DEF walkVars
<1>2. /\ typed' = typed /\ Level' = Level /\ Expected' = Expected /\ WantedLevels' = WantedLevels
      /\ wanted' = wanted
      /\ \A n : /\ AreasTo(n)' = AreasTo(n) /\ CitiesTo(n)' = CitiesTo(n) /\ WantedTo(n)' = WantedTo(n)
                /\ AreaKind(n)' = AreaKind(n)
  BY <1>1, SameMap
<1>3. ToSet(ordered)' = ToSet(ordered) /\ ToSet(frontier)' = ToSet(frontier)
      /\ ToSet(request.parents)' = ToSet(request.parents)
  BY <1>1 DEF ToSet
<1>4. SeedsOK'
  BY <1>1, SeedsStay DEF MapOK
<1>5. PlaceOK'
  BY <1>1, <1>2, <1>3 DEF MapOK, PlaceOK
<1>6. RequestOK'
  BY <1>1, <1>2, <1>3 DEF MapOK, RequestOK, WithCities
<1>7. CitiesOK'
  BY <1>1, <1>2, <1>3 DEF MapOK, CitiesOK, WithCities
<1>8. AreasOK'
  BY <1>1, <1>2, <1>3 DEF MapOK, AreasOK
<1>9. ListedOK'
  BY <1>1, <1>2, <1>3 DEF MapOK, ListedOK
<1> QED
  BY <1>4, <1>5, <1>6, <1>7, <1>8, <1>9 DEF MapOK

\* A flush finds children of the level above, and lists them if they were
\* asked for.
LEMMA FlushMaps ==
  ASSUME WalkInv, MapOK, request # None, NEW i, Flush(i)
  PROVE  MapOK'
<1>0. EmitterTypeOK /\ CallOK /\ OptionOK /\ WalkOK
  BY Parts
<1> DEFINE new == Found(i, Reported(i)) \ seen[Scan]
<1>1. /\ request' = request /\ ordered' = ordered \o Sorted(new) /\ new \in SUBSET Place
      /\ seen' = [seen EXCEPT ![Scan] = @ \cup new] /\ i = next /\ i \in pending
  BY FlushLists
<1>2. /\ phase' = phase /\ level' = level /\ frontier' = frontier /\ scanned' = scanned /\ UNCHANGED optionVars
  BY DEF Flush, StayInWalk, Keep, walkVars
<1>3. listed' = IF Emits THEN listed \cup new ELSE listed
  BY DEF Flush, FlushBatch, List, inventoryVars
<1>4. /\ typed' = typed /\ Level' = Level /\ Expected' = Expected /\ WantedLevels' = WantedLevels
      /\ wanted' = wanted
      /\ \A n : /\ AreasTo(n)' = AreasTo(n) /\ CitiesTo(n)' = CitiesTo(n) /\ WantedTo(n)' = WantedTo(n)
                /\ AreaKind(n)' = AreaKind(n)
  BY <1>2, SameMap
<1>5. new \subseteq Children(request.kind, ToSet(request.parents)) /\ new \cap seen[Scan] = {}
  <2>1. \A p \in ToSet(ParentBatches[i]) \cap Reported(i) : p \in ToSet(request.parents)
    <3>1. Reported(i) \subseteq ToSet(request.parents)
      <4>1. callback /\ i \in DOMAIN ParentChunks => ToSet(ParentChunks[i]) \subseteq ToSet(request.parents)
        BY <1>0, ChunksAreBatches, BatchTypes
      <4> QED
        BY <4>1 DEF Reported
    <3> QED
      BY <3>1
  <2> QED
    BY <2>1 DEF Found, Children
<1>6. seen \in [{"cities", "areas"} -> SUBSET Place] /\ ordered \in Seq(Place)
  BY <1>0 DEF EmitterTypeOK
<1> HIDE DEF new
<1>7. ToSet(ordered)' = ToSet(ordered) \cup new
  <2>1. Sorted(new) \in Seq(Place) /\ ToSet(Sorted(new)) = new
    BY <1>1, SortedPlaces
  <2>2. ToSet(ordered \o Sorted(new)) = ToSet(ordered) \cup ToSet(Sorted(new))
    BY <1>6, <2>1, ConcatSet
  <2> DEFINE u == ordered \o Sorted(new)
  <2>3. ordered' = u /\ ToSet(u) = ToSet(ordered) \cup new
    BY <1>1, <2>1, <2>2
  <2> HIDE DEF u
  <2> QED
    BY <2>3 DEF ToSet
<1>8. ToSet(frontier)' = ToSet(frontier) /\ ToSet(request.parents)' = ToSet(request.parents)
  BY <1>1, <1>2 DEF ToSet
<1>9. phase \in {"seed", "areas", "area_cities"} /\ ToSet(request.parents) = Level[level - 1]
      /\ IF phase = "area_cities" THEN request.kind = AreaKind(level) ELSE request.kind = City /\ WithCities
  BY DEF MapOK, RequestOK, WithCities
<1>10. level \in 1 .. MaxLevel + 2 /\ (phase = "area_cities" => level <= MaxLevel + 1 /\ (typed => level <= MaxLevel))
  BY <1>9 DEF MapOK, PlaceOK
<1>11. SeedsOK' /\ PlaceOK' /\ RequestOK'
  <2>1. SeedsOK'
    BY <1>2, SeedsStay DEF MapOK
  <2>2. PlaceOK'
    BY <1>1, <1>2, <1>4, <1>8 DEF MapOK, PlaceOK
  <2>3. RequestOK'
    BY <1>1, <1>2, <1>4, <1>8 DEF MapOK, RequestOK, WithCities
  <2> QED
    BY <2>1, <2>2, <2>3
<1>12. CASE phase # "area_cities"
  <2>1. request.kind = City /\ WithCities /\ Scan = "cities" /\ Emits
    BY <1>9, <1>12 DEF Scan, Emits
  <2>2. seen'["cities"] = seen["cities"] \cup new /\ seen'["areas"] = seen["areas"] /\ listed' = listed \cup new
    BY <1>1, <1>3, <1>6, <2>1
  <2>3. new \subseteq CitiesTo(level)
    BY <1>0, <1>5, <1>9, <1>10, <2>1, OneLevelMore
  <2>4. CitiesOK'
    BY <1>1, <1>2, <1>4, <1>9, <1>12, <2>1, <2>2, <2>3 DEF MapOK, CitiesOK, WithCities
  <2>5. AreasOK'
    BY <1>2, <1>4, <1>12, <2>2 DEF MapOK, AreasOK
  <2>6. ListedOK'
    BY <1>2, <1>4, <1>9, <1>12, <2>2 DEF MapOK, ListedOK
  <2> QED
    BY <1>11, <2>4, <2>5, <2>6 DEF MapOK
<1>13. CASE phase = "area_cities"
  <2>1. /\ AreaKind(level) \in Kind \ {City}
        /\ Level[level] = Children(AreaKind(level), Level[level - 1]) \ (IF typed THEN {} ELSE AreasTo(level - 1))
    <3>1. level \in 1 .. MaxLevel + 1
      BY <1>10, <1>13, Numbers
    <3> QED
      BY <1>0, <1>10, <1>13, <3>1, LevelBelow
  <2>2. request.kind = AreaKind(level) /\ Scan = "areas" /\ (Emits <=> level \in WantedLevels)
    BY <1>9, <1>13, <2>1 DEF Scan, Emits
  <2>3. seen'["areas"] = seen["areas"] \cup new /\ seen'["cities"] = seen["cities"]
    BY <1>1, <1>6, <2>2
  <2>4. new \subseteq Level[level]
    BY <1>5, <1>9, <1>13, <2>1, <2>2 DEF MapOK, AreasOK
  <2>5. CitiesOK'
    BY <1>1, <1>2, <1>4, <1>13, <2>3 DEF MapOK, CitiesOK, WithCities
  <2>6. AreasOK'
    BY <1>1, <1>2, <1>4, <1>7, <1>13, <2>3, <2>4 DEF MapOK, AreasOK
  <2>7. ListedOK'
    BY <1>2, <1>3, <1>4, <1>7, <1>13, <2>2, <2>3 DEF MapOK, ListedOK
  <2> QED
    BY <1>11, <2>5, <2>6, <2>7 DEF MapOK
<1> QED
  BY <1>12, <1>13

\* A chunk that was taken has been flushed, or waits for those before it.
TakenOK == request # None /\ callback /\ pc \in {"fetch", "flush", "advance", "write"} =>
  /\ \A c \in Chunk : In(c, "taken") => c < next \/ c \in pending \/ (c = next /\ pc \in {"advance", "write"})
  /\ pc = "fetch" /\ (\E c \in Chunk : In(c, "taken")) => next \notin pending

\* A call that returns has scanned the children of all its parents.
LEMMA CallIsWhole ==
  ASSUME WalkInv, OrderOK, TakenOK, StreamReturns
  PROVE  request # None /\ Children(request.kind, ToSet(request.parents)) \subseteq seen[Scan]
<1>0. EmitterTypeOK /\ CallOK
  BY Parts
<1>1. pc = "fetch" /\ AllTaken /\ ~Inline /\ request # None
  BY <1>0 DEF StreamReturns, CallOK, Calling
<1>2. ParentBatches \in Seq(Seq(Place)) /\ next \in Nat \ {0} /\ Chunk = DOMAIN ParentBatches
  BY <1>0, <1>1, BatchTypes DEF EmitterTypeOK, CallOK, Chunk
<1>3. next > Len(ParentBatches)
  <2>1. CASE ~callback
    BY <1>1, <1>2, <2>1 DEF Inline
  <2>2. CASE callback
    <3>1. \A c \in Chunk : In(c, "taken")
      BY <1>1 DEF AllTaken
    <3>2. next \notin Chunk
      <4> SUFFICES ASSUME next \in Chunk
                   PROVE  FALSE
        OBVIOUS
      <4>1. next < next \/ next \in pending
        BY <1>1, <2>2, <3>1 DEF TakenOK
      <4>2. next \notin pending
        BY <1>1, <2>2, <3>1 DEF TakenOK
      <4> QED
        BY <1>2, <4>1, <4>2
    <3> QED
      BY <1>2, <3>2
  <2> QED
    BY <2>1, <2>2
<1>4. \A j \in 1 .. next - 1 : Scanned(j)
  BY <1>1 DEF OrderOK
<1>5. \A j \in DOMAIN ParentBatches : j \in 1 .. next - 1
  BY <1>2, <1>3
<1>6. \A j \in DOMAIN ParentBatches : Scanned(j)
  BY <1>4, <1>5
<1> QED
  BY <1>0, <1>1, <1>6, AllScanned

\* A call that returns leaves a level that has been found as a whole.
LEMMA ReturnMaps ==
  ASSUME WalkInv, OrderOK, TakenOK, MapOK, StreamReturns
  PROVE  MapOK'
<1>0. EmitterTypeOK /\ CallOK /\ OptionOK /\ WalkOK
  BY Parts
<1>1. request # None /\ Children(request.kind, ToSet(request.parents)) \subseteq seen[Scan]
  BY CallIsWhole
<1>2. request' = None /\ seen' = seen /\ ordered' = ordered /\ listed' = listed
  BY DEF StreamReturns, Idle, emitterVars, inventoryVars
<1>3. phase' = phase /\ level' = level /\ frontier' = frontier /\ scanned' = scanned /\ UNCHANGED optionVars
  BY DEF StreamReturns, StayInWalk, Keep, walkVars
<1>4. /\ typed' = typed /\ Level' = Level /\ Expected' = Expected /\ WantedLevels' = WantedLevels
      /\ wanted' = wanted
      /\ \A n : /\ AreasTo(n)' = AreasTo(n) /\ CitiesTo(n)' = CitiesTo(n) /\ WantedTo(n)' = WantedTo(n)
                /\ AreaKind(n)' = AreaKind(n)
  BY <1>3, SameMap
<1>5. ToSet(ordered)' = ToSet(ordered) /\ ToSet(frontier)' = ToSet(frontier)
  BY <1>2, <1>3 DEF ToSet
<1>6. phase \in {"seed", "areas", "area_cities"} /\ ToSet(request.parents) = Level[level - 1]
      /\ IF phase = "area_cities" THEN request.kind = AreaKind(level) ELSE request.kind = City /\ WithCities
  BY <1>1 DEF MapOK, RequestOK
<1>7. level \in 1 .. MaxLevel + 2 /\ (phase = "area_cities" => level <= MaxLevel + 1 /\ (typed => level <= MaxLevel))
  BY <1>6 DEF MapOK, PlaceOK
<1>8. SeedsOK' /\ RequestOK'
  BY <1>2, <1>3, SeedsStay DEF MapOK, RequestOK
<1>9. PlaceOK'
  BY <1>2, <1>3, <1>4, <1>5 DEF MapOK, PlaceOK
<1>10. ListedOK'
  BY <1>2, <1>3, <1>4, <1>5 DEF MapOK, ListedOK
<1>11. CASE phase # "area_cities"
  <2>1. request.kind = City /\ WithCities /\ Scan = "cities"
    BY <1>6, <1>11 DEF Scan
  <2>2. CitiesTo(level) = CitiesTo(level - 1) \cup Children(City, Level[level - 1])
    BY <1>0, <1>7, OneLevelMore
  <2>3. CitiesTo(level - 1) \subseteq seen["cities"] /\ seen["cities"] \subseteq CitiesTo(level)
    BY <1>1, <1>6, <1>11, <2>1 DEF MapOK, CitiesOK
  <2>4. seen["cities"] = CitiesTo(level)
    BY <1>1, <1>6, <2>1, <2>2, <2>3
  <2>5. CitiesOK'
    BY <1>2, <1>3, <1>4, <1>6, <1>11, <2>1, <2>4 DEF CitiesOK, WithCities
  <2>6. AreasOK'
    BY <1>2, <1>3, <1>4, <1>11 DEF MapOK, AreasOK
  <2> QED
    BY <1>8, <1>9, <1>10, <2>5, <2>6 DEF MapOK
<1>12. CASE phase = "area_cities"
  <2>1. /\ AreaKind(level) \in Kind \ {City}
        /\ Level[level] = Children(AreaKind(level), Level[level - 1]) \ (IF typed THEN {} ELSE AreasTo(level - 1))
    <3>1. level \in 1 .. MaxLevel + 1
      BY <1>7, <1>12, Numbers
    <3> QED
      BY <1>0, <1>7, <1>12, <3>1, LevelBelow
  <2>2. request.kind = AreaKind(level) /\ Scan = "areas"
    BY <1>6, <1>12, <2>1 DEF Scan
  <2>3. seen["areas"] = (IF typed THEN {} ELSE AreasTo(level - 1)) \cup ToSet(ordered)
        /\ ToSet(ordered) \subseteq Level[level]
    BY <1>12 DEF MapOK, AreasOK
  <2>4. ToSet(ordered) = Level[level]
    BY <1>1, <1>6, <2>1, <2>2, <2>3
  <2>5. CitiesOK'
    BY <1>2, <1>3, <1>4, <1>12 DEF MapOK, CitiesOK, WithCities
  <2>6. AreasOK'
    BY <1>2, <1>3, <1>4, <1>5, <1>12, <2>3, <2>4 DEF AreasOK
  <2> QED
    BY <1>8, <1>9, <1>10, <2>5, <2>6 DEF MapOK
<1> QED
  BY <1>11, <1>12

\* The walk comes to a level, and looks for cities below the level above it
\* where it looks for cities at all.
LEMMA CitiesBelow ==
  ASSUME WalkInv, SeedsOK, request = None, UNCHANGED optionVars, PlaceOK', phase' \in {"seed", "areas"},
         NEW n \in 1 .. MaxLevel + 2, level' = n, NEW parents \in Seq(Place), ToSet(parents) = Level[n - 1],
         seen["cities"] = (IF WithCities THEN CitiesTo(n - 1) ELSE {}),
         ~typed => seen["areas"] = AreasTo(n - 1),
         listed = WantedTo(n - 1) \cup seen["cities"],
         IF WithCities THEN Stream(City, parents, "cities", FALSE)
         ELSE UNCHANGED <<fetchVars, emitterVars, inventoryVars>>
  PROVE  MapOK'
<1>0. EmitterTypeOK /\ OptionOK
  BY Parts
<1>1. /\ typed' = typed /\ Level' = Level /\ Expected' = Expected /\ WantedLevels' = WantedLevels
      /\ wanted' = wanted
      /\ \A k : /\ AreasTo(k)' = AreasTo(k) /\ CitiesTo(k)' = CitiesTo(k) /\ WantedTo(k)' = WantedTo(k)
                /\ AreaKind(k)' = AreaKind(k)
  BY SameMap
<1>2. seen' = seen /\ listed' = listed
  BY DEF Stream, Reset, emitterVars, inventoryVars
<1>3. CitiesTo(n) = CitiesTo(n - 1) \cup Children(City, Level[n - 1])
  BY <1>0, OneLevelMore
<1>4. IF parents = <<>> \/ ~WithCities THEN request' = None
      ELSE request' = [kind |-> City, parents |-> parents]
  BY DEF Stream, Queue, fetchVars
<1>5. parents = <<>> => Level[n - 1] = {}
  BY DEF ToSet
<1>6. SeedsOK'
  BY SeedsStay
<1>7. RequestOK'
  <2> SUFFICES ASSUME request' # None
               PROVE  RequestOK'
    BY DEF RequestOK
  <2>1. request'.kind = City /\ request'.parents = parents /\ WithCities
    BY <1>4
  <2>2. ToSet(request.parents)' = Level[n - 1]
    BY <2>1 DEF ToSet
  <2> QED
    BY <1>1, <2>1, <2>2 DEF RequestOK, WithCities
<1>8. CitiesOK'
  <2>1. CASE ~WithCities
    BY <1>1, <1>2, <2>1 DEF CitiesOK, WithCities
  <2>2. CASE WithCities
    <3>1. request' = None => seen["cities"] = CitiesTo(n)
      <4> SUFFICES ASSUME request' = None
                   PROVE  seen["cities"] = CitiesTo(n)
        OBVIOUS
      <4>1. parents = <<>>
        <5>1. [kind |-> City, parents |-> parents] # None
          BY PlaceFetchAssumption, DiscoveryAssumption
        <5> QED
          BY <1>4, <2>2, <5>1
      <4>2. Children(City, Level[n - 1]) = {}
        BY <1>5, <4>1 DEF Children
      <4> QED
        BY <1>3, <2>2, <4>2
    <3>2. CitiesTo(n - 1) \subseteq seen["cities"] /\ seen["cities"] \subseteq CitiesTo(n)
      BY <1>3, <2>2
    <3> QED
      BY <1>1, <1>2, <2>2, <3>1, <3>2 DEF CitiesOK, WithCities
  <2> QED
    BY <2>1, <2>2
<1>9. AreasOK'
  BY <1>1, <1>2 DEF AreasOK
<1>10. ListedOK'
  BY <1>1, <1>2 DEF ListedOK
<1> QED
  BY <1>6, <1>7, <1>8, <1>9, <1>10 DEF MapOK

\* The walk starts at the countries, seeded or not.
LEMMA CountriesAreTheTop ==
  ASSUME WalkOK, OptionOK, SeedsOK
  PROVE  EnsureCountries \in Seq(Place) /\ ToSet(EnsureCountries) = Level[0]
<1>1. Level[0] = ToSet(Countries)
  BY LevelTypes
<1> QED
  BY <1>1, CountriesAreAList DEF EnsureCountries, SeedsOK

\* The first steps of the walk, and where it comes to an end
LEMMA EndsMap ==
  ASSUME WalkInv, MapOK, request = None, Roots \/ EndAreas \/ NoAreas
  PROVE  MapOK'
<1>0. EmitterTypeOK /\ OptionOK /\ WalkOK
  BY Parts
<1>1. /\ UNCHANGED optionVars /\ scanned' = scanned /\ request' = None /\ seen' = seen /\ ordered' = ordered
      /\ phase \in {"roots", "areas", "area_cities"}
  BY DEF Roots, EndAreas, NoAreas, Keep, At, fetchVars, emitterVars
<1>2. /\ typed' = typed /\ Level' = Level /\ Expected' = Expected /\ WantedLevels' = WantedLevels
      /\ wanted' = wanted
      /\ \A n : /\ AreasTo(n)' = AreasTo(n) /\ CitiesTo(n)' = CitiesTo(n) /\ WantedTo(n)' = WantedTo(n)
                /\ AreaKind(n)' = AreaKind(n)
  BY <1>1, SameMap
<1>3. SeedsOK' /\ RequestOK'
  BY <1>1, SeedsStay DEF MapOK, RequestOK
<1>4. level \in 1 .. MaxLevel + 2
  BY <1>1 DEF MapOK, PlaceOK
<1>5. \A n \in scanned : n <= level
  BY DEF MapOK, PlaceOK
<1>6. CASE Roots
  <2>1. phase = "roots" /\ level = 1 /\ scanned = {} /\ listed = {}
    BY <1>6 DEF Roots, At, MapOK, PlaceOK, ListedOK
  <2>2. /\ phase' = (IF WithCities \/ WantedLevels # {} THEN "country_cities" ELSE "end")
        /\ level' = 1 /\ frontier' = <<>>
    BY <1>6 DEF Roots, Walk
  <2>3. seen["cities"] = {} /\ (~typed => seen["areas"] = AreasTo(0))
    BY <2>1 DEF MapOK, CitiesOK, AreasOK
  <2>4. listed' = WantedTo(0)
    <3>1. ToSet(EnsureCountries) = Level[0]
      BY <1>0, CountriesAreTheTop DEF MapOK
    <3>2. WantedTo(0) = (IF 0 \in wanted THEN Level[0] ELSE {})
      BY <1>0, OneLevelMore
    <3> QED
      BY <1>6, <2>1, <3>1, <3>2 DEF Roots, List, inventoryVars
  <2>5. PlaceOK'
    BY <1>1, <2>1, <2>2, Numbers DEF PlaceOK
  <2>6. CitiesOK'
    BY <1>1, <1>2, <2>2, <2>3 DEF CitiesOK, WithCities
  <2>7. AreasOK'
    BY <1>1, <1>2, <2>2, <2>3 DEF AreasOK
  <2>8. ListedOK'
    <3>1. CASE WithCities \/ WantedLevels # {}
      <4>1. phase' = "country_cities" /\ level' - 1 = 0
        BY <2>2, <3>1
      <4> QED
        BY <1>1, <1>2, <2>3, <2>4, <4>1 DEF ListedOK
    <3>2. CASE ~(WithCities \/ WantedLevels # {})
      <4>1. phase' = "end"
        BY <2>2, <3>2
      <4>2. 1 \in 1 .. MaxLevel + 2 /\ 1 - 1 = 0
        BY Numbers
      <4>3. WantedTo(1 - 1) \cup (IF WithCities THEN CitiesTo(1) ELSE {}) = Expected
        BY <1>0, <3>2, <4>2, EverythingFound
      <4> QED
        BY <1>2, <2>4, <3>2, <4>1, <4>2, <4>3 DEF ListedOK
    <3> QED
      BY <3>1, <3>2
  <2> QED
    BY <1>3, <2>5, <2>6, <2>7, <2>8 DEF MapOK
<1>7. CASE EndAreas \/ NoAreas
  <2>1. phase' = "end" /\ level' = level /\ listed' = listed /\ phase \in {"areas", "area_cities"}
    BY <1>7 DEF EndAreas, NoAreas, Walk, At, inventoryVars
  <2>2. seen["cities"] = (IF WithCities THEN CitiesTo(level) ELSE {})
    BY <2>1 DEF MapOK, CitiesOK
  <2>3. \A m \in level .. MaxLevel + 1 : m \in WantedLevels \/ WithCities => Level[m] = {}
    <3>1. CASE EndAreas
      <4>1. level > Deepest \/ (typed /\ level > MaxLevel)
        BY <1>0, <1>4, <3>1, DeepestLevel, Numbers DEF EndAreas, MoreLevels, OptionOK
      <4>2. \A m \in WantedLevels : m <= MaxLevel /\ m \in Nat
        BY DEF WantedLevels
      <4>3. \A m \in level .. MaxLevel + 1 : m \notin WantedLevels
        BY <1>0, <1>4, <4>1, <4>2, DeepestLevel, Numbers
      <4>4. ASSUME WithCities, NEW m \in level .. MaxLevel + 1
            PROVE  Level[m] = {}
        <5>1. Deepest = MaxLevel + 1
          BY <1>0, <4>4, DeepestLevel
        <5>2. typed /\ m = MaxLevel + 1
          BY <1>4, <4>1, <4>4, <5>1, Numbers
        <5> QED
          BY <1>0, <5>2, LevelTypes
      <4> QED
        BY <4>3, <4>4
    <3>2. CASE NoAreas
      <4>1. phase = "area_cities" /\ ordered = <<>>
        BY <3>2 DEF NoAreas, At
      <4>2. ToSet(ordered) = Level[level] /\ level <= MaxLevel + 1
        BY <4>1 DEF MapOK, AreasOK, PlaceOK
      <4>3. Level[level] = {}
        BY <4>1, <4>2 DEF ToSet
      <4>4. level \in 0 .. MaxLevel + 1
        BY <1>4, <4>2, Numbers
      <4> QED
        BY <1>0, <4>3, <4>4, NothingBelow
    <3> QED
      BY <1>7, <3>1, <3>2
  <2>4. WantedTo(level - 1) \cup (IF WithCities THEN CitiesTo(level) ELSE {}) = Expected
    BY <1>0, <1>4, <2>3, EverythingFound
  <2>5. phase = "area_cities" /\ level \in WantedLevels => ToSet(ordered) = {}
    <3>1. CASE NoAreas
      BY <3>1 DEF NoAreas, ToSet
    <3>2. CASE EndAreas
      BY <3>2 DEF EndAreas, At
    <3> QED
      BY <1>7, <3>1, <3>2
  <2>6. listed = Expected
    BY <2>1, <2>2, <2>4, <2>5 DEF MapOK, ListedOK
  <2>7. PlaceOK'
    BY <1>1, <1>5, <2>1 DEF PlaceOK
  <2>8. CitiesOK'
    BY <1>1, <1>2, <2>1, <2>2 DEF CitiesOK, WithCities
  <2>9. AreasOK'
    BY <2>1 DEF AreasOK
  <2>10. ListedOK'
    BY <1>2, <2>1, <2>6 DEF ListedOK
  <2> QED
    BY <1>3, <2>7, <2>8, <2>9, <2>10 DEF MapOK
<1> QED
  BY <1>6, <1>7

\* The levels that the shared store has
LEMMA SeedsMap ==
  ASSUME WalkInv, MapOK, request = None, CountryCities \/ Seed \/ SeedCities \/ EndSeeds
  PROVE  MapOK'
<1>0. EmitterTypeOK /\ OptionOK /\ WalkOK
  BY Parts
<1>1. UNCHANGED optionVars
  BY DEF CountryCities, Seed, SeedCities, EndSeeds, Keep
<1>2. /\ typed' = typed /\ Level' = Level /\ Expected' = Expected /\ WantedLevels' = WantedLevels
      /\ wanted' = wanted /\ seeds' = seeds
      /\ \A n : /\ AreasTo(n)' = AreasTo(n) /\ CitiesTo(n)' = CitiesTo(n) /\ WantedTo(n)' = WantedTo(n)
                /\ AreaKind(n)' = AreaKind(n)
  BY <1>1, SameMap
<1>3. EnsureCountries \in Seq(Place) /\ ToSet(EnsureCountries) = Level[0]
  BY <1>0, CountriesAreTheTop DEF MapOK
<1>4. SeedsOK /\ SeedsOK'
  BY <1>1, SeedsStay DEF MapOK
<1>5. CASE CountryCities
  <2>1. phase = "country_cities" /\ level = 1 /\ scanned = {} /\ phase' = "seed" /\ level' = 1 /\ frontier' = <<>>
    BY <1>5 DEF CountryCities, At, Walk, MapOK, PlaceOK
  <2>2. 1 \in 1 .. MaxLevel + 2 /\ 1 - 1 = 0
    BY Numbers
  <2>3. scanned' \in {{1}, {}}
    BY <1>5, <2>1 DEF CountryCities
  <2>4. PlaceOK'
    BY <2>1, <2>2, <2>3 DEF PlaceOK
  <2>5. seen["cities"] = (IF WithCities THEN CitiesTo(1 - 1) ELSE {}) /\ (~typed => seen["areas"] = AreasTo(1 - 1))
    <3>1. CitiesTo(0) = {}
      BY <1>0, OneLevelMore
    <3> QED
      BY <2>1, <2>2, <3>1 DEF MapOK, CitiesOK, AreasOK
  <2>6. listed = WantedTo(1 - 1) \cup seen["cities"]
    BY <2>1 DEF MapOK, ListedOK
  <2>7. IF WithCities THEN Stream(City, EnsureCountries, "cities", FALSE)
        ELSE UNCHANGED <<fetchVars, emitterVars, inventoryVars>>
    BY <1>5 DEF CountryCities
  <2> QED
    BY <1>1, <1>3, <1>4, <2>1, <2>2, <2>4, <2>5, <2>6, <2>7, CitiesBelow
<1>6. CASE SeedCities
  <2>1. phase = "seed_cities" /\ phase' = "seed" /\ level' = level /\ frontier' = frontier
    BY <1>6 DEF SeedCities, At, Walk
  <2>2. level \in 1 .. MaxLevel + 2 /\ level > 1 /\ frontier # <<>> /\ ToSet(frontier) = Level[level - 1]
        /\ \A n \in scanned : n <= level
    BY <2>1 DEF MapOK, PlaceOK
  <2>3. scanned' = scanned \cup {level} \/ scanned' = scanned
    BY <1>6 DEF SeedCities
  <2>4. PlaceOK'
    <3>1. \A n \in scanned' : n <= level'
      BY <2>1, <2>2, <2>3
    <3>2. ToSet(frontier)' = ToSet(frontier)
      BY <2>1 DEF ToSet
    <3> QED
      BY <1>2, <2>1, <2>2, <3>1, <3>2 DEF PlaceOK
  <2>5. seen["cities"] = (IF WithCities THEN CitiesTo(level - 1) ELSE {})
        /\ (~typed => seen["areas"] = AreasTo(level - 1))
    BY <2>1 DEF MapOK, CitiesOK, AreasOK
  <2>6. listed = WantedTo(level - 1) \cup seen["cities"]
    BY <2>1 DEF MapOK, ListedOK
  <2>7. IF WithCities THEN Stream(City, frontier, "cities", FALSE)
        ELSE UNCHANGED <<fetchVars, emitterVars, inventoryVars>>
    BY <1>6 DEF SeedCities
  <2>8. frontier \in Seq(Place)
    BY <1>0 DEF WalkOK
  <2> QED
    BY <1>1, <1>4, <2>1, <2>2, <2>4, <2>5, <2>6, <2>7, <2>8, CitiesBelow
<1>7. CASE Seed
  <2>1. /\ phase = "seed" /\ phase' = "seed_cities" /\ level \in DOMAIN seeds /\ level' = level + 1
        /\ frontier' = seeds[level] /\ request' = request /\ ordered' = ordered /\ listed' = listed
        /\ scanned' = scanned
        /\ seen' = IF typed THEN seen ELSE [seen EXCEPT !["areas"] = @ \cup ToSet(seeds[level])]
    BY <1>7 DEF Seed, At, Walk, fetchVars, inventoryVars
  <2>2. level \in 0 .. MaxLevel /\ level \notin wanted /\ seeds[level] # <<>> /\ ToSet(seeds[level]) = Level[level]
    BY <1>4, <2>1 DEF SeedsOK
  <2>3. level \in 1 .. MaxLevel + 1 /\ level' - 1 = level /\ level' \in 1 .. MaxLevel + 2 /\ level' > 1
        /\ (\A n \in scanned : n <= level')
    <3>1. level \in 1 .. MaxLevel + 2 /\ \A n \in scanned : n <= level
      BY <2>1 DEF MapOK, PlaceOK
    <3>2. \A n \in scanned : n \in Int
      BY <1>0 DEF OptionOK
    <3> QED
      BY <2>1, <2>2, <3>1, <3>2, Numbers
  <2>4. seen["cities"] = (IF WithCities THEN CitiesTo(level) ELSE {}) /\ (~typed => seen["areas"] = AreasTo(level - 1))
        /\ listed = WantedTo(level - 1) \cup seen["cities"]
    BY <2>1 DEF MapOK, CitiesOK, AreasOK, ListedOK
  <2>5. AreasTo(level) = AreasTo(level - 1) \cup Level[level] /\ WantedTo(level) = WantedTo(level - 1)
    <3>1. level \notin WantedLevels
      BY <2>2 DEF WantedLevels
    <3>2. /\ AreasTo(level) = AreasTo(level - 1) \cup Level[level]
          /\ WantedTo(level) = WantedTo(level - 1) \cup (IF level \in WantedLevels THEN Level[level] ELSE {})
      BY <1>0, <2>3, OneLevelMore
    <3> QED
      BY <3>1, <3>2
  <2>6. seen'["cities"] = seen["cities"] /\ (~typed => seen'["areas"] = AreasTo(level))
    <3>1. seen \in [{"cities", "areas"} -> SUBSET Place]
      BY <1>0 DEF EmitterTypeOK
    <3> QED
      BY <2>1, <2>2, <2>4, <2>5, <3>1
  <2>7. ToSet(frontier)' = Level[level]
    <3> DEFINE f == seeds[level]
    <3>1. frontier' = f /\ ToSet(f) = Level[level]
      BY <2>1, <2>2
    <3> HIDE DEF f
    <3> QED
      BY <3>1 DEF ToSet
  <2>8. PlaceOK'
    BY <1>2, <2>1, <2>2, <2>3, <2>7 DEF PlaceOK
  <2>9. RequestOK'
    BY <2>1 DEF RequestOK
  <2>10. CitiesOK'
    BY <1>2, <2>1, <2>3, <2>4, <2>6 DEF CitiesOK, WithCities
  <2>11. AreasOK'
    BY <1>2, <2>1, <2>3, <2>6 DEF AreasOK
  <2>12. ListedOK'
    BY <1>2, <2>1, <2>3, <2>4, <2>5, <2>6 DEF ListedOK
  <2> QED
    BY <1>4, <2>8, <2>9, <2>10, <2>11, <2>12 DEF MapOK
<1>8. CASE EndSeeds
  <2>1. /\ phase = "seed" /\ phase' = "areas" /\ level' = level /\ request' = request /\ ordered' = ordered
        /\ seen' = seen /\ listed' = listed /\ scanned' = scanned
        /\ frontier' = IF frontier = <<>> THEN EnsureCountries ELSE frontier
    BY <1>8 DEF EndSeeds, At, Walk, StartLevel, fetchVars, emitterVars, inventoryVars
  <2>2. level \in 1 .. MaxLevel + 2 /\ (\A n \in scanned : n <= level)
        /\ IF level = 1 THEN frontier = <<>> ELSE frontier # <<>> /\ ToSet(frontier) = Level[level - 1]
    BY <2>1 DEF MapOK, PlaceOK
  <2>3. ToSet(frontier)' = Level[level - 1]
    <3> DEFINE f == IF frontier = <<>> THEN EnsureCountries ELSE frontier
    <3>1. frontier' = f /\ ToSet(f) = Level[level - 1]
      BY <1>3, <2>1, <2>2
    <3> HIDE DEF f
    <3> QED
      BY <3>1 DEF ToSet
  <2>4. PlaceOK'
    BY <1>2, <2>1, <2>2, <2>3 DEF PlaceOK
  <2>5. RequestOK'
    BY <2>1 DEF RequestOK
  <2>6. CitiesOK'
    BY <1>2, <2>1 DEF MapOK, CitiesOK, WithCities
  <2>7. AreasOK'
    BY <1>2, <2>1 DEF MapOK, AreasOK
  <2>8. ListedOK'
    BY <1>2, <2>1 DEF MapOK, ListedOK
  <2> QED
    BY <1>4, <2>4, <2>5, <2>6, <2>7, <2>8 DEF MapOK
<1> QED
  BY <1>5, <1>6, <1>7, <1>8

\* The levels that are asked for
LEMMA AreasMap ==
  ASSUME WalkInv, MapOK, request = None, Areas \/ AreaCities
  PROVE  MapOK'
<1>0. EmitterTypeOK /\ OptionOK /\ WalkOK
  BY Parts
<1>1. UNCHANGED optionVars
  BY DEF Areas, AreaCities, Keep
<1>2. /\ typed' = typed /\ Level' = Level /\ Expected' = Expected /\ WantedLevels' = WantedLevels
      /\ wanted' = wanted
      /\ \A n : /\ AreasTo(n)' = AreasTo(n) /\ CitiesTo(n)' = CitiesTo(n) /\ WantedTo(n)' = WantedTo(n)
                /\ AreaKind(n)' = AreaKind(n)
  BY <1>1, SameMap
<1>3. SeedsOK /\ SeedsOK'
  BY <1>1, SeedsStay DEF MapOK
<1>4. CASE Areas
  <2>1. /\ phase = "areas" /\ phase' = "area_cities" /\ frontier' = frontier /\ level' = level /\ scanned' = scanned
        /\ Stream(AreaKind(level), frontier, "areas", typed) /\ MoreLevels
    BY <1>4 DEF Areas, At
  <2>2. level \in 1 .. MaxLevel + 2 /\ ToSet(frontier) = Level[level - 1] /\ \A n \in scanned : n <= level
    BY <2>1 DEF MapOK, PlaceOK
  <2>3. level <= MaxLevel + 1 /\ (typed => level <= MaxLevel) /\ level \in 1 .. MaxLevel + 1
    BY <1>0, <2>1, <2>2, DeepestLevel, Numbers DEF MoreLevels
  <2>4. /\ ordered' = <<>> /\ listed' = listed
        /\ seen' = IF typed THEN [seen EXCEPT !["areas"] = {}] ELSE seen
    BY <2>1 DEF Stream, Reset, inventoryVars
  <2>5. seen'["cities"] = seen["cities"] /\ seen'["areas"] = (IF typed THEN {} ELSE AreasTo(level - 1))
    <3>1. seen \in [{"cities", "areas"} -> SUBSET Place] /\ typed \in BOOLEAN
      BY <1>0 DEF EmitterTypeOK, OptionOK
    <3>2. ~typed => seen["areas"] = AreasTo(level - 1)
      BY <2>1 DEF MapOK, AreasOK
    <3> QED
      BY <2>4, <3>1, <3>2
  <2>6. ToSet(ordered)' = {} /\ ToSet(frontier)' = ToSet(frontier)
    BY <2>1, <2>4 DEF ToSet
  <2>7. IF frontier = <<>> THEN request' = None ELSE request' = [kind |-> AreaKind(level), parents |-> frontier]
    BY <2>1 DEF Stream, Queue, fetchVars
  <2>8. PlaceOK'
    BY <1>2, <2>1, <2>2, <2>3, <2>6 DEF PlaceOK
  <2>9. RequestOK'
    <3> SUFFICES ASSUME request' # None
                 PROVE  RequestOK'
      BY DEF RequestOK
    <3>1. request'.kind = AreaKind(level) /\ request'.parents = frontier
      BY <2>7
    <3>2. ToSet(request.parents)' = Level[level - 1]
      BY <2>2, <3>1 DEF ToSet
    <3> QED
      BY <1>2, <2>1, <3>1, <3>2 DEF RequestOK
  <2>10. CitiesOK'
    BY <1>2, <2>1, <2>5 DEF MapOK, CitiesOK, WithCities
  <2>11. AreasOK'
    <3>1. request' = None => Level[level] = {}
      <4> SUFFICES ASSUME request' = None
                   PROVE  Level[level] = {}
        OBVIOUS
      <4>1. AreaKind(level) \in Kind /\ Level[level] \subseteq Children(AreaKind(level), Level[level - 1])
        BY <1>0, <2>3, LevelBelow
      <4>2. frontier \in Seq(Place)
        BY <1>0 DEF WalkOK
      <4>3. [kind |-> AreaKind(level), parents |-> frontier] # None
        BY <4>1, <4>2, PlaceFetchAssumption
      <4>4. frontier = <<>>
        BY <2>7, <4>3
      <4>5. Level[level - 1] = {}
        BY <2>2, <4>4 DEF ToSet
      <4> QED
        BY <4>1, <4>5 DEF Children
    <3> QED
      BY <1>2, <2>1, <2>5, <2>6, <3>1 DEF AreasOK
  <2>12. ListedOK'
    BY <1>2, <2>1, <2>4, <2>5, <2>6 DEF MapOK, ListedOK
  <2> QED
    BY <1>3, <2>8, <2>9, <2>10, <2>11, <2>12 DEF MapOK
<1>5. CASE AreaCities
  <2>1. /\ phase = "area_cities" /\ phase' = "areas" /\ level' = level + 1 /\ frontier' = ordered /\ scanned' = scanned
    BY <1>5 DEF AreaCities, At, Walk
  <2>2. level \in 1 .. MaxLevel + 2 /\ level <= MaxLevel + 1 /\ \A n \in scanned : n <= level
    BY <2>1 DEF MapOK, PlaceOK
  <2>3. /\ level \in 1 .. MaxLevel + 1 /\ level + 1 \in 1 .. MaxLevel + 2 /\ (level + 1) - 1 = level
        /\ level + 1 \notin scanned /\ \A n \in scanned : n <= level + 1
    <3>1. \A n \in scanned : n \in Int
      BY <1>0 DEF OptionOK
    <3> QED
      BY <2>2, <3>1, Numbers
  <2>4. ToSet(ordered) = Level[level] /\ seen["areas"] = (IF typed THEN {} ELSE AreasTo(level - 1)) \cup ToSet(ordered)
    BY <2>1 DEF MapOK, AreasOK
  <2>5. AreasTo(level) = AreasTo(level - 1) \cup Level[level]
        /\ WantedTo(level) = WantedTo(level - 1) \cup (IF level \in WantedLevels THEN Level[level] ELSE {})
    BY <1>0, <2>3, OneLevelMore
  <2>6. ~typed => seen["areas"] = AreasTo(level)
    BY <2>4, <2>5
  <2>7. seen["cities"] = (IF WithCities THEN CitiesTo(level) ELSE {})
    BY <2>1 DEF MapOK, CitiesOK
  <2>8. listed = WantedTo(level) \cup seen["cities"]
    <3>1. listed = WantedTo(level - 1) \cup seen["cities"] \cup (IF level \in WantedLevels THEN Level[level] ELSE {})
      BY <2>1, <2>4 DEF MapOK, ListedOK
    <3> QED
      BY <2>5, <3>1
  <2>9. IF WithCities THEN Stream(City, ordered, "cities", FALSE)
        ELSE UNCHANGED <<fetchVars, emitterVars, inventoryVars>>
    BY <1>5, <2>3 DEF AreaCities
  <2>10. ToSet(frontier)' = Level[level]
    BY <2>1, <2>4 DEF ToSet
  <2>11. PlaceOK'
    BY <1>2, <2>1, <2>3, <2>10 DEF PlaceOK
  <2>12. ordered \in Seq(Place)
    BY <1>0 DEF EmitterTypeOK
  <2> DEFINE n == level + 1
  <2>13. n \in 1 .. MaxLevel + 2 /\ level' = n /\ n - 1 = level
    BY <2>1, <2>3
  <2> HIDE DEF n
  <2> QED
    BY <1>1, <1>3, <2>1, <2>4, <2>6, <2>7, <2>8, <2>9, <2>11, <2>12, <2>13, CitiesBelow
<1> QED
  BY <1>4, <1>5

\* The steps of the walk, between its calls
LEMMA WalkStepsMap ==
  ASSUME WalkInv, MapOK,
         Roots \/ CountryCities \/ Seed \/ SeedCities \/ EndSeeds \/ Areas \/ EndAreas \/ NoAreas
         \/ AreaCities \/ End \/ Listed \/ Close \/ ProgressRaises
  PROVE  MapOK'
<1>1. request = None
  <2>1. pc \in {"walk", "list", "close"}
    BY DEF At, Roots, CountryCities, Seed, SeedCities, EndSeeds, Areas, EndAreas, NoAreas, AreaCities, End,
           Listed, Close, ProgressRaises
  <2> QED
    BY <2>1 DEF WalkInv, CallOK
<1>2. CASE End \/ Listed \/ Close \/ ProgressRaises
  <2>1. UNCHANGED <<walkVars, optionVars>> /\ request' = request /\ seen' = seen /\ ordered' = ordered
        /\ listed' = listed
    BY <1>2 DEF End, Listed, Close, ProgressRaises, Keep, StayInWalk, fetchVars, emitterVars, inventoryVars
  <2> QED
    BY <2>1, MapStays
<1> QED
  BY <1>1, <1>2, EndsMap, SeedsMap, AreasMap

\* Every step keeps what is known of the map.
LEMMA MapSteps ==
  ASSUME WalkInv, OrderOK, TakenOK, MapOK, [Next]_vars
  PROVE  MapOK'
<1>1. CASE \/ GiveUp \/ EndFlush \/ Again \/ RecordInline \/ Advance \/ WriteChunk \/ WriteFails
           \/ (\E c \in Chunk : Take(c) \/ ChunkRaises(c)) \/ (\E c \in Chunk : PoolStep(c))
           \/ Ended \/ UNCHANGED vars
  <2>1. UNCHANGED <<walkVars, optionVars>>
    BY <1>1 DEF GiveUp, EndFlush, Again, RecordInline, Advance, WriteChunk, WriteFails, Take, ChunkRaises,
       PoolStep, Ended, vars, StayInWalk, Keep
  <2>2. seen' = seen /\ ordered' = ordered /\ listed' = listed
    BY <1>1 DEF GiveUp, EndFlush, Again, RecordInline, Advance, EndBatch, WriteChunk, WriteFails, Write, Drop, Take,
       ChunkRaises, PoolStep, Ended, vars, emitterVars, inventoryVars
  <2>3. request' = request
    <3>1. CASE \E c \in Chunk : PoolStep(c)
      BY <3>1, PoolKeeps
    <3>2. CASE ~(\E c \in Chunk : PoolStep(c))
      BY <1>1, <3>2 DEF GiveUp, EndFlush, Again, Requeue, RecordInline, Advance, WriteChunk, WriteFails, Take,
         Become, ChunkRaises, Ended, vars, fetchVars
    <3> QED
      BY <3>1, <3>2
  <2> QED
    BY <2>1, <2>2, <2>3, MapStays
<1>2. CASE StreamReturns
  BY <1>2, ReturnMaps
<1>3. CASE \E i \in pending : Flush(i)
  <2>1. PICK i \in pending : Flush(i)
    BY <1>3
  <2>2. request # None
    BY <2>1 DEF Flush, WalkInv, CallOK, Calling
  <2> QED
    BY <2>1, <2>2, FlushMaps
<1> QED
  BY <1>1, <1>2, <1>3, WalkStepsMap DEF Next, WalkStep

\* A step of the pool takes no chunk.
LEMMA PoolTakesNone ==
  ASSUME WalkInv, NEW c \in Chunk, WorkerStep(c)
  PROVE  Chunk' = Chunk /\ \A d \in Chunk : In(d, "taken")' => In(d, "taken")
<1>1. PICK state \in {"running", "ready", "failed"} : \E pieces : Become(c, state, pieces)
  BY DEF WorkerStep, Begin, Answer, Refuse, Store, StoreFails
<1>2. PICK pieces : work' = [work EXCEPT ![c] = [is |-> state, left |-> pieces]]
  BY <1>1 DEF Become
<1>3. \A d \in Chunk : In(d, "taken")' => In(d, "taken")
  BY <1>2 DEF In, Chunk
<1>4. Chunk' = Chunk
  BY <1>2 DEF Chunk
<1> QED
  BY <1>3, <1>4

\* No chunk that was taken is passed over.
LEMMA TakenSteps ==
  ASSUME WalkInv, TakenOK, [Next]_vars
  PROVE  TakenOK'
<1>0. EmitterTypeOK /\ CallOK /\ OptionOK
  BY Parts
<1>1. callback' = callback
  <2>1. CASE \E c \in Chunk : PoolStep(c)
    BY <2>1 DEF PoolStep, optionVars
  <2>2. CASE WalkStep \/ Ended \/ UNCHANGED vars
    BY <2>2 DEF WalkStep, Roots, CountryCities, Seed, SeedCities, EndSeeds, Areas, EndAreas, NoAreas, AreaCities, End,
       Again, GiveUp, RecordInline, StreamReturns, EndFlush, Advance, WriteChunk, WriteFails, Listed, Close,
       ProgressRaises, Take, ChunkRaises, Flush, Ended, vars, StayInWalk, Keep, optionVars
  <2> QED
    BY <2>1, <2>2 DEF Next
<1>2. CASE pc' \in {"walk", "list", "drain", "close", "done", "failed"} \/ request' = None \/ ~callback
  BY <1>1, <1>2 DEF TakenOK
<1>3. CASE \E kind, parents, scan, own : Stream(kind, parents, scan, own)
  <2>1. CASE pc' = "walk"
    BY <1>2, <2>1
  <2>2. CASE pc' # "walk"
    <3>1. PICK kind, parents : Queue(kind, parents)
      BY <1>3, <2>2 DEF Stream
    <3>2. \A c \in Chunk' : ~In(c, "taken")'
      BY <3>1 DEF Queue, In, Chunk
    <3> QED
      BY <3>2 DEF TakenOK
  <2> QED
    BY <2>1, <2>2
<1>4. CASE CountryCities \/ SeedCities \/ Areas \/ AreaCities
  <2>1. (\E kind, parents, scan, own : Stream(kind, parents, scan, own)) \/ pc' = "walk"
    BY <1>4 DEF CountryCities, SeedCities, Areas, AreaCities
  <2> QED
    BY <1>2, <1>3, <2>1
<1>5. CASE Roots \/ Seed \/ EndSeeds \/ EndAreas \/ NoAreas \/ End \/ Listed \/ Close \/ ProgressRaises
           \/ GiveUp \/ StreamReturns \/ \E c \in Chunk : ChunkRaises(c)
  <2>1. pc' \in {"walk", "list", "drain", "close", "done", "failed"}
    BY <1>5 DEF Roots, Seed, EndSeeds, EndAreas, NoAreas, End, Listed, Close, ProgressRaises, GiveUp,
       StreamReturns, ChunkRaises, At
  <2> QED
    BY <1>2, <2>1
<1>6. CASE Again
  <2>1. \A c \in Chunk' : ~In(c, "taken")'
    BY <1>6 DEF Again, Requeue, In, Chunk
  <2> QED
    BY <2>1 DEF TakenOK
<1>7. CASE RecordInline
  BY <1>2, <1>7 DEF RecordInline, Inline
<1>8. CASE EndFlush \/ Advance \/ WriteChunk \/ WriteFails \/ Ended \/ UNCHANGED vars
  <2>1. UNCHANGED fetchVars
    BY <1>8 DEF EndFlush, Advance, WriteChunk, WriteFails, Ended, vars
  <2>2. request' = request /\ Chunk' = Chunk /\ \A c : In(c, "taken")' <=> In(c, "taken")
    BY <2>1 DEF fetchVars, Chunk, In
  <2> SUFFICES ASSUME request # None, callback, pc' \in {"fetch", "flush", "advance", "write"}
               PROVE  TakenOK'
    BY <1>2, <2>2 DEF TakenOK
  <2>3. CASE EndFlush
    <3>1. pc = "flush" /\ pc' = "fetch" /\ next' = next /\ pending' = pending /\ next \notin pending
      BY <2>3 DEF EndFlush, emitterVars, Flushable
    <3>2. \A c \in Chunk : In(c, "taken") => c < next \/ c \in pending
      BY <3>1 DEF TakenOK
    <3> QED
      BY <2>2, <3>1, <3>2 DEF TakenOK
  <2>4. CASE Advance
    <3>1. pc \in {"advance", "write"} /\ pc' = "flush" /\ next' = next + 1 /\ pending' = pending
      BY <2>4 DEF Advance, EndBatch
    <3>2. \A c \in Chunk : In(c, "taken") => c < next \/ c \in pending \/ c = next
      BY <3>1 DEF TakenOK
    <3>3. next \in Nat \ {0} /\ \A c \in Chunk : c \in Int
      <4>1. ParentBatches \in Seq(Seq(Place)) /\ Chunk = DOMAIN ParentBatches
        BY <1>0, BatchTypes DEF CallOK, Chunk
      <4> QED
        BY <1>0, <4>1 DEF EmitterTypeOK
    <3>4. \A c \in Chunk : In(c, "taken") => c < next + 1 \/ c \in pending
      BY <3>2, <3>3
    <3> QED
      BY <2>2, <3>1, <3>4 DEF TakenOK
  <2>5. CASE WriteChunk \/ WriteFails \/ Ended \/ UNCHANGED vars
    <3>1. pc' = pc /\ next' = next /\ pending' = pending
      BY <2>5 DEF WriteChunk, WriteFails, Raised, Ended, vars, emitterVars
    <3> QED
      BY <2>2, <3>1 DEF TakenOK
  <2> QED
    BY <1>8, <2>3, <2>4, <2>5
<1>9. CASE \E c \in Chunk : Take(c)
  <2>1. PICK c \in Chunk : Take(c)
    BY <1>9
  <2> SUFFICES ASSUME callback, pc' \in {"fetch", "flush", "advance", "write"}
               PROVE  TakenOK'
    BY <1>2, <2>1 DEF Take
  <2>2. pc = "fetch" /\ pc' = "flush" /\ next' = next /\ pending' = pending \cup {c} /\ request # None
        /\ work' = [work EXCEPT ![c] = [is |-> "taken", left |-> <<>>]]
    BY <1>0, <2>1 DEF Take, Become, CallOK, Calling
  <2>3. Chunk' = Chunk /\ \A d \in Chunk : d # c => (In(d, "taken")' => In(d, "taken"))
    BY <2>2 DEF Chunk, In
  <2>4. \A d \in Chunk : In(d, "taken") => d < next \/ d \in pending
    BY <2>2 DEF TakenOK
  <2> QED
    BY <2>2, <2>3, <2>4 DEF TakenOK
<1>10. CASE \E i \in pending : Flush(i)
  <2>1. PICK i \in pending : Flush(i)
    BY <1>10
  <2>2. /\ pc = "flush" /\ pc' \in {"write", "advance"} /\ i = next /\ pending' = pending \ {i} /\ next' = next
        /\ UNCHANGED fetchVars
    BY <2>1 DEF Flush, FlushBatch, Flushable
  <2>3. request' = request /\ Chunk' = Chunk /\ \A c : In(c, "taken")' <=> In(c, "taken")
    BY <2>2 DEF fetchVars, Chunk, In
  <2> SUFFICES ASSUME request # None, callback
               PROVE  TakenOK'
    BY <1>2, <2>3
  <2>4. \A d \in Chunk : In(d, "taken") => d < next \/ d \in pending
    BY <2>2 DEF TakenOK
  <2> QED
    BY <2>2, <2>3, <2>4 DEF TakenOK
<1>11. CASE \E c \in Chunk : PoolStep(c)
  <2>1. PICK c \in Chunk : PoolStep(c)
    BY <1>11
  <2>2. request' = request /\ next' = next /\ pending' = pending /\ pc' = pc
    BY <2>1, PoolKeeps DEF emitterVars
  <2>3. Chunk' = Chunk /\ \A d \in Chunk : In(d, "taken")' => In(d, "taken")
    BY <2>1, PoolTakesNone DEF PoolStep
  <2> QED
    BY <1>1, <2>2, <2>3 DEF TakenOK
<1> QED
  BY <1>4, <1>5, <1>6, <1>7, <1>8, <1>9, <1>10, <1>11 DEF Next, WalkStep

-----------------------------------------------------------------------------
(* What is listed is kept                                                  *)

\* Without a failed write, what has been listed is written or buffered; the
\* walk is closed at its end, with nothing left in the buffer.
KeptOK ==
  /\ ~lost => listed = AllListed \cup ToSet(buffer)
  /\ pc \in {"close", "done"} => phase = "end"
  /\ pc = "done" => buffer = <<>>

\* A step that neither lists nor writes
LEMMA KeptOnly ==
  ASSUME KeptOK, UNCHANGED inventoryVars, lost' = lost,
         pc' \in {"close", "done"} => phase' = "end", pc' = "done" => buffer = <<>>
  PROVE  KeptOK'
<1>1. buffer' = buffer /\ inventory' = inventory /\ listed' = listed
  BY DEF inventoryVars
<1>2. AllListed' = AllListed /\ ToSet(buffer)' = ToSet(buffer)
  BY <1>1 DEF AllListed, ToSet
<1> QED
  BY <1>1, <1>2 DEF KeptOK

\* What is listed comes into the buffer.
LEMMA ListKeeps ==
  ASSUME EmitterTypeOK, KeptOK, NEW S \in SUBSET Place, List(S), lost' = lost, pc' \notin {"close", "done"}
  PROVE  KeptOK'
<1> DEFINE t == Sorted(S \ listed)
           u == buffer \o t
<1>1. t \in Seq(Place) /\ ToSet(t) = S \ listed
  BY SortedPlaces
<1>2. buffer' = u /\ listed' = listed \cup S /\ inventory' = inventory
  BY DEF List
<1> HIDE DEF t
<1>3. ToSet(u) = ToSet(buffer) \cup ToSet(t)
  BY <1>1, ConcatSet DEF EmitterTypeOK
<1> HIDE DEF u
<1>4. ToSet(buffer)' = ToSet(u) /\ AllListed' = AllListed
  BY <1>2 DEF ToSet, AllListed
<1> QED
  BY <1>1, <1>2, <1>3, <1>4 DEF KeptOK

\* What leaves the buffer has been written.
LEMMA WriteKeeps ==
  ASSUME EmitterTypeOK, OnceOK, KeptOK, Write, lost' = lost, phase' = phase, pc' \in {pc, "drain", "failed"},
         pc # "done"
  PROVE  KeptOK'
<1>1. Cut \in Seq(Place) /\ ToSet(buffer) = ToSet(Cut) \cup ToSet(Rest) /\ inventory \in Seq(Seq(Place))
  BY CutInTwo DEF OnceOK, EmitterTypeOK
<1>2. buffer' = Rest /\ inventory' = Append(inventory, Cut) /\ listed' = listed
  BY DEF Write
<1>3. ToSet(buffer)' = ToSet(Rest)
  BY <1>2 DEF ToSet
<1>4. AllListed' = AllListed \cup ToSet(Cut)
  <2> DEFINE i == Append(inventory, Cut)
  <2>1. /\ DOMAIN i = DOMAIN inventory \cup {Len(inventory) + 1} /\ i[Len(inventory) + 1] = Cut
        /\ \A k \in DOMAIN inventory : i[k] = inventory[k]
    BY <1>1
  <2>2. inventory' = i
    BY <1>2
  <2> HIDE DEF i
  <2>3. UNION {ToSet(i[k]) : k \in DOMAIN i} = (UNION {ToSet(inventory[k]) : k \in DOMAIN inventory}) \cup ToSet(Cut)
    BY <2>1
  <2>4. AllListed' = UNION {ToSet(i[k]) : k \in DOMAIN i}
    BY <2>2 DEF AllListed, ToSet
  <2> QED
    BY <2>3, <2>4 DEF AllListed
<1> QED
  BY <1>1, <1>2, <1>3, <1>4 DEF KeptOK

\* Nothing that is listed disappears without a failed write.
LEMMA KeptSteps ==
  ASSUME WalkInv, OnceOK, KeptOK, [Next]_vars
  PROVE  KeptOK'
<1>0. EmitterTypeOK /\ WalkOK /\ CallOK
  BY Parts
<1>1. CASE Roots
  <2>1. pc' \in {"list", "walk"} /\ lost' = lost /\ (List(ToSet(EnsureCountries)) \/ UNCHANGED inventoryVars)
    BY <1>1 DEF Roots, Keep
  <2>2. ToSet(EnsureCountries) \in SUBSET Place
    BY <1>0, CountriesAreAList DEF ToSet
  <2> QED
    BY <1>0, <2>1, <2>2, ListKeeps, KeptOnly
<1>2. CASE CountryCities \/ SeedCities \/ Areas \/ AreaCities
  <2>1. UNCHANGED inventoryVars /\ pc' \in {"walk", "fetch"} /\ lost' = lost
    BY <1>2 DEF CountryCities, SeedCities, Areas, AreaCities, Stream, Keep
  <2> QED
    BY <2>1, KeptOnly
<1>3. CASE Seed \/ EndSeeds \/ EndAreas \/ NoAreas \/ Again \/ GiveUp \/ RecordInline \/ StreamReturns
           \/ EndFlush \/ Advance \/ Listed \/ ProgressRaises \/ (\E c \in Chunk : Take(c) \/ ChunkRaises(c))
  <2>1. UNCHANGED inventoryVars /\ lost' = lost
    BY <1>3 DEF Seed, EndSeeds, EndAreas, NoAreas, Again, GiveUp, RecordInline, StreamReturns, EndFlush, Advance,
       Listed, ProgressRaises, Take, ChunkRaises, StayInWalk, Keep
  <2>2. pc' \in {"walk", "fetch", "flush", "drain", "failed"}
    BY <1>3 DEF Seed, EndSeeds, EndAreas, NoAreas, Again, GiveUp, RecordInline, StreamReturns, EndFlush, Advance,
       Listed, ProgressRaises, Take, ChunkRaises, At
  <2> QED
    BY <2>1, <2>2, KeptOnly
<1>4. CASE End \/ Close
  <2>1. UNCHANGED inventoryVars /\ lost' = lost /\ phase' = phase /\ pc' \in {"close", "done"}
        /\ (phase = "end" \/ pc = "close") /\ (pc' = "done" => buffer = <<>>)
    BY <1>4 DEF End, Close, At, StayInWalk, Keep, walkVars
  <2> QED
    BY <2>1, KeptOnly DEF KeptOK
<1>5. CASE WriteChunk
  <2>1. Write /\ lost' = lost /\ phase' = phase /\ pc' \in {pc, "drain", "failed"} /\ pc # "done"
    BY <1>5 DEF WriteChunk, Writing, Raised, StayInWalk, Keep, walkVars
  <2> QED
    BY <1>0, <2>1, WriteKeeps
<1>6. CASE WriteFails
  <2>1. lost' = TRUE /\ pc' \in {"drain", "failed"}
    BY <1>6 DEF WriteFails, Raised
  <2> QED
    BY <2>1 DEF KeptOK
<1>7. CASE \E i \in pending : Flush(i)
  <2>1. PICK i \in pending : Flush(i)
    BY <1>7
  <2>2. request # None /\ lost' = lost /\ pc' \in {"write", "advance"}
    BY <1>0, <2>1 DEF Flush, CallOK, Calling, StayInWalk, Keep
  <2> DEFINE new == Found(i, Reported(i)) \ seen[Scan]
  <2>3. new \in SUBSET Place
    BY <2>1, <2>2, FlushLists
  <2>4. List(new) \/ UNCHANGED inventoryVars
    BY <2>1 DEF Flush, FlushBatch
  <2> QED
    BY <1>0, <2>2, <2>3, <2>4, ListKeeps, KeptOnly
<1>8. CASE (\E c \in Chunk : PoolStep(c)) \/ Ended \/ UNCHANGED vars
  <2>1. UNCHANGED inventoryVars /\ lost' = lost /\ pc' = pc /\ phase' = phase
    BY <1>8 DEF PoolStep, Ended, vars, walkVars
  <2> QED
    BY <2>1, KeptOnly DEF KeptOK
<1> QED
  BY <1>1, <1>2, <1>3, <1>4, <1>5, <1>6, <1>7, <1>8 DEF Next, WalkStep

-----------------------------------------------------------------------------

\* The walk begins with nothing found.
LEMMA WalkBegins ==
  ASSUME Init
  PROVE  OrderOK /\ OnceOK /\ TakenOK /\ MapOK /\ KeptOK
<1>0. WalkInv
  BY Starts
<1>1. OptionOK
  BY <1>0, Parts
<1>2. /\ request = None /\ phase = "roots" /\ level = 1 /\ scanned = {} /\ pc = "walk" /\ listed = {} /\ buffer = <<>>
      /\ inventory = <<>> /\ seen = [s \in {"cities", "areas"} |-> {}]
  BY DEF Init, FetchInit, EmitterInit
<1>3. OrderOK /\ TakenOK
  BY <1>2 DEF OrderOK, TakenOK
<1>4. OnceOK
  BY <1>2 DEF OnceOK, Distinct, ToSet
<1>5. KeptOK
  BY <1>2 DEF KeptOK, AllListed, ToSet
<1>6. SeedsOK
  <2>1. PICK ready \in SUBSET (Unit \ wanted) : seeds = SeedFrontier(ready)
    BY DEF Init
  <2> DEFINE D == {m \in {n \in 0 .. MaxLevel : 0 .. n \subseteq ready} : Level[m] # {}}
  <2>2. seeds = [n \in D |-> Sorted(Level[n])]
    BY <2>1 DEF SeedFrontier
  <2> SUFFICES ASSUME NEW n \in D
               PROVE  n \in 0 .. MaxLevel /\ n \notin wanted /\ seeds[n] # <<>> /\ ToSet(seeds[n]) = Level[n]
    BY <2>2 DEF SeedsOK
  <2>3. n \in 0 .. MaxLevel /\ n \in 0 .. MaxLevel + 1 /\ n \in ready /\ Level[n] # {}
    <3>1. MaxLevel \in Nat
      BY Numbers
    <3>2. n \in 0 .. n
      BY <3>1
    <3> QED
      BY <3>1, <3>2
  <2>4. seeds[n] = Sorted(Level[n])
    BY <2>2
  <2> HIDE DEF D
  <2>5. ToSet(Sorted(Level[n])) = Level[n]
    BY <1>1, <2>3, LevelTypes, SortedPlaces
  <2>6. Sorted(Level[n]) # <<>>
    BY <2>3, <2>5 DEF ToSet
  <2> QED
    BY <2>1, <2>3, <2>4, <2>5, <2>6
<1>7. PlaceOK
  BY <1>2, Numbers DEF PlaceOK
<1>8. RequestOK /\ ListedOK
  BY <1>2 DEF RequestOK, ListedOK
<1>9. CitiesOK
  BY <1>2 DEF CitiesOK
<1>10. AreasOK
  <2>1. AreasTo(0) = {}
    BY <1>1, OneLevelMore
  <2>2. level - 1 = 0
    BY <1>2
  <2> QED
    BY <1>2, <2>1, <2>2 DEF AreasOK
<1> QED
  BY <1>3, <1>4, <1>5, <1>6, <1>7, <1>8, <1>9, <1>10 DEF MapOK

(* A walk that ends well without a failed write has put into the inventory *)
(* every place of the units it was asked for and no other, in whatever     *)
(* order the pool answers, however chunks are split and calls made again,  *)
(* whatever the cache holds and whichever levels the shared store seeds.   *)
THEOREM EveryPlaceIsListed == Spec => []WalkIsComplete
<1> DEFINE Inv == WalkInv /\ OrderOK /\ OnceOK /\ TakenOK /\ MapOK /\ KeptOK
<1>1. Init => Inv
  BY Starts, WalkBegins
<1>2. Inv /\ [Next]_vars => Inv'
  BY WalkSteps, OrderSteps, OnceSteps, TakenSteps, MapSteps, KeptSteps
<1>3. Inv => WalkIsComplete
  <2> SUFFICES ASSUME Inv, pc = "done", ~lost
               PROVE  AllListed = Expected
    BY DEF WalkIsComplete
  <2>1. listed = AllListed \cup ToSet(buffer) /\ phase = "end" /\ buffer = <<>>
    BY DEF KeptOK
  <2>2. listed = Expected
    BY <2>1 DEF MapOK, ListedOK
  <2>3. ToSet(buffer) = {}
    BY <2>1 DEF ToSet
  <2> QED
    BY <2>1, <2>2, <2>3
<1> QED
  BY <1>1, <1>2, <1>3, PTL DEF Spec

-----------------------------------------------------------------------------
(* Enrichment.                                                             *)

\* What a contribution gives a name or a code to comes with it, or is in the
\* database and stays when the filter runs; it brings no code of ISO, and
\* takes out only what the filter does.
Attaches(c, db) ==
  /\ \A row \in c.names \cup c.codes : row.of \in c.ents \/ row.of \in db.ents \ Filtered
  /\ \A k \in c.codes : k.system \notin {"iso2", "iso3"}
  /\ c.gone \subseteq Filtered /\ c.ents \subseteq Entity

\* Contributions that are written as one attach as each of them does.
LEMMA JoinedAttach ==
  ASSUME NEW db, NEW cs, \A c \in cs : Attaches(c, db)
  PROVE  Attaches(Joined(cs), db)
<1>1. /\ Joined(cs).names = UNION {c["names"] : c \in cs} /\ Joined(cs).codes = UNION {c["codes"] : c \in cs}
      /\ Joined(cs).gone = UNION {c["gone"] : c \in cs} /\ Joined(cs).ents = UNION {c["ents"] : c \in cs}
  BY DEF Joined, Fields, Tables
<1>2. \A row \in Joined(cs).names \cup Joined(cs).codes :
        row.of \in Joined(cs).ents \/ row.of \in db.ents \ Filtered
  <2> SUFFICES ASSUME NEW row \in Joined(cs).names \cup Joined(cs).codes
               PROVE  row.of \in Joined(cs).ents \/ row.of \in db.ents \ Filtered
    OBVIOUS
  <2>1. PICK c \in cs : row \in c.names \cup c.codes
    BY <1>1
  <2>2. c.ents \subseteq Joined(cs).ents
    BY <1>1
  <2> QED
    BY <2>1, <2>2 DEF Attaches
<1>3. \A k \in Joined(cs).codes : k.system \notin {"iso2", "iso3"}
  BY <1>1 DEF Attaches
<1>4. Joined(cs).gone \subseteq Filtered /\ Joined(cs).ents \subseteq Entity
  BY <1>1 DEF Attaches
<1> QED
  BY <1>2, <1>3, <1>4 DEF Attaches

\* A transaction leaves no row without its entity, and takes out no entity that
\* the filter does not.
LEMMA ApplyIsSound ==
  ASSUME NEW db, NEW c, Sound(db), Attaches(c, db)
  PROVE  Sound(Apply(db, c)) /\ db.ents \ Filtered \subseteq Apply(db, c).ents
<1> DEFINE ents == (db.ents \cup c.ents) \ c.gone
           new == Apply(db, c)
<1>1. /\ DOMAIN new = Tables /\ new.ents = ents
      /\ new.names = {n \in db.names \cup c.names : NameStays(n, c)}
      /\ new.codes = {k \in AddCodes(db.codes, c.codes) : k.of \notin c.gone}
  BY DEF Apply, Tables
<1> HIDE DEF new
<1>2. new.codes \subseteq {k \in db.codes \cup c.codes : k.of \notin c.gone}
  BY <1>1 DEF AddCodes
<1>3. new.names \subseteq {n \in db.names \cup c.names : n.of \notin c.gone}
  BY <1>1 DEF NameStays
<1>4. \A row \in db.names \cup db.codes : row.of \in db.ents
  BY DEF Sound, Orphans
<1>5. \A row \in new.names \cup new.codes : row.of \in new.ents
  BY <1>1, <1>2, <1>3, <1>4 DEF Attaches
<1>6. Orphans(new) = {}
  BY <1>5 DEF Orphans
<1>7. \A k \in new.codes : k.system \in {"iso2", "iso3"} => k.of \notin Filtered
  BY <1>2 DEF Sound, Attaches
<1>8. new.ents \subseteq Entity /\ db.ents \ Filtered \subseteq new.ents
  BY <1>1 DEF Sound, Attaches
<1> QED
  BY <1>1, <1>6, <1>7, <1>8 DEF Sound, new

\* What is not yet written still attaches when other entities have come, and
\* of those there were only some that the filter takes out are gone.
LEMMA AttachesStill ==
  ASSUME NEW db, NEW new, NEW c, Attaches(c, db), db.ents \ Filtered \subseteq new.ents
  PROVE  Attaches(c, new)
  BY DEF Attaches

\* Rows that come with their entities leave no row without one.
LEMMA InsertedIsSound ==
  ASSUME NEW db, NEW rows, Sound(db), Sound(rows)
  PROVE  Sound(Inserted(db, rows)) /\ db.ents \subseteq Inserted(db, rows).ents
<1> DEFINE new == Inserted(db, rows)
<1>1. /\ DOMAIN new = Tables /\ new.ents = db.ents \cup rows.ents /\ new.names = db.names \cup rows.names
      /\ new.codes \subseteq rows.codes \cup db.codes
  BY DEF Inserted, Tables
<1> HIDE DEF new
<1>2. \A row \in new.names \cup new.codes : row.of \in new.ents
  BY <1>1 DEF Sound, Orphans
<1>3. Orphans(new) = {}
  BY <1>2 DEF Orphans
<1>4. \A k \in new.codes : k.system \in {"iso2", "iso3"} => k.of \notin Filtered
  BY <1>1 DEF Sound
<1>5. new.ents \subseteq Entity /\ db.ents \subseteq new.ents
  BY <1>1 DEF Sound
<1> QED
  BY <1>1, <1>3, <1>4, <1>5 DEF Sound, new

\* So does the slice of a merge, where the rows of the entities that it
\* replaces have gone with them.
LEMMA MergedIsSound ==
  ASSUME NEW db, NEW type, NEW slice, Sound(db), Sound(slice)
  PROVE  Sound(Merged(db, type, slice))
<1> DEFINE old == Present(db, type)
           left == old \ ((db.ents \ old) \cup slice.ents)
           rest == [ents |-> db.ents \ old,
                    names |-> {n \in db.names : n.of \notin old},
                    codes |-> {k \in db.codes : k.of \notin old},
                    edges |-> {e \in db.edges : e.of \notin old},
                    dated |-> db.dated \ old]
           new == Inserted(rest, slice)
           pruned == {e \in new.edges : e.target \notin left}
<1>1. Merged(db, type, slice) = [new EXCEPT !.edges = pruned]
  BY DEF Merged
<1>2. Sound(rest)
  <2>1. DOMAIN rest = Tables
    BY DEF Tables
  <2>2. \A row \in rest.names \cup rest.codes : row.of \in rest.ents
    BY DEF Sound, Orphans
  <2>3. Orphans(rest) = {}
    BY <2>2 DEF Orphans
  <2> QED
    BY <2>1, <2>3 DEF Sound
<1> HIDE DEF rest
<1>3. Sound(new)
  BY <1>2, InsertedIsSound
<1> HIDE DEF new, pruned
<1> DEFINE all == [new EXCEPT !.edges = pruned]
<1>4. /\ DOMAIN all = DOMAIN new /\ all.ents = new.ents /\ all.names = new.names /\ all.codes = new.codes
  OBVIOUS
<1>5. Merged(db, type, slice) = all
  BY <1>1
<1> HIDE DEF all
<1> QED
  BY <1>3, <1>4, <1>5 DEF Sound, Orphans

\* Of what is fetched, the rows of the entities asked for are kept.
LEMMA FetchedIsSound ==
  ASSUME NEW ids
  PROVE  Sound(FetchedRows(ids))
<1> DEFINE taken == {Fetchable[id] : id \in ids \cap DOMAIN Fetchable}
           rows == [t \in Tables |-> UNION {f[t] : f \in taken}]
           new == FetchedRows(ids)
<1>1. \A f \in taken : Sound(f)
  BY RowsAssumption
<1> HIDE DEF taken
<1>2. /\ rows.ents = UNION {f["ents"] : f \in taken} /\ rows.names = UNION {f["names"] : f \in taken}
      /\ rows.codes = UNION {f["codes"] : f \in taken} /\ DOMAIN rows = Tables
  BY DEF Tables
<1>3. new = [rows EXCEPT !.ents = @ \cap ids, !.names = {n \in @ : n.of \in ids},
                         !.codes = {k \in @ : k.of \in ids}, !.edges = {e \in @ : e.of \in ids}]
  BY DEF FetchedRows, taken
<1>4. /\ DOMAIN new = Tables /\ new.ents = rows.ents \cap ids /\ new.names = {n \in rows.names : n.of \in ids}
      /\ new.codes = {k \in rows.codes : k.of \in ids}
  BY <1>3 DEF Tables
<1> HIDE DEF rows, new
<1>5. \A row \in rows.names \cup rows.codes : row.of \in rows.ents
  BY <1>1, <1>2 DEF Sound, Orphans
<1>6. \A row \in new.names \cup new.codes : row.of \in new.ents
  BY <1>4, <1>5
<1>7. Orphans(new) = {}
  BY <1>6 DEF Orphans
<1>8. \A k \in new.codes : k.system \in {"iso2", "iso3"} => k.of \notin Filtered
  BY <1>1, <1>2, <1>4 DEF Sound
<1>9. new.ents \subseteq Entity
  BY <1>1, <1>2, <1>4 DEF Sound
<1> QED
  BY <1>4, <1>7, <1>8, <1>9 DEF Sound, new

RoundStep(db, f, n) == IF n = 0 THEN db ELSE Round(f[n - 1])

\* The recursive definition of the rounds has a solution.
LEMMA RoundsExist ==
  ASSUME NEW db
  PROVE  \E f : f = [n \in 0 .. MaxRounds |-> RoundStep(db, f, n)]
<1> DEFINE Bad == {m \in 0 .. MaxRounds : ~ \E f : f = [n \in 0 .. m |-> RoundStep(db, f, n)]}
<1>1. MaxRounds \in Nat
  BY ReconcileAssumption
<1>2. Bad = {}
  <2> SUFFICES ASSUME Bad # {}
               PROVE  FALSE
    OBVIOUS
  <2>1. PICK m \in Bad : \A k \in 0 .. MaxRounds : k < m => k \notin Bad
    BY <1>1, FirstFailure
  <2>2. m \in Nat /\ m \in 0 .. MaxRounds
    BY <1>1
  <2>3. CASE m = 0
    <3> DEFINE f == [n \in 0 .. 0 |-> db]
    <3>1. \A n \in 0 .. 0 : RoundStep(db, f, n) = db
      BY DEF RoundStep
    <3>2. f = [n \in 0 .. 0 |-> RoundStep(db, f, n)]
      BY <3>1
    <3> HIDE DEF f
    <3> QED
      BY <2>3, <3>2
  <2>4. CASE m # 0
    <3>1. m - 1 \in 0 .. MaxRounds /\ m - 1 < m /\ 0 .. m = (0 .. m - 1) \cup {m}
      BY <1>1, <2>2, <2>4
    <3>2. PICK f : f = [n \in 0 .. m - 1 |-> RoundStep(db, f, n)]
      BY <2>1, <3>1
    <3> DEFINE g == [n \in 0 .. m |-> IF n = m THEN Round(f[m - 1]) ELSE f[n]]
    <3>3. \A n \in 0 .. m - 1 : g[n] = f[n] /\ n # m /\ (n # 0 => n - 1 \in 0 .. m - 1)
      BY <2>2, <3>1
    <3>4. \A n \in 0 .. m : g[n] = RoundStep(db, g, n)
      <4>1. g[m] = RoundStep(db, g, m)
        <5>1. g[m] = Round(f[m - 1]) /\ g[m - 1] = f[m - 1]
          BY <2>2, <2>4, <3>1, <3>3
        <5> HIDE DEF g
        <5> QED
          BY <2>4, <5>1 DEF RoundStep
      <4>2. \A n \in 0 .. m - 1 : g[n] = RoundStep(db, g, n)
        <5>1. \A n \in 0 .. m - 1 : f[n] = RoundStep(db, f, n)
          BY <3>2
        <5> HIDE DEF g
        <5> QED
          BY <3>3, <5>1 DEF RoundStep
      <4> QED
        BY <3>1, <4>1, <4>2
    <3>5. g = [n \in 0 .. m |-> g[n]]
      OBVIOUS
    <3> HIDE DEF g
    <3>6. g = [n \in 0 .. m |-> RoundStep(db, g, n)]
      BY <3>4, <3>5
    <3> QED
      BY <2>2, <3>6
  <2> QED
    BY <2>3, <2>4
<1> QED
  BY <1>1, <1>2

\* The rounds of a reconciliation fetch entities with their rows.
LEMMA HydratedIsSound ==
  ASSUME NEW db, Sound(db)
  PROVE  Sound(Hydrated(db)) /\ db.ents \subseteq Hydrated(db).ents
<1> DEFINE after == CHOOSE f : f = [n \in 0 .. MaxRounds |-> RoundStep(db, f, n)]
           Bad == {n \in 0 .. MaxRounds : ~ (Sound(after[n]) /\ db.ents \subseteq after[n].ents)}
<1>1. MaxRounds \in Nat /\ MaxRounds \in 0 .. MaxRounds
  BY ReconcileAssumption
<1>2. Hydrated(db) = after[MaxRounds]
  BY DEF Hydrated, RoundStep
<1>3. after = [n \in 0 .. MaxRounds |-> RoundStep(db, after, n)]
  BY RoundsExist
<1> HIDE DEF after
<1>4. \A n \in 0 .. MaxRounds : after[n] = RoundStep(db, after, n)
  BY <1>3
<1>5. Bad = {}
  <2> SUFFICES ASSUME Bad # {}
               PROVE  FALSE
    OBVIOUS
  <2>1. PICK m \in Bad : \A k \in 0 .. MaxRounds : k < m => k \notin Bad
    BY <1>1, FirstFailure
  <2>2. m # 0
    BY <1>4, <2>1 DEF RoundStep
  <2>3. m - 1 \in 0 .. MaxRounds /\ m - 1 < m
    BY <1>1, <2>1, <2>2
  <2>4. Sound(after[m - 1]) /\ db.ents \subseteq after[m - 1].ents
    BY <2>1, <2>3
  <2>5. after[m] = Inserted(after[m - 1], FetchedRows(Missing(after[m - 1])))
    BY <1>4, <2>1, <2>2 DEF RoundStep, Round
  <2>6. Sound(after[m]) /\ after[m - 1].ents \subseteq after[m].ents
    BY <2>4, <2>5, FetchedIsSound, InsertedIsSound
  <2> QED
    BY <2>1, <2>4, <2>6
<1> QED
  BY <1>1, <1>2, <1>5

\* A code of ISO and the type of a country lead to entities that stay.
LEMMA Holders ==
  ASSUME NEW db, Sound(db)
  PROVE  /\ \A value : ByIso3(db, value) \subseteq db.ents \ Filtered
         /\ \A value : ByCode(db, "iso2", value) \subseteq db.ents \ Filtered
         /\ \A iso2 : Territory(db, iso2) \subseteq db.ents \ Filtered
         /\ Present(db, "country") \subseteq db.ents \ Filtered
<1>1. \A value : ByCode(db, "iso2", value) \subseteq db.ents \ Filtered
                 /\ ByCode(db, "iso3", value) \subseteq db.ents \ Filtered
  BY DEF ByCode, Sound, Orphans
<1>2. \A ids : OneOf(ids) \subseteq ids
  BY DEF OneOf
<1>3. \A value : ByIso3(db, value) \subseteq db.ents \ Filtered
  BY <1>1, <1>2 DEF ByIso3
<1>4. \A iso2 : Territory(db, iso2) \subseteq db.ents \ Filtered
  BY <1>1, <1>2, <1>3 DEF Territory
<1>5. Present(db, "country") \subseteq db.ents \ Filtered
  BY CuratedAssumption DEF Present
<1> QED
  BY <1>1, <1>3, <1>4, <1>5

\* Names of entities that stay can be written at any time.
LEMMA NamesAttach ==
  ASSUME NEW db, NEW names, \A n \in names : n.of \in db.ents \ Filtered
  PROVE  Attaches([Nothing EXCEPT !.names = names], db)
  BY DEF Attaches, Nothing, Fields, Tables

\* The rows of a name are of the entity they were made for.
LEMMA NamesAre ==
  ASSUME NEW id, NEW forms
  PROVE  \A n \in NamesOf(id, forms) : n.of = id
  BY DEF NamesOf

\* What a group brings comes with the entity of the group.
LEMMA GroupsAttach ==
  ASSUME NEW db
  PROVE  Attaches(GroupRows(db), db)
<1>1. ASSUME NEW g \in Groups
      PROVE  Attaches(Group(db, g), db)
  <2> DEFINE c == Group(db, g)
  <2>1. c.ents = {g.id} /\ c.names = NamesOf(g.id, g.forms) /\ c.codes = {} /\ c.gone = {}
    BY DEF Group, Nothing, Fields, Tables
  <2> HIDE DEF c
  <2>2. g.id \in Entity
    BY CuratedAssumption
  <2>3. Attaches(c, db)
    BY <2>1, <2>2, NamesAre DEF Attaches
  <2> QED
    BY <2>3 DEF c
<1> DEFINE cs == {Group(db, g) : g \in Groups}
<1>2. \A c \in cs : Attaches(c, db)
  BY <1>1
<1> HIDE DEF cs
<1>3. Attaches(Joined(cs), db)
  BY <1>2, JoinedAttach
<1> QED
  BY <1>3 DEF GroupRows, cs

\* What the regions of M49 bring comes with them.
LEMMA ContainmentAttaches ==
  ASSUME NEW db
  PROVE  Attaches(ContainmentRows(db), db)
<1> DEFINE c == ContainmentRows(db)
<1>1. /\ c.ents = {r.id : r \in M49Regions} /\ c.names = UNION {NamesOf(r.id, r.forms) : r \in M49Regions}
      /\ c.codes = UNION {CodeOf(r.id, "m49", r.code) : r \in M49Regions} /\ c.gone = {}
  BY DEF ContainmentRows, Nothing, Fields, Tables
<1> HIDE DEF c
<1>2. \A n \in c.names : n.of \in c.ents
  BY <1>1, NamesAre
<1>3. \A k \in c.codes : k.of \in c.ents /\ k.system = "m49"
  BY <1>1 DEF CodeOf
<1>4. c.ents \subseteq Entity
  BY <1>1, CuratedAssumption
<1>5. Attaches(c, db)
  BY <1>1, <1>2, <1>3, <1>4 DEF Attaches
<1> QED
  BY <1>5 DEF c

\* Each of the nine enrichers attaches its rows to what it has read.
LEMMA EnricherAttaches ==
  ASSUME NEW db, Sound(db), NEW i \in Steps, NEW reachable \in BOOLEAN
  PROVE  Attaches(Contributed(i, db, reachable), db)
<1>1. Attaches(FormalNames(db), db)
  <2> DEFINE names == UNION {NamesOf(f.id, f.forms) : f \in {g \in Formal : g.id \in Present(db, "country")}}
  <2>1. \A n \in names : n.of \in db.ents \ Filtered
    BY Holders, NamesAre
  <2> HIDE DEF names
  <2>2. Attaches([Nothing EXCEPT !.names = names], db)
    BY <2>1, NamesAttach
  <2> QED
    BY <2>2 DEF FormalNames, names
<1>2. Attaches(MultilingualNames(db), db)
  <2> DEFINE names == UNION {UNION {NamesOf(e, t.forms) : e \in Territory(db, t.iso2)} : t \in Cldr}
  <2>1. \A n \in names : n.of \in db.ents \ Filtered
    <3> SUFFICES ASSUME NEW t \in Cldr, NEW e \in Territory(db, t.iso2), NEW n \in NamesOf(e, t.forms)
                 PROVE  n.of \in db.ents \ Filtered
      OBVIOUS
    <3> QED
      BY Holders, NamesAre
  <2> HIDE DEF names
  <2>2. Attaches([Nothing EXCEPT !.names = names], db)
    BY <2>1, NamesAttach
  <2> QED
    BY <2>2 DEF MultilingualNames, names
<1>3. Attaches(StAliases(db), db)
  <2> DEFINE names == UNION {StForms(n) : n \in Saints(db)}
  <2>1. \A n \in Saints(db) : n.of \in db.ents \ Filtered
    BY Holders DEF Saints
  <2>2. \A n \in Saints(db) : \A s \in StForms(n) : s.of \in db.ents \ Filtered
    BY <2>1 DEF StForms
  <2>3. \A n \in names : n.of \in db.ents \ Filtered
    BY <2>2
  <2> HIDE DEF names
  <2>4. Attaches([Nothing EXCEPT !.names = names], db)
    BY <2>3, NamesAttach
  <2> QED
    BY <2>4 DEF StAliases, names
<1>4. Attaches(GeoNamesAliases(db, reachable), db)
  <2> DEFINE rows == UNION {UNION {NamesOf(e, g.forms) :
                                     e \in OneOf(ByCode(db, "iso2", g.iso2) \cap Present(db, "country"))} :
                              g \in GeoNames}
             names == IF reachable THEN rows \ db.names ELSE {}
  <2>1. \A n \in rows : n.of \in db.ents \ Filtered
    <3> SUFFICES ASSUME NEW n \in rows
                 PROVE  n.of \in db.ents \ Filtered
      OBVIOUS
    <3>1. PICK g \in GeoNames : \E e \in OneOf(ByCode(db, "iso2", g.iso2) \cap Present(db, "country")) :
                                  n \in NamesOf(e, g.forms)
      OBVIOUS
    <3>2. PICK e \in OneOf(ByCode(db, "iso2", g.iso2) \cap Present(db, "country")) : n \in NamesOf(e, g.forms)
      BY <3>1
    <3>3. e \in Present(db, "country")
      BY <3>2 DEF OneOf
    <3> QED
      BY <3>2, <3>3, Holders, NamesAre
  <2>2. \A n \in names : n.of \in db.ents \ Filtered
    BY <2>1
  <2>3. GeoNamesAliases(db, reachable) = [Nothing EXCEPT !.names = names]
    BY DEF GeoNamesAliases
  <2> HIDE DEF names
  <2> QED
    BY <2>2, <2>3, NamesAttach
<1>5. Attaches(ValidityUpdates(db), db)
  BY DEF Attaches, ValidityUpdates, Nothing, Fields, Tables
<1>6. Attaches(RegionAliases(db), db)
  <2> DEFINE names == UNION {NamesOf(r.id, r.forms) : r \in {q \in RegionForms : q.id \in Present(db, "region")}}
  <2>1. \A n \in names : n.of \in db.ents \ Filtered
    BY NamesAre, CuratedAssumption DEF Present
  <2> HIDE DEF names
  <2>2. Attaches([Nothing EXCEPT !.names = names], db)
    BY <2>1, NamesAttach
  <2> QED
    BY <2>2 DEF RegionAliases, names
<1>7. Attaches(RegionFilter(db), db)
  BY DEF Attaches, RegionFilter, Nothing, Fields, Tables, Filtered
<1>8. Enricher[i] \in {"formal", "multilingual", "st", "groups", "containment", "geonames", "validity",
                        "aliases", "filter"}
  BY DEF Enricher, Steps
<1> QED
  BY <1>1, <1>2, <1>3, <1>4, <1>5, <1>6, <1>7, <1>8, GroupsAttach, ContainmentAttaches DEF Contributed

\* What the OECD pass gives a name or a code to is in the database too, or is
\* made with it.
LEMMA OecdAttaches ==
  ASSUME NEW db, Sound(db), NEW domains, NEW own
  PROVE  Attaches(OecdGeoRows(domains, db, own), db)
<1>1. ASSUME NEW id \in db.ents \ Filtered, NEW item,
             NEW system \in {"oecd:recipient", "oecd:provider", "oecd:channel"}
      PROVE  Attaches(Attached(id, system, item), db)
  <2> DEFINE c == Attached(id, system, item)
  <2>1. c.names = NamesOf(id, item.forms) /\ c.codes = CodeOf(id, system, item.code) /\ c.gone = {} /\ c.ents = {}
    BY DEF Attached, Nothing, Fields, Tables
  <2> HIDE DEF c
  <2>2. \A k \in c.codes : k.of = id /\ k.system = system
    BY <2>1 DEF CodeOf
  <2>3. Attaches(c, db)
    BY <2>1, <2>2, NamesAre DEF Attaches
  <2> QED
    BY <2>3 DEF c
<1>2. Attaches(RecipientRows(db), db)
  <2> DEFINE row(r) == IF ByIso3(db, r.iso3) = {} THEN Minted(r.id, "oecd:recipient", r)
                       ELSE Attached(CHOOSE e \in ByIso3(db, r.iso3) : TRUE, "oecd:recipient", r)
             cs == {row(r) : r \in Recipients}
  <2>1. \A c \in cs : Attaches(c, db)
    <3> SUFFICES ASSUME NEW r \in Recipients
                 PROVE  Attaches(row(r), db)
      OBVIOUS
    <3>1. CASE ByIso3(db, r.iso3) = {}
      <4> DEFINE c == Minted(r.id, "oecd:recipient", r)
      <4>1. /\ c.names = NamesOf(r.id, r.forms) /\ c.codes = CodeOf(r.id, "oecd:recipient", r.code)
            /\ c.gone = {} /\ c.ents = {r.id}
        BY DEF Minted, Attached, Nothing, Fields, Tables
      <4> HIDE DEF c
      <4>2. \A k \in c.codes : k.of = r.id /\ k.system = "oecd:recipient"
        BY <4>1 DEF CodeOf
      <4>3. r.id \in Entity
        BY OecdAssumption
      <4>4. Attaches(c, db)
        BY <4>1, <4>2, <4>3, NamesAre DEF Attaches
      <4> QED
        BY <3>1, <4>4 DEF c
    <3>2. CASE ByIso3(db, r.iso3) # {}
      <4>1. (CHOOSE e \in ByIso3(db, r.iso3) : TRUE) \in db.ents \ Filtered
        BY <3>2, Holders
      <4> QED
        BY <1>1, <3>2, <4>1
    <3> QED
      BY <3>1, <3>2
  <2>2. RecipientRows(db) = Joined(cs)
    BY DEF RecipientRows
  <2> HIDE DEF cs
  <2> QED
    BY <2>1, <2>2, JoinedAttach
<1>3. Attaches(CountryProviderRows(db), db)
  <2> DEFINE cs == {Attached(CHOOSE e \in ByIso3(db, p.iso3) : TRUE, "oecd:provider", p) :
                      p \in {q \in Providers : q.iso3 # Null /\ ByIso3(db, q.iso3) # {}}}
  <2>1. \A c \in cs : Attaches(c, db)
    <3> SUFFICES ASSUME NEW p \in Providers, ByIso3(db, p.iso3) # {}
                 PROVE  Attaches(Attached(CHOOSE e \in ByIso3(db, p.iso3) : TRUE, "oecd:provider", p), db)
      OBVIOUS
    <3>1. (CHOOSE e \in ByIso3(db, p.iso3) : TRUE) \in db.ents \ Filtered
      BY Holders
    <3> QED
      BY <1>1, <3>1
  <2>2. CountryProviderRows(db) = Joined(cs)
    BY DEF CountryProviderRows
  <2> HIDE DEF cs
  <2> QED
    BY <2>1, <2>2, JoinedAttach
<1>4. \A section \in DOMAIN Crosswalk : \A code :
        Known(section, code) # Null => Known(section, code) \notin Filtered
  BY OecdAssumption DEF Known
<1>5. \A target : Located(target, domains, db, own) = "geo" => target \in db.ents
  BY OecdAssumption DEF Located
<1>6. Attaches(GeoProviderRows(domains, db, own), db)
  <2> DEFINE row(p) == IF Known("provider", p.code) = EuropeanUnion THEN Suppressed(p)
                       ELSE Attached(Known("provider", p.code), "oecd:provider", p)
             cs == {row(p) : p \in MappedTo("geo", domains, db, own)}
  <2>1. \A c \in cs : Attaches(c, db)
    <3> SUFFICES ASSUME NEW p \in MappedTo("geo", domains, db, own)
                 PROVE  Attaches(row(p), db)
      OBVIOUS
    <3>1. Known("provider", p.code) \in db.ents \ Filtered
      BY <1>4, <1>5, OecdAssumption DEF MappedTo
    <3>2. CASE Known("provider", p.code) = EuropeanUnion
      <4> DEFINE c == Suppressed(p)
      <4>1. c.names = {} /\ c.codes = CodeOf(EuropeanUnion, "oecd:provider", p.code) /\ c.gone = {} /\ c.ents = {}
        BY DEF Suppressed, Nothing, Fields, Tables
      <4> HIDE DEF c
      <4>2. \A k \in c.codes : k.of = EuropeanUnion /\ k.system = "oecd:provider"
        BY <4>1 DEF CodeOf
      <4>3. Attaches(c, db)
        BY <3>1, <3>2, <4>1, <4>2 DEF Attaches
      <4> QED
        BY <3>2, <4>3 DEF c
    <3>3. CASE Known("provider", p.code) # EuropeanUnion
      BY <1>1, <3>1, <3>3
    <3> QED
      BY <3>2, <3>3
  <2>2. GeoProviderRows(domains, db, own) = Joined(cs)
    BY DEF GeoProviderRows
  <2> HIDE DEF cs
  <2> QED
    BY <2>1, <2>2, JoinedAttach
<1>7. Attaches(ChannelRows("geo", domains, db, own), db)
  <2> DEFINE row(c) == IF Known("channel", c.code) = Null THEN Minted(c.id, "oecd:channel", c)
                       ELSE Attached(ChannelId(c), "oecd:channel", c)
             cs == {row(c) : c \in {d \in Channels : ChannelSide(d, domains, db, own) = "geo"}}
  <2>1. \A c \in cs : Attaches(c, db)
    <3> SUFFICES ASSUME NEW c \in Channels, ChannelSide(c, domains, db, own) = "geo"
                 PROVE  Attaches(row(c), db)
      OBVIOUS
    <3>1. Known("channel", c.code) # Null /\ Known("channel", c.code) \in db.ents \ Filtered
      BY <1>4, <1>5, OecdAssumption DEF ChannelSide
    <3> QED
      BY <1>1, <3>1 DEF ChannelId
  <2>2. ChannelRows("geo", domains, db, own) = Joined(cs)
    BY DEF ChannelRows
  <2> HIDE DEF cs
  <2> QED
    BY <2>1, <2>2, JoinedAttach
<1>8. Attaches(Nothing, db)
  BY DEF Attaches, Nothing, Fields, Tables
<1> DEFINE cs == {RecipientRows(db), CountryProviderRows(db), GeoProviderRows(domains, db, own),
                  ChannelRows("geo", domains, db, own)}
<1>9. \A c \in cs : Attaches(c, db)
  BY <1>2, <1>3, <1>6, <1>7
<1>10. OecdGeoRows(domains, db, own) = (IF "geo" \notin domains THEN Nothing ELSE Joined(cs))
  BY DEF OecdGeoRows
<1> HIDE DEF cs
<1> QED
  BY <1>8, <1>9, <1>10, JoinedAttach

(***************************************************************************)
(* A run has rows in hand only between a read and the write that follows.  *)
(* As long as no write has been overtaken by a merge, every row of the     *)
(* shared store has its entity, and what a run that no merge fell into has *)
(* in hand attaches to the store as it is now, whatever others have        *)
(* written since: they take out only what the filter does.                 *)
(***************************************************************************)
HandsOK ==
  \A r \in Run : /\ draft[r] # << >> => at[r] \in Steps \cup {OecdGeo, OecdOrg}
                 /\ at[r] \in {OecdGeo, OecdOrg} => draft[r] # << >>

AttachedOK ==
  ~crossed => /\ Sound(geo)
              /\ \A r \in Run \ disturbed : ToGeo(r) => Attaches(draft[r][1], geo)

EnrichInv == EnrichTypeOK /\ HandsOK /\ AttachedOK

\* The places of a run are different numbers.
LEMMA StepNumbers ==
  /\ Steps = 1 .. 9 /\ NotBegun = 0 /\ Oecd = 10 /\ OecdGeo = 11 /\ OecdOrg = 12 /\ Index = 13
  /\ Reconciling = 14 /\ Starting = 15 /\ Done = 16 /\ Interrupted = 17
  BY DEF Steps, NotBegun, Oecd, OecdGeo, OecdOrg, Index, Reconciling, Starting, Done, Interrupted, Enricher

\* The next enricher is one of the nine, or the OECD pass.
LEMMA FollowingIs ==
  ASSUME NEW i, NEW types
  PROVE  Following(i, types) \in Steps \cup {Oecd}
<1> DEFINE left == {j \in Steps : j > i /\ TargetType(j) \in types}
<1>1. left \in SUBSET (0 .. 9) /\ left \subseteq Steps
  BY StepNumbers
<1>2. Following(i, types) = (IF left = {} THEN Oecd ELSE CHOOSE j \in left : \A k \in left : j <= k)
  BY DEF Following
<1> HIDE DEF left
<1>3. CASE left # {}
  <2>1. PICK m \in left : \A k \in 0 .. 9 : k < m => k \notin left
    BY <1>1, <1>3, FirstFailure
  <2>2. \A k \in left : m <= k
    BY <1>1, <2>1
  <2>3. (CHOOSE j \in left : \A k \in left : j <= k) \in left
    BY <2>1, <2>2
  <2> QED
    BY <1>1, <1>2, <1>3, <2>3
<1> QED
  BY <1>2, <1>3

\* A step that leaves the store as it is, and at most takes rows out of hands.
LEMMA HandsEmptied ==
  ASSUME EnrichInv, NEW r \in Run, geo' = geo, crossed' = crossed,
         \A q \in Run \ {r} : draft'[q] = draft[q] /\ at'[q] = at[q],
         draft'[r] = << >>, disturbed \ {r} \subseteq disturbed'
  PROVE  AttachedOK'
<1> SUFFICES ASSUME ~crossed'
             PROVE  Sound(geo)' /\ \A q \in Run \ disturbed' : ToGeo(q)' => Attaches(draft'[q][1], geo')
  BY DEF AttachedOK
<1>1. Sound(geo) /\ \A q \in Run \ disturbed : ToGeo(q) => Attaches(draft[q][1], geo)
  BY DEF EnrichInv, AttachedOK
<1> QED
  BY <1>1 DEF ToGeo

\* A write to the shared store of rows that a run had in hand.
LEMMA GeoIsWritten ==
  ASSUME EnrichInv, NEW r \in Run, ToGeo(r), WriteGeo(r, draft[r][1]), ~ToGeo(r)', disturbed' = disturbed,
         \A q \in Run \ {r} : draft'[q] = draft[q] /\ at'[q] = at[q]
  PROVE  AttachedOK'
<1> SUFFICES ASSUME ~crossed'
             PROVE  Sound(geo') /\ \A q \in Run \ disturbed : ToGeo(q)' => Attaches(draft'[q][1], geo')
  BY DEF AttachedOK
<1>1. ~crossed /\ r \notin disturbed /\ geo' = Apply(geo, draft[r][1])
  BY DEF WriteGeo
<1>2. Sound(geo) /\ \A q \in Run \ disturbed : ToGeo(q) => Attaches(draft[q][1], geo)
  BY <1>1 DEF EnrichInv, AttachedOK
<1>3. Sound(geo') /\ geo.ents \ Filtered \subseteq geo'.ents
  BY <1>1, <1>2, ApplyIsSound
<1>4. ASSUME NEW q \in Run \ disturbed, ToGeo(q)'
      PROVE  Attaches(draft'[q][1], geo')
  <2>1. q # r /\ draft'[q] = draft[q] /\ ToGeo(q)
    BY <1>4 DEF ToGeo
  <2>2. Attaches(draft[q][1], geo)
    BY <1>2, <2>1
  <2> QED
    BY <1>3, <2>1, <2>2, AttachesStill
<1> QED
  BY <1>3, <1>4

\* The shared store begins with sound rows, and nothing is in hand.
LEMMA EnrichmentBegins == EnrichInit => EnrichInv
<1> SUFFICES ASSUME EnrichInit
             PROVE  EnrichInv
  OBVIOUS
<1>1. draft = [r \in Run |-> << >>] /\ at = [r \in Run |-> NotBegun]
  BY DEF EnrichInit
<1>2. Sound(geo)
  BY RowsAssumption DEF EnrichInit
<1>3. EnrichTypeOK
  <2>1. PICK domains \in {{"geo"}, {"geo", "org"}} : has = [r \in Run |-> domains]
    BY DEF EnrichInit
  <2>2. at \in [Run -> NotBegun .. Interrupted]
    BY <1>1, StepNumbers
  <2>3. present = [r \in Run |-> {}] /\ dirty = [r \in Run |-> {}] /\ stale = {} /\ disturbed = {} /\ behind = {}
    BY DEF EnrichInit
  <2>4. DOMAIN geo = Tables
    BY <1>2 DEF Sound
  <2> QED
    BY <1>1, <2>1, <2>2, <2>3, <2>4 DEF EnrichTypeOK
<1>4. HandsOK
  BY <1>1, StepNumbers DEF HandsOK
<1>5. AttachedOK
  BY <1>1, <1>2 DEF AttachedOK, ToGeo
<1> QED
  BY <1>3, <1>4, <1>5 DEF EnrichInv

\* Whatever is written, a database has its tables.
LEMMA TablesStay ==
  /\ \A db, c : DOMAIN Apply(db, c) = Tables
  /\ \A db : DOMAIN Hydrated(db) = Tables
  /\ \A db, type, slice : DOMAIN Merged(db, type, slice) = Tables
<1>1. \A db, rows : DOMAIN Inserted(db, rows) = Tables
  BY DEF Inserted, Tables
<1>2. \A db, c : DOMAIN Apply(db, c) = Tables
  BY DEF Apply, Tables
<1>3. ASSUME NEW db
      PROVE  DOMAIN Hydrated(db) = Tables
  <2> DEFINE after == CHOOSE f : f = [n \in 0 .. MaxRounds |-> RoundStep(db, f, n)]
  <2>1. MaxRounds \in 0 .. MaxRounds /\ MaxRounds # 0
    BY ReconcileAssumption
  <2>2. Hydrated(db) = after[MaxRounds]
    BY DEF Hydrated, RoundStep
  <2>3. after = [n \in 0 .. MaxRounds |-> RoundStep(db, after, n)]
    BY RoundsExist
  <2> HIDE DEF after
  <2>4. after[MaxRounds] = RoundStep(db, after, MaxRounds)
    BY <2>1, <2>3
  <2> QED
    BY <1>1, <2>1, <2>2, <2>4 DEF RoundStep, Round
<1>4. ASSUME NEW db, NEW type, NEW slice
      PROVE  DOMAIN Merged(db, type, slice) = Tables
  BY <1>1 DEF Merged
<1> QED
  BY <1>2, <1>3, <1>4

\* Types are kept by every step.
LEMMA EnrichmentTypes ==
  ASSUME EnrichTypeOK, [EnrichNext]_enrichVars
  PROVE  EnrichTypeOK'
<1> USE DEF Goto
<1>1. ASSUME NEW r \in Run, BeginPass(r)
      PROVE  EnrichTypeOK'
  BY <1>1, StepNumbers DEF BeginPass, EnrichTypeOK
<1>2. ASSUME NEW r \in Run, ReconcileGeo(r)
      PROVE  EnrichTypeOK'
  BY <1>2, StepNumbers, TablesStay DEF ReconcileGeo, Refreshed, EnrichTypeOK, historyVars
<1>3. ASSUME NEW r \in Run, SkipReconcile(r)
      PROVE  EnrichTypeOK'
  BY <1>3, StepNumbers DEF SkipReconcile, EnrichTypeOK, historyVars, dbVars
<1>4. ASSUME NEW r \in Run, Start(r)
      PROVE  EnrichTypeOK'
  BY <1>4, StepNumbers, FollowingIs DEF Start, EnrichTypeOK, historyVars, dbVars
<1>5. ASSUME NEW r \in Run, ReadEnricher(r)
      PROVE  EnrichTypeOK'
  BY <1>5, StepNumbers DEF ReadEnricher, EnrichTypeOK, historyVars, dbVars
<1>6. ASSUME NEW r \in Run, WriteEnricher(r)
      PROVE  EnrichTypeOK'
  BY <1>6, StepNumbers, FollowingIs, TablesStay DEF WriteEnricher, WriteGeo, EnrichTypeOK
<1>7. ASSUME NEW r \in Run, ReadOecd(r)
      PROVE  EnrichTypeOK'
  BY <1>7, StepNumbers DEF ReadOecd, EnrichTypeOK, historyVars, dbVars
<1>8. ASSUME NEW r \in Run, WriteOecdGeo(r)
      PROVE  EnrichTypeOK'
  BY <1>8, StepNumbers, TablesStay DEF WriteOecdGeo, WriteGeo, EnrichTypeOK
<1>9. ASSUME NEW r \in Run, WriteOecdOrg(r)
      PROVE  EnrichTypeOK'
  <2>1. /\ at' \in [Run -> NotBegun .. Interrupted] /\ DOMAIN draft' = Run
        /\ \A q \in Run : Len(draft'[q]) \in 0 .. 2
    BY <1>9, StepNumbers DEF WriteOecdOrg, EnrichTypeOK
  <2>2. geo' = geo /\ has' = has /\ present' = present /\ disturbed' = disturbed /\ behind' = behind
        /\ stale' \subseteq stale \cup {r}
    BY <1>9 DEF WriteOecdOrg, historyVars
  <2>3. dirty' \in [Run -> SUBSET {"geo", "org"}] /\ \A q \in Run : dirty'[q] \subseteq has[q]
    <3>1. CASE "org" \in has[r]
      <4>1. PICK D \in {dirty[r], dirty[r] \cup {"org"}} : dirty' = [dirty EXCEPT ![r] = D]
        BY <1>9, <3>1 DEF WriteOecdOrg
      <4> QED
        BY <3>1, <4>1 DEF EnrichTypeOK
    <3>2. CASE "org" \notin has[r]
      BY <1>9, <3>2 DEF WriteOecdOrg, EnrichTypeOK
    <3> QED
      BY <3>1, <3>2
  <2> QED
    BY <2>1, <2>2, <2>3 DEF EnrichTypeOK
<1>10. ASSUME NEW r \in Run, RebuildFts(r) \/ Finish(r) \/ Stop(r)
      PROVE  EnrichTypeOK'
  <2>1. CASE RebuildFts(r)
    BY <2>1 DEF RebuildFts, EnrichTypeOK, historyVars
  <2>2. CASE Finish(r)
    BY <2>2, StepNumbers DEF Finish, EnrichTypeOK, dbVars
  <2>3. CASE Stop(r)
    <3>1. at' \in [Run -> NotBegun .. Interrupted]
      BY <2>3, StepNumbers DEF Stop, EnrichTypeOK
    <3>2. DOMAIN draft' = Run /\ \A q \in Run : Len(draft'[q]) \in 0 .. 2
      BY <2>3 DEF Stop, EnrichTypeOK
    <3> QED
      BY <2>3, <3>1, <3>2 DEF Stop, EnrichTypeOK, historyVars, dbVars
  <2> QED
    BY <1>10, <2>1, <2>2, <2>3
<1>11. ASSUME NEW type, NEW slice, MergeUnit(type, slice)
      PROVE  EnrichTypeOK'
  BY <1>11, TablesStay DEF MergeUnit, Refreshed, EnrichTypeOK, historyVars, dbVars
<1>12. CASE UNCHANGED enrichVars
  BY <1>12 DEF enrichVars, dbVars, passVars, historyVars, EnrichTypeOK
<1> QED
  BY <1>1, <1>2, <1>3, <1>4, <1>5, <1>6, <1>7, <1>8, <1>9, <1>10, <1>11, <1>12 DEF EnrichNext

\* A run has rows in hand only where it is about to write them.
LEMMA HandsStep ==
  ASSUME EnrichInv, [EnrichNext]_enrichVars
  PROVE  HandsOK'
<1> USE StepNumbers DEF HandsOK, Goto
<1>0. EnrichTypeOK /\ HandsOK
  BY DEF EnrichInv
<1>1. ASSUME NEW r \in Run, BeginPass(r) \/ ReconcileGeo(r) \/ SkipReconcile(r)
      PROVE  HandsOK'
  BY <1>0, <1>1 DEF BeginPass, ReconcileGeo, SkipReconcile, EnrichTypeOK
<1>2. ASSUME NEW r \in Run, Start(r)
      PROVE  HandsOK'
  <2>1. at' = [at EXCEPT ![r] = Following(0, {TypeOf[e] : e \in geo.ents})] /\ draft' = draft /\ at[r] = Starting
    BY <1>2 DEF Start
  <2> QED
    BY <1>0, <2>1, FollowingIs DEF EnrichTypeOK
<1>3. ASSUME NEW r \in Run, ReadEnricher(r)
      PROVE  HandsOK'
  <2>1. PICK c : draft' = [draft EXCEPT ![r] = <<c>>]
    BY <1>3 DEF ReadEnricher
  <2>2. at' = at /\ at[r] \in Steps
    BY <1>3 DEF ReadEnricher
  <2> QED
    BY <1>0, <2>1, <2>2 DEF EnrichTypeOK
<1>4. ASSUME NEW r \in Run, WriteEnricher(r)
      PROVE  HandsOK'
  <2>1. at' = [at EXCEPT ![r] = Following(at[r], present[r])] /\ draft' = [draft EXCEPT ![r] = << >>]
    BY <1>4 DEF WriteEnricher
  <2> QED
    BY <1>0, <2>1, FollowingIs DEF EnrichTypeOK
<1>5. ASSUME NEW r \in Run, ReadOecd(r)
      PROVE  HandsOK'
  <2>1. PICK c, d : draft' = [draft EXCEPT ![r] = <<c, d>>]
    BY <1>5 DEF ReadOecd
  <2>2. at' = [at EXCEPT ![r] = OecdGeo]
    BY <1>5 DEF ReadOecd
  <2> QED
    BY <1>0, <2>1, <2>2 DEF EnrichTypeOK
<1>6. ASSUME NEW r \in Run, WriteOecdGeo(r)
      PROVE  HandsOK'
  BY <1>0, <1>6 DEF WriteOecdGeo, EnrichTypeOK
<1>7. ASSUME NEW r \in Run, WriteOecdOrg(r)
      PROVE  HandsOK'
  <2>1. at' = [at EXCEPT ![r] = Index] /\ draft' = [draft EXCEPT ![r] = << >>]
    BY <1>7 DEF WriteOecdOrg
  <2> QED
    BY <1>0, <2>1 DEF EnrichTypeOK
<1>8. ASSUME NEW r \in Run, RebuildFts(r) \/ Finish(r) \/ Stop(r)
      PROVE  HandsOK'
  <2>1. CASE RebuildFts(r)
    BY <1>0, <2>1 DEF RebuildFts
  <2>2. CASE Finish(r)
    BY <1>0, <2>2 DEF Finish, EnrichTypeOK
  <2>3. CASE Stop(r)
    BY <1>0, <2>3 DEF Stop, EnrichTypeOK
  <2> QED
    BY <1>8, <2>1, <2>2, <2>3
<1>9. ASSUME NEW type, NEW slice, MergeUnit(type, slice)
      PROVE  HandsOK'
  BY <1>0, <1>9 DEF MergeUnit
<1>10. CASE UNCHANGED enrichVars
  BY <1>0, <1>10 DEF enrichVars, passVars
<1> QED
  BY <1>1, <1>2, <1>3, <1>4, <1>5, <1>6, <1>7, <1>8, <1>9, <1>10 DEF EnrichNext

\* Every step keeps the rows of the store with their entities, and what is in
\* hand attached, until a merge overtakes a write.
LEMMA AttachedStep ==
  ASSUME EnrichInv, [EnrichNext]_enrichVars
  PROVE  AttachedOK'
<1> USE DEF Goto
<1>0. EnrichTypeOK /\ HandsOK /\ AttachedOK
  BY DEF EnrichInv
<1>1. ASSUME NEW r \in Run, BeginPass(r)
      PROVE  AttachedOK'
  <2>1. at[r] \in {NotBegun, Done, Interrupted} /\ draft' = draft /\ at' = [at EXCEPT ![r] = Reconciling]
        /\ geo' = geo /\ crossed' = crossed /\ disturbed' = disturbed \ {r}
    BY <1>1 DEF BeginPass
  <2>2. draft[r] = << >>
    BY <1>0, <2>1, StepNumbers DEF HandsOK
  <2> QED
    BY <1>0, <2>1, <2>2, HandsEmptied DEF EnrichTypeOK
<1>2. ASSUME NEW r \in Run, ReconcileGeo(r)
      PROVE  AttachedOK'
  <2>1. /\ geo' = Hydrated(geo) /\ draft' = draft /\ crossed' = crossed /\ disturbed' = disturbed
        /\ at[r] = Reconciling
        /\ \A q \in Run \ {r} : at'[q] = at[q]
    BY <1>0, <1>2 DEF ReconcileGeo, EnrichTypeOK
  <2>2. draft[r] = << >>
    BY <1>0, <2>1, StepNumbers DEF HandsOK
  <2> SUFFICES ASSUME ~crossed
               PROVE  Sound(geo') /\ \A q \in Run \ disturbed : ToGeo(q)' => Attaches(draft'[q][1], geo')
    BY <2>1 DEF AttachedOK
  <2>3. Sound(geo) /\ \A q \in Run \ disturbed : ToGeo(q) => Attaches(draft[q][1], geo)
    BY <1>0 DEF AttachedOK
  <2>4. Sound(geo') /\ geo.ents \ Filtered \subseteq geo'.ents
    BY <2>1, <2>3, HydratedIsSound
  <2>5. ASSUME NEW q \in Run \ disturbed, ToGeo(q)'
        PROVE  Attaches(draft'[q][1], geo')
    <3>1. ToGeo(q) /\ draft'[q] = draft[q]
      BY <2>1, <2>2, <2>5 DEF ToGeo
    <3>2. Attaches(draft[q][1], geo)
      BY <2>3, <3>1
    <3> QED
      BY <2>4, <3>1, <3>2, AttachesStill
  <2> QED
    BY <2>4, <2>5
<1>3. ASSUME NEW r \in Run, SkipReconcile(r) \/ Start(r)
      PROVE  AttachedOK'
  <2>1. /\ geo' = geo /\ draft' = draft /\ crossed' = crossed /\ disturbed' = disturbed
        /\ at[r] \in {Reconciling, Starting}
        /\ \A q \in Run \ {r} : at'[q] = at[q]
    BY <1>0, <1>3 DEF SkipReconcile, Start, historyVars, dbVars, EnrichTypeOK
  <2>2. draft[r] = << >>
    BY <1>0, <2>1, StepNumbers DEF HandsOK
  <2> QED
    BY <2>1, <2>2, HandsEmptied
<1>4. ASSUME NEW r \in Run, ReadEnricher(r)
      PROVE  AttachedOK'
  <2>1. PICK reachable \in BOOLEAN : draft' = [draft EXCEPT ![r] = <<Contributed(at[r], geo, reachable)>>]
    BY <1>4 DEF ReadEnricher
  <2>2. /\ geo' = geo /\ at' = at /\ crossed' = crossed /\ disturbed' = disturbed
        /\ at[r] \in Steps
    BY <1>4 DEF ReadEnricher, historyVars, dbVars
  <2> SUFFICES ASSUME ~crossed, NEW q \in Run \ disturbed, ToGeo(q)'
               PROVE  Attaches(draft'[q][1], geo)
    BY <1>0, <2>2 DEF AttachedOK
  <2>3. Sound(geo) /\ (ToGeo(q) => Attaches(draft[q][1], geo))
    BY <1>0 DEF AttachedOK
  <2>4. CASE q = r
    <3>1. draft'[q][1] = Contributed(at[r], geo, reachable)
      BY <1>0, <2>1, <2>4 DEF EnrichTypeOK
    <3> QED
      BY <2>2, <2>3, <3>1, EnricherAttaches
  <2>5. CASE q # r
    BY <1>0, <2>1, <2>2, <2>3, <2>5 DEF ToGeo, EnrichTypeOK
  <2> QED
    BY <2>4, <2>5
<1>5. ASSUME NEW r \in Run, WriteEnricher(r)
      PROVE  AttachedOK'
  <2>1. /\ WriteGeo(r, Head(draft[r])) /\ draft[r] # << >> /\ at[r] \in Steps
        /\ draft' = [draft EXCEPT ![r] = << >>] /\ disturbed' = disturbed
        /\ \A q \in Run \ {r} : at'[q] = at[q]
    BY <1>0, <1>5 DEF WriteEnricher, EnrichTypeOK
  <2>2. Head(draft[r]) = draft[r][1]
    BY DEF Head
  <2>3. ToGeo(r) /\ ~ToGeo(r)'
    BY <1>0, <2>1, StepNumbers DEF ToGeo, EnrichTypeOK
  <2> QED
    BY <1>0, <2>1, <2>2, <2>3, GeoIsWritten DEF EnrichTypeOK
<1>6. ASSUME NEW r \in Run, ReadOecd(r)
      PROVE  AttachedOK'
  <2>1. /\ draft' = [draft EXCEPT ![r] = <<OecdGeoRows(has[r], geo, org[r]), OecdOrgRows(has[r], geo, org[r])>>]
        /\ geo' = geo /\ at' = [at EXCEPT ![r] = OecdGeo] /\ crossed' = crossed /\ disturbed' = disturbed
    BY <1>6 DEF ReadOecd, historyVars, dbVars
  <2> SUFFICES ASSUME ~crossed, NEW q \in Run \ disturbed, ToGeo(q)'
               PROVE  Attaches(draft'[q][1], geo)
    BY <1>0, <2>1 DEF AttachedOK
  <2>2. Sound(geo) /\ (ToGeo(q) => Attaches(draft[q][1], geo))
    BY <1>0 DEF AttachedOK
  <2>3. CASE q = r
    <3>1. draft'[q][1] = OecdGeoRows(has[r], geo, org[r])
      BY <1>0, <2>1, <2>3 DEF EnrichTypeOK
    <3> QED
      BY <2>2, <3>1, OecdAttaches
  <2>4. CASE q # r
    BY <1>0, <2>1, <2>2, <2>4 DEF ToGeo, EnrichTypeOK
  <2> QED
    BY <2>3, <2>4
<1>7. ASSUME NEW r \in Run, WriteOecdGeo(r)
      PROVE  AttachedOK'
  <2>1. /\ WriteGeo(r, draft[r][1]) /\ at[r] = OecdGeo /\ at' = [at EXCEPT ![r] = OecdOrg]
        /\ draft' = draft /\ disturbed' = disturbed
    BY <1>7 DEF WriteOecdGeo
  <2>2. ToGeo(r) /\ ~ToGeo(r)'
    BY <1>0, <2>1, StepNumbers DEF ToGeo, HandsOK, EnrichTypeOK
  <2> QED
    BY <1>0, <2>1, <2>2, GeoIsWritten DEF EnrichTypeOK
<1>8. ASSUME NEW r \in Run, WriteOecdOrg(r) \/ Stop(r)
      PROVE  AttachedOK'
  <2>1. /\ geo' = geo /\ crossed' = crossed /\ disturbed' = disturbed
        /\ draft'[r] = << >> /\ \A q \in Run \ {r} : draft'[q] = draft[q] /\ at'[q] = at[q]
    BY <1>0, <1>8 DEF WriteOecdOrg, Stop, historyVars, dbVars, EnrichTypeOK
  <2> QED
    BY <2>1, HandsEmptied
<1>9. ASSUME NEW r \in Run, RebuildFts(r) \/ Finish(r)
      PROVE  AttachedOK'
  <2>1. /\ geo' = geo /\ crossed' = crossed /\ disturbed' = disturbed /\ draft' = draft /\ at[r] = Index
        /\ \A q \in Run \ {r} : at'[q] = at[q]
    BY <1>0, <1>9 DEF RebuildFts, Finish, historyVars, dbVars, EnrichTypeOK
  <2>2. draft[r] = << >>
    BY <1>0, <2>1, StepNumbers DEF HandsOK
  <2> QED
    BY <2>1, <2>2, HandsEmptied
<1>10. ASSUME NEW type \in DOMAIN Slice, NEW slice \in Slice[type], MergeUnit(type, slice)
      PROVE  AttachedOK'
  <2>1. /\ geo' = Merged(geo, type, slice) /\ disturbed' = disturbed \cup {r \in Run : Running(r)}
        /\ draft' = draft /\ at' = at /\ crossed' = crossed
    BY <1>10 DEF MergeUnit
  <2>2. \A q \in Run \ disturbed' : ~ToGeo(q)'
    BY <1>0, <2>1, StepNumbers DEF ToGeo, HandsOK, Running
  <2>3. ~crossed => Sound(geo')
    BY <1>0, <2>1, MergedIsSound, RowsAssumption DEF AttachedOK
  <2> QED
    BY <2>1, <2>2, <2>3 DEF AttachedOK
<1>11. CASE UNCHANGED enrichVars
  BY <1>0, <1>11 DEF enrichVars, dbVars, passVars, historyVars, AttachedOK, ToGeo
<1> QED
  BY <1>1, <1>2, <1>3, <1>4, <1>5, <1>6, <1>7, <1>8, <1>9, <1>10, <1>11 DEF EnrichNext

\* Types of the stage: where a run is, what it has in hand and what it has to
\* index (stage_enrich).
THEOREM EnrichmentTyping == EnrichSpec => []EnrichTypeOK
<1>1. EnrichInit => EnrichTypeOK
  BY EnrichmentBegins DEF EnrichInv
<1>2. EnrichTypeOK /\ [EnrichNext]_enrichVars => EnrichTypeOK'
  BY EnrichmentTypes
<1> QED
  BY <1>1, <1>2, PTL DEF EnrichSpec

\* Enrichers and reconciliations of any number of runs leave no name and no
\* code without its entity, in whatever order they read and write: only a
\* write of rows that were read before a merge can (enrich.py:394).
THEOREM RowsKeepTheirEntities == EnrichSpec => []OrphansNeedAMerge
<1>1. EnrichInit => EnrichInv
  BY EnrichmentBegins
<1>2. EnrichInv /\ [EnrichNext]_enrichVars => EnrichInv'
  BY EnrichmentTypes, HandsStep, AttachedStep DEF EnrichInv
<1>3. EnrichInv => OrphansNeedAMerge
  BY DEF EnrichInv, AttachedOK, OrphansNeedAMerge, Sound
<1> QED
  BY <1>1, <1>2, <1>3, PTL DEF EnrichSpec

-----------------------------------------------------------------------------
(***************************************************************************)
(* What the curated files rule.  Whatever was read before a merge or a     *)
(* fetch and is written after it, the store keeps its ground and a         *)
(* contribution does no harm (GroundOK); what is in hand and not behind    *)
(* says of each group what would be read now (FreshOK).  A pass that       *)
(* nothing fell into has, at each of its places, done what the enrichers   *)
(* behind it do (PassedOK), and no enricher of another run undoes it.      *)
(***************************************************************************)
DonorNames == NamesOf(EuropeanUnion, DonorLabels)
ScopeOf(g) == [type |-> "member_of", target |-> g.id]
ListedGroups == {g \in Groups : g.listed}

\* No code of ISO is of what the filter takes out, relations to that can be
\* followed, and the donor label has an entity to be taken off.
Ground(db) ==
  /\ \A k \in db.codes : k.system \in {"iso2", "iso3"} => k.of \notin Filtered
  /\ Related(db)
  /\ DonorLabelIsOff(db) \/ EuropeanUnion \in db.ents

\* A contribution brings no code of ISO, nothing that the filter takes out and
\* no relation to that, and it does not give the donor label.
Harmless(c) ==
  /\ \A k \in c.codes : k.system \notin {"iso2", "iso3"}
  /\ c.gone \subseteq Filtered /\ c.ents \cap Filtered = {}
  /\ \A e \in c.edges : e.target \notin Filtered
  /\ DonorNames \cap c.names = {}

Fresh(c, db) ==
  \A g \in ListedGroups : MembersIn(c, g) = IF ScopeOf(g) \in c.scopes THEN Members(db, g) ELSE {}

\* Every relation to what the filter takes out leads to an entity.
Led(db) == \A e \in db.edges : e.target \in Filtered => e.target \in db.ents

GroundOK ==
  /\ Ground(geo) /\ HasCountries(geo)
  /\ \A r \in Run : ToGeo(r) => Harmless(draft[r][1])
FreshOK == \A r \in Run \ behind : ToGeo(r) => Fresh(draft[r][1], geo)

GroupStep == 4
FilterStep == 9
PastEnrichers == {Oecd, OecdGeo, OecdOrg, Index}

PassedGroups(r) ==
  /\ at[r] \in Steps => "country" \in present[r]
  /\ at[r] = GroupStep /\ draft[r] # << >> => \A g \in ListedGroups : ScopeOf(g) \in draft[r][1].scopes
  /\ at[r] \in GroupStep + 1 .. FilterStep \cup PastEnrichers => GroupsAreTheFiles(geo)
PassedFilter(r) ==
  /\ at[r] = FilterStep /\ draft[r] # << >> => geo.ents \cap Filtered \subseteq draft[r][1].gone
  /\ at[r] \in PastEnrichers \/ (at[r] \in Steps /\ "region" \notin present[r]) => geo.ents \cap Filtered = {}
PassedDonor(r) ==
  /\ at[r] = OecdGeo => \A n \in DonorNames \cap geo.names :
                          [of |-> n.of, text |-> n.text] \in draft[r][1].unnamed
  /\ at[r] \in {OecdOrg, Index} => DonorLabelIsOff(geo)
PassedOK == closed \subseteq Run /\ \A r \in closed : PassedGroups(r) /\ PassedFilter(r) /\ PassedDonor(r)
LedOK == closed # {} \/ enriched => Led(geo)

CurationInv == GroundOK /\ FreshOK /\ PassedOK /\ LedOK /\ CurationIsEnforced

\* What a transaction leaves, field by field.
LEMMA ApplyFields ==
  ASSUME NEW db, NEW c
  PROVE  /\ Apply(db, c).ents = (db.ents \cup c.ents) \ c.gone
         /\ Apply(db, c).names = {n \in db.names \cup c.names : NameStays(n, c)}
         /\ Apply(db, c).codes = {k \in AddCodes(db.codes, c.codes) : k.of \notin c.gone}
         /\ Apply(db, c).edges = {e \in AddEdges(KeptEdges(db, c), c.edges) : EdgeStays(e, c)}
  BY DEF Apply

\* A harmless contribution brings no relation to what the filter takes out,
\* and takes those away that lead to what it deletes.
LEMMA ApplyLeads ==
  ASSUME NEW db, NEW c, Harmless(c)
  PROVE  /\ \A e \in Apply(db, c).edges : e.target \in Filtered => e \in db.edges /\ EdgeStays(e, c)
         /\ Led(db) => Led(Apply(db, c))
         /\ Apply(db, c).ents \cap Filtered = (db.ents \cap Filtered) \ c.gone
<1>1. \A e \in Apply(db, c).edges : e.target \in Filtered => e \in db.edges /\ EdgeStays(e, c)
  BY ApplyFields DEF AddEdges, KeptEdges, Harmless
<1>2. Apply(db, c).ents \cap Filtered = (db.ents \cap Filtered) \ c.gone
  BY ApplyFields DEF Harmless
<1>3. Led(db) => Led(Apply(db, c))
  BY <1>1, <1>2 DEF Led, EdgeStays
<1> QED
  BY <1>1, <1>2, <1>3

\* It adds no donor label, and deletes those it says.
LEMMA ApplyDonor ==
  ASSUME NEW db, NEW c, Harmless(c)
  PROVE  \A n \in DonorNames \cap Apply(db, c).names :
           /\ n \in db.names /\ n.of \notin c.gone
           /\ [of |-> n.of, text |-> n.text] \notin c.unnamed
<1> SUFFICES ASSUME NEW n \in DonorNames, n \in Apply(db, c).names
             PROVE  /\ n \in db.names /\ n.of \notin c.gone
                    /\ [of |-> n.of, text |-> n.text] \notin c.unnamed
  OBVIOUS
<1>1. n \in db.names \cup c.names /\ NameStays(n, c)
  BY ApplyFields
<1>2. n \in db.names
  BY <1>1 DEF Harmless
<1> QED
  BY <1>1, <1>2 DEF NameStays

\* The rows of a donor label are of the European Union.
LEMMA DonorNamesAre == \A n \in DonorNames : n.of = EuropeanUnion
  BY NamesAre DEF DonorNames

\* The ground is kept by a contribution that does no harm.
LEMMA ApplyGround ==
  ASSUME NEW db, NEW c, Ground(db), Harmless(c)
  PROVE  Ground(Apply(db, c))
<1> DEFINE new == Apply(db, c)
<1>1. \A k \in new.codes : k.system \in {"iso2", "iso3"} => k.of \notin Filtered
  BY ApplyFields DEF AddCodes, Ground, Harmless
<1>2. Related(new)
  <2> SUFFICES ASSUME NEW e \in new.edges, e.target \in Filtered
               PROVE  e.type \in ReconcileTypes /\ e.of \in new.ents
    BY DEF Related
  <2>1. e \in db.edges /\ EdgeStays(e, c)
    BY ApplyLeads
  <2>2. e.type \in ReconcileTypes /\ e.of \in db.ents /\ e.of \notin c.gone
    BY <2>1 DEF Ground, Related, EdgeStays
  <2> QED
    BY <2>2, ApplyFields
<1>3. DonorLabelIsOff(new) \/ EuropeanUnion \in new.ents
  <2> SUFFICES ASSUME NEW n \in DonorNames \cap new.names
               PROVE  EuropeanUnion \in new.ents
    BY DEF DonorLabelIsOff, DonorNames
  <2>1. n \in db.names /\ n.of \notin c.gone /\ n.of = EuropeanUnion
    BY ApplyDonor, DonorNamesAre
  <2>2. EuropeanUnion \in db.ents
    BY <2>1 DEF Ground, DonorLabelIsOff, DonorNames
  <2> QED
    BY <2>1, <2>2, ApplyFields
<1> QED
  BY <1>1, <1>2, <1>3 DEF Ground

\* Countries stay.
LEMMA ApplyCountries ==
  ASSUME NEW db, NEW c, HasCountries(db), Harmless(c)
  PROVE  HasCountries(Apply(db, c))
<1>1. PICK e \in db.ents : TypeOf[e] = "country"
  BY DEF HasCountries, Present
<1>2. e \notin Filtered
  BY <1>1, CuratedAssumption
<1>3. e \in Apply(db, c).ents
  BY <1>2, ApplyFields DEF Harmless
<1> QED
  BY <1>1, <1>3 DEF HasCountries, Present

\* The members of a group are the same as before.
LEMMA ApplyMembers ==
  ASSUME NEW db, NEW c, Ground(db), Harmless(c), NEW g
  PROVE  Members(Apply(db, c), g) = Members(db, g)
<1> DEFINE new == Apply(db, c)
<1>1. \A k : k.system = "iso3" => (k \in new.codes <=> k \in db.codes)
  BY ApplyFields DEF AddCodes, Ground, Harmless
<1> HIDE DEF new
<1>2. \A value : {k \in new.codes : k.system = "iso3" /\ k.value = value}
                   = {k \in db.codes : k.system = "iso3" /\ k.value = value}
  BY <1>1
<1>3. \A value : ByIso3(new, value) = ByIso3(db, value)
  BY <1>2 DEF ByIso3, ByCode
<1>4. Members(new, g) = Members(db, g)
  BY <1>3 DEF Members
<1> QED
  BY <1>4 DEF new

\* A member is no entity that the filter takes out.
LEMMA MembersAre ==
  ASSUME NEW db, Ground(db), NEW g
  PROVE  \A e \in Members(db, g) : e.type = "member_of" /\ e.target = g.id /\ e.of \notin Filtered
<1>1. \A value : ByIso3(db, value) \cap Filtered = {}
  BY DEF ByIso3, ByCode, OneOf, Ground
<1> SUFFICES ASSUME NEW m \in g.members, NEW e \in ByIso3(db, m.iso3)
             PROVE  /\ [of |-> e, type |-> "member_of", target |-> g.id, dates |-> m.dates].type = "member_of"
                    /\ [of |-> e, type |-> "member_of", target |-> g.id, dates |-> m.dates].target = g.id
                    /\ [of |-> e, type |-> "member_of", target |-> g.id, dates |-> m.dates].of \notin Filtered
  BY DEF Members
<1> QED
  BY <1>1

\* Fresh rows replace the members of the groups they own, and leave the others.
LEMMA ApplyGroup ==
  ASSUME NEW db, NEW c, Ground(db), Harmless(c), Fresh(c, db), NEW g \in ListedGroups,
         ScopeOf(g) \in c.scopes \/ MembersIn(db, g) = Members(db, g)
  PROVE  MembersIn(Apply(db, c), g) = Members(Apply(db, c), g)
<1> DEFINE new == Apply(db, c)
           kept == KeptEdges(db, c)
<1>1. \A e \in Members(db, g) : e.type = "member_of" /\ e.target = g.id /\ EdgeStays(e, c)
  <2>1. g.id \notin Filtered
    BY CuratedAssumption DEF ListedGroups
  <2> QED
    BY <2>1, MembersAre DEF EdgeStays, Harmless
<1>2. MembersIn(c, g) = IF ScopeOf(g) \in c.scopes THEN Members(db, g) ELSE {}
  BY DEF Fresh
<1>3. new.edges = {e \in AddEdges(kept, c.edges) : EdgeStays(e, c)}
  BY ApplyFields
<1> HIDE DEF new, kept
<1>4. MembersIn(new, g) = Members(db, g)
  <2>1. CASE ScopeOf(g) \in c.scopes
    <3>1. \A e \in kept : ~(e.type = "member_of" /\ e.target = g.id)
      BY <2>1 DEF kept, KeptEdges, ScopeOf
    <3>2. ASSUME NEW e, e.type = "member_of", e.target = g.id
          PROVE  e \in new.edges <=> e \in Members(db, g)
      <4>1. e \in AddEdges(kept, c.edges) <=> e \in c.edges
        BY <3>1, <3>2 DEF AddEdges, SameEdge
      <4>2. e \in c.edges <=> e \in Members(db, g)
        BY <1>2, <2>1, <3>2 DEF MembersIn
      <4> QED
        BY <1>1, <1>3, <4>1, <4>2
    <3> QED
      BY <1>1, <3>2 DEF MembersIn
  <2>2. CASE ScopeOf(g) \notin c.scopes
    <3>1. MembersIn(db, g) = Members(db, g)
      BY <2>2
    <3>2. ASSUME NEW e, e.type = "member_of", e.target = g.id
          PROVE  e \in new.edges <=> e \in Members(db, g)
      <4>1. e \in kept <=> e \in db.edges
        BY <2>2, <3>2 DEF kept, KeptEdges, ScopeOf
      <4>2. e \notin c.edges
        BY <1>2, <2>2, <3>2 DEF MembersIn
      <4>3. e \in db.edges <=> e \in Members(db, g)
        BY <3>1, <3>2 DEF MembersIn
      <4>4. e \in AddEdges(kept, c.edges) <=> e \in kept
        BY <4>2 DEF AddEdges
      <4> QED
        BY <1>1, <1>3, <4>1, <4>3, <4>4
    <3> QED
      BY <1>1, <3>2 DEF MembersIn
  <2> QED
    BY <2>1, <2>2
<1>5. Members(new, g) = Members(db, g)
  BY ApplyMembers DEF new
<1> QED
  BY <1>4, <1>5 DEF new

\* Sound rows that come from the source keep the ground.
LEMMA InsertedGround ==
  ASSUME NEW db, NEW rows, Ground(db), Sound(rows), Related(rows)
  PROVE  Ground(Inserted(db, rows))
<1> DEFINE new == Inserted(db, rows)
<1>1. /\ new.ents = db.ents \cup rows.ents /\ new.names = db.names \cup rows.names
      /\ new.codes \subseteq rows.codes \cup db.codes /\ new.edges \subseteq db.edges \cup rows.edges
  BY DEF Inserted, AddEdges
<1> HIDE DEF new
<1>2. \A k \in new.codes : k.system \in {"iso2", "iso3"} => k.of \notin Filtered
  BY <1>1 DEF Ground, Sound
<1>3. Related(new)
  BY <1>1 DEF Ground, Related
<1>4. DonorLabelIsOff(new) \/ EuropeanUnion \in new.ents
  <2>1. \A n \in DonorNames \cap rows.names : EuropeanUnion \in rows.ents
    BY DonorNamesAre DEF Sound, Orphans
  <2> QED
    BY <1>1, <2>1 DEF Ground, DonorLabelIsOff, DonorNames
<1> QED
  BY <1>2, <1>3, <1>4 DEF Ground, new

LEMMA FetchedAreRelated ==
  ASSUME NEW ids
  PROVE  Related(FetchedRows(ids))
<1> DEFINE taken == {Fetchable[id] : id \in ids \cap DOMAIN Fetchable}
           new == FetchedRows(ids)
<1>1. /\ new.ents = (UNION {f["ents"] : f \in taken}) \cap ids
      /\ new.edges = {e \in UNION {f["edges"] : f \in taken} : e.of \in ids}
  BY DEF FetchedRows, Tables
<1>2. \A f \in taken : Related(f)
  BY RelationsAssumption
<1> HIDE DEF taken, new
<1>3. Related(new)
  <2> SUFFICES ASSUME NEW e \in new.edges, e.target \in Filtered
               PROVE  e.type \in ReconcileTypes /\ e.of \in new.ents
    BY DEF Related
  <2>1. PICK f \in taken : e \in f.edges
    BY <1>1
  <2>2. e.type \in ReconcileTypes /\ e.of \in f.ents
    BY <1>2, <2>1 DEF Related
  <2> QED
    BY <1>1, <2>2
<1> QED
  BY <1>3 DEF new

\* So do the rounds of a reconciliation.
LEMMA HydratedGround ==
  ASSUME NEW db, Ground(db), HasCountries(db)
  PROVE  Ground(Hydrated(db)) /\ HasCountries(Hydrated(db))
<1> DEFINE after == CHOOSE f : f = [n \in 0 .. MaxRounds |-> RoundStep(db, f, n)]
           Bad == {n \in 0 .. MaxRounds : ~ (Ground(after[n]) /\ HasCountries(after[n]))}
<1>1. MaxRounds \in Nat /\ MaxRounds \in 0 .. MaxRounds
  BY ReconcileAssumption
<1>2. Hydrated(db) = after[MaxRounds]
  BY DEF Hydrated, RoundStep
<1>3. after = [n \in 0 .. MaxRounds |-> RoundStep(db, after, n)]
  BY RoundsExist
<1> HIDE DEF after
<1>4. \A n \in 0 .. MaxRounds : after[n] = RoundStep(db, after, n)
  BY <1>3
<1>5. Bad = {}
  <2> SUFFICES ASSUME Bad # {}
               PROVE  FALSE
    OBVIOUS
  <2>1. PICK m \in Bad : \A k \in 0 .. MaxRounds : k < m => k \notin Bad
    BY <1>1, FirstFailure
  <2>2. m # 0
    BY <1>4, <2>1 DEF RoundStep
  <2>3. m - 1 \in 0 .. MaxRounds /\ m - 1 < m
    BY <1>1, <2>1, <2>2
  <2>4. Ground(after[m - 1]) /\ HasCountries(after[m - 1])
    BY <2>1, <2>3
  <2>5. after[m] = Inserted(after[m - 1], FetchedRows(Missing(after[m - 1])))
    BY <1>4, <2>1, <2>2 DEF RoundStep, Round
  <2>6. Ground(after[m])
    BY <2>4, <2>5, FetchedIsSound, FetchedAreRelated, InsertedGround
  <2>7. after[m - 1].ents \subseteq after[m].ents
    BY <2>5 DEF Inserted
  <2>8. HasCountries(after[m])
    BY <2>4, <2>7 DEF HasCountries, Present
  <2> QED
    BY <2>1, <2>6, <2>8
<1> QED
  BY <1>1, <1>2, <1>5

\* And so does a merge, which replaces countries by countries.
LEMMA MergedGround ==
  ASSUME NEW db, NEW type, NEW slice, Ground(db), HasCountries(db), Sound(slice), Related(slice),
         type = "country" => HasCountries(slice)
  PROVE  Ground(Merged(db, type, slice)) /\ HasCountries(Merged(db, type, slice))
<1> DEFINE old == Present(db, type)
           left == old \ ((db.ents \ old) \cup slice.ents)
           rest == [ents |-> db.ents \ old,
                    names |-> {n \in db.names : n.of \notin old},
                    codes |-> {k \in db.codes : k.of \notin old},
                    edges |-> {e \in db.edges : e.of \notin old},
                    dated |-> db.dated \ old]
           new == Inserted(rest, slice)
           pruned == {e \in new.edges : e.target \notin left}
           all == [new EXCEPT !.edges = pruned]
<1>1. Merged(db, type, slice) = all
  BY DEF Merged
<1>2. Ground(rest)
  <2>1. \A k \in rest.codes : k.system \in {"iso2", "iso3"} => k.of \notin Filtered
    BY DEF Ground
  <2>2. Related(rest)
    BY DEF Ground, Related
  <2>3. DonorLabelIsOff(rest) \/ EuropeanUnion \in rest.ents
    <3> SUFFICES ASSUME NEW n \in DonorNames \cap rest.names
                 PROVE  EuropeanUnion \in rest.ents
      BY DEF DonorLabelIsOff, DonorNames
    <3>1. n \in db.names /\ n.of \notin old /\ n.of = EuropeanUnion
      BY DonorNamesAre
    <3>2. EuropeanUnion \in db.ents
      BY <3>1 DEF Ground, DonorLabelIsOff, DonorNames
    <3> QED
      BY <3>1, <3>2
  <2> QED
    BY <2>1, <2>2, <2>3 DEF Ground
<1>3. rest.ents = db.ents \ old
  OBVIOUS
<1> HIDE DEF rest
<1>4. Ground(new)
  BY <1>2, InsertedGround
<1>5. new.ents = (db.ents \ old) \cup slice.ents
  BY <1>3 DEF Inserted
<1>6. DOMAIN new = Tables
  BY DEF Inserted, Tables
<1> HIDE DEF new
<1>7. all.ents = new.ents /\ all.names = new.names /\ all.codes = new.codes /\ all.edges \subseteq new.edges
  BY <1>6 DEF Tables
<1> HIDE DEF all
<1>8. Ground(all)
  BY <1>4, <1>7 DEF Ground, Related, DonorLabelIsOff
<1>9. HasCountries(all)
  <2>1. CASE type = "country"
    BY <1>5, <1>7, <2>1 DEF HasCountries, Present
  <2>2. CASE type # "country"
    <3>1. PICK e \in db.ents : TypeOf[e] = "country"
      BY DEF HasCountries, Present
    <3>2. e \in db.ents \ old
      BY <2>2, <3>1 DEF Present
    <3> QED
      BY <1>5, <1>7, <3>1, <3>2 DEF HasCountries, Present
  <2> QED
    BY <2>1, <2>2
<1> QED
  BY <1>1, <1>8, <1>9

\* It says nothing of the members of a group.
Meek(c) == c.scopes = {} /\ \A e \in c.edges : e.type # "member_of"

\* What says nothing of members is always fresh.
LEMMA MeekIsFresh ==
  ASSUME NEW c, NEW db, Meek(c)
  PROVE  Fresh(c, db)
  BY DEF Meek, Fresh, MembersIn

\* Contributions that are written as one do the harm that each of them does.
LEMMA JoinedHarmless ==
  ASSUME NEW cs, \A c \in cs : Harmless(c)
  PROVE  Harmless(Joined(cs)) /\ ((\A c \in cs : Meek(c)) => Meek(Joined(cs)))
<1> DEFINE new == Joined(cs)
<1>1. /\ new.names = UNION {c["names"] : c \in cs} /\ new.codes = UNION {c["codes"] : c \in cs}
      /\ new.gone = UNION {c["gone"] : c \in cs} /\ new.ents = UNION {c["ents"] : c \in cs}
      /\ new.edges = UNION {c["edges"] : c \in cs} /\ new.scopes = UNION {c["scopes"] : c \in cs}
  BY DEF Joined, Fields, Tables
<1> HIDE DEF new
<1>2. \A k \in new.codes : k.system \notin {"iso2", "iso3"}
  BY <1>1 DEF Harmless
<1>3. new.gone \subseteq Filtered
  BY <1>1 DEF Harmless
<1>4. new.ents \cap Filtered = {}
  BY <1>1 DEF Harmless
<1>5. \A e \in new.edges : e.target \notin Filtered
  BY <1>1 DEF Harmless
<1>6. DonorNames \cap new.names = {}
  BY <1>1 DEF Harmless
<1>7. (\A c \in cs : Meek(c)) => Meek(new)
  BY <1>1 DEF Meek
<1> QED
  BY <1>2, <1>3, <1>4, <1>5, <1>6, <1>7 DEF Harmless, new

\* Names of others, and names that the curated files give the European Union
\* beside the donor label.
LEMMA OtherNames ==
  ASSUME NEW id, NEW forms, id # EuropeanUnion \/ forms \subseteq OtherForms
  PROVE  DonorNames \cap NamesOf(id, forms) = {}
<1>1. CASE id # EuropeanUnion
  BY <1>1, NamesAre, DonorNamesAre
<1>2. CASE id = EuropeanUnion /\ forms \subseteq OtherForms
  <2>1. NamesOf(id, forms) \subseteq NamesOf(EuropeanUnion, OtherForms)
    BY <1>2 DEF NamesOf
  <2> QED
    BY <2>1, DonorAssumption DEF DonorNames
<1> QED
  BY <1>1, <1>2

LEMMA NamesAreHarmless ==
  ASSUME NEW names, DonorNames \cap names = {}
  PROVE  Harmless([Nothing EXCEPT !.names = names]) /\ Meek([Nothing EXCEPT !.names = names])
<1> DEFINE c == [Nothing EXCEPT !.names = names]
<1>1. /\ c.names = names /\ c.codes = {} /\ c.gone = {} /\ c.ents = {} /\ c.edges = {} /\ c.scopes = {}
  BY DEF Nothing, Fields, Tables
<1> HIDE DEF c
<1>2. Harmless(c) /\ Meek(c)
  BY <1>1 DEF Harmless, Meek
<1> QED
  BY <1>2 DEF c

\* A group is listed once: the rows of all groups say of each of them what the
\* file says.
LEMMA GroupRowsAre ==
  ASSUME NEW db, Ground(db)
  PROVE  /\ Harmless(GroupRows(db)) /\ Fresh(GroupRows(db), db)
         /\ \A g \in ListedGroups : ScopeOf(g) \in GroupRows(db).scopes
<1>1. ASSUME NEW g \in Groups
      PROVE  /\ Harmless(Group(db, g)) /\ Group(db, g)["edges"] = Members(db, g)
             /\ Group(db, g)["scopes"] = IF g.listed THEN {ScopeOf(g)} ELSE {}
  <2> DEFINE c == Group(db, g)
  <2>1. /\ c.ents = {g.id} /\ c.names = NamesOf(g.id, g.forms) /\ c.codes = {} /\ c.gone = {}
        /\ c.edges = Members(db, g) /\ c.scopes = IF g.listed THEN {ScopeOf(g)} ELSE {}
    BY DEF Group, ScopeOf, Nothing, Fields, Tables
  <2> HIDE DEF c
  <2>2. g.id \notin Filtered
    BY CuratedAssumption
  <2>3. g.id # EuropeanUnion \/ g.forms \subseteq OtherForms
    BY DEF OtherForms
  <2>4. DonorNames \cap c.names = {}
    BY <2>1, <2>3, OtherNames
  <2>5. \A e \in c.edges : e.target \notin Filtered
    BY <2>1, <2>2, MembersAre
  <2> QED
    BY <2>1, <2>2, <2>4, <2>5 DEF Harmless, c
<1> DEFINE cs == {Group(db, g) : g \in Groups}
           new == GroupRows(db)
<1>2. /\ new.edges = UNION {c["edges"] : c \in cs} /\ new.scopes = UNION {c["scopes"] : c \in cs}
  BY DEF GroupRows, Joined, Fields, Tables
<1>3. \A c \in cs : Harmless(c)
  BY <1>1
<1>4. new = Joined(cs)
  BY DEF GroupRows
<1> HIDE DEF new
<1>5. /\ \A g \in Groups : Members(db, g) \subseteq new.edges
      /\ \A e \in new.edges : \E g \in Groups : e \in Members(db, g)
  <2>1. \A g \in Groups : Group(db, g) \in cs
    OBVIOUS
  <2>2. \A c \in cs : \E g \in Groups : c = Group(db, g)
    OBVIOUS
  <2> HIDE DEF cs
  <2>3. \A g \in Groups : Members(db, g) \subseteq new.edges
    BY <1>1, <1>2, <2>1
  <2>4. ASSUME NEW e \in new.edges
        PROVE  \E g \in Groups : e \in Members(db, g)
    <3>1. PICK c \in cs : e \in c["edges"]
      BY <1>2
    <3> QED
      BY <1>1, <2>2, <3>1
  <2> QED
    BY <2>3, <2>4
<1>6. \A g \in ListedGroups : ScopeOf(g) \in new.scopes
  <2> SUFFICES ASSUME NEW g \in Groups, g.listed
               PROVE  ScopeOf(g) \in new.scopes
    BY DEF ListedGroups
  <2>1. Group(db, g) \in cs /\ ScopeOf(g) \in Group(db, g)["scopes"]
    BY <1>1
  <2> HIDE DEF cs
  <2> QED
    BY <1>2, <2>1
<1>7. ASSUME NEW g \in ListedGroups
      PROVE  MembersIn(new, g) = Members(db, g)
  <2>1. Members(db, g) \subseteq MembersIn(new, g)
    BY <1>5, MembersAre DEF ListedGroups, MembersIn
  <2>2. ASSUME NEW e \in MembersIn(new, g)
        PROVE  e \in Members(db, g)
    <3>1. PICK h \in Groups : e \in Members(db, h)
      BY <1>5 DEF MembersIn
    <3>2. h.id = g.id
      BY <3>1, MembersAre DEF MembersIn
    <3>3. h = g
      BY <3>2, CuratedAssumption DEF ListedGroups
    <3> QED
      BY <3>1, <3>3
  <2> QED
    BY <2>1, <2>2
<1> HIDE DEF cs
<1>8. Harmless(new)
  BY <1>3, <1>4, JoinedHarmless
<1> QED
  BY <1>6, <1>7, <1>8 DEF Fresh, new

\* Subregions and the countries in them.
LEMMA ContainmentIs ==
  ASSUME NEW db
  PROVE  Harmless(ContainmentRows(db)) /\ Meek(ContainmentRows(db))
<1> DEFINE c == ContainmentRows(db)
           inner == {EdgeOf(r.id, "contained_in", r.parent) : r \in M49Regions}
           outer(a) == {EdgeOf(e, "contained_in", a.leaf) : e \in ByIso3(db, a.iso3)}
<1>1. /\ c.ents = {r.id : r \in M49Regions} /\ c.names = UNION {NamesOf(r.id, r.forms) : r \in M49Regions}
      /\ c.codes = UNION {CodeOf(r.id, "m49", r.code) : r \in M49Regions} /\ c.gone = {} /\ c.scopes = {}
      /\ c.edges = UNION (inner \cup {UNION outer(a) : a \in M49Countries})
  BY DEF ContainmentRows, Nothing, Fields, Tables
<1> HIDE DEF c
<1>2. \A id, target : \A e \in EdgeOf(id, "contained_in", target) :
        e.type = "contained_in" /\ e.target = target
  BY DEF EdgeOf
<1>3. ASSUME NEW e \in c.edges
      PROVE  e.type = "contained_in" /\ e.target \notin Filtered
  <2>1. CASE e \in UNION inner
    <3>1. PICK r \in M49Regions : e \in EdgeOf(r.id, "contained_in", r.parent)
      BY <2>1
    <3> QED
      BY <1>2, <3>1, CuratedAssumption
  <2>2. CASE e \notin UNION inner
    <3>1. PICK a \in M49Countries : e \in UNION outer(a)
      BY <1>1, <1>3, <2>2
    <3>2. PICK d \in ByIso3(db, a.iso3) : e \in EdgeOf(d, "contained_in", a.leaf)
      BY <3>1
    <3> QED
      BY <1>2, <3>1, <3>2, CuratedAssumption
  <2> QED
    BY <2>1, <2>2
<1>4. \A k \in c.codes : k.system = "m49"
  BY <1>1 DEF CodeOf
<1>5. c.ents \cap Filtered = {}
  BY <1>1, CuratedAssumption
<1>6. DonorNames \cap c.names = {}
  <2>1. ASSUME NEW r \in M49Regions
        PROVE  DonorNames \cap NamesOf(r.id, r.forms) = {}
    <3>1. r.id # EuropeanUnion \/ r.forms \subseteq OtherForms
      BY DEF OtherForms
    <3> QED
      BY <3>1, OtherNames
  <2> QED
    BY <1>1, <2>1
<1> QED
  BY <1>1, <1>3, <1>4, <1>5, <1>6 DEF Harmless, Meek, c

\* What each enricher contributes: no harm, and of the groups what the file
\* says of them now.
LEMMA EnricherRowsAre ==
  ASSUME NEW db, Ground(db), NEW i \in Steps, NEW reachable \in BOOLEAN
  PROVE  LET c == Contributed(i, db, reachable)
         IN /\ Harmless(c) /\ Fresh(c, db)
            /\ i = GroupStep => \A g \in ListedGroups : ScopeOf(g) \in c.scopes
            /\ i = FilterStep => db.ents \cap Filtered \subseteq c.gone
<1> DEFINE Good(c) == Harmless(c) /\ Meek(c)
<1>0. EuropeanUnion \notin Present(db, "country")
  BY DonorAssumption DEF Present
<1>1. Good(FormalNames(db))
  <2> DEFINE names == UNION {NamesOf(f.id, f.forms) : f \in {g \in Formal : g.id \in Present(db, "country")}}
  <2>1. \A n \in names : n.of # EuropeanUnion
    BY <1>0, NamesAre
  <2> HIDE DEF names
  <2>2. DonorNames \cap names = {}
    BY <2>1, DonorNamesAre
  <2> QED
    BY <2>2, NamesAreHarmless DEF FormalNames, names
<1>2. Good(MultilingualNames(db))
  <2> DEFINE names == UNION {UNION {NamesOf(e, t.forms) : e \in Territory(db, t.iso2)} : t \in Cldr}
  <2>1. \A t \in Cldr : t.forms \subseteq OtherForms
    BY DEF OtherForms
  <2>2. \A n \in names : n \notin DonorNames
    <3> SUFFICES ASSUME NEW t \in Cldr, NEW e \in Territory(db, t.iso2), NEW n \in NamesOf(e, t.forms)
                 PROVE  n \notin DonorNames
      OBVIOUS
    <3> QED
      BY <2>1, OtherNames
  <2> HIDE DEF names
  <2> QED
    BY <2>2, NamesAreHarmless DEF MultilingualNames, names
<1>3. Good(StAliases(db))
  <2> DEFINE names == UNION {StForms(n) : n \in Saints(db)}
  <2>1. \A n \in Saints(db) : n.of # EuropeanUnion
    BY <1>0 DEF Saints
  <2>2. \A n \in Saints(db) : \A s \in StForms(n) : s.of # EuropeanUnion
    BY <2>1 DEF StForms
  <2>3. \A n \in names : n \notin DonorNames
    BY <2>2, DonorNamesAre
  <2> HIDE DEF names
  <2> QED
    BY <2>3, NamesAreHarmless DEF StAliases, names
<1>4. Good(GeoNamesAliases(db, reachable))
  <2> DEFINE rows == UNION {UNION {NamesOf(e, g.forms) :
                                     e \in OneOf(ByCode(db, "iso2", g.iso2) \cap Present(db, "country"))} :
                              g \in GeoNames}
             names == IF reachable THEN rows \ db.names ELSE {}
  <2>1. \A n \in rows : n \notin DonorNames
    <3> SUFFICES ASSUME NEW n \in rows
                 PROVE  n \notin DonorNames
      OBVIOUS
    <3>1. PICK g \in GeoNames : \E e \in OneOf(ByCode(db, "iso2", g.iso2) \cap Present(db, "country")) :
                                  n \in NamesOf(e, g.forms)
      OBVIOUS
    <3>2. PICK e \in OneOf(ByCode(db, "iso2", g.iso2) \cap Present(db, "country")) : n \in NamesOf(e, g.forms)
      BY <3>1
    <3>3. e # EuropeanUnion
      BY <1>0, <3>2 DEF OneOf
    <3> QED
      BY <3>2, <3>3, OtherNames
  <2>2. DonorNames \cap names = {}
    BY <2>1
  <2>3. GeoNamesAliases(db, reachable) = [Nothing EXCEPT !.names = names]
    BY DEF GeoNamesAliases
  <2> HIDE DEF names
  <2> QED
    BY <2>2, <2>3, NamesAreHarmless
<1>5. Good(ValidityUpdates(db))
  BY DEF Harmless, Meek, ValidityUpdates, Nothing, Fields, Tables
<1>6. Good(RegionAliases(db))
  <2> DEFINE names == UNION {NamesOf(r.id, r.forms) : r \in {q \in RegionForms : q.id \in Present(db, "region")}}
  <2>1. ASSUME NEW r \in RegionForms
        PROVE  DonorNames \cap NamesOf(r.id, r.forms) = {}
    <3>1. r.id # EuropeanUnion \/ r.forms \subseteq OtherForms
      BY DEF OtherForms
    <3> QED
      BY <3>1, OtherNames
  <2>2. DonorNames \cap names = {}
    BY <2>1
  <2> HIDE DEF names
  <2> QED
    BY <2>2, NamesAreHarmless DEF RegionAliases, names
<1>7. Good(RegionFilter(db)) /\ db.ents \cap Filtered \subseteq RegionFilter(db).gone
  <2> DEFINE c == RegionFilter(db)
  <2>1. /\ c.gone = (NoiseRegion \cap Present(db, "region")) \cup (NoiseExplicit \cap db.ents)
        /\ c.names = {} /\ c.codes = {} /\ c.ents = {} /\ c.edges = {} /\ c.scopes = {}
    BY DEF RegionFilter, Nothing, Fields, Tables
  <2> HIDE DEF c
  <2>2. c.gone \subseteq Filtered /\ db.ents \cap Filtered \subseteq c.gone
    BY <2>1, CuratedAssumption DEF Filtered, Present
  <2>3. Harmless(c) /\ Meek(c)
    BY <2>1, <2>2 DEF Harmless, Meek
  <2> QED
    BY <2>2, <2>3 DEF c
<1>8. Good(ContainmentRows(db))
  BY ContainmentIs
<1>9. /\ Enricher[i] \in {"formal", "multilingual", "st", "groups", "containment", "geonames", "validity",
                          "aliases", "filter"}
      /\ Enricher[i] = "groups" <=> i = GroupStep
      /\ Enricher[i] = "filter" <=> i = FilterStep
  BY DEF Enricher, Steps, GroupStep, FilterStep
<1> DEFINE c == Contributed(i, db, reachable)
<1>10. CASE Enricher[i] = "groups"
  <2>1. c = GroupRows(db)
    BY <1>10 DEF Contributed
  <2>2. i = GroupStep /\ i # FilterStep
    BY <1>9, <1>10 DEF GroupStep, FilterStep
  <2> HIDE DEF c
  <2>3. /\ Harmless(c) /\ Fresh(c, db) /\ \A g \in ListedGroups : ScopeOf(g) \in c.scopes
    BY <2>1, GroupRowsAre
  <2> QED
    BY <2>2, <2>3 DEF c
<1>11. CASE Enricher[i] # "groups"
  <2>1. Good(c)
    BY <1>1, <1>2, <1>3, <1>4, <1>5, <1>6, <1>7, <1>8, <1>9, <1>11 DEF Contributed
  <2>2. Enricher[i] = "filter" => c = RegionFilter(db)
    BY DEF Contributed
  <2> HIDE DEF c
  <2>3. Harmless(c) /\ Fresh(c, db)
    BY <2>1, MeekIsFresh
  <2>4. /\ i # GroupStep /\ (i = FilterStep => db.ents \cap Filtered \subseteq c.gone)
    BY <1>7, <1>9, <1>11, <2>2
  <2> QED
    BY <2>3, <2>4 DEF c
<1> QED
  BY <1>10, <1>11

\* What the OECD pass contributes: no harm, nothing of members, and the donor
\* label of the European Union is deleted, if the database has it.
LEMMA OecdRowsAre ==
  ASSUME NEW db, Ground(db), NEW domains, NEW own
  PROVE  LET c == OecdGeoRows(domains, db, own)
         IN /\ Harmless(c) /\ Fresh(c, db)
            /\ "geo" \in domains => \A n \in DonorNames \cap db.names :
                                      [of |-> n.of, text |-> n.text] \in c.unnamed
<1> DEFINE Good(c) == Harmless(c) /\ Meek(c)
<1>1. ASSUME NEW id, NEW item, id # EuropeanUnion \/ item.forms \subseteq OtherForms,
             NEW system \in {"oecd:recipient", "oecd:provider", "oecd:channel"}
      PROVE  Good(Attached(id, system, item))
  <2> DEFINE c == Attached(id, system, item)
  <2>1. /\ c.names = NamesOf(id, item.forms) /\ c.codes = CodeOf(id, system, item.code)
        /\ c.gone = {} /\ c.ents = {} /\ c.edges = {} /\ c.scopes = {}
    BY DEF Attached, Nothing, Fields, Tables
  <2> HIDE DEF c
  <2>2. \A k \in c.codes : k.system = system
    BY <2>1 DEF CodeOf
  <2>3. DonorNames \cap c.names = {}
    BY <1>1, <2>1, OtherNames
  <2>4. Good(c)
    BY <2>1, <2>2, <2>3 DEF Harmless, Meek
  <2> QED
    BY <2>4 DEF c
<1>2. Good(RecipientRows(db))
  <2> DEFINE row(r) == IF ByIso3(db, r.iso3) = {} THEN Minted(r.id, "oecd:recipient", r)
                       ELSE Attached(CHOOSE e \in ByIso3(db, r.iso3) : TRUE, "oecd:recipient", r)
             cs == {row(r) : r \in Recipients}
  <2>1. \A c \in cs : Good(c)
    <3> SUFFICES ASSUME NEW r \in Recipients
                 PROVE  Good(row(r))
      OBVIOUS
    <3>1. r.forms \subseteq OtherForms
      BY DEF OtherForms
    <3>2. CASE ByIso3(db, r.iso3) = {}
      <4> DEFINE c == Minted(r.id, "oecd:recipient", r)
                 d == Attached(r.id, "oecd:recipient", r)
      <4>1. /\ c.names = d.names /\ c.codes = d.codes /\ c.gone = d.gone /\ c.edges = d.edges
            /\ c.scopes = d.scopes /\ c.ents = {r.id}
        BY DEF Minted, Attached, Nothing, Fields, Tables
      <4>2. Good(d)
        BY <1>1, <3>1
      <4> HIDE DEF c, d
      <4>3. r.id \notin Filtered
        BY OecdAssumption
      <4>4. Good(c)
        BY <4>1, <4>2, <4>3 DEF Harmless, Meek
      <4> QED
        BY <3>2, <4>4 DEF c
    <3>3. CASE ByIso3(db, r.iso3) # {}
      BY <1>1, <3>1, <3>3
    <3> QED
      BY <3>2, <3>3
  <2>2. RecipientRows(db) = Joined(cs)
    BY DEF RecipientRows
  <2> HIDE DEF cs
  <2> QED
    BY <2>1, <2>2, JoinedHarmless
<1>3. Good(CountryProviderRows(db))
  <2> DEFINE cs == {Attached(CHOOSE e \in ByIso3(db, p.iso3) : TRUE, "oecd:provider", p) :
                      p \in {q \in Providers : q.iso3 # Null /\ ByIso3(db, q.iso3) # {}}}
  <2>1. \A c \in cs : Good(c)
    <3> SUFFICES ASSUME NEW p \in Providers, p.iso3 # Null
                 PROVE  Good(Attached(CHOOSE e \in ByIso3(db, p.iso3) : TRUE, "oecd:provider", p))
      OBVIOUS
    <3>1. p.forms \subseteq OtherForms
      BY DEF OtherForms
    <3> QED
      BY <1>1, <3>1
  <2>2. CountryProviderRows(db) = Joined(cs)
    BY DEF CountryProviderRows
  <2> HIDE DEF cs
  <2> QED
    BY <2>1, <2>2, JoinedHarmless
<1> DEFINE prow(p) == IF Known("provider", p.code) = EuropeanUnion THEN Suppressed(p)
                      ELSE Attached(Known("provider", p.code), "oecd:provider", p)
           providers == {prow(p) : p \in MappedTo("geo", domains, db, own)}
<1>4. GeoProviderRows(domains, db, own) = Joined(providers)
  BY DEF GeoProviderRows
<1>5. ASSUME NEW p
      PROVE  /\ Good(Suppressed(p))
             /\ Suppressed(p)["unnamed"] = {[of |-> EuropeanUnion, text |-> n.text] : n \in p.forms}
  <2> DEFINE c == Suppressed(p)
  <2>1. /\ c.names = {} /\ c.codes = CodeOf(EuropeanUnion, "oecd:provider", p.code)
        /\ c.gone = {} /\ c.ents = {} /\ c.edges = {} /\ c.scopes = {}
        /\ c.unnamed = {[of |-> EuropeanUnion, text |-> n.text] : n \in p.forms}
    BY DEF Suppressed, Nothing, Fields, Tables
  <2> HIDE DEF c
  <2>2. \A k \in c.codes : k.system = "oecd:provider"
    BY <2>1 DEF CodeOf
  <2>3. Good(c) /\ c["unnamed"] = {[of |-> EuropeanUnion, text |-> n.text] : n \in p.forms}
    BY <2>1, <2>2 DEF Harmless, Meek
  <2> QED
    BY <2>3 DEF c
<1>6. Good(GeoProviderRows(domains, db, own))
  <2>1. \A c \in providers : Good(c)
    <3> SUFFICES ASSUME NEW p \in MappedTo("geo", domains, db, own)
                 PROVE  Good(prow(p))
      OBVIOUS
    <3> QED
      BY <1>1, <1>5
  <2> HIDE DEF providers
  <2> QED
    BY <1>4, <2>1, JoinedHarmless
<1>7. Good(ChannelRows("geo", domains, db, own))
  <2> DEFINE row(c) == IF Known("channel", c.code) = Null THEN Minted(c.id, "oecd:channel", c)
                       ELSE Attached(ChannelId(c), "oecd:channel", c)
             cs == {row(c) : c \in {d \in Channels : ChannelSide(d, domains, db, own) = "geo"}}
  <2>1. \A c \in cs : Good(c)
    <3> SUFFICES ASSUME NEW c \in Channels, ChannelSide(c, domains, db, own) = "geo"
                 PROVE  Good(row(c))
      OBVIOUS
    <3>1. Known("channel", c.code) # Null /\ ChannelId(c) = Known("channel", c.code)
      BY DEF ChannelSide, ChannelId
    <3>2. ChannelId(c) # EuropeanUnion \/ c.forms \subseteq OtherForms
      BY <3>1 DEF OtherForms
    <3> QED
      BY <1>1, <3>1, <3>2
  <2>2. ChannelRows("geo", domains, db, own) = Joined(cs)
    BY DEF ChannelRows
  <2> HIDE DEF cs
  <2> QED
    BY <2>1, <2>2, JoinedHarmless
<1>8. Good(Nothing)
  BY DEF Harmless, Meek, Nothing, Fields, Tables
<1> DEFINE cs == {RecipientRows(db), CountryProviderRows(db), GeoProviderRows(domains, db, own),
                  ChannelRows("geo", domains, db, own)}
           new == OecdGeoRows(domains, db, own)
<1>9. \A c \in cs : Good(c)
  BY <1>2, <1>3, <1>6, <1>7
<1>10. new = (IF "geo" \notin domains THEN Nothing ELSE Joined(cs))
  BY DEF OecdGeoRows
<1>11. ASSUME "geo" \in domains, NEW n \in DonorNames, n \in db.names
       PROVE  [of |-> n.of, text |-> n.text] \in new.unnamed
  <2>1. EuropeanUnion \in db.ents /\ n.of = EuropeanUnion
    BY <1>11, DonorNamesAre DEF Ground, DonorLabelIsOff, DonorNames
  <2>2. PICK x \in DonorLabels : n = [of |-> EuropeanUnion, text |-> x.text, lang |-> x.lang]
    BY DEF DonorNames, NamesOf
  <2>3. PICK p \in Providers : Known("provider", p.code) = EuropeanUnion /\ x \in p.forms
    BY DEF DonorLabels
  <2>4. p \in MappedTo("geo", domains, db, own)
    BY <1>11, <2>1, <2>3, DonorAssumption DEF MappedTo, Multilateral, Located
  <2>5. Suppressed(p) \in providers
    BY <2>3, <2>4
  <2>6. n.text = x.text
    BY <2>2
  <2>7. [of |-> n.of, text |-> n.text] \in Suppressed(p)["unnamed"]
    BY <1>5, <2>1, <2>3, <2>6
  <2>8. [of |-> n.of, text |-> n.text] \in GeoProviderRows(domains, db, own)["unnamed"]
    <3>1. Joined(providers)["unnamed"] = UNION {c["unnamed"] : c \in providers}
      BY DEF Joined, Fields, Tables
    <3> HIDE DEF providers
    <3> QED
      BY <1>4, <2>5, <2>7, <3>1
  <2>9. Joined(cs)["unnamed"] = UNION {c["unnamed"] : c \in cs} /\ GeoProviderRows(domains, db, own) \in cs
    BY DEF Joined, Fields, Tables
  <2> HIDE DEF cs
  <2> QED
    BY <1>10, <1>11, <2>8, <2>9
<1> HIDE DEF cs, new
<1>12. Good(new)
  BY <1>8, <1>9, <1>10, JoinedHarmless
<1>13. Fresh(new, db)
  BY <1>12, MeekIsFresh
<1> QED
  BY <1>11, <1>12, <1>13 DEF new

\* A closed store has an entity at the end of every relation to what the filter
\* takes out.
LEMMA ClosedLed ==
  ASSUME NEW db, Ground(db), Closed(db)
  PROVE  Led(db)
  BY DEF Ground, Related, Closed, Missing, Led

\* The next place of a run is the least of those ahead whose type it found.
LEMMA FollowingIsLeast ==
  ASSUME NEW i \in Nat, NEW types
  PROVE  \A k \in Steps : k > i /\ TargetType(k) \in types =>
           Following(i, types) \in Steps /\ Following(i, types) <= k
<1> DEFINE left == {j \in Steps : j > i /\ TargetType(j) \in types}
<1>1. left \in SUBSET (0 .. 9) /\ left \subseteq Steps
  BY StepNumbers
<1>2. Following(i, types) = (IF left = {} THEN Oecd ELSE CHOOSE j \in left : \A k \in left : j <= k)
  BY DEF Following
<1>3. \A k \in Steps : k > i /\ TargetType(k) \in types => k \in left
  OBVIOUS
<1> HIDE DEF left
<1>4. ASSUME left # {}
      PROVE  Following(i, types) \in left /\ \A k \in left : Following(i, types) <= k
  <2>1. PICK m \in left : \A k \in 0 .. 9 : k < m => k \notin left
    BY <1>1, <1>4, FirstFailure
  <2>2. \A k \in left : m <= k
    BY <1>1, <2>1
  <2>3. Following(i, types) = CHOOSE j \in left : \A k \in left : j <= k
    BY <1>2, <1>4
  <2> QED
    BY <2>1, <2>2, <2>3
<1> QED
  BY <1>1, <1>3, <1>4

\* The groups are read and written for countries and the filter for regions.
LEMMA TargetTypes ==
  /\ GroupStep \in Steps /\ GroupStep = 4 /\ TargetType(GroupStep) = "country"
  /\ FilterStep \in Steps /\ FilterStep = 9 /\ TargetType(FilterStep) = "region"
  BY DEF GroupStep, FilterStep, Steps, TargetType, Enricher

\* What a write of fresh rows leaves of what the curated files rule: all of it,
\* and more where the rows are those of the groups, the filter or the OECD pass.
LEMMA WrittenRows ==
  ASSUME NEW db, NEW c, Ground(db), Harmless(c), Fresh(c, db)
  PROVE  /\ GroupsAreTheFiles(db) => GroupsAreTheFiles(Apply(db, c))
         /\ (\A g \in ListedGroups : ScopeOf(g) \in c.scopes) => GroupsAreTheFiles(Apply(db, c))
         /\ Apply(db, c).ents \cap Filtered = (db.ents \cap Filtered) \ c.gone
         /\ DonorNames \cap Apply(db, c).names \subseteq db.names
         /\ (\A n \in DonorNames \cap db.names : [of |-> n.of, text |-> n.text] \in c.unnamed)
              => DonorLabelIsOff(Apply(db, c))
         /\ Led(db) => Led(Apply(db, c))
         /\ FilteredAreGone(db) => FilteredAreGone(Apply(db, c))
<1>1. /\ GroupsAreTheFiles(db) => GroupsAreTheFiles(Apply(db, c))
      /\ (\A g \in ListedGroups : ScopeOf(g) \in c.scopes) => GroupsAreTheFiles(Apply(db, c))
  BY ApplyGroup DEF GroupsAreTheFiles, ListedGroups
<1>2. /\ Apply(db, c).ents \cap Filtered = (db.ents \cap Filtered) \ c.gone
      /\ Led(db) => Led(Apply(db, c))
      /\ \A e \in Apply(db, c).edges : e.target \in Filtered => e \in db.edges
  BY ApplyLeads
<1>3. /\ DonorNames \cap Apply(db, c).names \subseteq db.names
      /\ (\A n \in DonorNames \cap db.names : [of |-> n.of, text |-> n.text] \in c.unnamed)
           => DonorLabelIsOff(Apply(db, c))
  BY ApplyDonor DEF DonorLabelIsOff, DonorNames
<1>4. FilteredAreGone(db) => FilteredAreGone(Apply(db, c))
  BY <1>2 DEF FilteredAreGone
<1> QED
  BY <1>1, <1>2, <1>3, <1>4

\* A pass that has come to its end has enforced what the files rule.
LEMMA PassedIsEnforced ==
  ASSUME CurationInv, NEW r \in closed, at[r] = Index
  PROVE  DonorLabelIsOff(geo) /\ GroupsAreTheFiles(geo) /\ FilteredAreGone(geo)
<1>1. GroupsAreTheFiles(geo) /\ geo.ents \cap Filtered = {} /\ DonorLabelIsOff(geo)
  BY DEF CurationInv, PassedOK, PassedGroups, PassedFilter, PassedDonor, PastEnrichers
<1>2. Led(geo)
  BY DEF CurationInv, LedOK
<1> QED
  BY <1>1, <1>2 DEF Led, FilteredAreGone

\* A step of one run that leaves the store as it is.
LEMMA QuietStep ==
  ASSUME CurationInv, NEW r \in Run, geo' = geo,
         \A q \in Run \ {r} : draft'[q] = draft[q] /\ at'[q] = at[q] /\ present'[q] = present[q],
         behind \subseteq behind' \cup {r},
         ToGeo(r)' => Harmless(draft'[r][1]) /\ Fresh(draft'[r][1], geo),
         closed' \subseteq closed \cup {r}, r \in closed' \ closed => Led(geo),
         r \in closed' => (PassedGroups(r) /\ PassedFilter(r) /\ PassedDonor(r))',
         enriched' => enriched \/ (r \in closed /\ at[r] = Index)
  PROVE  CurationInv'
<1>0. GroundOK /\ FreshOK /\ PassedOK /\ LedOK /\ CurationIsEnforced
  BY DEF CurationInv
<1>1. GroundOK'
  BY <1>0 DEF GroundOK, ToGeo
<1>2. FreshOK'
  BY <1>0 DEF FreshOK, ToGeo
<1>3. PassedOK'
  <2>1. closed' \subseteq Run
    BY <1>0 DEF PassedOK
  <2>2. ASSUME NEW q \in closed', q # r
        PROVE  (PassedGroups(q) /\ PassedFilter(q) /\ PassedDonor(q))'
    <3>1. q \in closed /\ q \in Run \ {r}
      BY <2>1, <2>2
    <3>2. draft'[q] = draft[q] /\ at'[q] = at[q] /\ present'[q] = present[q]
      BY <3>1
    <3>3. PassedGroups(q) /\ PassedFilter(q) /\ PassedDonor(q)
      BY <1>0, <3>1 DEF PassedOK
    <3>4. PassedGroups(q)'
      BY <3>2, <3>3 DEF PassedGroups
    <3>5. PassedFilter(q)'
      BY <3>2, <3>3 DEF PassedFilter
    <3>6. PassedDonor(q)'
      BY <3>2, <3>3 DEF PassedDonor
    <3> QED
      BY <3>4, <3>5, <3>6
  <2> QED
    BY <2>1, <2>2 DEF PassedOK
<1>4. LedOK'
  BY <1>0 DEF LedOK
<1>5. CurationIsEnforced'
  <2>1. enriched' => DonorLabelIsOff(geo) /\ GroupsAreTheFiles(geo) /\ FilteredAreGone(geo)
    BY <1>0, PassedIsEnforced DEF CurationIsEnforced
  <2> QED
    BY <2>1 DEF CurationIsEnforced
<1> QED
  BY <1>1, <1>2, <1>3, <1>4, <1>5 DEF CurationInv

\* A step in which rows come from the source.
LEMMA RefreshedStep ==
  ASSUME CurationInv, NEW closing \in SUBSET Run, Refreshed(closing),
         Ground(geo'), HasCountries(geo'), draft' = draft,
         \A q \in Run : ToGeo(q)' => ToGeo(q),
         \A q \in closing : at'[q] = Starting,
         closing # {} => Closed(geo')
  PROVE  CurationInv'
<1>0. GroundOK /\ closed' = closing /\ enriched' = FALSE /\ behind' = {q \in Run : ToGeo(q)}
  BY DEF CurationInv, Refreshed
<1>1. GroundOK'
  BY <1>0 DEF GroundOK
<1>2. FreshOK'
  BY <1>0 DEF FreshOK
<1>3. PassedOK'
  BY <1>0, StepNumbers DEF PassedOK, PassedGroups, PassedFilter, PassedDonor, GroupStep, FilterStep, PastEnrichers
<1>4. LedOK'
  BY <1>0, ClosedLed DEF LedOK
<1>5. CurationIsEnforced'
  BY <1>0 DEF CurationIsEnforced
<1> QED
  BY <1>1, <1>2, <1>3, <1>4, <1>5 DEF CurationInv

\* A write to the shared store of rows that a run had in hand.
LEMMA WriteStep ==
  ASSUME CurationInv, NEW r \in Run, ToGeo(r), WriteGeo(r, draft[r][1]), ~ToGeo(r)',
         \A q \in Run \ {r} : draft'[q] = draft[q] /\ at'[q] = at[q] /\ present'[q] = present[q],
         r \in closed /\ r \notin behind => (PassedGroups(r) /\ PassedFilter(r) /\ PassedDonor(r))'
  PROVE  CurationInv'
<1> DEFINE c == draft[r][1]
<1>0. GroundOK /\ FreshOK /\ PassedOK /\ LedOK /\ CurationIsEnforced
  BY DEF CurationInv
<1>1. /\ geo' = Apply(geo, c) /\ behind' = behind \ {r}
      /\ r \in behind => closed' = {} /\ enriched' = FALSE
      /\ r \notin behind => closed' = closed /\ enriched' = enriched
  BY DEF WriteGeo
<1>2. Ground(geo) /\ HasCountries(geo) /\ Harmless(c) /\ (r \notin behind => Fresh(c, geo))
  BY <1>0 DEF GroundOK, FreshOK
<1> HIDE DEF c
<1>3. GroundOK'
  <2>1. Ground(geo') /\ HasCountries(geo')
    BY <1>1, <1>2, ApplyGround, ApplyCountries
  <2> QED
    BY <1>0, <2>1 DEF GroundOK, ToGeo
<1>4. FreshOK'
  <2> SUFFICES ASSUME NEW q \in Run \ behind', ToGeo(q)'
               PROVE  Fresh(draft'[q][1], geo')
    BY DEF FreshOK
  <2>1. q # r /\ q \notin behind /\ ToGeo(q) /\ draft'[q] = draft[q]
    BY <1>1 DEF ToGeo
  <2>2. Fresh(draft[q][1], geo)
    BY <1>0, <2>1 DEF FreshOK
  <2>3. \A g : Members(geo', g) = Members(geo, g)
    BY <1>1, <1>2, ApplyMembers
  <2> QED
    BY <2>1, <2>2, <2>3 DEF Fresh
<1>5. CASE r \in behind
  BY <1>1, <1>3, <1>4, <1>5 DEF CurationInv, PassedOK, LedOK, CurationIsEnforced
<1>6. CASE r \notin behind
  <2>1. closed' = closed /\ enriched' = enriched /\ Fresh(c, geo)
    BY <1>1, <1>2, <1>6
  <2>2. /\ GroupsAreTheFiles(geo) => GroupsAreTheFiles(geo')
        /\ geo'.ents \cap Filtered \subseteq geo.ents \cap Filtered
        /\ DonorNames \cap geo'.names \subseteq DonorNames \cap geo.names
        /\ Led(geo) => Led(geo')
        /\ FilteredAreGone(geo) => FilteredAreGone(geo')
    BY <1>1, <1>2, <2>1, WrittenRows
  <2>3. DonorLabelIsOff(geo) => DonorLabelIsOff(geo')
    BY <2>2 DEF DonorLabelIsOff, DonorNames
  <2>4. PassedOK'
    <3>1. ASSUME NEW q \in closed, q # r
          PROVE  (PassedGroups(q) /\ PassedFilter(q) /\ PassedDonor(q))'
      <4>1. draft'[q] = draft[q] /\ at'[q] = at[q] /\ present'[q] = present[q]
        BY <1>0, <3>1 DEF PassedOK
      <4>2. PassedGroups(q) /\ PassedFilter(q) /\ PassedDonor(q)
        BY <1>0 DEF PassedOK
      <4>3. PassedGroups(q)'
        BY <2>2, <4>1, <4>2 DEF PassedGroups
      <4>4. PassedFilter(q)'
        BY <2>2, <4>1, <4>2 DEF PassedFilter
      <4>5. PassedDonor(q)'
        BY <2>2, <2>3, <4>1, <4>2 DEF PassedDonor
      <4> QED
        BY <4>3, <4>4, <4>5
    <3> QED
      BY <1>0, <1>6, <2>1, <3>1 DEF PassedOK
  <2>5. LedOK'
    BY <1>0, <2>1, <2>2 DEF LedOK
  <2>6. CurationIsEnforced'
    BY <1>0, <2>1, <2>2, <2>3 DEF CurationIsEnforced
  <2> QED
    BY <1>3, <1>4, <2>4, <2>5, <2>6 DEF CurationInv
<1> QED
  BY <1>5, <1>6

\* The shared store begins on the ground, and nothing has been enriched.
LEMMA CurationBegins == EnrichInit => CurationInv
<1> SUFFICES ASSUME EnrichInit
             PROVE  CurationInv
  OBVIOUS
<1>1. /\ draft = [r \in Run |-> << >>] /\ closed = {} /\ enriched = FALSE
      /\ Sound(geo) /\ Related(geo) /\ HasCountries(geo)
  BY RowsAssumption, RelationsAssumption DEF EnrichInit
<1>2. Ground(geo)
  <2>1. \A n \in DonorNames \cap geo.names : EuropeanUnion \in geo.ents
    BY <1>1, DonorNamesAre DEF Sound, Orphans
  <2> QED
    BY <1>1, <2>1 DEF Ground, Sound, DonorLabelIsOff, DonorNames
<1>3. \A r \in Run : ~ToGeo(r)
  BY <1>1 DEF ToGeo
<1> QED
  BY <1>1, <1>2, <1>3 DEF CurationInv, GroundOK, FreshOK, PassedOK, LedOK, CurationIsEnforced

\* The filter is run for what it takes out: a store without regions has none of
\* that.
LEMMA StartIsPassed ==
  ASSUME EnrichTypeOK, HandsOK, GroundOK, NEW r \in Run, Start(r)
  PROVE  (PassedGroups(r) /\ PassedFilter(r) /\ PassedDonor(r))'
<1> DEFINE types == {TypeOf[e] : e \in geo.ents}
<1>1. /\ geo' = geo /\ draft' = draft /\ draft[r] = << >>
      /\ present'[r] = types /\ at'[r] = Following(0, types)
  <2>1. at[r] = Starting /\ draft' = draft /\ geo' = geo
        /\ present' = [present EXCEPT ![r] = types] /\ at' = [at EXCEPT ![r] = Following(0, types)]
    BY DEF Start, dbVars, Goto
  <2>2. draft[r] = << >>
    BY <2>1, StepNumbers DEF HandsOK
  <2> QED
    BY <2>1, <2>2 DEF EnrichTypeOK
<1>2. "country" \in types
  BY DEF GroundOK, HasCountries, Present
<1>3. "region" \notin types => geo.ents \cap Filtered = {}
  BY CuratedAssumption
<1> HIDE DEF types
<1>4. at'[r] \in Steps /\ at'[r] <= GroupStep
  <2>1. GroupStep > 0 /\ TargetType(GroupStep) \in types
    BY <1>2, TargetTypes
  <2> QED
    BY <1>1, <2>1, FollowingIsLeast, TargetTypes
<1>5. at'[r] \notin GroupStep + 1 .. FilterStep \cup PastEnrichers
  BY <1>4, StepNumbers, TargetTypes DEF PastEnrichers
<1>6. PassedGroups(r)'
  BY <1>1, <1>2, <1>5 DEF PassedGroups
<1>7. PassedFilter(r)'
  BY <1>1, <1>3, <1>5 DEF PassedFilter
<1>8. PassedDonor(r)'
  BY <1>5 DEF PassedDonor, PastEnrichers
<1> QED
  BY <1>6, <1>7, <1>8

\* An enricher reads.
LEMMA ReadStep ==
  ASSUME EnrichTypeOK, HandsOK, CurationInv, NEW r \in Run, ReadEnricher(r)
  PROVE  CurationInv'
<1>1. PICK reachable \in BOOLEAN : draft' = [draft EXCEPT ![r] = <<Contributed(at[r], geo, reachable)>>]
  BY DEF ReadEnricher
<1>2. /\ geo' = geo /\ at' = at /\ present' = present /\ closed' = closed /\ enriched' = enriched
      /\ behind' = behind /\ at[r] \in Steps /\ draft[r] = << >>
  BY DEF ReadEnricher, historyVars, dbVars
<1> DEFINE c == Contributed(at[r], geo, reachable)
<1>3. draft'[r] = <<c>> /\ draft'[r][1] = c
  BY <1>1 DEF EnrichTypeOK
<1>4. /\ Harmless(c) /\ Fresh(c, geo)
      /\ at[r] = GroupStep => \A g \in ListedGroups : ScopeOf(g) \in c.scopes
      /\ at[r] = FilterStep => geo.ents \cap Filtered \subseteq c.gone
  BY <1>2, EnricherRowsAre DEF CurationInv, GroundOK
<1> HIDE DEF c
<1>5. \A q \in Run \ {r} : draft'[q] = draft[q] /\ at'[q] = at[q] /\ present'[q] = present[q]
  BY <1>1, <1>2 DEF EnrichTypeOK
<1>6. ASSUME r \in closed
      PROVE  (PassedGroups(r) /\ PassedFilter(r) /\ PassedDonor(r))'
  <2>1. PassedGroups(r) /\ PassedFilter(r) /\ PassedDonor(r)
    BY <1>6 DEF CurationInv, PassedOK
  <2>2. PassedGroups(r)'
    BY <1>2, <1>3, <1>4, <2>1 DEF PassedGroups
  <2>3. PassedFilter(r)'
    BY <1>2, <1>3, <1>4, <2>1 DEF PassedFilter
  <2>4. PassedDonor(r)'
    BY <1>2, StepNumbers DEF PassedDonor
  <2> QED
    BY <2>2, <2>3, <2>4
<1> QED
  BY <1>2, <1>3, <1>4, <1>5, <1>6, QuietStep

\* An enricher's contribution is written, and the run goes on to the next whose
\* entity type it found; the groups come for countries, the filter for regions.
LEMMA WriteEnricherStep ==
  ASSUME EnrichTypeOK, HandsOK, CurationInv, NEW r \in Run, WriteEnricher(r)
  PROVE  CurationInv'
<1> DEFINE c == draft[r][1]
           i == at[r]
           j == Following(at[r], present[r])
<1>1. /\ WriteGeo(r, Head(draft[r])) /\ draft[r] # << >> /\ i \in Steps
      /\ draft' = [draft EXCEPT ![r] = << >>] /\ at' = [at EXCEPT ![r] = j] /\ present' = present
  BY DEF WriteEnricher, Goto
<1>2. Head(draft[r]) = c
  BY DEF Head
<1>3. ToGeo(r) /\ ~ToGeo(r)' /\ draft'[r] = << >> /\ at'[r] = j
  BY <1>1, StepNumbers DEF ToGeo, EnrichTypeOK
<1>4. \A q \in Run \ {r} : draft'[q] = draft[q] /\ at'[q] = at[q] /\ present'[q] = present[q]
  BY <1>1 DEF EnrichTypeOK
<1>5. j \in Steps \cup {Oecd}
  BY FollowingIs
<1>6. \A k \in Steps : k > i /\ TargetType(k) \in present[r] => j \in Steps /\ j <= k
  <2>1. i \in Nat
    BY <1>1, StepNumbers
  <2> QED
    BY <2>1, FollowingIsLeast
<1>7. geo' = Apply(geo, c)
  BY <1>1, <1>2 DEF WriteGeo
<1> HIDE DEF c, i, j
<1>8. ASSUME r \in closed, r \notin behind
      PROVE  (PassedGroups(r) /\ PassedFilter(r) /\ PassedDonor(r))'
  <2>1. PassedGroups(r) /\ PassedFilter(r) /\ PassedDonor(r)
    BY <1>8 DEF CurationInv, PassedOK
  <2>2. Ground(geo) /\ Harmless(c) /\ Fresh(c, geo)
    BY <1>3, <1>8 DEF CurationInv, GroundOK, FreshOK, c
  <2>3. /\ GroupsAreTheFiles(geo) => GroupsAreTheFiles(geo')
        /\ (\A g \in ListedGroups : ScopeOf(g) \in c.scopes) => GroupsAreTheFiles(geo')
        /\ geo'.ents \cap Filtered = (geo.ents \cap Filtered) \ c.gone
    BY <1>7, <2>2, WrittenRows
  <2>4. "country" \in present[r]
    BY <1>1, <2>1 DEF PassedGroups, i
  <2>5. PassedGroups(r)'
    <3>1. i < GroupStep => j \notin GroupStep + 1 .. FilterStep \cup PastEnrichers
      <4>1. i < GroupStep => j \in Steps /\ j <= GroupStep
        BY <1>6, <2>4, TargetTypes
      <4> QED
        BY <4>1, StepNumbers, TargetTypes DEF PastEnrichers
    <3>2. i = GroupStep => GroupsAreTheFiles(geo')
      BY <1>1, <2>1, <2>3 DEF PassedGroups, i, c
    <3>3. i > GroupStep => GroupsAreTheFiles(geo')
      <4>1. i > GroupStep => i \in GroupStep + 1 .. FilterStep
        BY <1>1, StepNumbers, TargetTypes
      <4> QED
        BY <2>1, <2>3, <4>1 DEF PassedGroups, i
    <3>4. i < GroupStep \/ i = GroupStep \/ i > GroupStep
      BY <1>1, StepNumbers, TargetTypes
    <3> QED
      BY <1>1, <1>3, <2>4, <3>1, <3>2, <3>3, <3>4 DEF PassedGroups
  <2>6. PassedFilter(r)'
    <3>1. CASE "region" \notin present[r]
      <4>1. geo.ents \cap Filtered = {}
        BY <1>1, <2>1, <3>1 DEF PassedFilter, i
      <4> QED
        BY <1>3, <2>3, <4>1 DEF PassedFilter
    <3>2. CASE "region" \in present[r] /\ i # FilterStep
      <4>1. j \in Steps
        BY <1>1, <1>6, <3>2, StepNumbers, TargetTypes
      <4>2. j \notin PastEnrichers
        BY <4>1, StepNumbers DEF PastEnrichers
      <4> QED
        BY <1>1, <1>3, <3>2, <4>2 DEF PassedFilter
    <3>3. CASE i = FilterStep
      <4>1. geo.ents \cap Filtered \subseteq c.gone
        BY <1>1, <2>1, <3>3 DEF PassedFilter, i, c
      <4> QED
        BY <1>3, <2>3, <4>1 DEF PassedFilter
    <3> QED
      BY <3>1, <3>2, <3>3
  <2>7. PassedDonor(r)'
    BY <1>3, <1>5, StepNumbers DEF PassedDonor
  <2> QED
    BY <2>5, <2>6, <2>7
<1>9. WriteGeo(r, draft[r][1])
  BY <1>1, <1>2 DEF c
<1> QED
  BY <1>3, <1>4, <1>8, <1>9, WriteStep

\* The OECD pass reads both databases.
LEMMA ReadOecdStep ==
  ASSUME EnrichTypeOK, CurationInv, NEW r \in Run, ReadOecd(r)
  PROVE  CurationInv'
<1> DEFINE c == OecdGeoRows(has[r], geo, org[r])
<1>1. /\ draft' = [draft EXCEPT ![r] = <<c, OecdOrgRows(has[r], geo, org[r])>>]
      /\ geo' = geo /\ at' = [at EXCEPT ![r] = OecdGeo] /\ at[r] = Oecd /\ present' = present
      /\ closed' = closed /\ enriched' = enriched /\ behind' = behind
  BY DEF ReadOecd, Goto, historyVars, dbVars
<1>2. Harmless(c) /\ Fresh(c, geo) /\ "geo" \in has[r]
      /\ \A n \in DonorNames \cap geo.names : [of |-> n.of, text |-> n.text] \in c.unnamed
  <2>1. "geo" \in has[r]
    BY DEF EnrichTypeOK
  <2> QED
    BY <2>1, OecdRowsAre DEF CurationInv, GroundOK
<1> HIDE DEF c
<1>3. draft'[r][1] = c /\ at'[r] = OecdGeo
  BY <1>1 DEF EnrichTypeOK
<1>4. \A q \in Run \ {r} : draft'[q] = draft[q] /\ at'[q] = at[q] /\ present'[q] = present[q]
  BY <1>1 DEF EnrichTypeOK
<1>5. ASSUME r \in closed
      PROVE  (PassedGroups(r) /\ PassedFilter(r) /\ PassedDonor(r))'
  <2>1. PassedGroups(r) /\ PassedFilter(r)
    BY <1>5 DEF CurationInv, PassedOK
  <2>2. GroupsAreTheFiles(geo) /\ geo.ents \cap Filtered = {}
    BY <1>1, <2>1 DEF PassedGroups, PassedFilter, PastEnrichers
  <2>3. PassedGroups(r)'
    BY <1>1, <1>3, <2>2, StepNumbers, TargetTypes DEF PassedGroups
  <2>4. PassedFilter(r)'
    BY <1>1, <1>3, <2>2, StepNumbers, TargetTypes DEF PassedFilter
  <2>5. PassedDonor(r)'
    BY <1>1, <1>2, <1>3, StepNumbers DEF PassedDonor
  <2> QED
    BY <2>3, <2>4, <2>5
<1> QED
  BY <1>1, <1>2, <1>3, <1>4, <1>5, QuietStep

\* Its contribution to the shared store is written: the donor label is off.
LEMMA WriteOecdGeoStep ==
  ASSUME EnrichTypeOK, HandsOK, CurationInv, NEW r \in Run, WriteOecdGeo(r)
  PROVE  CurationInv'
<1> DEFINE c == draft[r][1]
<1>1. /\ WriteGeo(r, c) /\ at[r] = OecdGeo /\ at' = [at EXCEPT ![r] = OecdOrg]
      /\ draft' = draft /\ present' = present
  BY DEF WriteOecdGeo, Goto
<1>2. ToGeo(r) /\ ~ToGeo(r)' /\ at'[r] = OecdOrg
  BY <1>1, StepNumbers DEF ToGeo, HandsOK, EnrichTypeOK
<1>3. \A q \in Run \ {r} : draft'[q] = draft[q] /\ at'[q] = at[q] /\ present'[q] = present[q]
  BY <1>1 DEF EnrichTypeOK
<1>4. geo' = Apply(geo, c)
  BY <1>1 DEF WriteGeo
<1>5. ASSUME r \in closed, r \notin behind
      PROVE  (PassedGroups(r) /\ PassedFilter(r) /\ PassedDonor(r))'
  <2>1. PassedGroups(r) /\ PassedFilter(r) /\ PassedDonor(r)
    BY <1>5 DEF CurationInv, PassedOK
  <2>2. Ground(geo) /\ Harmless(c) /\ Fresh(c, geo)
    BY <1>2, <1>5 DEF CurationInv, GroundOK, FreshOK
  <2>3. /\ GroupsAreTheFiles(geo) /\ geo.ents \cap Filtered = {}
        /\ \A n \in DonorNames \cap geo.names : [of |-> n.of, text |-> n.text] \in c.unnamed
    BY <1>1, <2>1 DEF PassedGroups, PassedFilter, PassedDonor, PastEnrichers
  <2> HIDE DEF c
  <2>4. GroupsAreTheFiles(geo') /\ geo'.ents \cap Filtered = {} /\ DonorLabelIsOff(geo')
    BY <1>4, <2>2, <2>3, WrittenRows
  <2>5. PassedGroups(r)'
    BY <1>2, <2>4, StepNumbers, TargetTypes DEF PassedGroups
  <2>6. PassedFilter(r)'
    BY <1>2, <2>4, StepNumbers, TargetTypes DEF PassedFilter
  <2>7. PassedDonor(r)'
    BY <1>2, <2>4, StepNumbers DEF PassedDonor
  <2> QED
    BY <2>5, <2>6, <2>7
<1> QED
  BY <1>1, <1>2, <1>3, <1>5, WriteStep

\* Before and after the enrichers there is nothing that a run has to have done.
LEMMA NothingPassed ==
  ASSUME NEW r, at'[r] \in {Reconciling, Starting, Done, Interrupted}
  PROVE  (PassedGroups(r) /\ PassedFilter(r) /\ PassedDonor(r))'
<1>1. at'[r] \notin Steps \cup PastEnrichers
  BY StepNumbers DEF PastEnrichers
<1> QED
  BY <1>1, StepNumbers, TargetTypes DEF PassedGroups, PassedFilter, PassedDonor, PastEnrichers

\* Every step keeps what the curated files rule on its way.
LEMMA CurationStep ==
  ASSUME EnrichTypeOK, HandsOK, CurationInv, [EnrichNext]_enrichVars
  PROVE  CurationInv'
<1> USE DEF Goto
<1>0. GroundOK /\ PassedOK
  BY DEF CurationInv
<1>1. ASSUME NEW r \in Run, BeginPass(r)
      PROVE  CurationInv'
  <2>1. /\ at[r] \in {NotBegun, Done, Interrupted} /\ draft' = draft /\ at' = [at EXCEPT ![r] = Reconciling]
        /\ geo' = geo /\ present' = present /\ closed' = closed \ {r} /\ enriched' = enriched
        /\ behind' = behind
    BY <1>1 DEF BeginPass
  <2>2. ~ToGeo(r)'
    BY <2>1, StepNumbers DEF HandsOK, ToGeo
  <2>3. \A q \in Run \ {r} : draft'[q] = draft[q] /\ at'[q] = at[q] /\ present'[q] = present[q]
    BY <2>1 DEF EnrichTypeOK
  <2> QED
    BY <2>1, <2>2, <2>3, QuietStep
<1>2. ASSUME NEW r \in Run, ReconcileGeo(r)
      PROVE  CurationInv'
  <2> DEFINE closing == IF Closed(geo') THEN {r} ELSE {}
  <2>1. /\ geo' = Hydrated(geo) /\ draft' = draft /\ at[r] = Reconciling /\ present' = present
        /\ at' = [at EXCEPT ![r] = IF Closed(geo') THEN Starting ELSE Interrupted]
        /\ geo' = geo => closed' = closed \cup closing /\ enriched' = enriched /\ behind' = behind
        /\ geo' # geo => Refreshed(closing)
    BY <1>2 DEF ReconcileGeo
  <2>2. /\ at'[r] \in {Starting, Interrupted} /\ (Closed(geo') => at'[r] = Starting)
        /\ \A q \in Run \ {r} : draft'[q] = draft[q] /\ at'[q] = at[q] /\ present'[q] = present[q]
    BY <2>1 DEF EnrichTypeOK
  <2>3. draft'[r] = << >>
    BY <2>1, StepNumbers DEF HandsOK
  <2>4. Ground(geo') /\ HasCountries(geo')
    BY <1>0, <2>1, HydratedGround DEF GroundOK
  <2>5. closing \in SUBSET {r} /\ (closing # {} => Closed(geo'))
    OBVIOUS
  <2> HIDE DEF closing
  <2>6. CASE geo' = geo
    <3>1. r \in closed' \ closed => Led(geo)
      <4>1. r \in closed' \ closed => Closed(geo)
        BY <2>1, <2>5, <2>6
      <4> QED
        BY <1>0, <4>1, ClosedLed DEF GroundOK
    <3>2. (PassedGroups(r) /\ PassedFilter(r) /\ PassedDonor(r))'
      BY NothingPassed, <2>2
    <3>3. ~ToGeo(r)'
      BY <2>3 DEF ToGeo
    <3>4. /\ closed' \subseteq closed \cup {r} /\ behind \subseteq behind' \cup {r}
          /\ enriched' => enriched \/ (r \in closed /\ at[r] = Index)
      BY <2>1, <2>5, <2>6
    <3> QED
      BY <2>2, <2>6, <3>1, <3>2, <3>3, <3>4, QuietStep
  <2>7. CASE geo' # geo
    <3>1. \A q \in Run : ToGeo(q)' => ToGeo(q)
      BY <2>1, <2>2, <2>3 DEF ToGeo
    <3>2. closing \in SUBSET Run /\ \A q \in closing : at'[q] = Starting
      BY <2>2, <2>5
    <3> QED
      BY <2>1, <2>4, <2>5, <2>7, <3>1, <3>2, RefreshedStep
  <2> QED
    BY <2>6, <2>7
<1>3. ASSUME NEW r \in Run, SkipReconcile(r)
      PROVE  CurationInv'
  <2>1. /\ draft' = draft /\ at' = [at EXCEPT ![r] = Starting] /\ at[r] = Reconciling /\ geo' = geo
        /\ present' = present /\ closed' = closed /\ enriched' = enriched /\ behind' = behind
    BY <1>3 DEF SkipReconcile, historyVars, dbVars
  <2>2. ~ToGeo(r)' /\ at'[r] = Starting
    BY <2>1, StepNumbers DEF HandsOK, ToGeo, EnrichTypeOK
  <2>3. \A q \in Run \ {r} : draft'[q] = draft[q] /\ at'[q] = at[q] /\ present'[q] = present[q]
    BY <2>1 DEF EnrichTypeOK
  <2>4. (PassedGroups(r) /\ PassedFilter(r) /\ PassedDonor(r))'
    BY NothingPassed, <2>2
  <2> QED
    BY <2>1, <2>2, <2>3, <2>4, QuietStep
<1>4. ASSUME NEW r \in Run, Start(r)
      PROVE  CurationInv'
  <2>1. /\ draft' = draft /\ at[r] = Starting /\ geo' = geo /\ closed' = closed /\ enriched' = enriched
        /\ behind' = behind
        /\ \A q \in Run \ {r} : draft'[q] = draft[q] /\ at'[q] = at[q] /\ present'[q] = present[q]
    BY <1>4 DEF Start, historyVars, dbVars, EnrichTypeOK
  <2>2. ~ToGeo(r)'
    BY <2>1, StepNumbers DEF HandsOK, ToGeo
  <2>3. (PassedGroups(r) /\ PassedFilter(r) /\ PassedDonor(r))'
    BY <1>0, <1>4, StartIsPassed
  <2> QED
    BY <2>1, <2>2, <2>3, QuietStep
<1>5. ASSUME NEW r \in Run, WriteOecdOrg(r)
      PROVE  CurationInv'
  <2>1. /\ draft' = [draft EXCEPT ![r] = << >>] /\ at' = [at EXCEPT ![r] = Index] /\ at[r] = OecdOrg
        /\ geo' = geo /\ present' = present /\ closed' = closed /\ enriched' = enriched /\ behind' = behind
    BY <1>5 DEF WriteOecdOrg, historyVars
  <2>2. ~ToGeo(r)' /\ at'[r] = Index
    BY <2>1 DEF ToGeo, EnrichTypeOK
  <2>3. \A q \in Run \ {r} : draft'[q] = draft[q] /\ at'[q] = at[q] /\ present'[q] = present[q]
    BY <2>1 DEF EnrichTypeOK
  <2>4. ASSUME r \in closed
        PROVE  (PassedGroups(r) /\ PassedFilter(r) /\ PassedDonor(r))'
    <3>1. GroupsAreTheFiles(geo) /\ geo.ents \cap Filtered = {} /\ DonorLabelIsOff(geo)
      BY <1>0, <2>1, <2>4 DEF PassedOK, PassedGroups, PassedFilter, PassedDonor, PastEnrichers
    <3> QED
      BY <2>1, <2>2, <3>1, StepNumbers, TargetTypes DEF PassedGroups, PassedFilter, PassedDonor
  <2> QED
    BY <2>1, <2>2, <2>3, <2>4, QuietStep
<1>6. ASSUME NEW r \in Run, RebuildFts(r)
      PROVE  CurationInv'
  <2>1. /\ draft' = draft /\ at' = at /\ at[r] = Index /\ geo' = geo
        /\ present' = present /\ closed' = closed /\ enriched' = enriched /\ behind' = behind
    BY <1>6 DEF RebuildFts, historyVars
  <2>2. ~ToGeo(r)'
    BY <2>1, StepNumbers DEF HandsOK, ToGeo
  <2>3. ASSUME r \in closed
        PROVE  (PassedGroups(r) /\ PassedFilter(r) /\ PassedDonor(r))'
    BY <1>0, <2>1, <2>3 DEF PassedOK, PassedGroups, PassedFilter, PassedDonor
  <2> QED
    BY <2>1, <2>2, <2>3, QuietStep
<1>7. ASSUME NEW r \in Run, Finish(r)
      PROVE  CurationInv'
  <2>1. /\ draft' = draft /\ at' = [at EXCEPT ![r] = Done] /\ at[r] = Index /\ geo' = geo
        /\ present' = present /\ closed' = closed /\ enriched' = (enriched \/ r \in closed)
        /\ behind' = behind
    BY <1>7 DEF Finish, dbVars
  <2>2. ~ToGeo(r)' /\ at'[r] = Done
    BY <2>1, StepNumbers DEF HandsOK, ToGeo, EnrichTypeOK
  <2>3. \A q \in Run \ {r} : draft'[q] = draft[q] /\ at'[q] = at[q] /\ present'[q] = present[q]
    BY <2>1 DEF EnrichTypeOK
  <2>4. (PassedGroups(r) /\ PassedFilter(r) /\ PassedDonor(r))'
    BY NothingPassed, <2>2
  <2> QED
    BY <2>1, <2>2, <2>3, <2>4, QuietStep
<1>8. ASSUME NEW r \in Run, Stop(r)
      PROVE  CurationInv'
  <2>1. /\ draft' = [draft EXCEPT ![r] = << >>] /\ at' = [at EXCEPT ![r] = Interrupted] /\ geo' = geo
        /\ present' = present /\ closed' = closed /\ enriched' = enriched /\ behind' = behind \ {r}
    BY <1>8 DEF Stop, dbVars
  <2>2. ~ToGeo(r)' /\ at'[r] = Interrupted
    BY <2>1 DEF ToGeo, EnrichTypeOK
  <2>3. \A q \in Run \ {r} : draft'[q] = draft[q] /\ at'[q] = at[q] /\ present'[q] = present[q]
    BY <2>1 DEF EnrichTypeOK
  <2>4. (PassedGroups(r) /\ PassedFilter(r) /\ PassedDonor(r))'
    BY NothingPassed, <2>2
  <2> QED
    BY <2>1, <2>2, <2>3, <2>4, QuietStep
<1>9. ASSUME NEW type \in DOMAIN Slice, NEW slice \in Slice[type], MergeUnit(type, slice)
      PROVE  CurationInv'
  <2>1. /\ geo' = Merged(geo, type, slice) /\ Refreshed({}) /\ draft' = draft /\ at' = at
    BY <1>9 DEF MergeUnit
  <2>2. Ground(geo') /\ HasCountries(geo')
    BY <1>0, <2>1, MergedGround, RowsAssumption, RelationsAssumption DEF GroundOK
  <2>3. \A q \in Run : ToGeo(q)' => ToGeo(q)
    BY <2>1 DEF ToGeo
  <2> QED
    BY <2>1, <2>2, <2>3, RefreshedStep
<1>10. CASE UNCHANGED enrichVars
  <2>1. geo' = geo /\ at' = at /\ present' = present /\ draft' = draft /\ closed' = closed
        /\ enriched' = enriched /\ behind' = behind
    BY <1>10 DEF enrichVars, dbVars, passVars, historyVars
  <2> QED
    BY <2>1 DEF CurationInv, GroundOK, FreshOK, PassedOK, LedOK, CurationIsEnforced, ToGeo,
      PassedGroups, PassedFilter, PassedDonor
<1> QED
  BY <1>1, <1>2, <1>3, <1>4, <1>5, <1>6, <1>7, <1>8, <1>9, <1>10, ReadStep, WriteEnricherStep,
     ReadOecdStep, WriteOecdGeoStep DEF EnrichNext

\* What the curated files rule holds after a pass whose relations were closed,
\* however the enrichers, writes, crashes and reconciliations of any number of
\* runs interleave, until rows come from the source (enrich.py:333,
\* oecd_dac.py:385, reconcile.py).
THEOREM CuratedRowsHold == EnrichSpec => []CurationIsEnforced
<1> DEFINE Inv == EnrichInv /\ CurationInv
<1>1. EnrichInit => Inv
  BY EnrichmentBegins, CurationBegins
<1>2. Inv /\ [EnrichNext]_enrichVars => Inv'
  BY EnrichmentTypes, HandsStep, AttachedStep, CurationStep DEF EnrichInv
<1>3. Inv => CurationIsEnforced
  BY DEF CurationInv
<1> QED
  BY <1>1, <1>2, <1>3, PTL DEF EnrichSpec

-----------------------------------------------------------------------------
(* Publishing                                                              *)

(* What the kinds of content are good for. *)
LEMMA Kinds ==
  /\ Packs \subseteq Content
  /\ Absent \in Content /\ Empty \in Content /\ Torn \in Content
  /\ Unseen \notin Content
  /\ Absent # Torn /\ Empty # Absent /\ Empty # Torn
  /\ \A d \in Packs : IsPack(d) /\ d # Absent /\ d # Torn
  /\ ~IsPack(Absent) /\ ~IsPack(Empty) /\ ~IsPack(Torn) /\ ~IsPack(Unseen)
  /\ \A d \in Content : d.rows \in Int /\ (IsPack(d) => d \in Packs)
<1> USE DEF Pack, Absent, Empty, Torn, Unseen, IsPack
<1>1. \A d \in Packs : d.kind = "pack" /\ d.rows \in Int
  BY PackPublishAssumption DEF Packs
<1>2. /\ Unseen \notin Packs /\ Absent \notin Packs /\ Empty \notin Packs /\ Torn \notin Packs
  BY <1>1
<1>3. /\ Absent.kind = "absent" /\ Empty.kind = "empty" /\ Torn.kind = "torn"
      /\ Unseen.kind = "unseen"
  OBVIOUS
<1>4. \A d \in {Absent, Empty, Torn} : d.rows \in Int /\ d.kind # "pack"
  OBVIOUS
<1> HIDE DEF Pack, Absent, Empty, Torn, Unseen
<1> QED
  BY <1>1, <1>2, <1>3, <1>4 DEF Content

Publishing == {"clear", "move", "moving", "unback", "aside", "swap", "clean"}

(* What is where at each step of the publish. *)
InHand ==
  /\ step \in {"gate", "clear", "move", "moving"} => IsPack(staged[cur])
  /\ step \in {"unback", "aside", "swap"} => IsPack(incoming[cur])
  /\ step = "swap" => live[cur] = Absent /\ backup[cur] # Absent
  /\ step = "copying" => IsPack(live[cur])
  /\ step \notin {"idle", "next", "swap"} => live[cur] # Absent
  /\ step \notin {"idle", "next"} => found[cur] # Unseen

(* A snapshot is of the pack the run found, if it found one: it is taken   *)
(* while that pack is live, and never again.                               *)
Kept ==
  /\ \A m \in Module :
       /\ found[m] = Unseen => snapshot[m] = Absent
       /\ IsPack(found[m]) =>
            /\ snapshot[m] \in {Absent, Torn, found[m]}
            /\ live[m] = found[m] \/ snapshot[m] = found[m]
  /\ step = "copying" => snapshot[cur] = Torn
  /\ IsPack(found[cur]) =>
       /\ step \in {"build", "export", "gate"} => snapshot[cur] = found[cur] \/ baseline = Torn
       /\ step \in Publishing => snapshot[cur] = found[cur]

(* The gate compares with the pack found, whenever a pack is live. *)
Compared ==
  IsPack(live[cur]) /\ IsPack(found[cur]) =>
    /\ step \in {"build", "export", "gate"} => baseline \in {found[cur], Torn}
    /\ cur \in Gated =>
         /\ step \in {"clear", "move", "moving"} => Keeps(found[cur], staged[cur])
         /\ step \in {"unback", "aside"} => Keeps(found[cur], incoming[cur])

(* Types, and a process works only on a run that is not packaged yet.      *)
THEOREM PublishTyping == PublishSpec => []PublishTypeOK
<1>1. PublishInit => PublishTypeOK
  BY PackPublishAssumption, Kinds DEF PublishInit, PublishTypeOK
<1>2. PublishTypeOK /\ [PublishNext]_publishVars => PublishTypeOK'
  <2> SUFFICES ASSUME PublishTypeOK, [PublishNext]_publishVars
               PROVE PublishTypeOK'
    OBVIOUS
  <2> USE PackPublishAssumption, Kinds DEF diskVars, PublishTypeOK
  <2>1. CASE Settled
    BY <2>1 DEF Settled, publishVars, diskVars
  <2>2. CASE NewRun
    <3> USE DEF NewRun
    <3>1. snapshot' \in [Module -> Content] /\ staged' \in [Module -> Content]
      BY <2>2
    <3>2. found' \in [Module -> Content \cup {Unseen}]
      BY <2>2
    <3>3. starts' \in 0..MaxStarts
      BY <2>2
    <3> QED
      BY <2>2, <3>1, <3>2, <3>3
  <2>3. CASE Resume
    BY <2>3 DEF Resume, StageIsDone
  <2>4. CASE Crash
    BY <2>4 DEF Crash
  <2>5. CASE NextRecipe
    BY <2>5 DEF NextRecipe
  <2>6. CASE FinishPackaging
    BY <2>6 DEF FinishPackaging
  <2>7. CASE NothingToSnapshot
    BY <2>7 DEF NothingToSnapshot
  <2>8. CASE ReuseSnapshot
    BY <2>8 DEF ReuseSnapshot, Captured
  <2>9. CASE BeginSnapshot
    BY <2>9 DEF BeginSnapshot, Captured
  <2>10. CASE EndSnapshot
    BY <2>10 DEF EndSnapshot
  <2>11. CASE ClearWork
    BY <2>11 DEF ClearWork
  <2>12. CASE ExportPack
    BY <2>12 DEF ExportPack
  <2>13. CASE PassGate
    BY <2>13 DEF PassGate, SuspiciousDrop
  <2>14. CASE FailGate
    BY <2>14 DEF FailGate, SuspiciousDrop
  <2>15. CASE ClearIncoming
    BY <2>15 DEF ClearIncoming
  <2>16. CASE MoveToIncoming
    BY <2>16 DEF MoveToIncoming, BeginMove
  <2>17. CASE EndMove
    BY <2>17 DEF EndMove
  <2>18. CASE ClearBackup
    BY <2>18 DEF ClearBackup
  <2>19. CASE MoveAside
    BY <2>19 DEF MoveAside
  <2>20. CASE SwapIn
    BY <2>20 DEF SwapIn
  <2>21. CASE RollBack
    BY <2>21 DEF RollBack, Restored
  <2>22. CASE DropBackup
    BY <2>22 DEF DropBackup
  <2>23. CASE UNCHANGED publishVars
    BY <2>23 DEF publishVars, diskVars
  <2> QED
    BY <2>1, <2>2, <2>3, <2>4, <2>5, <2>6, <2>7, <2>8, <2>9, <2>10, <2>11, <2>12,
       <2>13, <2>14, <2>15, <2>16, <2>17, <2>18, <2>19, <2>20, <2>21, <2>22, <2>23 DEF
       PublishNext
<1> QED
  BY <1>1, <1>2, PTL DEF PublishSpec

LEMMA Carrying == PublishSpec => []InHand
<1>1. PublishInit => InHand
  BY PackPublishAssumption, Kinds DEF PublishInit, InHand
<1>2. PublishTypeOK /\ InHand /\ [PublishNext]_publishVars => InHand'
  <2> SUFFICES ASSUME PublishTypeOK, InHand, [PublishNext]_publishVars
               PROVE InHand'
    OBVIOUS
  <2> USE PackPublishAssumption, Kinds DEF diskVars, PublishTypeOK, InHand
  <2>1. CASE Settled
    BY <2>1 DEF Settled, publishVars, diskVars
  <2>2. CASE NewRun
    BY <2>2 DEF NewRun
  <2>3. CASE Resume
    BY <2>3 DEF Resume, StageIsDone
  <2>4. CASE Crash
    BY <2>4 DEF Crash
  <2>5. CASE NextRecipe
    BY <2>5 DEF NextRecipe
  <2>6. CASE FinishPackaging
    BY <2>6 DEF FinishPackaging
  <2>7. CASE NothingToSnapshot
    BY <2>7 DEF NothingToSnapshot
  <2>8. CASE ReuseSnapshot
    BY <2>8 DEF ReuseSnapshot, Captured
  <2>9. CASE BeginSnapshot
    BY <2>9 DEF BeginSnapshot, Captured
  <2>10. CASE EndSnapshot
    BY <2>10 DEF EndSnapshot
  <2>11. CASE ClearWork
    BY <2>11 DEF ClearWork
  <2>12. CASE ExportPack
    BY <2>12 DEF ExportPack
  <2>13. CASE PassGate
    BY <2>13 DEF PassGate, SuspiciousDrop
  <2>14. CASE FailGate
    BY <2>14 DEF FailGate, SuspiciousDrop
  <2>15. CASE ClearIncoming
    BY <2>15 DEF ClearIncoming
  <2>16. CASE MoveToIncoming
    BY <2>16 DEF MoveToIncoming, BeginMove
  <2>17. CASE EndMove
    BY <2>17 DEF EndMove
  <2>18. CASE ClearBackup
    BY <2>18 DEF ClearBackup
  <2>19. CASE MoveAside
    BY <2>19 DEF MoveAside
  <2>20. CASE SwapIn
    BY <2>20 DEF SwapIn
  <2>21. CASE RollBack
    BY <2>21 DEF RollBack, Restored
  <2>22. CASE DropBackup
    BY <2>22 DEF DropBackup
  <2>23. CASE UNCHANGED publishVars
    BY <2>23 DEF publishVars, diskVars
  <2> QED
    BY <2>1, <2>2, <2>3, <2>4, <2>5, <2>6, <2>7, <2>8, <2>9, <2>10, <2>11, <2>12,
       <2>13, <2>14, <2>15, <2>16, <2>17, <2>18, <2>19, <2>20, <2>21, <2>22, <2>23 DEF
       PublishNext
<1> QED
  BY <1>1, <1>2, PublishTyping, PTL DEF PublishSpec

LEMMA Keeping == PublishSpec => []Kept
<1>1. PublishInit => Kept
  BY PackPublishAssumption, Kinds DEF PublishInit, Kept, Publishing
<1>2. PublishTypeOK /\ InHand /\ Kept /\ [PublishNext]_publishVars => Kept'
  <2> SUFFICES ASSUME PublishTypeOK, InHand, Kept, [PublishNext]_publishVars
               PROVE Kept'
    OBVIOUS
  <2> USE PackPublishAssumption, Kinds DEF diskVars, PublishTypeOK, InHand, Kept, Publishing
  <2>1. CASE Settled
    BY <2>1 DEF Settled, publishVars, diskVars
  <2>2. CASE NewRun
    BY <2>2 DEF NewRun
  <2>3. CASE Resume
    BY <2>3 DEF Resume, StageIsDone
  <2>4. CASE Crash
    BY <2>4 DEF Crash
  <2>5. CASE NextRecipe
    BY <2>5 DEF NextRecipe
  <2>6. CASE FinishPackaging
    BY <2>6 DEF FinishPackaging
  <2>7. CASE NothingToSnapshot
    BY <2>7 DEF NothingToSnapshot
  <2>8. CASE ReuseSnapshot
    BY <2>8 DEF ReuseSnapshot, Captured
  <2>9. CASE BeginSnapshot
    BY <2>9 DEF BeginSnapshot, Captured
  <2>10. CASE EndSnapshot
    BY <2>10 DEF EndSnapshot
  <2>11. CASE ClearWork
    BY <2>11 DEF ClearWork
  <2>12. CASE ExportPack
    BY <2>12 DEF ExportPack
  <2>13. CASE PassGate
    BY <2>13 DEF PassGate, SuspiciousDrop
  <2>14. CASE FailGate
    BY <2>14 DEF FailGate, SuspiciousDrop
  <2>15. CASE ClearIncoming
    BY <2>15 DEF ClearIncoming
  <2>16. CASE MoveToIncoming
    BY <2>16 DEF MoveToIncoming, BeginMove
  <2>17. CASE EndMove
    BY <2>17 DEF EndMove
  <2>18. CASE ClearBackup
    BY <2>18 DEF ClearBackup
  <2>19. CASE MoveAside
    BY <2>19 DEF MoveAside
  <2>20. CASE SwapIn
    BY <2>20 DEF SwapIn
  <2>21. CASE RollBack
    BY <2>21 DEF RollBack, Restored
  <2>22. CASE DropBackup
    BY <2>22 DEF DropBackup
  <2>23. CASE UNCHANGED publishVars
    BY <2>23 DEF publishVars, diskVars
  <2> QED
    BY <2>1, <2>2, <2>3, <2>4, <2>5, <2>6, <2>7, <2>8, <2>9, <2>10, <2>11, <2>12,
       <2>13, <2>14, <2>15, <2>16, <2>17, <2>18, <2>19, <2>20, <2>21, <2>22, <2>23 DEF
       PublishNext
<1> QED
  BY <1>1, <1>2, PublishTyping, Carrying, PTL DEF PublishSpec

LEMMA Comparing == PublishSpec => []Compared
<1>1. PublishInit => Compared
  BY PackPublishAssumption, Kinds DEF PublishInit, Compared
<1>2. PublishTypeOK /\ InHand /\ Kept /\ Compared /\ [PublishNext]_publishVars => Compared'
  <2> SUFFICES ASSUME PublishTypeOK, InHand, Kept, Compared, [PublishNext]_publishVars
               PROVE Compared'
    OBVIOUS
  <2> USE PackPublishAssumption, Kinds DEF diskVars, PublishTypeOK, InHand, Kept, Compared,
       Publishing, Keeps
  <2>1. CASE Settled
    BY <2>1 DEF Settled, publishVars, diskVars
  <2>2. CASE NewRun
    BY <2>2 DEF NewRun
  <2>3. CASE Resume
    BY <2>3 DEF Resume, StageIsDone
  <2>4. CASE Crash
    BY <2>4 DEF Crash
  <2>5. CASE NextRecipe
    BY <2>5 DEF NextRecipe
  <2>6. CASE FinishPackaging
    BY <2>6 DEF FinishPackaging
  <2>7. CASE NothingToSnapshot
    BY <2>7 DEF NothingToSnapshot
  <2>8. CASE ReuseSnapshot
    BY <2>8 DEF ReuseSnapshot, Captured
  <2>9. CASE BeginSnapshot
    BY <2>9 DEF BeginSnapshot, Captured
  <2>10. CASE EndSnapshot
    BY <2>10 DEF EndSnapshot
  <2>11. CASE ClearWork
    BY <2>11 DEF ClearWork
  <2>12. CASE ExportPack
    BY <2>12 DEF ExportPack
  <2>13. CASE PassGate
    BY <2>13 DEF PassGate, SuspiciousDrop
  <2>14. CASE FailGate
    BY <2>14 DEF FailGate, SuspiciousDrop
  <2>15. CASE ClearIncoming
    BY <2>15 DEF ClearIncoming
  <2>16. CASE MoveToIncoming
    BY <2>16 DEF MoveToIncoming, BeginMove
  <2>17. CASE EndMove
    BY <2>17 DEF EndMove
  <2>18. CASE ClearBackup
    BY <2>18 DEF ClearBackup
  <2>19. CASE MoveAside
    BY <2>19 DEF MoveAside
  <2>20. CASE SwapIn
    BY <2>20 DEF SwapIn
  <2>21. CASE RollBack
    BY <2>21 DEF RollBack, Restored
  <2>22. CASE DropBackup
    BY <2>22 DEF DropBackup
  <2>23. CASE UNCHANGED publishVars
    BY <2>23 DEF publishVars, diskVars
  <2> QED
    BY <2>1, <2>2, <2>3, <2>4, <2>5, <2>6, <2>7, <2>8, <2>9, <2>10, <2>11, <2>12,
       <2>13, <2>14, <2>15, <2>16, <2>17, <2>18, <2>19, <2>20, <2>21, <2>22, <2>23 DEF
       PublishNext
<1> QED
  BY <1>1, <1>2, PublishTyping, Carrying, Keeping, PTL DEF PublishSpec

PublishedAndAsideWhole == \A m \in Module : live[m] # Torn /\ backup[m] # Torn

(* What is published, or set aside for a rollback, is never part of a pack. *)
LEMMA WholeParts == PublishSpec => []PublishedAndAsideWhole
<1>1. PublishInit => PublishedAndAsideWhole
  BY PackPublishAssumption, Kinds DEF PublishInit, PublishedAndAsideWhole
<1>2. PublishTypeOK /\ InHand /\ PublishedAndAsideWhole /\ [PublishNext]_publishVars => PublishedAndAsideWhole'
  <2> SUFFICES ASSUME PublishTypeOK, InHand, PublishedAndAsideWhole, [PublishNext]_publishVars
               PROVE PublishedAndAsideWhole'
    OBVIOUS
  <2> USE PackPublishAssumption, Kinds DEF diskVars, PublishTypeOK, InHand,
       PublishedAndAsideWhole
  <2>1. CASE Settled
    BY <2>1 DEF Settled, publishVars, diskVars
  <2>2. CASE NewRun
    BY <2>2 DEF NewRun
  <2>3. CASE Resume
    BY <2>3 DEF Resume, StageIsDone
  <2>4. CASE Crash
    BY <2>4 DEF Crash
  <2>5. CASE NextRecipe
    BY <2>5 DEF NextRecipe
  <2>6. CASE FinishPackaging
    BY <2>6 DEF FinishPackaging
  <2>7. CASE NothingToSnapshot
    BY <2>7 DEF NothingToSnapshot
  <2>8. CASE ReuseSnapshot
    BY <2>8 DEF ReuseSnapshot, Captured
  <2>9. CASE BeginSnapshot
    BY <2>9 DEF BeginSnapshot, Captured
  <2>10. CASE EndSnapshot
    BY <2>10 DEF EndSnapshot
  <2>11. CASE ClearWork
    BY <2>11 DEF ClearWork
  <2>12. CASE ExportPack
    BY <2>12 DEF ExportPack
  <2>13. CASE PassGate
    BY <2>13 DEF PassGate, SuspiciousDrop
  <2>14. CASE FailGate
    BY <2>14 DEF FailGate, SuspiciousDrop
  <2>15. CASE ClearIncoming
    BY <2>15 DEF ClearIncoming
  <2>16. CASE MoveToIncoming
    BY <2>16 DEF MoveToIncoming, BeginMove
  <2>17. CASE EndMove
    BY <2>17 DEF EndMove
  <2>18. CASE ClearBackup
    BY <2>18 DEF ClearBackup
  <2>19. CASE MoveAside
    BY <2>19 DEF MoveAside
  <2>20. CASE SwapIn
    BY <2>20 DEF SwapIn
  <2>21. CASE RollBack
    BY <2>21 DEF RollBack, Restored
  <2>22. CASE DropBackup
    BY <2>22 DEF DropBackup
  <2>23. CASE UNCHANGED publishVars
    BY <2>23 DEF publishVars, diskVars
  <2> QED
    BY <2>1, <2>2, <2>3, <2>4, <2>5, <2>6, <2>7, <2>8, <2>9, <2>10, <2>11, <2>12,
       <2>13, <2>14, <2>15, <2>16, <2>17, <2>18, <2>19, <2>20, <2>21, <2>22, <2>23 DEF
       PublishNext
<1> QED
  BY <1>1, <1>2, PublishTyping, Carrying, PTL DEF PublishSpec

(* Readers never find half a pack. *)
THEOREM WholePacks == PublishSpec => []PublishedIsWhole
<1>1. PublishedAndAsideWhole => PublishedIsWhole
  BY DEF PublishedAndAsideWhole, PublishedIsWhole
<1> QED
  BY <1>1, WholeParts, PTL

(* The run's baseline survives every crash and resume. *)
THEOREM Baselines == PublishSpec => []BaselineIsKept
<1>1. Kept => BaselineIsKept
  BY DEF Kept, BaselineIsKept
<1> QED
  BY <1>1, Keeping, PTL

(* What was live is beside its place whenever the place is empty. *)
THEOREM Rollbacks == PublishSpec => []RollbackTargetExists
<1>1. PublishInit => RollbackTargetExists
  BY PackPublishAssumption, Kinds DEF PublishInit, RollbackTargetExists
<1>2. PublishTypeOK /\ InHand /\ RollbackTargetExists /\ [PublishNext]_publishVars => RollbackTargetExists'
  <2> SUFFICES ASSUME PublishTypeOK, InHand, RollbackTargetExists, [PublishNext]_publishVars
               PROVE RollbackTargetExists'
    OBVIOUS
  <2> USE PackPublishAssumption, Kinds DEF diskVars, PublishTypeOK, InHand,
       RollbackTargetExists
  <2>1. CASE Settled
    BY <2>1 DEF Settled, publishVars, diskVars
  <2>2. CASE NewRun
    BY <2>2 DEF NewRun
  <2>3. CASE Resume
    BY <2>3 DEF Resume, StageIsDone
  <2>4. CASE Crash
    BY <2>4 DEF Crash
  <2>5. CASE NextRecipe
    BY <2>5 DEF NextRecipe
  <2>6. CASE FinishPackaging
    BY <2>6 DEF FinishPackaging
  <2>7. CASE NothingToSnapshot
    BY <2>7 DEF NothingToSnapshot
  <2>8. CASE ReuseSnapshot
    BY <2>8 DEF ReuseSnapshot, Captured
  <2>9. CASE BeginSnapshot
    BY <2>9 DEF BeginSnapshot, Captured
  <2>10. CASE EndSnapshot
    BY <2>10 DEF EndSnapshot
  <2>11. CASE ClearWork
    BY <2>11 DEF ClearWork
  <2>12. CASE ExportPack
    BY <2>12 DEF ExportPack
  <2>13. CASE PassGate
    BY <2>13 DEF PassGate, SuspiciousDrop
  <2>14. CASE FailGate
    BY <2>14 DEF FailGate, SuspiciousDrop
  <2>15. CASE ClearIncoming
    BY <2>15 DEF ClearIncoming
  <2>16. CASE MoveToIncoming
    BY <2>16 DEF MoveToIncoming, BeginMove
  <2>17. CASE EndMove
    BY <2>17 DEF EndMove
  <2>18. CASE ClearBackup
    BY <2>18 DEF ClearBackup
  <2>19. CASE MoveAside
    BY <2>19 DEF MoveAside
  <2>20. CASE SwapIn
    BY <2>20 DEF SwapIn
  <2>21. CASE RollBack
    BY <2>21 DEF RollBack, Restored
  <2>22. CASE DropBackup
    BY <2>22 DEF DropBackup
  <2>23. CASE UNCHANGED publishVars
    BY <2>23 DEF publishVars, diskVars
  <2> QED
    BY <2>1, <2>2, <2>3, <2>4, <2>5, <2>6, <2>7, <2>8, <2>9, <2>10, <2>11, <2>12,
       <2>13, <2>14, <2>15, <2>16, <2>17, <2>18, <2>19, <2>20, <2>21, <2>22, <2>23 DEF
       PublishNext
<1> QED
  BY <1>1, <1>2, PublishTyping, Carrying, PTL DEF PublishSpec

(* No sequence of resumes shrinks a gated pack past its tolerance. *)
THEOREM Overwrites == PublishSpec => OverwritesAreGated
<1> DEFINE Step == \A m \in Gated :
              IsPack(live[m]) /\ live'[m] = Absent /\ IsPack(found[m])
                => Keeps(found[m], incoming[m])
<1>1. PublishTypeOK /\ InHand /\ Compared /\ [PublishNext]_publishVars => [Step]_publishVars
  <2> SUFFICES ASSUME PublishTypeOK, InHand, Compared, [PublishNext]_publishVars PROVE Step \/ UNCHANGED publishVars
    OBVIOUS
  <2> USE PackPublishAssumption, Kinds DEF diskVars, PublishTypeOK, InHand, Compared
  <2>1. CASE Settled
    BY <2>1 DEF Settled, publishVars, diskVars
  <2>2. CASE NewRun
    BY <2>2 DEF NewRun
  <2>3. CASE Resume
    BY <2>3 DEF Resume, StageIsDone
  <2>4. CASE Crash
    BY <2>4 DEF Crash
  <2>5. CASE NextRecipe
    BY <2>5 DEF NextRecipe
  <2>6. CASE FinishPackaging
    BY <2>6 DEF FinishPackaging
  <2>7. CASE NothingToSnapshot
    BY <2>7 DEF NothingToSnapshot
  <2>8. CASE ReuseSnapshot
    BY <2>8 DEF ReuseSnapshot, Captured
  <2>9. CASE BeginSnapshot
    BY <2>9 DEF BeginSnapshot, Captured
  <2>10. CASE EndSnapshot
    BY <2>10 DEF EndSnapshot
  <2>11. CASE ClearWork
    BY <2>11 DEF ClearWork
  <2>12. CASE ExportPack
    BY <2>12 DEF ExportPack
  <2>13. CASE PassGate
    BY <2>13 DEF PassGate, SuspiciousDrop
  <2>14. CASE FailGate
    BY <2>14 DEF FailGate, SuspiciousDrop
  <2>15. CASE ClearIncoming
    BY <2>15 DEF ClearIncoming
  <2>16. CASE MoveToIncoming
    BY <2>16 DEF MoveToIncoming, BeginMove
  <2>17. CASE EndMove
    BY <2>17 DEF EndMove
  <2>18. CASE ClearBackup
    BY <2>18 DEF ClearBackup
  <2>19. CASE MoveAside
    BY <2>19 DEF MoveAside
  <2>20. CASE SwapIn
    BY <2>20 DEF SwapIn
  <2>21. CASE RollBack
    BY <2>21 DEF RollBack, Restored
  <2>22. CASE DropBackup
    BY <2>22 DEF DropBackup
  <2>23. CASE UNCHANGED publishVars
    BY <2>23 DEF publishVars, diskVars
  <2> QED
    BY <2>1, <2>2, <2>3, <2>4, <2>5, <2>6, <2>7, <2>8, <2>9, <2>10, <2>11, <2>12,
       <2>13, <2>14, <2>15, <2>16, <2>17, <2>18, <2>19, <2>20, <2>21, <2>22, <2>23 DEF
       PublishNext
<1> QED
  BY <1>1, PublishTyping, Carrying, Comparing, PTL DEF PublishSpec, OverwritesAreGated
==============================================================================
