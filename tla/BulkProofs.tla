----------------------------- MODULE BulkProofs -----------------------------
(***************************************************************************)
(* What Resolver.bulk() and the review of its result promise, for any      *)
(* data, any columns and policies, and any number of passes.               *)
(***************************************************************************)
EXTENDS Bulk, WellFoundedInduction, TLAPS

-----------------------------------------------------------------------------
(* Keys                                                                    *)

\* First is the least of a set of rows.
LEMMA FirstIsLeast ==
  ASSUME NEW S \in SUBSET Nat, S # {}
  PROVE  First(S) \in S /\ \A i \in S : First(S) <= i
<1> DEFINE R == {ss \in Nat \X Nat : ss[1] < ss[2]}
<1>1. IsWellFoundedOn(R, Nat)
  BY NatLessThanWellFounded DEF OpToRel
<1>2. PICK i \in S : \A j \in S : <<j, i>> \notin R
  <2> HIDE DEF R
  <2> QED
    BY <1>1, WFMin
<1>3. ASSUME NEW j \in S, j < i
      PROVE  FALSE
  <2>1. <<j, i>> \in Nat \X Nat
    BY <1>2
  <2>2. <<j, i>>[1] < <<j, i>>[2]
    BY <1>3
  <2> QED
    BY <1>2, <2>1, <2>2
<1>4. \E k \in S : \A j \in S : k <= j
  BY <1>2, <1>3
<1> QED
  BY <1>4 DEF First

\* Every row with a text has its key among the uniques, and the rows are typed.
LEMMA KeysOfRows ==
  ASSUME NEW rows \in Rows
  PROVE  /\ DOMAIN rows \subseteq Nat /\ Distinct(rows) \subseteq DOMAIN rows
         /\ \A i \in Distinct(rows) : rows[i].text \in Text /\ rows[i].in \in Context
         /\ \A i \in DOMAIN rows : rows[i].text # Null => \E j \in Distinct(rows) : rows[j] = rows[i]
<1> DEFINE Row == [text : Text \cup {Null}, in : Context]
<1>1. \A x \in Row : x.text \in Text \cup {Null} /\ x.in \in Context
  OBVIOUS
<1>2. rows \in Seq(Row)
  BY DEF Rows
<1> HIDE DEF Row
<1>3. /\ Len(rows) \in Nat /\ DOMAIN rows = 1 .. Len(rows)
      /\ \A i \in DOMAIN rows : rows[i] \in Row
  BY <1>2
<1>4. ASSUME NEW i \in DOMAIN rows, rows[i].text # Null
      PROVE  \E j \in Distinct(rows) : rows[j] = rows[i]
  <2> DEFINE S == {j \in DOMAIN rows : rows[j] = rows[i]}
  <2>1. S \in SUBSET Nat /\ i \in S
    BY <1>3
  <2>2. First(S) \in S /\ \A j \in S : First(S) <= j
    <3> HIDE DEF S
    <3> QED
      BY <2>1, FirstIsLeast
  <2>3. ASSUME NEW j \in 1 .. First(S) - 1
        PROVE  rows[j] # rows[i]
    <3>1. First(S) \in 1 .. Len(rows) /\ (j \in S => First(S) <= j)
      BY <1>3, <2>2
    <3>2. j \in DOMAIN rows
      BY <1>3, <3>1
    <3> HIDE DEF S
    <3>3. j \notin S
      BY <3>1
    <3> QED
      BY <3>2, <3>3 DEF S
  <2> QED
    BY <1>4, <2>2, <2>3 DEF Distinct
<1> QED
  BY <1>1, <1>3, <1>4 DEF Distinct

-----------------------------------------------------------------------------
(* Types                                                                   *)

\* What the next row to work on is.
LEMMA TurnIs ==
  ASSUME TypeOK, NEW S, S \subseteq uniques, S # {}
  PROVE  First(S) \in S /\ First(S) \in uniques
<1>1. S \in SUBSET Nat
  BY KeysOfRows DEF TypeOK
<1> QED
  BY <1>1, FirstIsLeast

\* A call that a caller may make is typed.
LEMMA CallTypes ==
  ASSUME passes \in Nat, passes < Len(Calls), NEW c \in Calls[passes + 1]
  PROVE  /\ passes + 1 \in 0 .. Len(Calls) /\ c.rows \in Rows
         /\ c.perRow \in BOOLEAN /\ c.from \in System \cup {NoSystem, Other}
<1> DEFINE T == [rows : Rows, perRow : BOOLEAN, from : System \cup {NoSystem, Other},
                 to : System \cup {Raw, Other}, unmatched : {"null", "raise", "other"},
                 failed : {"null", "raise", "keep"}, unsure : {"null", "raise", "best"},
                 missing : {"auto", "raise"}]
<1>1. Calls \in Seq(SUBSET T)
  BY BulkAssumption
<1>2. \A x \in T : x.rows \in Rows /\ x.perRow \in BOOLEAN /\ x.from \in System \cup {NoSystem, Other}
  OBVIOUS
<1> HIDE DEF T
<1>3. Len(Calls) \in Nat /\ Calls[passes + 1] \in SUBSET T
  BY <1>1
<1> QED
  BY <1>2, <1>3

\* What has been done grows within the uniques.
LEMMA GrowsWithin ==
  ASSUME NEW f, NEW g, NEW i \in uniques, DOMAIN f \subseteq uniques,
         g = f \/ \E x : g = Record(f, i, x)
  PROVE  DOMAIN f \subseteq DOMAIN g /\ DOMAIN g \subseteq uniques
<1>1. CASE g = f
  BY <1>1
<1>2. ASSUME NEW x, g = Record(f, i, x)
      PROVE  DOMAIN f \subseteq DOMAIN g /\ DOMAIN g \subseteq uniques
  BY <1>2 DEF Record
<1> QED
  BY <1>1, <1>2

\* The state is typed at first.
LEMMA InitTyped == Init => TypeOK
<1>1. Distinct(<<>>) = {} /\ <<>> \in Rows
  BY DEF Distinct, Rows
<1>2. Len(Calls) \in Nat
  BY BulkAssumption
<1> QED
  BY <1>1, <1>2 DEF Init, TypeOK, NoCall, Nothing

\* And every step leaves it typed.
LEMMA StepTyped == TypeOK /\ [Next]_vars => TypeOK'
<1> SUFFICES ASSUME TypeOK, [Next]_vars
             PROVE  TypeOK'
  OBVIOUS
<1>1. ASSUME passes < Len(Calls), NEW c \in Calls[passes + 1], Bulk(c)
      PROVE  TypeOK'
  <2>1. passes \in Nat
    BY DEF TypeOK
  <2> QED
    BY <1>1, <2>1, CallTypes DEF Bulk, TypeOK, Abort, Nothing
<1>2. ASSUME ApplyCrosswalk
      PROVE  TypeOK'
  BY <1>2 DEF ApplyCrosswalk, TypeOK, Abort
<1>3. ASSUME ResolveCode
      PROVE  TypeOK'
  <2>1. Turn \in uniques
    BY <1>3, TurnIs DEF ResolveCode, Turn, Pending, TypeOK
  <2>2. UNCHANGED <<world, call, passes, uniques, todo, values>> /\ phase = "resolve"
    BY <1>3 DEF ResolveCode
  <2>3. phase' \in {"resolve", "raised"}
    BY <1>3 DEF ResolveCode, Abort
  <2>4. results' = results \/ \E x : results' = Record(results, Turn, x)
    BY <1>3 DEF ResolveCode
  <2>5. DOMAIN results \subseteq DOMAIN results' /\ DOMAIN results' \subseteq uniques
    BY <2>1, <2>4, GrowsWithin DEF TypeOK
  <2> QED
    BY <2>2, <2>3, <2>5 DEF TypeOK
<1>4. ASSUME ResolveName
      PROVE  TypeOK'
  <2>1. Turn \in uniques
    BY <1>4, TurnIs DEF ResolveName, Turn, Pending, TypeOK
  <2>2. UNCHANGED <<world, call, passes, uniques, todo, values>> /\ phase = "resolve"
    BY <1>4 DEF ResolveName
  <2>3. phase' \in {"resolve", "raised"}
    BY <1>4 DEF ResolveName, Abort
  <2>4. \/ results' = results \/ \E x : results' = Record(results, Turn, x)
        \/ results' = [i \in DOMAIN results \cup todo |-> IF i \in todo THEN Error ELSE results[i]]
    BY <1>4 DEF ResolveName
  <2>5. DOMAIN results \subseteq DOMAIN results' /\ DOMAIN results' \subseteq uniques
    BY <2>1, <2>4, GrowsWithin DEF TypeOK
  <2> QED
    BY <2>2, <2>3, <2>5 DEF TypeOK
<1>5. ASSUME EndResolve
      PROVE  TypeOK'
  BY <1>5 DEF EndResolve, TypeOK, workVars, Pending
<1>6. ASSUME Assemble
      PROVE  TypeOK'
  <2>1. First(uniques \ DOMAIN values) \in uniques
    BY <1>6, TurnIs DEF Assemble, TypeOK
  <2>2. UNCHANGED <<world, call, passes, uniques, todo, results>> /\ phase = "assemble"
    BY <1>6 DEF Assemble
  <2>3. phase' \in {"assemble", "raised"}
    BY <1>6 DEF Assemble, Abort
  <2>4. values' = values \/ \E x : values' = Record(values, First(uniques \ DOMAIN values), x)
    BY <1>6 DEF Assemble
  <2>5. DOMAIN values' \subseteq uniques
    BY <2>1, <2>4, GrowsWithin DEF TypeOK
  <2> QED
    BY <2>2, <2>3, <2>5 DEF TypeOK
<1>7. ASSUME Broadcast
      PROVE  TypeOK'
  BY <1>7 DEF Broadcast, TypeOK
<1>8. ASSUME NEW chosen, NEW strict, Review(chosen, strict)
      PROVE  TypeOK'
  BY <1>8 DEF Review, TypeOK, workVars
<1>9. ASSUME UNCHANGED vars
      PROVE  TypeOK'
  BY <1>9 DEF vars, workVars, TypeOK
<1> QED
  BY <1>1, <1>2, <1>3, <1>4, <1>5, <1>6, <1>7, <1>8, <1>9 DEF Next

\* Types.
THEOREM Typing == Spec => []TypeOK
BY InitTyped, StepTyped, PTL DEF Spec

-----------------------------------------------------------------------------
(* The invariant.  A row's result is that of its text alone, by the path   *)
(* that the call takes, or the batch by name has failed.                   *)

Due(k) ==
  IF Decided(k) THEN FromCrosswalk(k)
  ELSE IF ~codes THEN ByName(k)
  ELSE IF ByCode(k, call.from).is # "raises" THEN ByCode(k, call.from)
  ELSE IF call.failed = "null" THEN Error ELSE NoMatch

Undecided == {i \in uniques : ~Decided(Key(i))}
PathInv == phase \in {"resolve", "assemble", "returned"} =>
  /\ todo = Undecided
  /\ codes <=> ~call.perRow /\ (\/ call.from # NoSystem
                                \/ todo # {} /\ \A i \in todo : Key(i).text \in CodeShaped)
  /\ call.perRow => DOMAIN crosswalk.of = {}
ResultsInv == phase \in {"resolve", "assemble", "returned"} => \A i \in DOMAIN results :
  \/ results[i] = Due(Key(i))
  \/ i \in todo /\ ~codes /\ ~Calm
ValuesInv ==
  /\ phase \in {"crosswalk", "resolve"} => values = Nothing
  /\ phase \in {"assemble", "returned"} => \A i \in DOMAIN values : values[i] = Value(results[i], call)
OutInv == phase = "returned" =>
  /\ DOMAIN values = uniques
  /\ out = [i \in DOMAIN call.rows |-> IF call.rows[i].text = Null THEN Null ELSE values[PositionOf(call.rows[i])]]
CrosswalkInv ==
  /\ ~crosswalk.given => DOMAIN crosswalk.of = {}
  /\ phase = "crosswalk" => results = Nothing /\ (call.perRow => ~crosswalk.given)
  /\ \A t \in DOMAIN settled : t \in DOMAIN crosswalk.of /\ crosswalk.of[t] = settled[t]

IInv == TypeOK /\ PathInv /\ ResultsInv /\ ValuesInv /\ OutInv /\ CrosswalkInv /\ LenientCallsReturn

\* Steps that leave data, call, crosswalk and path alone leave what is due alone.
LEMMA SameDue ==
  ASSUME UNCHANGED <<world, call, crosswalk, uniques, todo, codes>>
  PROVE  /\ \A i : Key(i)' = Key(i) /\ Due(Key(i))' = Due(Key(i))
         /\ Calm' = Calm /\ Undecided' = Undecided
BY DEF Due, Decided, FromCrosswalk, ByCode, ByName, AnySystem, InSystem, Hits, Key,
   Calm, Undecided

\* And the path.
LEMMA SamePath ==
  ASSUME PathInv, UNCHANGED <<world, call, crosswalk, uniques, todo, codes>>,
         phase \in {"resolve", "assemble", "returned"}
  PROVE  PathInv'
BY SameDue DEF PathInv, Undecided, Decided, Key

\* And what the crosswalk says of the settled texts.
LEMMA SameCrosswalk ==
  ASSUME CrosswalkInv, UNCHANGED <<crosswalk, settled>>, phase' # "crosswalk"
  PROVE  CrosswalkInv'
BY DEF CrosswalkInv

\* A value is raised for by a lenient call only where no policy looks.
LEMMA LenientValues ==
  ASSUME NEW r, NEW c, Lenient', call' = c, IsRaise(Value(r, c))
  PROVE  Value(r, c).of = "fault" /\ world.broken /\ c.unsure = "best"
<1>1. /\ c.unmatched # "raise" /\ c.unsure # "raise" /\ c.missing # "raise"
      /\ c.to \in System \cup {Raw}
  BY DEF Lenient
<1>2. \A q : ~IsRaise(Pivot(q, c.to, c.missing))
  BY <1>1 DEF IsRaise, Pivot
<1>3. ~IsRaise(Miss(c.unmatched)) /\ ~IsRaise(Null)
  BY <1>1 DEF IsRaise, Miss
<1>4. r.is = "ambiguous" /\ c.unsure = "best" /\ Value(r, c) = Best(r, c)
  BY <1>1, <1>2, <1>3 DEF Value
<1>5. c.to # Raw /\ world.broken
  BY <1>2, <1>4 DEF Best
<1> QED
  BY <1>4, <1>5 DEF Best, Raises

\* A call begins with nothing done.
LEMMA BulkStep ==
  ASSUME IInv, TypeOK', NEW c, Bulk(c)
  PROVE  IInv'
<1>1. phase' \in {"crosswalk", "raised"} /\ results' = Nothing /\ values' = Nothing
  BY DEF Bulk, Abort
<1>2. phase' = "raised" => \/ raised' = "unsupported" /\ c.perRow /\ crosswalk.given
                           \/ raised' = "unknown country" /\ Untold(c)
  BY DEF Bulk, Abort
<1>3. phase' = "crosswalk" => (c.perRow => ~crosswalk.given)
  BY DEF Bulk, Abort
<1>4. call' = c /\ UNCHANGED <<world, crosswalk, settled>>
  BY DEF Bulk
<1>5. CrosswalkInv'
  BY <1>1, <1>3, <1>4 DEF IInv, CrosswalkInv
<1>6. LenientCallsReturn'
  <2>1. Untold(c) => Untold(call)'
    BY <1>4 DEF Untold
  <2> QED
    BY <1>2, <1>4, <2>1 DEF LenientCallsReturn
<1> QED
  BY <1>1, <1>5, <1>6 DEF IInv, PathInv, ResultsInv, ValuesInv, OutInv

\* The crosswalk decides its texts, and what is left takes one path.
LEMMA ApplyCrosswalkStep ==
  ASSUME IInv, TypeOK', ApplyCrosswalk
  PROVE  IInv'
<1> DEFINE hit == {i \in uniques : Decided(Key(i))}
<1>1. UNCHANGED <<world, call, crosswalk, uniques, values, settled>> /\ phase = "crosswalk"
  BY DEF ApplyCrosswalk
<1>2. CASE phase' = "raised"
  <2>1. \/ raised' = "fault" /\ world.broken /\ \E i \in hit : Decided(Key(i))
        \/ raised' = "unknown entity" /\ crosswalk.strict
    BY <1>2 DEF ApplyCrosswalk, Abort
  <2>2. (\E i \in hit : Decided(Key(i))) => crosswalk.given
    BY DEF IInv, CrosswalkInv, Decided
  <2>3. LenientCallsReturn'
    BY <1>1, <2>1, <2>2 DEF LenientCallsReturn
  <2> QED
    BY <1>1, <1>2, <2>3, SameCrosswalk DEF IInv, PathInv, ResultsInv, ValuesInv, OutInv
<1>3. CASE phase' = "resolve"
  <2>1. /\ results' = [i \in hit |-> FromCrosswalk(Key(i))] /\ todo' = uniques \ hit
        /\ codes' = /\ ~call.perRow
                    /\ \/ call.from # NoSystem
                       \/ todo' # {} /\ \A i \in todo' : Key(i).text \in CodeShaped
    BY <1>3 DEF ApplyCrosswalk, Abort
  <2>2. call.perRow => DOMAIN crosswalk.of = {}
    BY <1>1 DEF IInv, CrosswalkInv
  <2>3. \A i : Key(i)' = Key(i) /\ Decided(Key(i))' = Decided(Key(i)) /\ FromCrosswalk(Key(i))' = FromCrosswalk(Key(i))
    BY <1>1 DEF Key, Decided, FromCrosswalk
  <2>4. PathInv'
    BY <1>1, <2>1, <2>2, <2>3 DEF PathInv, Undecided
  <2>5. ResultsInv'
    BY <1>1, <2>1, <2>3 DEF ResultsInv, Due
  <2>6. ValuesInv'
    BY <1>1, <1>3 DEF IInv, ValuesInv
  <2> QED
    BY <1>1, <1>3, <2>4, <2>5, <2>6, SameCrosswalk DEF IInv, OutInv, LenientCallsReturn
<1> QED
  BY <1>2, <1>3 DEF ApplyCrosswalk, Abort

\* While rows are looked up, the data, the call and the path stay.
LEMMA LookupStep ==
  ASSUME IInv, TypeOK', phase = "resolve",
         UNCHANGED <<world, call, crosswalk, uniques, todo, codes, values, settled>>,
         \/ phase' = "resolve" /\ UNCHANGED raised /\ ResultsInv'
         \/ phase' = "raised" /\ call.failed = "raise"
  PROVE  IInv'
<1>1. CASE phase' = "resolve"
  <2>1. PathInv' /\ CrosswalkInv'
    BY <1>1, SamePath, SameCrosswalk DEF IInv
  <2>2. ValuesInv' /\ OutInv' /\ LenientCallsReturn'
    BY <1>1 DEF IInv, ValuesInv, OutInv, LenientCallsReturn
  <2> QED
    BY <1>1, <2>1, <2>2 DEF IInv
<1>2. CASE phase' = "raised"
  <2>1. ~Lenient'
    BY <1>2 DEF Lenient
  <2>2. CrosswalkInv'
    BY <1>2, SameCrosswalk DEF IInv
  <2> QED
    BY <1>2, <2>1, <2>2 DEF IInv, PathInv, ResultsInv, ValuesInv, OutInv, LenientCallsReturn
<1> QED
  BY <1>1, <1>2

\* A result that is due joins the others.
LEMMA DueJoins ==
  ASSUME ResultsInv, phase = "resolve", NEW i,
         UNCHANGED <<world, call, crosswalk, uniques, todo, codes>>,
         results' = Record(results, i, Due(Key(i)))
  PROVE  ResultsInv'
<1>1. /\ \A j \in DOMAIN results' : j = i \/ j \in DOMAIN results
      /\ results'[i] = Due(Key(i)) /\ \A j \in DOMAIN results \ {i} : results'[j] = results[j]
  BY DEF Record
<1> QED
  BY <1>1, SameDue DEF ResultsInv

\* The row in turn is one that the crosswalk leaves.
LEMMA TurnIsUndecided ==
  ASSUME TypeOK, PathInv, phase = "resolve", Pending # {}
  PROVE  /\ Turn \in todo /\ Turn \in uniques /\ ~Decided(Key(Turn))
         /\ Key(Turn).text \in Text /\ Key(Turn).in \in Context
<1>1. Turn \in Pending /\ Turn \in uniques
  BY TurnIs DEF Turn, Pending, TypeOK
<1>2. Turn \in todo /\ ~Decided(Key(Turn))
  BY <1>1 DEF Pending, PathInv, Undecided
<1> QED
  BY <1>1, <1>2, KeysOfRows DEF TypeOK, Key

\* A code that raises costs its own row at most.
LEMMA ResolveCodeStep ==
  ASSUME IInv, TypeOK', ResolveCode
  PROVE  IInv'
<1>1. /\ UNCHANGED <<world, call, crosswalk, uniques, todo, codes, values, settled>>
      /\ phase = "resolve" /\ codes /\ Pending # {}
  BY DEF ResolveCode
<1>2. ~Decided(Key(Turn))
  BY <1>1, TurnIsUndecided DEF IInv
<1>3. \/ phase' = "resolve" /\ UNCHANGED raised /\ results' = Record(results, Turn, Due(Key(Turn)))
      \/ phase' = "raised" /\ call.failed = "raise"
  BY <1>1, <1>2 DEF ResolveCode, Abort, Due
<1> QED
  BY <1>1, <1>3, DueJoins, LookupStep DEF IInv

\* A name that raises takes the batch: then a row of it is a faulty one.
LEMMA ResolveNameStep ==
  ASSUME IInv, TypeOK', ResolveName
  PROVE  IInv'
<1>1. /\ UNCHANGED <<world, call, crosswalk, uniques, todo, codes, values, settled>>
      /\ phase = "resolve" /\ ~codes /\ Pending # {}
  BY DEF ResolveName
<1>2. Turn \in todo /\ ~Decided(Key(Turn)) /\ Key(Turn).text \in Text /\ Key(Turn).in \in Context
  BY <1>1, TurnIsUndecided DEF IInv
<1>3. ByName(Key(Turn)).is = "raises" => ~Calm
  <2>1. world \in World
    BY DEF IInv, TypeOK
  <2>2. world.named[Key(Turn).text][Key(Turn).in].is # "raises"
    BY <1>2, <2>1, BulkAssumption
  <2> QED
    BY <1>2, <2>2 DEF ByName, Calm
<1>4. \/ phase' = "resolve" /\ UNCHANGED raised /\ results' = Record(results, Turn, Due(Key(Turn)))
      \/ phase' = "raised" /\ call.failed = "raise"
      \/ /\ phase' = "resolve" /\ UNCHANGED raised /\ ~Calm
         /\ results' = [i \in DOMAIN results \cup todo |-> IF i \in todo THEN Error ELSE results[i]]
  BY <1>1, <1>2, <1>3 DEF ResolveName, Abort, Due
<1>5. ASSUME ~Calm, results' = [i \in DOMAIN results \cup todo |-> IF i \in todo THEN Error ELSE results[i]]
      PROVE  ResultsInv'
  BY <1>1, <1>5, SameDue DEF IInv, ResultsInv
<1> QED
  BY <1>1, <1>4, <1>5, DueJoins, LookupStep DEF IInv

\* All rows have been looked up.
LEMMA EndResolveStep ==
  ASSUME IInv, TypeOK', EndResolve
  PROVE  IInv'
<1>1. UNCHANGED <<world, call, crosswalk, passes, workVars, settled>> /\ phase = "resolve" /\ phase' = "assemble"
  BY DEF EndResolve
<1>2. UNCHANGED <<uniques, todo, codes, results, values, raised>>
  BY <1>1 DEF workVars
<1>3. PathInv' /\ CrosswalkInv'
  BY <1>1, <1>2, SamePath, SameCrosswalk DEF IInv
<1>4. ResultsInv'
  BY <1>1, <1>2, SameDue DEF IInv, ResultsInv
<1>5. ValuesInv'
  BY <1>1, <1>2 DEF IInv, ValuesInv, Nothing
<1> QED
  BY <1>1, <1>3, <1>4, <1>5 DEF IInv, OutInv, LenientCallsReturn

\* A value is made of a result.
LEMMA AssembleStep ==
  ASSUME IInv, TypeOK', Assemble
  PROVE  IInv'
<1> DEFINE next == First(uniques \ DOMAIN values)
           v == Value(results[next], call)
<1>1. /\ UNCHANGED <<world, call, crosswalk, uniques, todo, codes, results, settled>>
      /\ phase = "assemble"
  BY DEF Assemble
<1>2. \/ phase' = "raised" /\ raised' = v.of /\ IsRaise(v)
      \/ phase' = "assemble" /\ UNCHANGED raised /\ values' = Record(values, next, v)
  BY <1>1 DEF Assemble, Abort
<1>3. CrosswalkInv'
  BY <1>1, <1>2, SameCrosswalk DEF IInv
<1>4. CASE phase' = "raised"
  <2>1. raised' = v.of /\ IsRaise(v)
    BY <1>2, <1>4
  <2>2. Lenient' => v.of = "fault" /\ world.broken /\ call.unsure = "best"
    <3> HIDE DEF next
    <3> QED
      BY <1>1, <2>1, LenientValues
  <2>3. LenientCallsReturn'
    BY <1>1, <2>1, <2>2 DEF LenientCallsReturn
  <2> QED
    BY <1>3, <1>4, <2>3 DEF IInv, PathInv, ResultsInv, ValuesInv, OutInv
<1>5. CASE phase' = "assemble"
  <2>1. PathInv'
    BY <1>1, <1>5, SamePath DEF IInv
  <2>2. ResultsInv'
    BY <1>1, <1>5, SameDue DEF IInv, ResultsInv
  <2>3. \A i : Value(results[i], call)' = Value(results[i], call)
    BY <1>1 DEF Value, Pivot, Best
  <2>4. ValuesInv'
    <3>1. values' = Record(values, next, v)
      BY <1>2, <1>5
    <3>2. /\ \A j \in DOMAIN values' : j = next \/ j \in DOMAIN values
          /\ values'[next] = v /\ \A j \in DOMAIN values \ {next} : values'[j] = values[j]
      BY <3>1 DEF Record
    <3> HIDE DEF next
    <3> QED
      BY <1>1, <1>5, <2>3, <3>2 DEF IInv, ValuesInv
  <2> QED
    BY <1>3, <1>5, <2>1, <2>2, <2>4 DEF IInv, OutInv, LenientCallsReturn
<1> QED
  BY <1>2, <1>4, <1>5

\* The values go back to their rows.
LEMMA BroadcastStep ==
  ASSUME IInv, TypeOK', Broadcast
  PROVE  IInv'
<1>1. /\ UNCHANGED <<world, call, crosswalk, uniques, todo, codes, results, values, settled>>
      /\ phase = "assemble" /\ phase' = "returned" /\ uniques = DOMAIN values
      /\ out' = [i \in DOMAIN call.rows |->
                   IF call.rows[i].text = Null THEN Null ELSE values[PositionOf(call.rows[i])]]
  BY DEF Broadcast
<1>2. PathInv' /\ CrosswalkInv'
  BY <1>1, SamePath, SameCrosswalk DEF IInv
<1>3. ResultsInv'
  BY <1>1, SameDue DEF IInv, ResultsInv
<1>4. \A i : Value(results[i], call)' = Value(results[i], call)
  BY <1>1 DEF Value, Pivot, Best
<1>5. ValuesInv'
  BY <1>1, <1>4 DEF IInv, ValuesInv
<1>6. \A r : PositionOf(r)' = PositionOf(r)
  BY <1>1 DEF PositionOf, Key
<1>7. OutInv'
  BY <1>1, <1>6 DEF OutInv, PositionOf, Key
<1> QED
  BY <1>1, <1>2, <1>3, <1>5, <1>7 DEF IInv, LenientCallsReturn

\* What is let stand is what the reviewed crosswalk says.
LEMMA ReviewStep ==
  ASSUME IInv, TypeOK', NEW chosen, NEW strict, Review(chosen, strict)
  PROVE  IInv'
<1>1. phase' = "idle"
  BY DEF Review
<1>2. /\ crosswalk' = [given |-> TRUE, of |-> [t \in DOMAIN AutoEntry \cup DOMAIN chosen |->
                          IF t \in DOMAIN chosen THEN chosen[t] ELSE AutoEntry[t]], strict |-> strict]
      /\ settled' = IF call.perRow THEN Nothing
                    ELSE [t \in Named({"resolved"}) \ DOMAIN chosen |-> results[FirstWith(t)].of[1]]
  BY DEF Review
<1>3. \A t \in DOMAIN settled' : t \in DOMAIN crosswalk'.of /\ crosswalk'.of[t] = settled'[t]
  BY <1>2 DEF AutoEntry, Nothing
<1>4. crosswalk'.given
  BY <1>2
<1>5. CrosswalkInv'
  BY <1>1, <1>3, <1>4 DEF CrosswalkInv
<1> QED
  BY <1>1, <1>5 DEF IInv, PathInv, ResultsInv, ValuesInv, OutInv, LenientCallsReturn

\* The invariant is inductive.
LEMMA Inductive == Spec => []IInv
<1>1. Init => IInv
  BY InitTyped DEF Init, IInv, PathInv, ResultsInv, ValuesInv, OutInv, CrosswalkInv, LenientCallsReturn,
                   NoCrosswalk, Nothing
<1>2. IInv /\ [Next]_vars => IInv'
  <2> SUFFICES ASSUME IInv, [Next]_vars
               PROVE  IInv'
    OBVIOUS
  <2>1. TypeOK'
    BY StepTyped DEF IInv
  <2>2. ASSUME UNCHANGED vars
        PROVE  IInv'
    <3>1. UNCHANGED <<world, call, crosswalk, passes, phase, uniques, todo, codes, results, values, out,
                      raised, settled>>
      BY <2>2 DEF vars, workVars
    <3>2. \A i : Key(i)' = Key(i) /\ Due(Key(i))' = Due(Key(i))
      BY <3>1, SameDue
    <3>3. ResultsInv' /\ PathInv' /\ CrosswalkInv'
      BY <3>1, <3>2, SameDue DEF IInv, ResultsInv, PathInv, CrosswalkInv
    <3>4. \A i : Value(results[i], call)' = Value(results[i], call) /\ PositionOf(call.rows[i])' = PositionOf(call.rows[i])
      BY <3>1 DEF Value, Pivot, Best, PositionOf, Key
    <3>5. ValuesInv' /\ OutInv'
      BY <3>1, <3>4 DEF IInv, ValuesInv, OutInv
    <3>6. LenientCallsReturn'
      BY <3>1 DEF IInv, LenientCallsReturn, Lenient, Untold
    <3> QED
      BY <2>1, <3>3, <3>5, <3>6 DEF IInv
  <2> QED
    BY <2>1, <2>2, BulkStep, ApplyCrosswalkStep, ResolveCodeStep, ResolveNameStep, EndResolveStep,
       AssembleStep, BroadcastStep, ReviewStep DEF Next
<1> QED
  BY <1>1, <1>2, PTL DEF Spec

-----------------------------------------------------------------------------
(* What is promised                                                        *)

\* A call with lenient policies and a known output raises for no text that a
\* row has, whatever the data, the rows and the crosswalk: what it raises is
\* that a context's country cannot be told, or is the crosswalk's or the store's.
THEOREM LenientReturns == Spec => []LenientCallsReturn
<1>1. IInv => LenientCallsReturn
  BY DEF IInv
<1> QED
  BY <1>1, Inductive, PTL

\* What a person has let stand comes out the same in the next pass, whatever
\* else that pass has to resolve.
THEOREM SettledStay == Spec => []SettledTextsStay
<1>1. IInv => SettledTextsStay
  <2> SUFFICES ASSUME IInv, phase = "returned", NEW i \in uniques,
                      Key(i).text \in DOMAIN settled, settled[Key(i).text] \in world.known
               PROVE  results[i] = Resolved(settled[Key(i).text])
    BY DEF SettledTextsStay
  <2>1. Decided(Key(i)) /\ crosswalk.of[Key(i).text] = settled[Key(i).text]
    BY DEF IInv, CrosswalkInv, Decided
  <2>2. i \notin todo /\ i \in DOMAIN results
    BY <2>1 DEF IInv, PathInv, Undecided, TypeOK
  <2>3. results[i] = FromCrosswalk(Key(i))
    BY <2>1, <2>2 DEF IInv, ResultsInv, Due
  <2>4. settled[Key(i).text] # Ignore
    BY BulkAssumption DEF IInv, TypeOK
  <2> QED
    BY <2>1, <2>3, <2>4 DEF FromCrosswalk
<1> QED
  BY <1>1, Inductive, PTL

\* A row with a text has a position among the uniques.
LEMMA PositionIs ==
  ASSUME TypeOK, NEW i \in DOMAIN call.rows, call.rows[i].text # Null
  PROVE  PositionOf(call.rows[i]) \in uniques /\ Key(PositionOf(call.rows[i])) = call.rows[i]
<1>1. \E j \in uniques : Key(j) = call.rows[i]
  BY KeysOfRows DEF TypeOK, Key
<1> QED
  BY <1>1 DEF PositionOf

\* What is due to a row is what it would have alone.
LEMMA DueIsAlone ==
  ASSUME IInv, phase = "returned", Alike, Calm, NEW i \in uniques
  PROVE  Due(Key(i)) = Alone(Key(i))
<1>1. CASE Decided(Key(i))
  BY <1>1 DEF Due, Alone
<1>2. CASE ~Decided(Key(i))
  <2>1. i \in todo
    BY <1>2 DEF IInv, PathInv, Undecided
  <2>2. ByName(Key(i)).is # "raises"
    <3>1. Key(i).text \in Text /\ Key(i).in \in Context /\ world \in World
      BY KeysOfRows DEF IInv, TypeOK, Key
    <3>2. world.named[Key(i).text][Key(i).in].is # "raises"
      BY <3>1, BulkAssumption
    <3> QED
      BY <2>1, <3>2 DEF ByName, Calm
  <2>3. CASE call.perRow
    BY <1>2, <2>3 DEF IInv, PathInv, Due, Alone
  <2>4. CASE ~call.perRow /\ codes
    BY <1>2, <2>4 DEF Due, Alone
  <2>5. CASE ~call.perRow /\ ~codes
    <3>1. call.from = NoSystem /\ \E j \in todo : Key(j).text \notin CodeShaped
      BY <2>1, <2>5 DEF IInv, PathInv
    <3>2. Key(i).text \notin CodeShaped
      BY <2>1, <3>1 DEF Alike
    <3>3. ByCode(Key(i), call.from) = ByName(Key(i))
      BY <3>1, <3>2 DEF ByCode
    <3> QED
      BY <1>2, <2>2, <2>5, <3>3 DEF Due, Alone
  <2> QED
    BY <2>3, <2>4, <2>5
<1> QED
  BY <1>1, <1>2

\* The column that comes back has a value for every row, none for a row
\* without text, and for every other the value that its text has when it is
\* resolved alone.
THEOREM RowsIndependent == Spec => []RowsAreIndependent
<1>1. IInv => RowsAreIndependent
  <2> SUFFICES ASSUME IInv, phase = "returned"
               PROVE  /\ DOMAIN out = DOMAIN call.rows
                      /\ \A i \in DOMAIN out : call.rows[i].text = Null => out[i] = Null
                      /\ Alike /\ Calm => \A i \in DOMAIN out :
                           call.rows[i].text # Null => out[i] = Value(Alone(call.rows[i]), call)
    BY DEF RowsAreIndependent
  <2>1. out = [i \in DOMAIN call.rows |->
                 IF call.rows[i].text = Null THEN Null ELSE values[PositionOf(call.rows[i])]]
    BY DEF IInv, OutInv
  <2>2. ASSUME Alike, Calm, NEW i \in DOMAIN call.rows, call.rows[i].text # Null
        PROVE  out[i] = Value(Alone(call.rows[i]), call)
    <3> DEFINE p == PositionOf(call.rows[i])
    <3>1. p \in uniques /\ Key(p) = call.rows[i]
      BY <2>2, PositionIs DEF IInv
    <3>2. out[i] = values[p]
      BY <2>1, <2>2
    <3> HIDE DEF p
    <3>3. values[p] = Value(results[p], call) /\ p \in DOMAIN results
      BY <3>1 DEF IInv, ValuesInv, OutInv, TypeOK
    <3>4. results[p] = Due(Key(p))
      BY <2>2, <3>3 DEF IInv, ResultsInv
    <3> QED
      BY <2>2, <3>1, <3>2, <3>3, <3>4, DueIsAlone
  <2> QED
    BY <2>1, <2>2
<1> QED
  BY <1>1, Inductive, PTL
=============================================================================
