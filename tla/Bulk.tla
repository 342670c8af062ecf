-------------------------------- MODULE Bulk --------------------------------
(***************************************************************************)
(* Resolver.bulk() and the review of its result: rows are deduplicated,    *)
(* looked up in a crosswalk, resolved as codes or as names, turned into    *)
(* values by the caller's policies and broadcast to the rows; a result is  *)
(* reviewed into a crosswalk that the next pass starts from.               *)
(***************************************************************************)
EXTENDS Naturals, Sequences, FiniteSets, SequencesExt, FiniteSetsExt

CONSTANTS
  Text, Context, System, Entity,
  CodeShaped,   \* texts that _CODE_PATTERNS match
  World,        \* what the data may say
  Calls,        \* per pass: the calls a caller may make; its length bounds the passes
  Null, Literal, NoSystem, Raw, Ignore, None,
  Other         \* no system and no attribute

Rows == Seq([text : Text \cup {Null}, in : Context])
ASSUME BulkAssumption ==
  /\ CodeShaped \subseteq Text /\ Null \notin Text
  /\ NoSystem \notin System /\ Raw \notin System /\ Ignore \notin Entity
  \* Looking a name up answers, unless the row is a faulty one.
  /\ \A w \in World : /\ w.known \subseteq Entity
                      /\ \A t \in Text, c \in Context : w.named[t][c].is # "raises"
  /\ Calls \in Seq(SUBSET [rows : Rows, perRow : BOOLEAN, from : System \cup {NoSystem, Other},
                            to : System \cup {Raw, Other}, unmatched : {"null", "raise", "other"},
                            failed : {"null", "raise", "keep"}, unsure : {"null", "raise", "best"},
                            missing : {"auto", "raise"}])
  /\ \A n \in DOMAIN Calls : \A c \in Calls[n] :
       ~c.perRow => \A i, j \in DOMAIN c.rows : c.rows[i].in = c.rows[j].in

VARIABLES
  world,        \* [codes, named, faulty, known, has, broken, vague: contexts with a country
                \* that cannot be told]
  call,         \* [rows, perRow, from, to, unmatched, failed, unsure, missing]
  crosswalk,    \* [given, of |-> text to entity or Ignore, strict]
  passes,       \* calls made
  phase,        \* "idle", "crosswalk", "resolve", "assemble", "returned", "raised"
  uniques,      \* the rows' distinct keys, each known by the first row that has it
  todo,         \* uniques that the crosswalk does not decide
  codes,        \* the call takes the code path
  results,      \* unique |-> its result
  values,       \* unique |-> its value
  out,          \* the rows' values
  raised,       \* what the call raised, or None
  settled       \* history: texts that a uniform pass resolved and the review let stand

workVars == <<uniques, todo, codes, results, values, out, raised>>
vars == <<world, call, crosswalk, passes, phase, workVars, settled>>

Resolved(e) == [is |-> "resolved", of |-> <<e>>]
Unsure(es) == [is |-> "ambiguous", of |-> es]
NoMatch == [is |-> "no match", of |-> <<>>]
Error == [is |-> "error", of |-> <<>>]
Ignored == [is |-> "ignored", of |-> <<>>]
Raises(x) == [is |-> "raises", of |-> x]

-----------------------------------------------------------------------------
(* Keys.  Rows carry a context each; without a per-row context it is the   *)
(* same for all of them.                                                   *)
Key(i) == call.rows[i]
Distinct(rows) == {i \in DOMAIN rows : rows[i].text # Null /\ \A j \in 1 .. i - 1 : rows[j] # rows[i]}
\* Mutant: the position is looked up by the text alone.
PositionOf_ByText(r) == CHOOSE i \in uniques :
  Key(i).text = r.text /\ \A j \in uniques : j < i => Key(j).text # r.text
PositionOf(r) == CHOOSE i \in uniques : Key(i) = r
First(S) == CHOOSE i \in S : \A j \in S : i <= j
Nothing == [i \in {} |-> Null]

-----------------------------------------------------------------------------
(* CodeLookup.resolve_or_lookup                                            *)
ByName(key) ==
  IF key.text \in world.faulty THEN Raises("fault") ELSE world.named[key.text][key.in]
InSystem(t, s) ==
  LET ids == world.codes[t][s] IN
  IF t \in world.faulty THEN Raises("fault")
  ELSE IF ids = <<>> THEN NoMatch
  ELSE IF Len(ids) = 1 THEN Resolved(ids[1]) ELSE Raises("ambiguous code")
\* The first entity of each system counts.
Hits(t) == {world.codes[t][s][1] : s \in {x \in System : world.codes[t][x] # <<>>}}
AnySystem(key) ==
  IF key.text \in world.faulty THEN Raises("fault")
  ELSE IF Hits(key.text) = {} THEN ByName(key)
  ELSE IF Cardinality(Hits(key.text)) = 1 THEN Resolved(CHOOSE e \in Hits(key.text) : TRUE)
  ELSE Raises("ambiguous code")
ByCode(key, from) ==
  IF from = NoSystem THEN (IF key.text \in CodeShaped THEN AnySystem(key) ELSE ByName(key))
  ELSE IF from \notin System THEN Raises("unknown system")
  ELSE InSystem(key.text, from)

-----------------------------------------------------------------------------
(* Policies: _apply_not_found and _pivot_result                            *)
Pivot(r, to, missing) ==
  IF to = Raw THEN [is |-> "result", of |-> r]
  ELSE IF r.of[1] \notin world.known THEN Null
  ELSE IF to \in world.has[r.of[1]] THEN [is |-> "code", of |-> <<r.of[1], to>>]
  ELSE IF to \in System /\ missing # "raise" THEN Null
  ELSE Raises("unknown output")
Miss(unmatched) ==
  IF unmatched = "raise" THEN Raises("no match") ELSE IF unmatched = "null" THEN Null ELSE Literal
\* The entity of a best candidate has still to be fetched.
Best(r, c) ==
  IF c.to # Raw /\ world.broken THEN Raises("fault")
  ELSE Pivot(Resolved(r.of[1]), c.to, c.missing)
Value(r, c) ==
  IF r.is = "resolved" THEN Pivot(r, c.to, c.missing)
  ELSE IF r.is = "ambiguous" THEN IF c.unsure = "raise" THEN Raises("ambiguous")
                                  ELSE IF c.unsure = "best" THEN Best(r, c) ELSE Null
  ELSE IF r.is = "ignored" THEN Null ELSE Miss(c.unmatched)
IsRaise(v) == v \notin {Null, Literal} /\ v.is = "raises"

-----------------------------------------------------------------------------
NoCall == [rows |-> <<>>, perRow |-> FALSE, from |-> NoSystem, to |-> Raw, unmatched |-> "null",
           failed |-> "raise", unsure |-> "null", missing |-> "auto"]
NoCrosswalk == [given |-> FALSE, of |-> Nothing, strict |-> FALSE]
Init ==
  /\ world \in World /\ call = NoCall /\ crosswalk = NoCrosswalk /\ passes = 0 /\ phase = "idle"
  /\ uniques = {} /\ todo = {} /\ codes = FALSE /\ results = Nothing /\ values = Nothing
  /\ out = Nothing /\ raised = None /\ settled = Nothing

Abort(x) == phase' = "raised" /\ raised' = x
\* The contexts are made out before any row is looked at, outside every try block: of the
\* rows' ones in _expand_per_row_contexts, of the common one in Resolver.bulk.
Untold(c) == \E i \in DOMAIN c.rows : c.rows[i].in \in world.vague
Decided(k) == k.text \in DOMAIN crosswalk.of

Bulk(c) ==
  /\ phase \in {"idle", "returned"} /\ passes < Len(Calls)
  /\ call' = c /\ passes' = passes + 1
  /\ results' = Nothing /\ values' = Nothing /\ out' = Nothing /\ todo' = {} /\ codes' = FALSE
  /\ uniques' = Distinct(c.rows)
  /\ IF c.perRow /\ crosswalk.given THEN Abort("unsupported")
     ELSE IF Untold(c) THEN Abort("unknown country")
     ELSE phase' = "crosswalk" /\ raised' = None
  /\ UNCHANGED <<world, crosswalk, settled>>

\* One unique after the other; an entity that the data lacks offends.
FromCrosswalk(k) ==
  LET e == crosswalk.of[k.text] IN
  IF e = Ignore THEN Ignored ELSE IF e \in world.known THEN Resolved(e) ELSE NoMatch
Offends(k) == Decided(k) /\ crosswalk.of[k.text] \notin world.known \cup {Ignore}
ApplyCrosswalk ==
  /\ phase = "crosswalk"
  /\ LET hit == {i \in uniques : Decided(Key(i))} IN
     IF world.broken /\ \E i \in hit : crosswalk.of[Key(i).text] # Ignore
     THEN Abort("fault") /\ UNCHANGED <<uniques, todo, codes, results>>
     ELSE IF crosswalk.strict /\ (\E i \in hit : Offends(Key(i)))
     THEN Abort("unknown entity") /\ UNCHANGED <<uniques, todo, codes, results>>
     ELSE /\ phase' = "resolve" /\ UNCHANGED <<uniques, raised>>
          /\ results' = [i \in hit |-> FromCrosswalk(Key(i))]
          /\ todo' = uniques \ hit
          /\ codes' = /\ ~call.perRow
                      /\ \/ call.from # NoSystem
                         \/ todo' # {} /\ \A i \in todo' : Key(i).text \in CodeShaped
  /\ UNCHANGED <<world, call, crosswalk, passes, values, out, settled>>

Pending == todo \ DOMAIN results
Turn == First(Pending)
Record(f, i, x) == [j \in DOMAIN f \cup {i} |-> IF j = i THEN x ELSE f[j]]

\* Mutant: the lookup of a code stands outside the try block.
ResolveCode_Untried ==
  /\ phase = "resolve" /\ codes /\ Pending # {}
  /\ LET r == ByCode(Key(Turn), call.from) IN
     IF r.is # "raises" THEN results' = Record(results, Turn, r) /\ UNCHANGED <<phase, raised>>
     ELSE Abort(r.of) /\ UNCHANGED results
  /\ UNCHANGED <<world, call, crosswalk, passes, uniques, todo, codes, values, out, settled>>
ResolveCode ==
  /\ phase = "resolve" /\ codes /\ Pending # {}
  /\ LET r == ByCode(Key(Turn), call.from) IN
     IF r.is # "raises" THEN results' = Record(results, Turn, r) /\ UNCHANGED <<phase, raised>>
     ELSE IF call.failed = "raise" THEN Abort(r.of) /\ UNCHANGED results
     ELSE /\ results' = Record(results, Turn, IF call.failed = "null" THEN Error ELSE NoMatch)
          /\ UNCHANGED <<phase, raised>>
  /\ UNCHANGED <<world, call, crosswalk, passes, uniques, todo, codes, values, out, settled>>

\* A row that raises takes the batch with it.
ResolveName ==
  /\ phase = "resolve" /\ ~codes /\ Pending # {}
  /\ LET r == ByName(Key(Turn)) IN
     IF r.is # "raises" THEN results' = Record(results, Turn, r) /\ UNCHANGED <<phase, raised>>
     ELSE IF call.failed = "raise" THEN Abort(r.of) /\ UNCHANGED results
     ELSE /\ results' = [i \in DOMAIN results \cup todo |-> IF i \in todo THEN Error ELSE results[i]]
          /\ UNCHANGED <<phase, raised>>
  /\ UNCHANGED <<world, call, crosswalk, passes, uniques, todo, codes, values, out, settled>>

EndResolve ==
  /\ phase = "resolve" /\ Pending = {} /\ phase' = "assemble"
  /\ UNCHANGED <<world, call, crosswalk, passes, workVars, settled>>

Assemble ==
  /\ phase = "assemble" /\ uniques # DOMAIN values
  /\ LET next == First(uniques \ DOMAIN values)
         v == Value(results[next], call)
     IN IF IsRaise(v) THEN Abort(v.of) /\ UNCHANGED values
        ELSE values' = Record(values, next, v) /\ UNCHANGED <<phase, raised>>
  /\ UNCHANGED <<world, call, crosswalk, passes, uniques, todo, codes, results, out, settled>>

Broadcast ==
  /\ phase = "assemble" /\ uniques = DOMAIN values
  /\ phase' = "returned"
  /\ out' = [i \in DOMAIN call.rows |->
               IF call.rows[i].text = Null THEN Null ELSE values[PositionOf(call.rows[i])]]
  /\ UNCHANGED <<world, call, crosswalk, passes, uniques, todo, codes, results, values, raised, settled>>

-----------------------------------------------------------------------------
(* to_review() and to_crosswalk(): resolved texts are kept, a person       *)
(* decides any of the others.  The first of a text's results counts; an    *)
(* ignored one has no text to be found by.                                 *)
Named(S) == {Key(i).text : i \in {j \in uniques : results[j].is \in S}}
FirstWith(t) == First({i \in uniques : Key(i).text = t /\ results[i].is = "resolved"})
\* Mutant: every resolved text gets the first resolved entity.
AutoEntry_Shifted == [t \in Named({"resolved"}) |->
  results[First({i \in uniques : results[i].is = "resolved"})].of[1]]
AutoEntry == [t \in Named({"resolved"}) |-> results[FirstWith(t)].of[1]]
ForReview == Named({"ambiguous", "no match"})

Review(chosen, strict) ==
  /\ phase = "returned" /\ call.to = Raw /\ DOMAIN chosen \subseteq ForReview
  /\ crosswalk' = [given |-> TRUE, of |-> [t \in DOMAIN AutoEntry \cup DOMAIN chosen |->
                      IF t \in DOMAIN chosen THEN chosen[t] ELSE AutoEntry[t]], strict |-> strict]
  /\ phase' = "idle"
  /\ settled' = IF call.perRow THEN Nothing
                ELSE [t \in Named({"resolved"}) \ DOMAIN chosen |-> results[FirstWith(t)].of[1]]
  /\ UNCHANGED <<world, call, passes, workVars>>

Decisions == UNION {[S -> Entity \cup {Ignore}] : S \in SUBSET ForReview}

Next ==
  \/ passes < Len(Calls) /\ \E c \in Calls[passes + 1] : Bulk(c)
  \/ ApplyCrosswalk \/ ResolveCode \/ ResolveName \/ EndResolve \/ Assemble \/ Broadcast
  \/ phase = "returned" /\ \E chosen \in Decisions, strict \in BOOLEAN : Review(chosen, strict)

Spec == Init /\ [][Next]_vars

-----------------------------------------------------------------------------
(* Types.                                                                  *)
TypeOK ==
  /\ phase \in {"idle", "crosswalk", "resolve", "assemble", "returned", "raised"}
  /\ world \in World /\ passes \in 0 .. Len(Calls)
  /\ call.rows \in Rows /\ uniques = Distinct(call.rows) /\ todo \subseteq uniques
  /\ DOMAIN results \subseteq uniques /\ DOMAIN values \subseteq uniques
  /\ phase \in {"resolve", "assemble", "returned"} => uniques \ todo \subseteq DOMAIN results
  /\ phase \in {"assemble", "returned"} => DOMAIN results = uniques

(* A column comes back in the shape it had: a value for every row, none    *)
(* for a row without text, and for a row with text the value that text has *)
(* when it is resolved alone, unless the batch mixes codes and names or a  *)
(* row of it has raised.                                                   *)
Alike == \/ call.from # NoSystem
         \/ \A i, j \in todo : Key(i).text \in CodeShaped => Key(j).text \in CodeShaped
Calm == ~\E i \in todo : Key(i).text \in world.faulty
Alone(k) ==
  IF Decided(k) THEN FromCrosswalk(k)
  ELSE IF call.perRow THEN ByName(k)
  ELSE LET r == ByCode(k, call.from) IN
       IF r.is # "raises" THEN r ELSE IF call.failed = "null" THEN Error ELSE NoMatch
RowsAreIndependent == phase = "returned" =>
  /\ DOMAIN out = DOMAIN call.rows
  /\ \A i \in DOMAIN out : call.rows[i].text = Null => out[i] = Null
  /\ Alike /\ Calm => \A i \in DOMAIN out :
       call.rows[i].text # Null => out[i] = Value(Alone(call.rows[i]), call)

(* A call with lenient policies and a known output raises for no text that *)
(* a row has: only for a context whose country cannot be told, for a       *)
(* crosswalk that does not fit, or for a store that fails where no policy  *)
(* looks.                                                                  *)
Lenient == /\ call.failed # "raise" /\ call.unmatched # "raise" /\ call.unsure # "raise"
           /\ call.to \in System \cup {Raw} /\ call.missing # "raise"
LenientCallsReturn == phase = "raised" /\ Lenient =>
  \/ raised = "unsupported" /\ call.perRow /\ crosswalk.given
  \/ raised = "unknown country" /\ Untold(call)
  \/ raised = "unknown entity" /\ crosswalk.strict
  \/ raised = "fault" /\ world.broken /\ (crosswalk.given \/ call.unsure = "best")

(* What one pass has resolved, and the person who reviewed it has let      *)
(* stand, the next pass gives again, whatever else it has to resolve, if   *)
(* the data has the entity.                                                *)
SettledTextsStay == phase = "returned" => \A i \in uniques :
  LET t == Key(i).text IN
  (t \in DOMAIN settled /\ settled[t] \in world.known) => results[i] = Resolved(settled[t])

(* A row whose context cannot be made out is one that fails.               *)
ContextCostsItsRow == phase = "raised" /\ call.perRow /\ call.failed # "raise" =>
  raised # "unknown country"

(* on_error="null" gives None for the row that fails, and the others keep  *)
(* their values.                                                           *)
FaultCostsItsRow == phase = "returned" => \A i \in todo :
  results[i] = Error => Key(i).text \in world.faulty \/ Alone(Key(i)) = Error
=============================================================================
