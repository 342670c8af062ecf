----------------------------- MODULE Resolution -----------------------------
(***************************************************************************)
(* MultiPackRunner._run behind ResolveFlow.resolve_inner: a router chooses *)
(* packs, each is asked in turn, their answers become one verdict, and a   *)
(* call without a deadline leaves its verdict in the query cache.          *)
(***************************************************************************)
EXTENDS PackRunner

CONSTANTS
  Loaded,       \* the loaded packs in the order they are asked: the one of loading; a router
                \* that chooses some of them sorts their names, so the same for packs loaded so
  Band,         \* per pack: [low, medium, high], floors of its confidence bands
  DomainGap,    \* CROSS_PACK_AMBIGUITY_GAP
  PerPack,      \* MAX_CANDIDATES_PER_PACK
  Margin,       \* SCORE_PREFERENCE_THRESHOLD of the automatic router
  Query,        \* what queries may find
  MaxCalls,     \* bound: calls
  None          \* no pack, no verdict

VARIABLES
  todo,         \* packs still to ask
  verdict,      \* the answer of the call that has ended, or None
  cached,       \* the query cache's entry for the query, or None
  calls,        \* bounded by MaxCalls
  raised        \* history: where a step's raise has left its mark: "call", "cached"

frontVars == <<todo, verdict, cached, calls, raised>>
vars == <<runnerVars, frontVars>>

Norm(p, conf) ==
  LET b == Band[p]
      Scale(from, start, size, to) ==
        IF to > from THEN start + ((conf - from) * size) \div (to - from) ELSE start
  IN IF conf >= b.high THEN Scale(b.high, 8500, 1500, 10000)
     ELSE IF conf >= b.medium THEN Scale(b.medium, 6000, 2500, b.high)
     ELSE IF conf >= b.low THEN Scale(b.low, 3000, 3000, b.medium)
     ELSE IF b.low > 0 THEN (conf * 3000) \div b.low ELSE 0

-----------------------------------------------------------------------------
(* Merging the packs' answers.  R maps the packs asked to their answers.   *)
With(R, status) == {p \in DOMAIN R : R[p].status = status}
Answered(R) == {p \in DOMAIN R : R[p].status # "error"}
Level(R, p) == Norm(p, R[p].conf)
Lead(R, p) == Norm(p, R[p].lead)     \* of the first candidate an ambiguous answer lists
Place(order, p) == CHOOSE i \in DOMAIN order : order[i] = p
Outranks_ByTier(R, p, q) == R[p].tier > R[q].tier
\* p comes before q when results are ranked: tier, normalized confidence, then the order asked.
Outranks(R, p, q) == \/ R[p].tier > R[q].tier
                     \/ R[p].tier = R[q].tier /\ Level(R, p) > Level(R, q)
Ahead(R, order, p, q) ==
  \/ Outranks(R, p, q)
  \/ ~Outranks(R, q, p) /\ Place(order, p) < Place(order, q)
Ranking(R, order, S) == SetToSortSeq(S, LAMBDA p, q : Ahead(R, order, p, q))
Foremost(R, order, S) == CHOOSE p \in S : \A q \in S \ {p} : Ahead(R, order, p, q)
FirstOf(order, S) == CHOOSE p \in S : \A q \in S : Place(order, p) <= Place(order, q)

\* One candidate of each in turn, at most PerPack of each.
Interleaved(R, ranking) ==
  LET Row(i) == FoldLeft(LAMBDA row, p : IF i <= Len(R[p].list) THEN Append(row, R[p].list[i]) ELSE row,
                         <<>>, ranking)
  IN Listed(FoldLeft(LAMBDA all, i : all \o Row(i), <<>>, [i \in 1 .. PerPack |-> i]))
Collision(R, order, S) ==
  [status |-> "ambiguous", reason |-> "domain collision",
   list |-> Interleaved(R, Ranking(R, order, S))]

OneResolved_NoRivals(R, order, p) == R[p]
\* The only resolved pack, unless an ambiguous one is at least as sure of its first candidate.
OneResolved(R, order, p) ==
  LET rivals == {q \in With(R, "ambiguous") : R[q].list # <<>> /\ Lead(R, q) >= Level(R, p)} IN
  IF rivals = {} THEN R[p] ELSE Collision(R, order, {p, FirstOf(order, rivals)})
SeveralResolved(R, order) ==
  LET top == Foremost(R, order, With(R, "resolved"))
      next == Foremost(R, order, With(R, "resolved") \ {top})
  IN IF R[top].tier > R[next].tier \/ Level(R, top) >= Level(R, next) + DomainGap
     THEN R[top] ELSE Collision(R, order, With(R, "resolved"))
NoneResolved(R, order) ==
  LET unsure == With(R, "ambiguous") IN
  IF Cardinality(unsure) > 1 THEN Collision(R, order, unsure)
  ELSE IF unsure # {} THEN R[FirstOf(order, unsure)]
  ELSE R[FirstOf(order, Answered(R))]

Merged(R, order) ==
  LET ok == Answered(R)
      won == With(R, "resolved")
  IN IF DOMAIN R = {} THEN NoMatch("no candidates")
     ELSE IF ok = {} THEN R[FirstOf(order, DOMAIN R)]
     ELSE IF Cardinality(ok) = 1 THEN R[FirstOf(order, ok)]
     ELSE IF won = {} THEN NoneResolved(R, order)
     ELSE IF Cardinality(won) = 1 THEN OneResolved(R, order, FirstOf(order, won))
     ELSE SeveralResolved(R, order)

\* The only group among the first two candidates wins (apply_group_preference_tiebreak).
Groups(q, v) == {i \in 1 .. 2 : v.list[i] \in q.groups}
Preferring(q, v) ==
  IF v.status = "ambiguous" /\ Len(v.list) >= 2 /\ Cardinality(Groups(q, v)) = 1
  THEN [status |-> "resolved", entity |-> v.list[CHOOSE i \in Groups(q, v) : TRUE],
        reason |-> "group", list |-> v.list]
  ELSE v

-----------------------------------------------------------------------------
(* The routers                                                             *)
Appealing(q) == {p \in Pack : \A r \in Pack : q.appeal[p] + Margin >= q.appeal[r]}
HybridTargets(q) == IF q.domains # {} THEN q.domains ELSE Pack
AutoTargets(q) == IF q.types # {} THEN q.types ELSE Appealing(q)
Targets(q) ==
  IF q.domains = {} /\ q.router = "auto" THEN AutoTargets(q) ELSE HybridTargets(q)
Route(q) == Targets(q) \cap Pack

-----------------------------------------------------------------------------
ASSUME ResolutionAssumption ==
  /\ Loaded \in Seq(Pack) /\ IsInjective(Loaded) /\ Pack \subseteq Range(Loaded) /\ None \notin Pack
  /\ Band \in [Pack -> [low : Nat, medium : Nat, high : Nat]] /\ DomainGap \in Nat \ {0}
  /\ MaxCalls \in Nat
  /\ \A q \in Query :
       /\ q.hits \in [Source -> Seq([id : Entity, raw : Nat])]
       /\ q.score \in [Entity -> Nat] /\ q.close \in [Entity -> Nat] /\ q.place \in [Entity -> Nat]

NoResults == [p \in {} |-> TimedOut]
Idle == stage = "idle"

Init ==
  /\ query \in Query /\ timed = FALSE /\ late = FALSE
  /\ pack = None /\ stage = "idle" /\ at = 1
  /\ found = {} /\ cands = {} /\ scored = {} /\ results = NoResults
  /\ todo = {} /\ verdict = None /\ cached = None /\ calls = 0 /\ raised = {}

\* resolve_inner: only a call without a deadline looks into the cache.
Ask(deadline) ==
  /\ Idle /\ calls < MaxCalls /\ calls' = calls + 1
  /\ timed' = deadline /\ late' = FALSE
  /\ results' = NoResults /\ raised' = raised \ {"call"}
  /\ IF ~deadline /\ cached # None
     THEN verdict' = cached /\ UNCHANGED <<todo, stage>>
     ELSE verdict' = None /\ todo' = Route(query) /\ stage' = "joined"
  /\ UNCHANGED <<query, pack, at, workVars, cached>>

Return_CachesAll(v) ==
  /\ verdict' = v /\ stage' = "idle" /\ todo' = {} /\ pack' = None
  /\ cached' = v
  /\ raised' = IF "call" \in raised THEN raised \cup {"cached"} ELSE raised \ {"cached"}
  /\ UNCHANGED <<inputVars, late, at, workVars, results, calls>>
Return(v) ==
  /\ verdict' = v /\ stage' = "idle" /\ todo' = {} /\ pack' = None
  /\ cached' = IF timed THEN cached ELSE v
  /\ raised' = IF timed THEN raised
               ELSE IF "call" \in raised THEN raised \cup {"cached"} ELSE raised \ {"cached"}
  /\ UNCHANGED <<inputVars, late, at, workVars, results, calls>>

\* A pack whose normalizer empties the text is passed over.
AskPack ==
  /\ stage = "joined" /\ todo # {}
  /\ IF late THEN Return(TimedOut)
     ELSE LET p == FirstOf(Loaded, todo) IN
          /\ todo' = todo \ {p}
          /\ IF p \in query.blank THEN UNCHANGED <<pack, stage, at, workVars>> ELSE StartPack(p)
          /\ UNCHANGED <<inputVars, late, results, verdict, cached, calls, raised>>

JoinPacks ==
  /\ stage = "joined" /\ todo = {}
  /\ Return(Preferring(query, Merged(results, Loaded)))

RunPack ==
  /\ \/ RunnerStep /\ UNCHANGED raised
     \/ Raise /\ raised' = raised \cup {"call"}
  /\ UNCHANGED <<todo, verdict, cached, calls>>

\* Other queries push the entry out, or the caller clears the cache.
Evict ==
  /\ cached # None /\ cached' = None /\ raised' = raised \ {"cached"}
  /\ UNCHANGED <<runnerVars, todo, verdict, calls>>

Rest == Idle /\ calls = MaxCalls /\ UNCHANGED vars

Next == \/ \E deadline \in BOOLEAN : Ask(deadline)
        \/ AskPack \/ RunPack \/ JoinPacks \/ Evict \/ Rest

Spec == Init /\ [][Next]_vars

-----------------------------------------------------------------------------
(* Types; only a call with a deadline is ever late.                        *)
TypeOK ==
  /\ query \in Query /\ timed \in BOOLEAN /\ late \in BOOLEAN /\ (late => timed)
  /\ pack \in Pack \cup {None} /\ stage \in {"idle", "joined", "sources", "rerank", "constrain", "score"}
  /\ at \in Nat \ {0} /\ found \subseteq Source \X Entity
  /\ cands \subseteq Entity /\ scored \subseteq Entity
  /\ todo \subseteq Pack /\ DOMAIN results \subseteq Pack
  /\ calls \in 0 .. MaxCalls /\ raised \subseteq {"call", "cached"}
  /\ stage \notin {"idle", "joined"} => pack \in Pack

(* A pack's answer is the answer of its whole pipeline, a timeout or an    *)
(* error: a deadline never turns part of the evidence, of the filters or   *)
(* of the scores into an answer, and a timeout needs a deadline that has   *)
(* passed.                                                                 *)
PackAnswersAreWhole == Idle => \A p \in DOMAIN results :
  \/ results[p] = Failed
  \/ results[p] = TimedOut /\ late
  \/ results[p] = Full(query, p)

(* A verdict names an entity exactly when one pack's answer dominates: it  *)
(* is of a better tier than every other resolved answer, or surer by the   *)
(* gap, and when it is the only one, surer than every ambiguous pack.      *)
Dominates(R, p) ==
  LET won == With(R, "resolved") IN
  /\ p \in won
  /\ \A q \in won \ {p} : \/ R[p].tier > R[q].tier
                          \/ R[p].tier = R[q].tier /\ Level(R, p) >= Level(R, q) + DomainGap
  /\ won = {p} => \A q \in With(R, "ambiguous") : Lead(R, q) < Level(R, p)
Judged == Idle /\ verdict # None /\ results # NoResults /\ verdict # TimedOut
VerdictIsTheDominant == Judged =>
  /\ \A p \in With(results, "resolved") : Dominates(results, p) => verdict = results[p]
  /\ verdict.status = "resolved" /\ verdict.reason # "group" =>
       \E p \in With(results, "resolved") : Dominates(results, p) /\ verdict = results[p]

(* The verdict's status and entity do not depend on the order in which the *)
(* packs were asked.                                                       *)
Essence(v) == IF v.status = "resolved" THEN <<v.status, v.entity>> ELSE <<v.status>>
OrderIsIrrelevant == Judged =>
  Essence(Merged(results, Loaded)) = Essence(Merged(results, Reverse(Loaded)))

(* What the cache keeps is what a call without faults gives: no deadline   *)
(* and no part of an answer ever gets into it, but for a call in which a   *)
(* step raised.                                                            *)
Complete(q) == Preferring(q, Merged([p \in Route(q) \ q.blank |-> Full(q, p)], Loaded))
CachedAnswerIsComplete == Idle /\ cached # None /\ "cached" \notin raised =>
  cached = Complete(query)

(* A sole resolved pack yields to an ambiguous one that is at least as     *)
(* sure; the comment says so of any other pack.                            *)
AmbiguousRivalIsReported == Judged /\ verdict.status = "resolved" /\ verdict.reason # "group" =>
  \E p \in With(results, "resolved") : verdict = results[p] /\
    \A q \in With(results, "ambiguous") : Lead(results, q) < Level(results, p)
=============================================================================
