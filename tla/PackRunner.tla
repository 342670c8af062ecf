----------------------------- MODULE PackRunner -----------------------------
(***************************************************************************)
(* PipelineRunner._run: one domain pack's answer to one query.  Sources    *)
(* collect evidence, rerankers add to it, constraints filter, a scorer     *)
(* scores and the pack's policy decides.  A deadline is looked at between  *)
(* steps, never inside one; a step that raises makes the answer an error.  *)
(***************************************************************************)
EXTENDS Naturals, Sequences, FiniteSets, SequencesExt

CONSTANTS
  Pack,         \* loaded domain packs
  Entity,
  Source,       \* candidate sources
  Constraint,
  Plan,         \* per pack: its sources, in order
  Filters,      \* per pack: its constraints, in order
  Trait,        \* per source: [tier, emits, rerank, stops]
  Policy,       \* per pack: [threshold, gap, narrow, wide, accept, breaks]
  Budget,       \* candidates a reranker looks at; 20 in the code
  Stride,       \* candidates scored between two looks at the clock; 8 in the code
  MaxListed     \* candidates kept in an answer; 5 in the code

\* MATCH_TIER_PRIORITY
ExactCode == 5  ExactName == 4  Acronym == 3  Fts == 2  Fuzzy == 1  Fallback == 0

ASSUME PackRunnerAssumption ==
  /\ Entity \subseteq Nat /\ IsFiniteSet(Entity)
  /\ Plan \in [Pack -> Seq(Source)] /\ Filters \in [Pack -> Seq(Constraint)]
  /\ \A s \in Source : Trait[s].emits \in Fallback .. ExactCode /\ Trait[s].rerank \in BOOLEAN
  /\ Stride \in Nat \ {0} /\ MaxListed \in Nat \ {0}

VARIABLES
  query,        \* what the query finds, breaks and weighs in the loaded data: hits
                \* lists [id, raw], entities and raw scores, of a source in its order;
                \* meant, what a pack's dictionary takes the text for; place, how
                \* specific the type of an entity is, 0 the most
  timed,        \* the call has a deadline
  late,         \* the deadline has passed
  pack,         \* the pack being asked, if any
  stage,        \* its stage
  at,           \* next source, constraint or candidate of the stage
  found,        \* evidence: <<source, entity>>
  cands,        \* candidates left
  scored,       \* candidates with a calibrated score
  results       \* per pack asked so far: its answer

inputVars == <<query, timed>>
workVars == <<found, cands, scored>>
runnerVars == <<inputVars, late, pack, stage, at, workVars, results>>

TimedOut == [status |-> "error", reason |-> "timeout"]
Failed == [status |-> "error", reason |-> "internal"]
NoMatch(why) == [status |-> "no match", reason |-> why, list |-> <<>>]

\* Time passes in a step; a deadline that has passed stays passed.
Clock == late' \in {late, late \/ timed}

-----------------------------------------------------------------------------
(* Evidence                                                                *)
Hits(q, s) == {<<s, h.id>> : h \in Range(q.hits[s])}
Entities(ev) == {x[2] : x \in ev}
\* Scores are in ten-thousandths; a source gives an entity one raw score, in hundredths.
RawOf(q, x) == (CHOOSE h \in Range(q.hits[x[1]]) : h.id = x[2]).raw * 100
BestRaw(q, ev, e) == Max({RawOf(q, x) : x \in {y \in ev : y[2] = e}})

\* A fuzzy source is skipped once a single entity is known by its exact name.
Skip(s, ev) ==
  /\ Trait[s].tier = Fuzzy
  /\ Cardinality({x[2] : x \in {y \in ev : Trait[y[1]].emits = ExactName}}) = 1
Stops(q, s, ev) == \E c \in Trait[s].stops :
  /\ Cardinality(Entities(ev)) \in c.least .. c.most
  /\ \E x \in ev : RawOf(q, x) >= c.raw

\* Sorts are stable: equals keep the order of their raw scores, then that of being named.
\* Both are those of the primary evidence, ev.
Primary(ev) == {x \in ev : ~Trait[x[1]].rerank}
FirstNamed(p, ev, e) == Min({i \in DOMAIN Plan[p] : <<Plan[p][i], e>> \in ev})
Rank(q, s, e) == Min({k \in DOMAIN q.hits[s] : q.hits[s][k].id = e})
Earlier(q, p, ev, d, e) ==
  LET i == FirstNamed(p, ev, d)
      j == FirstNamed(p, ev, e)
  IN \/ BestRaw(q, ev, d) > BestRaw(q, ev, e)
     \/ /\ BestRaw(q, ev, d) = BestRaw(q, ev, e)
        /\ i < j \/ (i = j /\ Rank(q, Plan[p][i], d) < Rank(q, Plan[p][i], e))
Before(q, p, ev, weigh, S) == {x \in S \X S :
  \/ weigh[x[1]] > weigh[x[2]]
  \/ weigh[x[1]] = weigh[x[2]] /\ Earlier(q, p, ev, x[1], x[2])}
Best(before, S) == CHOOSE d \in S : \A e \in S \ {d} : <<d, e>> \in before

Tier(ev, e) == Max({Trait[x[1]].emits : x \in {y \in ev : y[2] = e}})
MaxTier(ev, S) == Max({Tier(ev, e) : e \in S})

\* A scored candidate is weighed by its calibrated score, of which a reranker's evidence
\* may be part, another by its best raw score.
Rerankings(ev, e) == {x \in ev : x[2] = e /\ Trait[x[1]].rerank}
Capped(n) == IF n > 10000 THEN 10000 ELSE n
Weights(q, ev, done, S) == [e \in S |->
  IF e \in done THEN Capped(IF Rerankings(ev, e) = {} THEN q.score[e] ELSE q.close[e])
                ELSE Capped(BestRaw(q, ev, e))]

-----------------------------------------------------------------------------
(* The policies: ThresholdDecisionPolicy with the geo and the org hooks    *)
IsCode(ev, e) == \E x \in ev : x[2] = e /\ Trait[x[1]].emits = ExactCode
\* An entity without a rank, in hundredths, has rank 0; cities and what is below them have
\* at most CityRank.
CityRank == 70
EffectiveGap(q, p, S) ==
  IF Policy[p].breaks = "rank" /\ \A e \in S : q.rank[e] \in 1 .. CityRank THEN Policy[p].narrow
  ELSE IF Policy[p].breaks = "parent" /\ q.acronym THEN Policy[p].wide
  ELSE Policy[p].gap

Close(weigh, S, top, gap) == {e \in S : weigh[top] < weigh[e] + gap}
\* The candidate that a tie-break prefers, as a set of at most one.
Preferred(q, p, weigh, S, top, gap) ==
  LET near == Close(weigh, S, top, gap) IN
  IF Policy[p].breaks = "rank" /\ \A e \in near \ {top} : 0 < q.rank[e] /\ q.rank[e] < q.rank[top] THEN {top}
  ELSE IF Policy[p].breaks = "parent" /\ Cardinality(near \cap q.parent) = 1 THEN near \cap q.parent
  ELSE {}

\* The best MaxListed are listed.  If some of them are specific and others aggregate, those
\* of about the same score come by their types (_enrich_result_candidates).
Listed(order) == SubSeq(order, 1, IF Len(order) > MaxListed THEN MaxListed ELSE Len(order))
Leading(before, S) == {e \in S : Cardinality({d \in S : <<d, e>> \in before}) < MaxListed}
About(score) == (score + 5) \div 10
Arranged(q, before, weigh, S) ==
  IF (\E e \in S : q.place[e] <= 1) /\ (\E e \in S : q.place[e] \in 2 .. 3)
  THEN {x \in S \X S :
         \/ About(weigh[x[1]]) > About(weigh[x[2]])
         \/ /\ About(weigh[x[1]]) = About(weigh[x[2]])
            /\ \/ q.place[x[1]] < q.place[x[2]]
               \/ q.place[x[1]] = q.place[x[2]] /\ x \in before}
  ELSE before
Shown(before, S) == [k \in 1 .. Cardinality(S) |->
  CHOOSE e \in S : Cardinality({d \in S : <<d, e>> \in before}) = k - 1]

\* Without a candidate the dictionary's few suggestions are listed, whatever was asked for.
Unmatched(q, p, why) ==
  LET S == Range(q.meant[p])
      before == {x \in S \X S : \E j \in DOMAIN q.meant[p] : \E i \in 1 .. j - 1 :
                   x = <<q.meant[p][i], q.meant[p][j]>>}
  IN [NoMatch(why) EXCEPT !.list = Shown(Arranged(q, before, [e \in S |-> 0], S), S)]

Resolve(e, why, ev, weigh, list) ==
  [status |-> "resolved", entity |-> e, reason |-> why, conf |-> weigh[e],
   tier |-> Tier(ev, e), list |-> list]

Decide(q, p, ev, done, S) ==
  LET weigh == Weights(q, ev, done, S)
      before == Before(q, p, Primary(ev), weigh, S)
      shown == Leading(before, S)
      listing == Arranged(q, before, weigh, shown)
      list == Shown(listing, shown)
      top == Best(before, S)
      byCode == /\ Policy[p].breaks = "rank" /\ IsCode(ev, top)
              /\ weigh[top] >= Policy[p].accept
      enough == weigh[top] >= Policy[p].threshold
      gap == EffectiveGap(q, p, S)
      clear == \/ S = {top}
               \/ weigh[top] >= weigh[Best(before, S \ {top})] + gap
      won == Preferred(q, p, weigh, S, top, gap)
  IN IF byCode THEN Resolve(top, "code", ev, weigh, list)
     ELSE IF ~enough THEN [NoMatch("below threshold") EXCEPT !.list = list]
     ELSE IF clear THEN Resolve(top, "match", ev, weigh, list)
     ELSE IF won # {} THEN Resolve(CHOOSE e \in won : TRUE, "tie-break", ev, weigh, list)
     ELSE [status |-> "ambiguous", reason |-> "low gap", conf |-> 0,
           lead |-> weigh[Best(listing, shown)], tier |-> MaxTier(ev, S), list |-> list]

-----------------------------------------------------------------------------
(* The stages                                                              *)
StartPack(p) ==
  /\ pack' = p /\ stage' = "sources" /\ at' = 1
  /\ found' = {} /\ cands' = {} /\ scored' = {}
Answer(r) ==
  /\ results' = [p \in DOMAIN results \cup {pack} |-> IF p = pack THEN r ELSE results[p]]
  /\ stage' = "joined" /\ at' = 1 /\ found' = {} /\ cands' = {} /\ scored' = {}
  /\ Clock /\ UNCHANGED <<inputVars, pack>>
GoTo(next) == stage' = next /\ at' = 1
InStage(name, length) == stage = name /\ ~late /\ at <= length
StageOver(name, length) == stage = name /\ (late \/ at > length)

\* A source that finds the deadline passed while it works returns part of its evidence.
Collect ==
  /\ InStage("sources", Len(Plan[pack]))
  /\ LET s == Plan[pack][at] IN
     IF Trait[s].rerank \/ Skip(s, found)
     THEN at' = at + 1 /\ UNCHANGED <<found, late>>
     ELSE /\ Clock
          /\ \E got \in IF late' THEN SUBSET Hits(query, s) ELSE {Hits(query, s)} : found' = found \cup got
          /\ at' = IF Stops(query, s, found') THEN Len(Plan[pack]) + 1 ELSE at + 1
  /\ UNCHANGED <<inputVars, pack, stage, cands, scored, results>>

Merge ==
  /\ StageOver("sources", Len(Plan[pack]))
  /\ IF late THEN Answer(TimedOut)
     ELSE IF found = {} THEN Answer(Unmatched(query, pack, "no candidates"))
     ELSE /\ cands' = Entities(found) /\ GoTo("rerank")
          /\ UNCHANGED <<inputVars, late, pack, found, scored, results>>

\* What a reranker adds to the strongest candidates.
Added(q, p, ev, S, s) ==
  {x \in Hits(q, s) : x[2] \in S /\ Cardinality({e \in S : Earlier(q, p, ev, e, x[2])}) < Budget}
Rerank ==
  /\ InStage("rerank", Len(Plan[pack]))
  /\ LET s == Plan[pack][at] IN
     IF Trait[s].rerank
     THEN /\ Clock
          /\ LET new == Added(query, pack, Primary(found), cands, s) IN
             \E got \in IF late' THEN SUBSET new ELSE {new} : found' = found \cup got
     ELSE UNCHANGED <<found, late>>
  /\ at' = at + 1
  /\ UNCHANGED <<inputVars, pack, stage, cands, scored, results>>

EndRerank ==
  /\ StageOver("rerank", Len(Plan[pack]))
  /\ IF late THEN Answer(TimedOut)
     ELSE GoTo("constrain") /\ UNCHANGED <<inputVars, late, pack, workVars, results>>

Constrain ==
  /\ InStage("constrain", Len(Filters[pack]))
  /\ Clock
  /\ cands' = cands \ query.breaks[Filters[pack][at]]
  /\ at' = at + 1
  /\ UNCHANGED <<inputVars, pack, stage, found, scored, results>>

EndConstrain ==
  /\ StageOver("constrain", Len(Filters[pack]))
  /\ IF cands = {} THEN Answer(Unmatched(query, pack, "filtered"))
     ELSE IF late THEN Answer(TimedOut)
     ELSE GoTo("score") /\ UNCHANGED <<inputVars, late, pack, workVars, results>>

\* Candidates are scored in that order; the clock is looked at before every Stride of them.
TimeToLook == (at - 1) % Stride = 0
Score ==
  /\ stage = "score" /\ ~(TimeToLook /\ late)
  /\ Clock
  /\ \E e \in cands \ scored :
       /\ \A d \in cands \ (scored \cup {e}) : Earlier(query, pack, Primary(found), e, d)
       /\ scored' = scored \cup {e}
  /\ at' = at + 1
  /\ UNCHANGED <<inputVars, pack, stage, found, cands, results>>

EndScore_IgnoresDeadline ==
  /\ stage = "score"
  /\ scored = cands \/ (TimeToLook /\ late)
  /\ Answer(Decide(query, pack, found, scored, cands))
EndScore ==
  /\ stage = "score"
  /\ scored = cands \/ (TimeToLook /\ late)
  /\ IF late THEN Answer(TimedOut) ELSE Answer(Decide(query, pack, found, scored, cands))

Raise ==
  /\ stage \in {"sources", "rerank", "constrain", "score"}
  /\ Answer(Failed)

RunnerStep == \/ Collect \/ Merge \/ Rerank \/ EndRerank \/ Constrain \/ EndConstrain
              \/ Score \/ EndScore

-----------------------------------------------------------------------------
(* What the pack has to say, all of its work done.  A source is asked      *)
(* unless it is a reranker, is skipped for what the sources before it have *)
(* found, or one of them has stopped the others.                           *)
Evidence(q, p, K) == UNION {Hits(q, Plan[p][i]) : i \in K}
UpTo(K, n) == {i \in K : i <= n}
Primaries(p) == {i \in DOMAIN Plan[p] : ~Trait[Plan[p][i]].rerank}
Due(q, p, K, n) == /\ ~Skip(Plan[p][n], Evidence(q, p, UpTo(K, n - 1)))
                   /\ \A i \in UpTo(K, n - 1) : ~Stops(q, Plan[p][i], Evidence(q, p, UpTo(K, i)))
Asked(q, p, K) == \A n \in Primaries(p) : n \in K <=> Due(q, p, K, n)
Gathered(q, p) == Evidence(q, p, CHOOSE K \in SUBSET Primaries(p) : Asked(q, p, K))

Whole(q, p, first) ==
  LET all == first \cup UNION {Added(q, p, Primary(first), Entities(first), s) :
                                 s \in {t \in Range(Plan[p]) : Trait[t].rerank}}
      kept == Entities(first) \ UNION {q.breaks[c] : c \in Range(Filters[p])}
  IN IF first = {} THEN Unmatched(q, p, "no candidates")
     ELSE IF kept = {} THEN Unmatched(q, p, "filtered")
     ELSE Decide(q, p, all, kept, kept)
Full(q, p) == Whole(q, p, Gathered(q, p))
=============================================================================
