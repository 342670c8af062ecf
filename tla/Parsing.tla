------------------------------ MODULE Parsing --------------------------------
(* Finding entities in free text (core/parse): for every row, each pack's     *)
(* automaton finds its names in the normalized text, each find is linked by   *)
(* the resolver, and finds of different packs that overlap are arbitrated.    *)
(* One thread; calls of parse() and parse_bulk() follow each other, and the   *)
(* automata built for one call serve the next.                                *)
EXTENDS Integers, SequencesExt, FiniteSetsExt

---------------------------------------------------------------------------
(* Normalizing a text while remembering, for every character that is left,   *)
(* which slice of the raw text it came from (core/parse/offsets.py).  A text  *)
(* is a sequence of characters; an aligned text is a sequence of records: the *)
(* character, the raw index it starts at and the one it ends before, both     *)
(* from 0 as in the code.                                                     *)

CONSTANTS
  Fold,         \* a character that casefolding changes -> what it becomes
  Compose,      \* <<base, combining mark>> -> the composed character
  Expand,       \* a character that NFC replaces by several -> those
  Entity,       \* the name of an HTML entity, one character -> what it decodes to
  Space,        \* white space; NewLine is one of it
  NewLine,
  Word,         \* letters, digits and connector punctuation
  Glue,         \* the other characters that punctuation stripping keeps: - and '
  Digit,
  Marker,       \* the emphasis markers
  Lead          \* the block markers that may open a line

At(f, x) == IF x \in DOMAIN f THEN f[x] ELSE <<x>>
Text(t) == [i \in DOMAIN t |-> t[i].c]
Slice(raw, s, e) == SubSeq(raw, s + 1, e)

\* Mutant: what a match is replaced by ends where its first character does.
Replace_Short(t, i, j, cs) == [k \in DOMAIN cs |-> [c |-> cs[k], s |-> t[i].s, e |-> t[i].e]]
\* Characters cs in the place of the characters i to j of t.
Replace(t, i, j, cs) == [k \in DOMAIN cs |-> [c |-> cs[k], s |-> t[i].s, e |-> t[j].e]]
Positions(t, S) == SelectSeq([i \in DOMAIN t |-> i], LAMBDA i : i \in S)
Keep(t, S) == LET at == Positions(t, S) IN [k \in DOMAIN at |-> t[at[k]]]

Seed(raw) == [i \in DOMAIN raw |-> [c |-> raw[i], s |-> i - 1, e |-> i]]

-----------------------------------------------------------------------------
(* The transforms. *)

\* An ampersand, a name of one character and a semicolon.
HtmlUnescape(t) ==
  LET Opens(i) == /\ i \in 1..(Len(t) - 2) /\ t[i].c = "&" /\ t[i + 2].c = ";"
                  /\ t[i + 1].c \in DOMAIN Entity
  IN FlattenSeq([i \in DOMAIN t |->
       IF Opens(i) THEN Replace(t, i, i + 2, Entity[t[i + 1].c])
       ELSE IF Opens(i - 1) \/ Opens(i - 2) THEN <<>> ELSE <<t[i]>>])

\* A block marker at the start of a line goes with the white space behind it.
StripLead(t) ==
  LET Opens(i) == t[i].c \in Lead /\ (i = 1 \/ t[i - 1].c = NewLine)
      Behind(i) == \E k \in 1..(i - 1) : Opens(k) /\ \A j \in (k + 1)..i : t[j].c \in Space
  IN Keep(t, {i \in DOMAIN t : ~Opens(i) /\ ~Behind(i)})

\* Runs of markers pair up from the left, within a line; a pair is dropped.
StripEmphasis(t) ==
  LET mark == {i \in DOMAIN t : t[i].c \in Marker}
      first == Positions(t, {i \in mark : i - 1 \notin mark})
      last == Positions(t, {i \in mark : i + 1 \notin mark})
      opens[k \in 0..Len(first)] ==
        /\ k \in 1..(Len(first) - 1) /\ ~opens[k - 1]
        /\ \A i \in last[k]..first[k + 1] : t[i].c # NewLine
  IN Keep(t, {i \in DOMAIN t : \A k \in DOMAIN first :
             i \in first[k]..last[k] => ~opens[k] /\ ~opens[k - 1]})

Nfc(text) ==
  LET Pair(i) == i \in 1..(Len(text) - 1) /\ <<text[i], text[i + 1]>> \in DOMAIN Compose
  IN FlattenSeq([i \in DOMAIN text |->
       IF Pair(i) THEN <<Compose[<<text[i], text[i + 1]>>]>>
       ELSE IF Pair(i - 1) THEN <<>> ELSE At(Expand, text[i])])

\* As long as before: the offsets stay.  Otherwise the two texts are walked
\* together, by the shortest window whose own NFC comes next in the result.
ApplyNfc(t) ==
  LET text == Text(t)
      nfc == Nfc(text)
      Frag(i, w) == Nfc(SubSeq(text, i, i + w - 1))
      walk[i \in 1..(Len(t) + 1), j \in 1..(Len(nfc) + 1)] ==
        IF j > Len(nfc) THEN <<>>
        ELSE LET w == Min({v \in 1..(Len(t) + 1 - i) :
                             IsPrefix(Frag(i, v), SubSeq(nfc, j, Len(nfc)))})
             IN Replace(t, i, i + w - 1, Frag(i, w)) \o walk[i + w, j + Len(Frag(i, w))]
  IN IF Len(nfc) = Len(t) THEN [i \in DOMAIN t |-> [t[i] EXCEPT !.c = nfc[i]]]
     ELSE walk[1, 1]

\* A run of white space is one space; none at either end.
CollapseSpace(t) ==
  LET blank == {i \in DOMAIN t : t[i].c \in Space}
      End(i) == Min({j \in i..Len(t) : j + 1 \notin blank})
  IN FlattenSeq([i \in DOMAIN t |->
       IF i \notin blank THEN <<t[i]>>
       ELSE IF i = 1 \/ i - 1 \in blank \/ End(i) = Len(t) THEN <<>>
       ELSE Replace(t, i, End(i), <<" ">>)])

StripPunctuation(t) == SelectSeq(t, LAMBDA x : x.c \in Word \cup Space \cup Glue)
StripDigits(t) == SelectSeq(t, LAMBDA x : x.c \notin Digit)
Casefold(t) == FlattenSeq([i \in DOMAIN t |-> Replace(t, i, i, At(Fold, t[i].c))])

\* A profile switches the transforms on and off; their order is fixed.  The
\* search for a hint that skips the first two changes nothing: without a
\* marker they do nothing.
On(flag, a, b) == IF flag THEN a ELSE b

Plain(raw, p) ==
  LET html == On(p.html, HtmlUnescape(Seed(raw)), Seed(raw))
  IN On(p.markdown, StripEmphasis(StripLead(html)), html)

Aligned(raw, p) ==
  LET composed == CollapseSpace(ApplyNfc(Plain(raw, p)))
      worded == On(p.punctuation, CollapseSpace(StripPunctuation(composed)), composed)
      lettered == On(p.digits, worded, CollapseSpace(StripDigits(worded)))
  IN Casefold(lettered)

\* The check the function ends with: it raises when this fails.
IsSound(t) ==
  /\ \A i \in DOMAIN t : t[i].s <= t[i].e
  /\ \A i \in 2..Len(t) : t[i - 1].s <= t[i].s

---------------------------------------------------------------------------

CONSTANTS
  Pack, Packs,  \* the packs, and the order they are detected in
  Priority,     \* rank of a pack when two finds tie; lower wins
  Profile,      \* how a pack normalizes
  Names,        \* pack -> [normal form -> [small, code]]: whether an entity of
                \*   the small tier has it, whether only aliases in capitals do
  Upper,        \* the ASCII characters that upper-casing leaves alone
  Denied,       \* surfaces that the sentinel, deny-list or short-input gate blocks
  Request,      \* the calls considered, turn by turn (a bound): rows, small
                \*   (only small types asked for), nil, floor
  Outcome       \* what the resolver may say of a surface: status, conf, broad

VARIABLES
  call,         \* the call under way, or NoCall
  row,          \* its row
  stage,        \* "detect", "link", "arbitrate"
  left,         \* packs still to detect in, or finds still to link
  hits,         \* every find of the row
  linked,       \* those that were linked
  entities,     \* what the call returns: the spans kept, tagged with their row
  dropped,      \* and the spans a gate refused
  automata,     \* the automata built so far: pack, tier -> the names it finds
  known,        \* what the resolver has said: the same surface, the same answer
  calls         \* calls so far

vars == <<call, row, stage, left, hits, linked, entities, dropped, automata, known, calls>>

NoCall == [rows |-> <<>>, small |-> FALSE, nil |-> FALSE, floor |-> 0]

Init == /\ call = NoCall /\ row = 0 /\ stage = "done" /\ left = <<>>
        /\ hits = <<>> /\ linked = <<>> /\ entities = <<>> /\ dropped = <<>>
        /\ automata = <<>> /\ known = <<>> /\ calls = 0

-----------------------------------------------------------------------------
(* Detection. *)

\* The names one pack's automaton is built from.
Patterns(p, small) == {n \in DOMAIN Names[p] : small => Names[p][n].small}

\* Mutant: one automaton for every request.
Tier_Shared(c) == "full"
Tier(c) == IF c.small THEN "small" ELSE "full"

\* The automaton for a store and a tier is built once and kept.
Built(p, c) ==
  IF <<p, Tier(c)>> \in DOMAIN automata THEN automata
  ELSE automata @@ (<<p, Tier(c)>> :> Patterns(p, c.small))

\* Leftmost match first, the longest of those; the next one starts behind it.
Matches(text, patterns) ==
  LET Ends(i) == {j \in i..Len(text) : SubSeq(text, i, j) \in patterns}
      from[i \in 1..(Len(text) + 1)] ==
        LET starts == {k \in i..Len(text) : Ends(k) # {}}
        IN IF starts = {} THEN <<>>
           ELSE LET k == Min(starts) IN <<<<k, Max(Ends(k))>>>> \o from[Max(Ends(k)) + 1]
  IN from[1]

\* A find glued to a word on either side, in the raw text, is none.
Glued(raw, s, e) == (s > 0 /\ raw[s] \in Word) \/ (e < Len(raw) /\ raw[e + 1] \in Word)

Find(p, raw, patterns) ==
  LET t == Aligned(raw, Profile[p])
      Hit(m) == [pack |-> p, start |-> t[m[1]].s, end |-> t[m[2]].e,
                 name |-> SubSeq(Text(t), m[1], m[2]),
                 surface |-> Slice(raw, t[m[1]].s, t[m[2]].e)]
      all == Matches(Text(t), patterns)
  IN SelectSeq([k \in DOMAIN all |-> Hit(all[k])], LAMBDA h : ~Glued(raw, h.start, h.end))

-----------------------------------------------------------------------------
(* Linking. *)

\* Refused before the resolver is asked.  The code channel admits capitals only.
Capitals(surface) == \A i \in DOMAIN surface : surface[i] \in Upper
Gate(h) ==
  IF h.surface \in Denied THEN "denied"
  ELSE IF Names[h.pack][h.name].code /\ ~Capitals(h.surface) THEN "code_case_mismatch"
  ELSE "none"

\* The caller's floor turns a resolved span below it into no match.
Floored(c, o) == IF o.status = "resolved" /\ o.conf < c.floor
                 THEN [o EXCEPT !.status = "no_match"] ELSE o

\* The reason a linked span is not reported, or "none".
Refusal(c, o) ==
  IF o.status = "no_match" THEN IF c.nil THEN "none" ELSE "below_threshold"
  ELSE IF o.broad THEN "continent_excluded" ELSE "none"

-----------------------------------------------------------------------------
(* Arbitration. *)

Overlap(a, b) == a.start < b.end /\ b.start < a.end

\* Of two overlapping spans of different packs, the better linked one.
PickWinner(a, b) ==
  IF a.status = "no_match" /\ b.status # "no_match" THEN b
  ELSE IF b.status = "no_match" /\ a.status # "no_match" THEN a
  ELSE IF a.conf # b.conf THEN IF a.conf > b.conf THEN a ELSE b
  ELSE IF Priority[a.pack] <= Priority[b.pack] THEN a ELSE b

\* Mutant: swept in the order of detection.
ByStart_Detected(spans) == [i \in DOMAIN spans |-> i]
ByStart(spans) == SortSeq([i \in DOMAIN spans |-> i], LAMBDA i, j :
  spans[i].start < spans[j].start \/ (spans[i].start = spans[j].start /\ i < j))

\* One sweep, carrying the winner so far of the spans that overlap it.
ArbitrateCrossPack(spans) ==
  LET order == ByStart(spans)
      Sweep(acc, i) ==
        LET span == spans[i]
            w == acc.winner[1]
        IN IF acc.winner = <<>> THEN [acc EXCEPT !.winner = <<span>>]
           ELSE IF span.start >= w.end
           THEN [kept |-> Append(acc.kept, w), winner |-> <<span>>]
           ELSE IF span.pack = w.pack
           THEN IF span.end > w.end THEN [acc EXCEPT !.winner = <<span>>] ELSE acc
           ELSE [acc EXCEPT !.winner = <<PickWinner(w, span)>>]
      end == FoldLeft(Sweep, [kept |-> <<>>, winner |-> <<>>], order)
  IN end.kept \o end.winner

-----------------------------------------------------------------------------
\* A row of nothing but white space is looked at by no pack.
Begin(rows, r) ==
  /\ row' = r /\ stage' = "detect" /\ hits' = <<>> /\ linked' = <<>>
  /\ left' = IF \A i \in DOMAIN rows[r] : rows[r][i] \in Space THEN <<>> ELSE Packs

\* parse() is the call of one row; parse_bulk() the call of several.
Call ==
  /\ stage = "done" /\ calls < Len(Request)
  /\ calls' = calls + 1
  /\ \E c \in Request[calls'] : call' = c /\ Begin(c.rows, 1)
  /\ entities' = <<>> /\ dropped' = <<>>
  /\ UNCHANGED <<automata, known>>

Raw == call.rows[row]

Detect ==
  /\ stage = "detect" /\ left # <<>>
  /\ LET p == Head(left)
     IN /\ automata' = Built(p, call)
        /\ hits' = hits \o Find(p, Raw, automata'[p, Tier(call)])
  /\ left' = Tail(left)
  /\ UNCHANGED <<call, row, stage, linked, entities, dropped, known, calls>>

Detected ==
  /\ stage = "detect" /\ left = <<>>
  /\ stage' = "link" /\ left' = hits
  /\ UNCHANGED <<call, row, hits, linked, entities, dropped, automata, known, calls>>

Drop(h, reason) ==
  /\ dropped' = Append(dropped, h @@ [row |-> row, reason |-> reason])
  /\ UNCHANGED linked

Link ==
  /\ stage = "link" /\ left # <<>>
  /\ left' = Tail(left)
  /\ LET h == Head(left)
     IN IF Gate(h) # "none" THEN Drop(h, Gate(h)) /\ UNCHANGED known
        ELSE \E o \in IF <<h.pack, h.surface>> \in DOMAIN known
                   THEN {known[h.pack, h.surface]} ELSE Outcome :
          LET f == Floored(call, o)
          IN /\ known' = (<<h.pack, h.surface>> :> o) @@ known
             /\ IF Refusal(call, f) # "none" THEN Drop(h, Refusal(call, f))
                ELSE /\ linked' = Append(linked, h @@ f)
                     /\ UNCHANGED dropped
  /\ UNCHANGED <<call, row, stage, hits, entities, automata, calls>>

\* The spans kept are tagged with their row and join those of earlier rows.
Assemble ==
  /\ stage = "link" /\ left = <<>>
  /\ LET kept == ArbitrateCrossPack(linked)
     IN entities' = entities \o [k \in DOMAIN kept |-> kept[k] @@ [row |-> row]]
  /\ stage' = "row"
  /\ UNCHANGED <<call, row, left, hits, linked, dropped, automata, known, calls>>

NextRow ==
  /\ stage = "row"
  /\ IF row < Len(call.rows)
     THEN Begin(call.rows, row + 1) /\ UNCHANGED call
     ELSE stage' = "done" /\ UNCHANGED <<call, row, left, hits, linked>>
  /\ UNCHANGED <<entities, dropped, automata, known, calls>>

Rest == stage = "done" /\ calls = Len(Request) /\ UNCHANGED vars

Next == Call \/ Detect \/ Detected \/ Link \/ Assemble \/ NextRow \/ Rest

Spec == Init /\ [][Next]_vars
-----------------------------------------------------------------------------
(* Properties. *)

\* All packs have looked at the row.
Scanned == stage = "detect" /\ left = <<>>

Normal(p, raw) == Text(Aligned(raw, Profile[p]))

\* The characters that case folding makes several of.
Splits == {c \in DOMAIN Fold : Len(Fold[c]) > 1}

\* The slice from s to e touches the part of the row where the offsets are off
\* by one.  NFC has split one character and composed another, the text is as
\* long as before, and ApplyNfc leaves the offsets of all that lies from the one
\* to the other as they were.
Slipped(p, s, e) ==
  LET t == Plain(Raw, Profile[p])
      nfc == Nfc(Text(t))
      moved == {i \in DOMAIN t : nfc[i] # t[i].c}
  IN /\ Len(nfc) = Len(t)
     /\ \E i \in DOMAIN t : Len(At(Expand, t[i].c)) > 1
     /\ \E i, j \in moved : s < t[j].e /\ t[i].s < e

\* The slice of a find normalizes to the very name that was found, or the name
\* begins or ends inside what one character folds to, which the code documents.
LeadsBack(h) ==
  \/ Normal(h.pack, h.surface) = h.name
  \/ Head(h.surface) \in Splits \/ Last(h.surface) \in Splits

\* The slice of the raw text that is reported as the mention, and that the
\* resolver is asked about, normalizes to the very name that was found: through
\* decoding, composition, case folding and white space the offsets lead back to
\* the right characters (core/parse/offsets.py, "Round-trip invariant").  Three
\* exceptions: a name that begins or ends inside what one character folds to
\* (LeadsBack), which the code documents, and two it does not: a slice that
\* holds an emphasis marker, and one that touches characters whose offsets NFC
\* shifted (Slipped).  The check that normalize_aligned() ends with never fails.
RoundTrip == Scanned =>
  /\ \A p \in Pack : IsSound(Aligned(Raw, Profile[p]))
  /\ \A h \in ToSet(hits) :
       \/ LeadsBack(h)
       \/ \E i \in DOMAIN h.surface : h.surface[i] \in Marker
       \/ Slipped(h.pack, h.start, h.end)

\* The invariant as the code documents it, with its one exception.
RoundTripAsDocumented == Scanned => \A h \in ToSet(hits) : LeadsBack(h)

\* The invariant with emphasis excepted: every text without a marker.
RoundTripInPlainText ==
  Scanned /\ (\A i \in DOMAIN Raw : Raw[i] \notin Marker)
    => \A h \in ToSet(hits) : LeadsBack(h)

\* A mention: a slice of the raw text that is a name of the pack, in the tier
\* that was asked for, and that no word runs into.
Mentions(p) ==
  {m \in (0..Len(Raw)) \X (0..Len(Raw)) :
    /\ m[1] < m[2] /\ ~Glued(Raw, m[1], m[2])
    /\ Normal(p, Slice(Raw, m[1], m[2])) \in Patterns(p, call.small)}

Covers(x, m) == x.start < m[2] /\ m[1] < x.end

\* Every mention is found, or a longer find of the same pack covers it
\* (resolver.py: "Extract and link every pack-known entity mention").
EveryMentionIsFound ==
  Scanned => \A p \in Pack : \A m \in Mentions(p) :
    \E h \in ToSet(hits) : h.pack = p /\ Covers(h, m)

\* A mention is missed for two reasons only: the automaton took a name that
\* overlaps it, perhaps the mention itself, and that name is glued to a word, or
\* it is looked for in the wrong place because NFC shifted the offsets (Slipped).
\* In particular an automaton built for an earlier call with fewer types hides
\* nothing from this one.
MissedOnlyForGluedName ==
  Scanned => \A p \in Pack : \A m \in Mentions(p) :
    \/ \E h \in ToSet(hits) : h.pack = p /\ Covers(h, m)
    \/ \E s, e \in 0..Len(Raw) :
         /\ s < m[2] /\ m[1] < e
         /\ Glued(Raw, s, e) \/ Slipped(p, s, e)
         /\ Raw[s + 1] \notin Space /\ Raw[e] \notin Space
         /\ Normal(p, Slice(Raw, s, e)) \in Patterns(p, call.small)

Kept == {[f \in DOMAIN x \ {"row"} |-> x[f]] :
           x \in {y \in ToSet(entities) : y.row = row}}
Better(a, b) == PickWinner(a, b) = a /\ PickWinner(b, a) = a

\* What a row reports never overlaps; a span that is better than each span it
\* overlaps is reported; and a span is left out only for one that overlaps it
\* and is at least as good (core/parse/detect.py, "Selection rule").
Arbitrated ==
  stage = "row" =>
    /\ \A a, b \in Kept : a # b => ~Overlap(a, b)
    /\ \A a \in ToSet(linked) :
         (\A b \in ToSet(linked) \ {a} : Overlap(a, b) => a.pack # b.pack /\ Better(a, b))
           => a \in Kept
    /\ \A a \in ToSet(linked) \ Kept :
         \E b \in ToSet(linked) \ {a} : Overlap(a, b) /\ (a.pack = b.pack \/ ~Better(a, b))

\* A find that is below the threshold leaves no trace unless the caller asks for
\* it (resolver.py: "dropped (not included in entities or dropped_spans)").
BelowThresholdIsSilent == \A d \in ToSet(dropped) : d.reason # "below_threshold"

\* By default the result holds resolved entities only (resolver.py, parse()).
OnlyResolvedByDefault ==
  ~call.nil => \A x \in ToSet(entities) : x.status = "resolved"
=============================================================================
