----------------------------- MODULE MCParsing ------------------------------
(* Two packs and a small alphabet: k, s, e and a combining accent, a sharp s, *)
(* a character that NFC splits, a no-break space written as an entity, white   *)
(* space, markers, punctuation and a digit.                                    *)
EXTENDS Parsing

CONSTANTS geo, org

MCPack == {geo, org}
MCPacks == <<geo, org>>
MCDenied == {<<"s", "s">>}
MCPriority == geo :> 0 @@ org :> 1
MCFold == "K" :> <<"k">> @@ "ß" :> <<"s", "s">>
MCCompose == <<"e", "'">> :> "é"
MCExpand == "X" :> <<"x", "y">>
MCEntity == "n" :> <<" ">>
MCWord == {"k", "s", "e", "K", "ß", "é", "X", "x", "1", "_", "n"}
MCProfile ==
  geo :> [html |-> TRUE, markdown |-> TRUE, punctuation |-> FALSE, digits |-> TRUE] @@
  org :> [html |-> FALSE, markdown |-> FALSE, punctuation |-> TRUE, digits |-> TRUE]

Name(small, code) == [small |-> small, code |-> code]
MCNames ==
  geo :> (<<"k">> :> Name(TRUE, FALSE) @@ <<"k", " ", "s">> :> Name(FALSE, FALSE) @@
          <<"s">> :> Name(FALSE, FALSE) @@ <<"k", "é">> :> Name(TRUE, FALSE) @@
          <<"x", "y">> :> Name(FALSE, FALSE)) @@
  org :> (<<"k">> :> Name(TRUE, TRUE) @@ <<"s", "s">> :> Name(TRUE, FALSE) @@
          <<"s", " ", "k">> :> Name(FALSE, FALSE))

MCOutcome == {
  [status |-> "resolved", conf |-> 2, broad |-> FALSE],
  [status |-> "resolved", conf |-> 2, broad |-> TRUE],
  [status |-> "ambiguous", conf |-> 1, broad |-> FALSE],
  [status |-> "no_match", conf |-> 0, broad |-> FALSE]}

\* Texts of three pieces, those among them in which NFC splits one character and
\* composes another: there the offsets slip.
Piece == {<<"k">>, <<"s">>, <<" ">>, <<"ß">>, <<"e", "'">>, <<"X">>, <<"#">>,
          <<"*", "k", "*">>, <<"&", "n", ";">>, <<".">>, <<"_">>}
Long == {FlattenSeq(x) : x \in [1..3 -> Piece]}

Ask(rows, small, nil, floor) == [rows |-> rows, small |-> small, nil |-> nil, floor |-> floor]
MCRequest == <<
  {Ask(<<<<"k">>>>, TRUE, FALSE, 0)},
  {Ask(<<t>>, FALSE, FALSE, 0) : t \in Long} \cup
  {Ask(<<<<"k", " ", "s", " ", "k">>, <<" ">>, <<"#", "s", "|", "#", " ", "K", "1">>>>,
       FALSE, nil, floor) : nil \in BOOLEAN, floor \in {0, 3}} \cup
  {Ask(<<<<"k", " ", "s", " ", "K", " ", "s">>>>, small, TRUE, 0) : small \in BOOLEAN}
>>
=============================================================================
