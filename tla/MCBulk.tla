------------------------------- MODULE MCBulk -------------------------------
(***************************************************************************)
(* Four texts: a name, an ambiguous name, a text that is a code and a name *)
(* of different entities, and a code of two systems' different entities.   *)
(***************************************************************************)
EXTENDS Bulk, TLC

CONSTANTS france, congo, in, xx, c0, c1, iso, num, typo, e1, e2, e3

ByContext(r, s) == c0 :> r @@ c1 :> s
NoCodes == iso :> <<>> @@ num :> <<>>
Worlds == {[codes |-> france :> NoCodes @@ congo :> NoCodes @@
                      in :> (iso :> <<e1>> @@ num :> <<>>) @@ xx :> (iso :> <<e1, e2>> @@ num :> <<e3>>),
            named |-> france :> ByContext(Resolved(e1), Resolved(e2)) @@
                      congo :> ByContext(Unsure(<<e3, e1>>), NoMatch) @@
                      in :> ByContext(Resolved(e2), Error) @@ xx :> ByContext(NoMatch, NoMatch),
            faulty |-> f, known |-> k, broken |-> b, vague |-> v,
            has |-> e1 :> {iso, num} @@ e2 :> {iso} @@ e3 :> {}] :
             f \in {{}, {france}, {xx}}, k \in {{e1, e2, e3}, {e1, e2}}, b \in BOOLEAN, v \in {{}, {c1}}}

Row(t, c) == [text |-> t, in |-> c]
Uniform == {<<Row(france, c0), Row(Null, c0), Row(france, c0), Row(congo, c0)>>,
            <<Row(in, c0), Row(france, c0), Row(congo, c0)>>, <<Row(in, c0), Row(xx, c0), Row(in, c0)>>, <<Row(in, c1), Row(Null, c1)>>}
PerRow == {<<Row(france, c0), Row(france, c1), Row(congo, c1), Row(france, c0)>>,
           <<Row(in, c0), Row(congo, c1)>>}
Call(R, p, F, O, U, X, A, M) ==
  [rows : R, perRow : {p}, from : F, to : O, unmatched : U, failed : X, unsure : A, missing : M]
ForPolicies ==
  Call(Uniform, FALSE, {NoSystem, iso, typo}, {iso, num, typo}, {"null", "raise", "other"},
       {"null", "raise", "keep"}, {"null", "raise", "best"}, {"auto", "raise"})
  \cup Call(PerRow, TRUE, {NoSystem}, {iso}, {"null"}, {"null", "raise"}, {"null", "best"}, {"auto"})
ForReviews == Call(Uniform, FALSE, {NoSystem}, {Raw}, {"null"}, {"null"}, {"null"}, {"auto"})
  \cup Call(PerRow, TRUE, {NoSystem}, {Raw}, {"null"}, {"null"}, {"null"}, {"auto"})
AfterReview == Call(Uniform, FALSE, {NoSystem}, {iso}, {"other"}, {"null"}, {"null", "best"}, {"auto"})
  \cup Call(PerRow, TRUE, {NoSystem}, {Raw}, {"null"}, {"null"}, {"null"}, {"auto"})
MCCalls == <<ForPolicies \cup ForReviews, AfterReview>>
=============================================================================
