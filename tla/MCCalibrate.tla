---------------------------- MODULE MCCalibrate ----------------------------
(***************************************************************************)
(* Nine examples.  Of the Choice questions two share family and bucket     *)
(* and one is alone in both; resolvers were right and wrong; groups of two *)
(* are large enough.  Eight bits of significand; with these, seven equal   *)
(* options are the fewest whose shares do not add up to one.  Logits are   *)
(* equal or a whole apart: the code computes with f64 on logits that are   *)
(* f32, so that two which differ do so by far more than a rounding.        *)
(***************************************************************************)
EXTENDS Calibrate

MCExp(d) == Over(One, One + d)
MCLogistic(x) == IF x >= 0 THEN Over(One + x, 2 * One + x) ELSE Over(One, 2 * One - x)

(* What is asked of these functions, over the logits of the instance.      *)
ASSUME MCFunctionsRound ==
  /\ MCExp(0) = One
  /\ \A d \in 0 .. 10 * One : MCExp(d) \in 0 .. One /\ Exact(MCExp(d))
  /\ \A x \in -10 * One .. 10 * One : MCLogistic(x) \in Int

L(seq) == [k \in DOMAIN seq |-> seq[k] * One]
Q(type, family, logits, symbolic, evidence, keys) ==
  [kind |-> type, family |-> family, logits |-> L(logits), symbolic |-> symbolic,
   evidence |-> evidence, keys |-> SubSeq(keys, 1, Len(logits)), gold |-> 0]
E(type, family, logits, symbolic, right) ==
  [Q(type, family, logits, symbolic, One \div 2, [k \in DOMAIN logits |-> k]) EXCEPT !.gold = right]

MCExamples ==
  <<E("choice", "topic", <<2, 0>>, FALSE, 1), E("choice", "topic", <<0, 1>>, FALSE, 1),
    E("choice", "person", <<1, 0, 2>>, FALSE, 3), E("choice", "range", <<4, 0>>, TRUE, 1),
    E("score", "topic", <<2, 1, 0>>, FALSE, 1), E("score", "topic", <<0, 0, 1>>, FALSE, 2),
    E("score", "range", <<0, 4, 0>>, TRUE, 1),
    E("noul", "topic", <<1>>, FALSE, 1), E("noul", "range", <<4>>, TRUE, 1)>>

MCTemperatures == {One, 2 * One}
MCLambdas == {0, One \div 4}
MCGammas == {0, One}
MCPlatt == {[a |-> One, b |-> 0], [a |-> One, b |-> -One]}

Orders == {<<1, 2, 3>>, <<3, 2, 1>>, <<2, 3, 1>>}
Logits == {<<2, 0, 0>>, <<1, 1, 0>>, <<0, 1, 1>>, <<1, 1, 1>>, <<0, 1, 2>>, <<9, 0, 9>>, <<9, 0>>}
MCQuestions ==
  {Q("choice", f, z, FALSE, e, ks) : f \in {"topic", "person"}, z \in Logits, e \in {0, One}, ks \in Orders}
  \cup {Q("choice", "range", z, TRUE, One, ks) : z \in Logits, ks \in Orders}
  \cup {Q("score", "topic", z, s, One, <<1, 2, 3>>) : z \in Logits, s \in BOOLEAN}
  \cup {Q("score", "person", <<0, 1, 0, 0, 2>>, s, One, <<1, 2, 3, 4, 5>>) : s \in BOOLEAN}
  \cup {Q("choice", "topic", z, s, One, ks) : s \in BOOLEAN, z \in {[k \in 1 .. 7 |-> 1], <<0, 1, 2, 0, 0, 0, 2>>},
             ks \in {<<1, 2, 3, 4, 5, 6, 7>>, <<7, 6, 5, 4, 3, 2, 1>>}}
  \cup {Q("choice", "topic", z, FALSE, One, [k \in DOMAIN z |-> k]) : z \in {<<1, 2, 0>>, <<1, 1, 2, 0>>, <<0, 1, 1, 2, 1>>}}
  \cup {Q("choice", "topic", <<1, 1>>, s, One, <<2, 1>>) : s \in BOOLEAN}
  \cup {Q("noul", "topic", <<z>>, s, One, <<1>>) : z \in {-9, -1, 0, 1, 9}, s \in BOOLEAN}

Done == stage = "answered" /\ UNCHANGED vars
MCSpec == CalibrateInit /\ [][CalibrateNext \/ Done]_vars
=============================================================================
