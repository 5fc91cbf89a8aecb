------------------------------ MODULE Scoring ------------------------------
(***************************************************************************)
(* From logits to an answer: crates/core/src/scoring and the lookups of    *)
(* crates/core/src/calibration, as answer_question applies them            *)
(* (engine.rs).  The exponential and the logistic function are parameters; *)
(* everything else is computed with rounding.                              *)
(***************************************************************************)
EXTENDS Floats, Sequences, SequencesExt, FiniteSetsExt

CONSTANTS
  Exp(_),           \* the exponential of a negated number: Exp(0) is One
  Logistic(_),      \* 1 / (1 + e^-x)
  MinTemperature,   \* the lower bound of a temperature (1e-3 in the code)
  DefaultEpsilon    \* the error rate of resolvers before any fit (0.02)

Clamp(x, low, high) == Max({low, Min({x, high})})

Total(p) == FoldLeft(Plus, 0, p)

FirstLargest(p) ==
  CHOOSE i \in DOMAIN p : \A j \in DOMAIN p : p[j] < p[i] \/ (p[j] = p[i] /\ i <= j)

Scaled(p, total) == [k \in DOMAIN p |-> Over(p[k], total)]

PushResidue(p, residue) ==
  IF residue = 0 THEN p
  ELSE [p EXCEPT ![FirstLargest(p)] = Clamp(Plus(@, residue), 0, One)]

Settle(p) == PushResidue(p, Minus(One, Total(p)))

(* fix_sum: rescale, then give the rest to the first of the largest. *)
FixSum(p) ==
  IF p = <<>> THEN p ELSE Settle(IF Total(p) \in {0, One} THEN p ELSE Scaled(p, Total(p)))

Exponentials(z, t) ==
  LET top == Max({z[k] : k \in DOMAIN z})
  IN  [k \in DOMAIN z |-> Exp(Over(top - z[k], t))]

Normalised(p) == FixSum(Scaled(p, Total(p)))

SoftmaxTemp(z, t) ==
  IF z = <<>> THEN <<>> ELSE Normalised(Exponentials(z, Max({t, MinTemperature})))

(* ordinal_smooth: a level shares with the levels at most two away. *)
Power(lambda, d) == IF d = 0 THEN One ELSE IF d = 1 THEN lambda ELSE Times(lambda, lambda)

Smoothed(p, lambda) ==
  [i \in DOMAIN p |->
     FoldLeft(LAMBDA acc, j : IF i - j \in -2 .. 2
                              THEN Plus(acc, Times(p[j], Power(lambda, Max({i - j, j - i})))) ELSE acc,
              0, [j \in DOMAIN p |-> j])]

(* Mutant: the smoothed levels are not rescaled.                           *)
OrdinalSmoothRaw(p, lambda) ==
  IF Len(p) <= 1 \/ lambda <= 0 THEN p ELSE Smoothed(p, lambda)

OrdinalSmooth(p, lambda) ==
  IF Len(p) <= 1 \/ lambda <= 0 THEN p ELSE Normalised(Smoothed(p, lambda))

(* A resolver's distribution is mixed with the uniform one. *)
Mixed(p, eps) ==
  FixSum([k \in DOMAIN p |-> Plus(Times(Minus(One, eps), p[k]), Times(eps, Over(One, Len(p) * One)))])

(* Mutant: a smaller key wins over a larger probability. *)
ArgmaxKeyFirst(keys, p) ==
  LET best == FoldLeft(LAMBDA b, i : IF p[i] > p[b] \/ keys[i] < keys[b] THEN i ELSE b,
                       1, [i \in DOMAIN p |-> i])
  IN  keys[best]

(* argmax_key: the key decides between equal probabilities. *)
ArgmaxKey(keys, p) ==
  LET best == CHOOSE i \in DOMAIN p : \A j \in DOMAIN p :
                p[j] < p[i] \/ (p[j] = p[i] /\ keys[i] <= keys[j])
  IN  keys[best]

Expected(p) == FoldLeft(LAMBDA acc, i : Plus(acc, Times((i - 1) * One, p[i])), 0,
                        [i \in DOMAIN p |-> i])

(* shape: what the winner is ahead of the next. *)
Margin(p) ==
  LET best == FirstLargest(p)
  IN  IF Len(p) < 2 THEN One ELSE Minus(p[best], Max({p[k] : k \in DOMAIN p \ {best}}))

-----------------------------------------------------------------------------
(* A calibration: temperatures per kind, per family and per number of      *)
(* options, the weight of missing evidence, error rates of the resolvers.  *)
Buckets == <<2, 4, 8, 16, 64>>
CardinalityBucket(k) == Cardinality({n \in DOMAIN Buckets : Buckets[n] < k})

Lookup(map, key, default) == IF key \in DOMAIN map THEN map[key] ELSE default

TemperatureFor(cal, kind, family, k) ==
  Max({MinTemperature,
       Times(Lookup(Lookup(cal.family, kind, <<>>), family, Lookup(cal.temperature, kind, One)),
             Lookup(Lookup(cal.bucket, kind, <<>>), CardinalityBucket(k), One))})

EvidenceMultiplier(cal, kind, evidence) ==
  Plus(One, Times(Max({Lookup(cal.gamma, kind, 0), 0}), Minus(One, Clamp(evidence, 0, One))))

EpsilonFor(cal, kind) == Clamp(Lookup(cal.epsilon, kind, DefaultEpsilon), 0, One \div 2)

PlattFor(cal, family) == Lookup(cal.familyPlatt, family, cal.platt)

Platt(logit, params) == Clamp(Logistic(Plus(Times(params.a, logit), params.b)), 0, One)

-----------------------------------------------------------------------------
(* A question as it comes out of features and resolvers: its logits, and   *)
(* whether a resolver gave them.                                           *)
Temperature(cal, q) ==
  IF q.symbolic THEN Max({cal.symbolic, MinTemperature})
  ELSE Times(TemperatureFor(cal, q.kind, q.family, Len(q.logits)),
             EvidenceMultiplier(cal, q.kind, q.evidence))

Mix(cal, q, p) == IF q.symbolic THEN Mixed(p, EpsilonFor(cal, q.kind)) ELSE p

Smooth(cal, q, p) == IF q.kind = "score" THEN OrdinalSmooth(p, cal.lambda) ELSE p

Probabilities(cal, q) ==
  Smooth(cal, q, Mix(cal, q, SoftmaxTemp(q.logits, Temperature(cal, q))))

NoulProbability(cal, q) ==
  LET eps == EpsilonFor(cal, "noul")
  IN  IF q.symbolic
      THEN Plus(Times(Minus(One, eps), Platt(q.logits[1], Lookup(cal.symbolicPlatt, "noul", cal.platt))), Times(eps, One \div 2))
      ELSE Platt(q.logits[1], PlattFor(cal, q.family))
=============================================================================
