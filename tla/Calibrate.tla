----------------------------- MODULE Calibrate -----------------------------
(***************************************************************************)
(* The command calibrate (crates/cli/src/commands/calibrate.rs), and an    *)
(* engine that then answers with the calibration it wrote.                 *)
(*                                                                         *)
(* Each kind of question is fitted in stages, every stage reading what the *)
(* stages before it stored.  What a search over temperatures or strengths  *)
(* settles on depends on likelihoods and is any member of a set; which     *)
(* examples it runs over, what it stores and what reads it is the code's.  *)
(***************************************************************************)
EXTENDS Scoring, TLC

CONSTANTS
  Examples,       \* sequence of examples, the questions of the split with their gold option
  MinGroup,       \* examples a family or a number of options needs (40 in the code)
  Temperatures,   \* what fit_temperature may settle on
  Lambdas,        \* what the search over the smoothing may settle on
  Gammas,         \* what the search over the weight of missing evidence may settle on
  PlattFits,      \* what fit_platt may settle on
  MinPlatt,       \* examples fit_platt needs (5 in the code)
  Questions       \* what the engine is asked afterwards

(* A question as it comes out of features and resolvers: a logit for every *)
(* option, of which validation leaves at least one, and one for a Noul.    *)
QuestionOK(q) ==
  /\ q.kind \in {"choice", "score", "noul"}
  /\ q.symbolic \in BOOLEAN
  /\ q.logits \in Seq(Int) /\ q.logits # <<>>
  /\ q.evidence \in Int
  /\ q.kind = "noul" => Len(q.logits) = 1

(* The searches settle on numbers; the split has no more examples than     *)
(* there are significands, so that a mean of temperatures is not lost.     *)
ASSUME CalibrateAssumption ==
  /\ MinTemperature \in Nat \ {0}
  /\ MinGroup \in Nat \ {0}
  /\ DefaultEpsilon \in 0 .. One /\ Exact(DefaultEpsilon)
  /\ Temperatures \cup Gammas \subseteq Int
  /\ Lambdas \subseteq 0 .. One
  /\ \A p \in PlattFits : p.a \in Int /\ p.b \in Int
  /\ Examples \in Seq(Range(Examples)) /\ Len(Examples) <= Significands
  /\ \A q \in Range(Examples) \cup Questions : QuestionOK(q)

VARIABLES
  kind,    \* the kind of question being fitted, "written" when the file is
  stage,   \* the next stage
  cal,     \* the calibration so far
  rows,    \* history: what the confidence map was fitted on, so far
  answer   \* the answer of the engine, or NoAnswer

vars == <<kind, stage, cal, rows, answer>>

NoAnswer == [question |-> 0]
Identity == [a |-> One, b |-> 0]

DefaultCalibration ==
  [temperature |-> [k \in {"choice", "score"} |-> One], family |-> <<>>, bucket |-> <<>>,
   symbolic |-> One, gamma |-> <<>>,
   epsilon |-> [k \in {"choice", "score", "noul"} |-> DefaultEpsilon],
   platt |-> Identity, familyPlatt |-> <<>>, symbolicPlatt |-> <<>>,
   lambda |-> One \div 4]

(* The examples of the kind, by their places in the split. *)
Of(symbolic) ==
  {n \in DOMAIN Examples : Examples[n].kind = kind /\ Examples[n].symbolic = symbolic}

FamilyOf(e) == e.family
BucketOf(e) == CardinalityBucket(Len(e.logits))

Families == [n \in Of(FALSE) |-> FamilyOf(Examples[n])]
Sizes == [n \in Of(FALSE) |-> BucketOf(Examples[n])]

(* The groups that are large enough to be fitted on their own. *)
Large(groups) ==
  {g \in Range(groups) : Cardinality({n \in DOMAIN groups : groups[n] = g}) >= MinGroup}

Stored(map, value) ==
  [k \in DOMAIN map \cup {kind} |-> IF k = kind THEN value ELSE map[k]]

Go(next) == stage' = next /\ UNCHANGED <<kind, rows, answer>>

CalibrateInit ==
  /\ kind = "choice"
  /\ stage = "temperature"
  /\ cal = DefaultCalibration
  /\ rows = {}
  /\ answer = NoAnswer

(* Without examples the temperature is one. *)
FitTemperature ==
  /\ stage = "temperature"
  /\ kind # "noul"
  /\ \E t \in IF Of(FALSE) = {} THEN {One} ELSE Temperatures :
       cal' = [cal EXCEPT !.temperature = Stored(@, t)]
  /\ Go(IF kind = "score" /\ Of(FALSE) # {} THEN "lambda" ELSE "families")

FitLambda ==
  /\ stage = "lambda"
  /\ \E l \in Lambdas : cal' = [cal EXCEPT !.lambda = l]
  /\ Go("families")

FitFamilies ==
  /\ stage = "families"
  /\ \E map \in [Large(Families) -> Temperatures] : cal' = [cal EXCEPT !.family = Stored(@, map)]
  /\ Go("buckets")

(* The multiplier of a bucket is relative to the mean of the temperatures  *)
(* its examples have without it.                                           *)
SumOver(group) ==
  FoldLeft(LAMBDA acc, n : IF n \in group
                           THEN Plus(acc, TemperatureFor(cal, kind, FamilyOf(Examples[n]), 1)) ELSE acc,
           0, [n \in DOMAIN Examples |-> n])

Mean(group) == Over(SumOver(group), Cardinality(group) * One)
MeanBase(bucket) == Mean({n \in Of(FALSE) : BucketOf(Examples[n]) = bucket})

FitBuckets ==
  /\ stage = "buckets"
  /\ \E map \in [Large(Sizes) -> Temperatures] :
       cal' = [cal EXCEPT !.bucket = Stored(@, [b \in DOMAIN map |->
                Clamp(Over(map[b], MeanBase(b)), One \div 4, 4 * One)])]
  /\ Go("gamma")

(* Mutant: the weight is stored for the first kind. *)
FitGammaOfChoice ==
  /\ stage = "gamma"
  /\ \E g \in IF Of(FALSE) = {} THEN {0} ELSE Gammas :
       cal' = [cal EXCEPT !.gamma = ("choice" :> g) @@ @]
  /\ Go("epsilon")

FitGamma ==
  /\ stage = "gamma"
  /\ \E g \in IF Of(FALSE) = {} THEN {0} ELSE Gammas :
       cal' = [cal EXCEPT !.gamma = Stored(@, g)]
  /\ Go("epsilon")

(* The smoothed error rate of the resolvers; without examples the default  *)
(* stays.                                                                  *)
Wrong(e) ==
  IF e.kind = "noul" THEN (e.logits[1] >= 0) # (e.gold = 1) ELSE FirstLargest(e.logits) # e.gold

(* Mutant: the error rate as it is. *)
ErrorRateExact(sym) ==
  Over(Cardinality({n \in sym : Wrong(Examples[n])}) * One, Cardinality(sym) * One)

(* Mutant: only the errors are smoothed. *)
ErrorRateOverCount(sym) ==
  Over((Cardinality({n \in sym : Wrong(Examples[n])}) + 1) * One, Cardinality(sym) * One)

ErrorRate(sym) ==
  Over((Cardinality({n \in sym : Wrong(Examples[n])}) + 1) * One, (Cardinality(sym) + 2) * One)

Resolved ==
  IF Of(TRUE) = {} THEN cal
  ELSE [cal EXCEPT
          !.epsilon = Stored(@, ErrorRate(Of(TRUE))),
          !.symbolicPlatt = IF kind = "noul" THEN [k \in {kind} |-> Identity] ELSE @]

FitEpsilon ==
  /\ stage = "epsilon"
  /\ cal' = Resolved
  /\ Go(IF kind = "noul" THEN "write" ELSE "confidence")

(* The distribution an example has when the confidence map is fitted: the  *)
(* mixing of resolvers is left out.                                        *)
FittedOn(e) == Smooth(cal, e, SoftmaxTemp(e.logits, Temperature(cal, e)))

FitConfidence ==
  /\ stage = "confidence"
  /\ rows' = rows \cup {[example |-> e, p |-> FittedOn(e)] : e \in {x \in Range(Examples) : x.kind = kind}}
  /\ kind' = IF kind = "choice" THEN "score" ELSE "noul"
  /\ stage' = IF kind = "choice" THEN "temperature" ELSE "platt"
  /\ UNCHANGED <<cal, answer>>

PlattOver(n) == IF n < MinPlatt THEN {Identity} ELSE PlattFits

FitPlatt ==
  /\ stage = "platt"
  /\ \E p \in PlattOver(Cardinality(Of(FALSE))) : cal' = [cal EXCEPT !.platt = p]
  /\ Go("familyPlatt")

FitFamilyPlatt ==
  /\ stage = "familyPlatt"
  /\ \E map \in [Large(Families) -> PlattOver(MinGroup)] :
       cal' = [cal EXCEPT !.familyPlatt = map]
  /\ Go("epsilon")

Write ==
  /\ stage = "write"
  /\ kind' = "written"
  /\ stage' = "serve"
  /\ UNCHANGED <<cal, rows, answer>>

(* The engine loads the file and is asked.  A Noul has one probability. *)
Answered(q, p) ==
  [question |-> q, probabilities |-> p,
   choice |-> IF q.kind = "choice" THEN ArgmaxKey(q.keys, p) ELSE 0,
   score |-> IF q.kind = "score" THEN Expected(p) ELSE 0,
   margin |-> Margin(p)]

Ask(q) ==
  /\ stage = "serve"
  /\ answer' = Answered(q, IF q.kind = "noul" THEN <<NoulProbability(cal, q)>>
                           ELSE Probabilities(cal, q))
  /\ stage' = "answered"
  /\ UNCHANGED <<kind, cal, rows>>

CalibrateNext ==
  \/ FitTemperature \/ FitLambda \/ FitFamilies \/ FitBuckets \/ FitGamma \/ FitEpsilon
  \/ FitConfidence \/ FitPlatt \/ FitFamilyPlatt \/ Write
  \/ \E q \in Questions : Ask(q)

CalibrateSpec == CalibrateInit /\ [][CalibrateNext]_vars

-----------------------------------------------------------------------------
Numbers == 0 .. One

(* Types: what the engine answers are probabilities, one for each option. *)
CalibrateTypeOK ==
  /\ cal.lambda \in Numbers
  /\ \A k \in DOMAIN cal.epsilon : cal.epsilon[k] \in Numbers
  /\ \A row \in rows : \A j \in DOMAIN row.p : row.p[j] \in Numbers
  /\ answer # NoAnswer =>
       /\ Len(answer.probabilities) = Len(answer.question.logits)
       /\ \A j \in DOMAIN answer.probabilities : answer.probabilities[j] \in Numbers

(* The confidence map of questions answered from features is fitted on the *)
(* distributions the engine serves: no later stage of the fit changes one  *)
(* (calibrate.rs:354-373 against engine.rs:205-238).                       *)
FittedAsServed ==
  stage = "serve" =>
    \A row \in rows :
      ~row.example.symbolic => row.p = Probabilities(cal, row.example)

(* However often a resolver was right on the n examples of the split, it   *)
(* leaves 1 / (n + 2) of the probability to be shared by all the options   *)
(* (calibration/mod.rs:54-58), but for rounding.                           *)
Share(q) ==
  LET n == Cardinality({k \in DOMAIN Examples : Examples[k].kind = q.kind /\ Examples[k].symbolic})
      options == IF q.kind = "noul" THEN 2 ELSE Len(q.logits)
  IN  One \div ((n + 2) * options) - Ulp[One - 1]

NothingRuledOut ==
  answer # NoAnswer /\ answer.question.symbolic /\ answer.question.kind # "score" =>
    \A j \in DOMAIN answer.probabilities :
      /\ answer.probabilities[j] >= Share(answer.question)
      /\ answer.question.kind = "noul" => One - answer.probabilities[j] >= Share(answer.question)

(* A Choice goes to an option with the highest logit, whatever was fitted: *)
(* temperature, mixing and the correction of the sum never promote another.*)
WinnerHasTopLogit ==
  answer # NoAnswer /\ answer.question.kind = "choice" =>
    \E i \in DOMAIN answer.question.keys :
      /\ answer.question.keys[i] = answer.choice
      /\ \A j \in DOMAIN answer.question.logits :
           answer.question.logits[j] <= answer.question.logits[i]

(* The probabilities of an answer add up to one, but for half a unit of    *)
(* rounding per option: the correction makes good what the quotients miss, *)
(* not what its own sum misses (softmax.rs:19-37).                         *)
AddsUpToOne ==
  answer # NoAnswer /\ answer.question.kind # "noul" =>
    LET slack == Len(answer.probabilities) * Ulp[One - 1]
    IN  2 * (One - SumFunction(answer.probabilities)) \in -slack .. slack
=============================================================================
