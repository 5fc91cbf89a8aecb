------------------------------- MODULE Ranges -------------------------------
(***************************************************************************)
(* Numeric ranges in the descriptions of levels and options:               *)
(* crates/core/src/question/numeric.rs.  A bound is a sequence of at most  *)
(* one value, in hundredths.                                               *)
(***************************************************************************)
EXTENDS StateIndex

Includes(s, part) == \E k \in 0 .. Len(s) - Len(part) : SubSeq(s, k + 1, k + Len(part)) = part
JoinedWords(words) ==
  FoldLeft(LAMBDA s, w : IF s = "" THEN w ELSE s \o " " \o w, "", words)
HasAny(s, parts) == \E p \in parts : Includes(s, p)

LowerCues == {"under", "below", "less", "fewer", "up to", "at most", "max", "no more than", "within",
              "shorter", "cheaper", "smaller", "lower"}
LowerInclusive == {"up to", "at most", "or less", "or fewer", "or under", "max", "within", "no more"}
UpperCues == {"over", "above", "more", "greater", "at least", "min", "exceed", "beyond",
              "longer", "larger", "higher"}
UpperInclusive == {"at least", "or more", "or above", "or over", "min"}

(* More words than this are prose with an incidental number. *)
MaxRangeWords == 12

NoRange == [lo |-> <<>>, hi |-> <<>>, loIn |-> FALSE, hiIn |-> FALSE, kind |-> "none", unit |-> ""]
Interval(lo, hi, loIn, hiIn, kind, unit) ==
  [lo |-> lo, hi |-> hi, loIn |-> loIn, hiIn |-> hiIn, kind |-> kind, unit |-> unit]

FirstKind(kinds) ==
  LET special == SelectSeq(kinds, LAMBDA k : k # "Plain")
  IN  IF special = <<>> THEN "Plain" ELSE special[1]

UnitAfter(raw, k) ==
  IF /\ k + 1 \in DOMAIN raw /\ raw[k + 1].kind = "Word"
     /\ raw[k + 1].word \notin {"or", "and", "to", "of", "in", "per"}
  THEN raw[k + 1].word ELSE ""

OneBound(a, kind, unit, joined, plus) ==
  LET lower == HasAny(joined, LowerCues)
      upper == HasAny(joined, UpperCues) \/ plus
  IN  CASE lower /\ ~upper -> Interval(<<>>, <<a>>, FALSE, HasAny(joined, LowerInclusive), kind, unit)
        [] upper /\ ~lower -> Interval(<<a>>, <<>>, HasAny(joined, UpperInclusive) \/ plus, FALSE, kind, unit)
        [] OTHER -> Interval(<<a>>, <<a>>, TRUE, TRUE, kind, unit)

Ranged(raw, nums, words) ==
  IF nums = <<>> \/ Len(words) > MaxRangeWords THEN NoRange
  ELSE LET kind == FirstKind([k \in DOMAIN nums |-> nums[k].number.kind])
           unit == UnitAfter(raw, nums[Len(nums)].token)
           a == nums[1].number.value
           b == nums[2].number.value
       IN  IF Len(nums) > 1 THEN Interval(<<Min({a, b})>>, <<Max({a, b})>>, TRUE, TRUE, kind, unit)
           ELSE OneBound(a, kind, unit, JoinedWords(words), \E k \in DOMAIN raw : Includes(raw[k].word, "+"))

(* parse_range *)
ParseRange(raw) ==
  Ranged(raw, Numerals(raw, 0, 0), WordsOf(SelectSeq(raw, LAMBDA t : t.kind = "Word")))

-----------------------------------------------------------------------------
AtLeast(v, bound, inclusive) == bound = <<>> \/ v > bound[1] \/ (inclusive /\ v = bound[1])
AtMost(v, bound, inclusive) == bound = <<>> \/ v < bound[1] \/ (inclusive /\ v = bound[1])
InRange(r, v) == AtLeast(v, r.lo, r.loIn) /\ AtMost(v, r.hi, r.hiIn)

Abs(n) == IF n < 0 THEN -n ELSE n

(* How far v lies outside a range, in hundredths; nothing at an excluded   *)
(* bound.                                                                  *)
Outside(r, v) ==
  CASE InRange(r, v) -> 0
    [] r.lo # <<>> /\ ~AtLeast(v, r.lo, TRUE) -> r.lo[1] - v
    [] r.hi # <<>> /\ ~AtMost(v, r.hi, TRUE) -> v - r.hi[1]
    [] OTHER -> 0

(* What a range that does not hold v loses, at most most: distance to one, *)
(* relative to its first bound.                                            *)
Loss(r, v, most) ==
  LET scale == Max({100, Abs(IF r.lo # <<>> THEN r.lo[1] ELSE r.hi[1])})
  IN  IF Outside(r, v) >= scale THEN most ELSE (Outside(r, v) * most) \div scale
=============================================================================
