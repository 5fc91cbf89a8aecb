----------------------------- MODULE Resolvers -----------------------------
(***************************************************************************)
(* The symbolic resolvers of crates/core/src/resolvers/mod.rs: questions   *)
(* that the state answers without the model.  A resolver gives the logits  *)
(* of the criteria, or that of "true", in thousandths, or nothing.         *)
(***************************************************************************)
EXTENDS Questions

CONSTANT AlphaNumeric   \* the glyphs that begin or end with a letter or digit

Strong == 6000
Partial == 2000
Sure == 4800      \* 0.8 of Strong
Absent == 3600    \* 0.6 of Strong

Unresolved == [name |-> "none", logits |-> <<>>]
Resolved(name, logits) == [name |-> name, logits |-> logits]
OrElse(r, other) == IF r = Unresolved THEN other ELSE r

FieldOf(idx, span) == idx.segments[span.seg].field
InFocus(view, field) == view.focus = {} \/ field \in view.focus

(* Mutant: one candidate is enough. *)
AgreedOnce(name, view, outcomes) ==
  IF outcomes = {} THEN Unresolved
  ELSE Resolved(name, <<IF (TRUE \in outcomes) # view.negated THEN Sure ELSE -Sure>>)

(* The answers of all candidates, if there are any and they agree; a       *)
(* negated question has the other answer.                                  *)
Agreed(name, view, outcomes) ==
  IF Cardinality(outcomes) # 1 THEN Unresolved
  ELSE Resolved(name, <<IF (outcomes = {TRUE}) # view.negated THEN Sure ELSE -Sure>>)

-----------------------------------------------------------------------------
(* parse_comparison *)
Comparators ==
  <<<<"Gt", {"greater than", "more than", "larger than", "higher than", "bigger than", "longer than",
             "over", "above", "exceed"}>>,
    <<"Ge", {"at least", "minimum of", "no less than", "not less than", "or more"}>>,
    <<"Lt", {"less than", "fewer than", "lower than", "smaller than", "shorter than", "under", "below"}>>,
    <<"Le", {"at most", "no more than", "not more than", "up to", "maximum of", "within"}>>,
    <<"Eq", {"exactly", "equal to", "equals"}>>>>

ComparatorOf(joined) ==
  LET found == SelectSeq(Comparators, LAMBDA c : HasAny(joined, c[2]))
  IN  IF found = <<>> THEN "none" ELSE found[1][1]

ComparedWords == {"than", "least", "most", "over", "under", "above", "below", "exceed", "exceeds", "exactly"}

IsThreshold(raw, k) ==
  LET n == ParseNumber(raw[k].word, raw[k].kind)
  IN  /\ n # NoNumber /\ n.kind # "Ordinal"
      /\ raw[k].kind = "Word" => \E j \in Max({1, k - 3}) .. k - 1 : raw[j].word \in ComparedWords

NoComparison == [cmp |-> "none", value |-> 0, kind |-> "Plain", unit |-> ""]

ComparisonAt(raw, k) ==
  LET n == ParseNumber(raw[k].word, raw[k].kind)
      cmp == ComparatorOf(JoinedWords(WordsOf(SubSeq(raw, 1, k - 1))))
      next == UnitAfter(raw, k)
  IN  IF cmp = "none" THEN NoComparison
      ELSE [cmp |-> cmp, value |-> n.value, kind |-> n.kind,
            unit |-> IF next \in FunctionWords \cup {"total"} THEN "" ELSE next]

ParseComparison(raw) ==
  LET at == {k \in DOMAIN raw : IsThreshold(raw, k)}
  IN  IF at = {} THEN NoComparison ELSE ComparisonAt(raw, Min(at))

Compare(cmp, v, threshold) ==
  CASE cmp = "Gt" -> v > threshold
    [] cmp = "Ge" -> v >= threshold
    [] cmp = "Lt" -> v < threshold
    [] cmp = "Le" -> v <= threshold
    [] cmp = "Eq" -> v = threshold

-----------------------------------------------------------------------------
(* numeric_comparison: the lengths of the arrays that the unit names, or   *)
(* else the numbers of the right kind next to the unit.                    *)
NearStems(idx, span, offsets) ==
  {idx.tokens[span.token + d].term : d \in {o \in offsets :
     span.token + o \in idx.segments[span.seg].tokFirst .. idx.segments[span.seg].tokLast}}

StemsAround(idx, span) ==
  NearStems(idx, span, {-2, -1, 1, 2}) \cup ToSet(idx.fields[FieldOf(idx, span)].keyTerms)

Countable == {"unit", "item", "piec", "articl", "product"}
Synonyms == {"unit", "item", "quantiti", "qty", "piec"}

OfUnit(stems, unit) ==
  \/ unit = ""
  \/ Stem(unit) \in stems
  \/ Stem(unit) \in Countable /\ stems \cap Synonyms # {}

OfKind(kind, number) ==
  IF kind \in {"Currency", "Percent"} THEN number.kind = kind
  ELSE number.kind \notin {"Currency", "Percent"}

Comparable(idx, view, c) ==
  {n \in ToSet(idx.numbers) :
     /\ n.number.kind # "Ordinal"
     /\ n.fromWord => n.number.value >= 200
     /\ OfKind(c.kind, n.number)
     /\ InFocus(view, FieldOf(idx, n))
     /\ OfUnit(StemsAround(idx, n), c.unit)}

(* Amounts of money, for a bare number that nothing else answers. *)
BareAmounts(idx, view, c) ==
  {n \in ToSet(idx.numbers) :
     c.kind = "Plain" /\ c.unit = "" /\ n.number.kind = "Currency" /\ InFocus(view, FieldOf(idx, n))}

ValuesOf(numbers) == {n.number.value : n \in numbers}

ArrayLengths(idx, c) ==
  IF c.unit = "" THEN {}
  ELSE {100 * a.length : a \in {b \in ToSet(idx.arrays) : Stem(c.unit) \in ToSet(b.keyTerms)}}

Quantities(idx, view, c) ==
  IF ArrayLengths(idx, c) # {} THEN ArrayLengths(idx, c)
  ELSE IF Comparable(idx, view, c) # {} THEN ValuesOf(Comparable(idx, view, c))
  ELSE ValuesOf(BareAmounts(idx, view, c))

NumericComparison(view, idx, c) ==
  IF c = NoComparison THEN Unresolved
  ELSE Agreed("numeric_comparison", view,
              {Compare(c.cmp, v, c.value) : v \in Quantities(idx, view, c)})

-----------------------------------------------------------------------------
(* date_comparison *)
DateAt(raw, words, k) ==
  LET token == IF raw[k].kind = "Date" THEN ParseDateToken(raw[k].word) ELSE NoDate
      written == IF \/ raw[k].kind = "Word" /\ MonthAt(words, k) > 0
                    \/ raw[k].kind = "Number" /\ MonthAt(words, k + 1) > 0
                 THEN ParseTextualDate(words, k, 2000).date ELSE NoDate
  IN  IF token # NoDate THEN token ELSE written

Before(date, other, inclusive) ==
  \/ DaysFromEpoch(date) < DaysFromEpoch(other)
  \/ inclusive /\ date = other

DateOutcome(cmp, date, asked, inclusive) ==
  CASE cmp = "Lt" -> Before(date, asked, inclusive)
    [] cmp = "Gt" -> Before(asked, date, inclusive)
    [] cmp = "Eq" -> date = asked

DateComparator(words) ==
  CASE words \cap {"before", "earlier", "prior", "by", "until"} # {} -> "Lt"
    [] words \cap {"after", "later", "since", "past", "beyond"} # {} -> "Gt"
    [] words \cap {"on", "exactly"} # {} -> "Eq"
    [] OTHER -> "none"

DateResolved(view, idx, cmp, asked, inclusive) ==
  IF cmp = "none" THEN Unresolved
  ELSE Agreed("date_comparison", view,
              {DateOutcome(cmp, d.date, asked, inclusive) :
                 d \in {s \in ToSet(idx.dates) : InFocus(view, FieldOf(idx, s))}})

DateCompared(view, idx, words, at) ==
  IF at = {} THEN Unresolved
  ELSE LET k == Min(at)
           said == {words[j] : j \in Max({1, k - 4}) .. k - 1}
       IN  DateResolved(view, idx, DateComparator(said), DateAt(view.raw, words, k),
                        \/ said \cap {"by", "until"} # {}
                        \/ HasAny(JoinedWords(words), {"or before", "or after", "or later", "or earlier"}))

DateComparison(view, idx, words) ==
  DateCompared(view, idx, words, {k \in DOMAIN words : DateAt(view.raw, words, k) # NoDate})

-----------------------------------------------------------------------------
(* Where a literal stands in the text of the state, as whole words.  The   *)
(* search goes on after each place it is found.                            *)
WholeWords(text, k, n) ==
  /\ k > 1 => text[k - 1] \notin AlphaNumeric
  /\ k + n <= Len(text) => text[k + n] \notin AlphaNumeric

Found(text, lit) ==
  LET found[from \in 1 .. Len(text) + 1] ==
        LET here == {k \in from .. Len(text) - Len(lit) + 1 : SubSeq(text, k, k + Len(lit) - 1) = lit}
        IN  IF here = {} THEN {} ELSE {Min(here)} \cup found[Min(here) + Len(lit)]
  IN  found[1]

Occurrences(text, lit) == {k \in Found(text, lit) : WholeWords(text, k, Len(lit))}

(* literal_search: directives earn no credit. *)
CountsAt(idx, pos) ==
  LET s == SegmentAt(idx, pos) IN s = 0 \/ "DIRECTIVE" \notin idx.segments[s].flags

(* Searching among equal offsets, the code may take any of the fields.     *)
InFocusAt(idx, view, pos) == FieldsAt(idx, pos) \cap view.focus # {}

Words(lit) == Len(SelectSeq(lit, LAMBDA g : g # " "))

Searchable(lit) == Bytes(lit) >= 3 /\ ~(Words(lit) = 1 /\ lit[1] \in StopWords)

(* Forty for eight words of a literal, and two when it is in focus. *)
LiteralHit(idx, view, criterion) ==
  LET found == {l \in ToSet(criterion.literals) :
                  Searchable(l) /\ \E k \in Occurrences(idx.lower, l) : CountsAt(idx, k)}
  IN  IF found = {} THEN 0
      ELSE 5 * Max({Min({Words(l), 8}) : l \in found})
           + (IF \E l \in found : \E k \in Occurrences(idx.lower, l) :
                   CountsAt(idx, k) /\ InFocusAt(idx, view, k) THEN 2 ELSE 0)

(* enum_extraction: the longest option found wins, when it is one.         *)
EnumWinner(hits, winners) ==
  IF Cardinality(winners) # 1 \/ \A k \in DOMAIN hits : hits[k] = 0 THEN Unresolved
  ELSE Resolved("enum_extraction",
                [k \in DOMAIN hits |-> IF k \in winners THEN Strong
                                       ELSE (Partial * hits[k]) \div Max(ToSet(hits))])

EnumHits(hits) == EnumWinner(hits, {k \in DOMAIN hits : hits[k] = Max(ToSet(hits))})

EnumExtraction(view, idx) ==
  IF ~view.literal THEN Unresolved
  ELSE EnumHits([k \in DOMAIN view.criteria |-> LiteralHit(idx, view, view.criteria[k])])

-----------------------------------------------------------------------------
(* numeric_levels *)
RangesOf(view) == [k \in DOMAIN view.criteria |-> view.criteria[k].range]
HasRange(r) == r # NoRange

LevelKind(ranges) ==
  FirstKind([k \in DOMAIN ranges |-> ranges[k].kind])

LevelUnit(ranges) ==
  LET units == SelectSeq(ranges, LAMBDA r : r.unit # "") IN IF units = <<>> THEN "" ELSE units[1].unit

IsMeasure(idx, view, kind, unit, n) ==
  /\ n.number.kind # "Ordinal" /\ ~n.fromWord
  /\ kind \in {"Currency", "Percent"} => n.number.kind = kind
  /\ InFocus(view, FieldOf(idx, n))
  /\ unit # "" => Stem(unit) \in NearStems(idx, n, {-1, 1, 2})

Measured(idx, view, kind, unit) ==
  Chosen(idx.numbers, {k \in DOMAIN idx.numbers : IsMeasure(idx, view, kind, unit, idx.numbers[k])})

(* The first level whose range holds v, 0 if none does. *)
LevelOf(ranges, v) ==
  LET holding == {k \in DOMAIN ranges : HasRange(ranges[k]) /\ InRange(ranges[k], v)}
  IN  IF holding = {} THEN 0 ELSE Min(holding)

LevelLogits(ranges, level, v) ==
  [k \in DOMAIN ranges |-> IF k = level THEN Strong
                           ELSE IF HasRange(ranges[k]) THEN -Loss(ranges[k], v, Partial)
                           ELSE -Partial]

LevelsOfValues(ranges, values, levels) ==
  IF Cardinality(levels) # 1 \/ 0 \in levels THEN Unresolved
  ELSE Resolved("numeric_range", LevelLogits(ranges, Min(levels), values[1]))

(* Mutant: the level of the first number. *)
LevelsMeasuredFirst(ranges, numbers) ==
  IF numbers = <<>> THEN Unresolved
  ELSE LevelsOfValues(ranges, <<numbers[1].number.value>>, {LevelOf(ranges, numbers[1].number.value)})

LevelsMeasured(ranges, numbers) ==
  LevelsOfValues(ranges, [k \in DOMAIN numbers |-> numbers[k].number.value],
                 {LevelOf(ranges, numbers[k].number.value) : k \in DOMAIN numbers})

LevelsRanged(view, idx, ranges, found) ==
  IF Len(ranges) < 2 \/ Len(found) < Max({2, Len(ranges) - 1}) THEN Unresolved
  ELSE LevelsMeasured(ranges, Measured(idx, view, LevelKind(found), LevelUnit(found)))

NumericLevels(view, idx) ==
  LevelsRanged(view, idx, RangesOf(view), SelectSeq(RangesOf(view), HasRange))

-----------------------------------------------------------------------------
(* reference_equality: are the values the question cites in the state? *)
AsksMatch == {"match", "matches", "same", "equal", "equals", "correct", "appear", "appears", "contain",
              "contains", "present", "mention", "mentioned", "consistent", "identical", "found"}

ScalarLiterals(v) ==
  LET literals[x \in JsonValues] ==
        CASE x.type = "text" -> {l \in {Literal(x.text)} : Bytes(l) >= 3}
          [] x.type = "number" -> {<<x.number>>}
          [] IsContainer(x) -> UNION {literals[c] : c \in ToSet(Children(x))}
          [] OTHER -> {}
  IN  literals[v]

IsSpecific(lit) == Bytes(lit) >= 4 \/ \E k \in DOMAIN lit : lit[k] \in DOMAIN Spelling

Cited(view) ==
  {l \in UNION {ScalarLiterals(e.value) : e \in ToSet(view.refData)} : IsSpecific(l)}

Present(idx, view, lit) ==
  \E k \in Occurrences(idx.lower, lit) : view.focus = {} \/ InFocusAt(idx, view, k)

Matched(cited, present) ==
  CASE cited = {} -> Unresolved
    [] cited # {} /\ present = cited -> Resolved("reference_equality", <<Sure>>)
    [] cited # {} /\ present = {} -> Resolved("reference_equality", <<-Absent>>)
    [] OTHER -> Unresolved

CitedIn(idx, view, cited) == Matched(cited, {l \in cited : Present(idx, view, l)})

ReferenceEquality(view, idx) ==
  IF \A k \in DOMAIN view.raw : view.raw[k].word \notin AsksMatch THEN Unresolved
  ELSE CitedIn(idx, view, Cited(view))

-----------------------------------------------------------------------------
(* boolean_field: the one boolean field all of whose key words are in the  *)
(* question.                                                               *)
NamedBooleans(idx, view) ==
  {f \in DOMAIN idx.fields :
     /\ idx.fields[f].value.type = "bool"
     /\ LET words == {t \in ToSet(idx.fields[f].keyTerms) : t \notin FunctionWords}
        IN  words # {} /\ words \subseteq view.terms}

BooleanField(view, idx) ==
  LET fields == NamedBooleans(idx, view)
  IN  IF idx.plain \/ Cardinality(fields) # 1 THEN Unresolved
      ELSE Agreed("boolean_field", view, {idx.fields[f].value.bool : f \in fields})

-----------------------------------------------------------------------------
Resolve(view, idx) ==
  CASE view.kind = "choice" -> OrElse(EnumExtraction(view, idx), NumericLevels(view, idx))
    [] view.kind = "score" -> NumericLevels(view, idx)
    [] view.kind = "noul" ->
         OrElse(ReferenceEquality(view, idx),
           OrElse(BooleanField(view, idx),
             OrElse(NumericComparison(view, idx, ParseComparison(view.raw)),
                    DateComparison(view, idx, WordsOf(view.raw)))))

(* window_check of features/extract.rs: does all that has elapsed fit in   *)
(* the shortest window?                                                    *)
Spans(idx, view, role) ==
  {d.days : d \in {s \in ToSet(idx.durations) : s.kind = role /\ InFocus(view, FieldOf(idx, s))}}

SinceDates(idx, view) ==
  {days \in {4800 * (DaysFromEpoch(idx.reference) - DaysFromEpoch(s.date)) :
               s \in {d \in ToSet(idx.dates) : idx.reference # NoDate /\ InFocus(view, FieldOf(idx, d))}} :
     days > 0}

Elapsed(idx, view) == IF Spans(idx, view, "Ago") # {} THEN Spans(idx, view, "Ago") ELSE SinceDates(idx, view)

WindowCheck(idx, view) ==
  CASE Spans(idx, view, "Window") = {} \/ Elapsed(idx, view) = {} -> 0
    [] OTHER -> IF Max(Elapsed(idx, view)) <= Min(Spans(idx, view, "Window")) THEN 1 ELSE -1
=============================================================================
