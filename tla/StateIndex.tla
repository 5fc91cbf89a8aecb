----------------------------- MODULE StateIndex -----------------------------
(***************************************************************************)
(* The index of a state: StateIndex::build of                              *)
(* crates/core/src/state/index.rs, built once per request and then only    *)
(* read.  Fields, segments and tokens are numbered from 1.                 *)
(*                                                                         *)
(* A term is a stem; texts are normalized already.  The scopes annotate    *)
(* gives (module ScopeAnnotate) come in as an operator.  Norms, character  *)
(* grams, valence, intensity and the lexical graph are left out.           *)
(***************************************************************************)
EXTENDS Segments, Dates, Amounts

BagOf == INSTANCE BagsExt

CONSTANTS
  Kind,          \* the token kind of the glyphs that are no words
  StemOf,        \* the stem of the words that are not their own
  StopWords, FunctionWords,
  Contractions,  \* the words of each contraction
  Flags(_),      \* annotate: the flags of each word of a segment
  TfLimit        \* one more than the largest term frequency (2^16)

ASSUME IndexAssumption ==
  /\ TfLimit \in Nat \ {0}
  /\ \A g \in DOMAIN Contractions : Contractions[g] \in Texts

FalseyWords == {"false", "no", "none", "null", "n/a", "na", "never", "0", "off", "nil", "nope"}

KindOf(g) == IF g \in DOMAIN Kind THEN Kind[g] ELSE "Word"
Stem(w) == IF w \in DOMAIN StemOf THEN StemOf[w] ELSE w
Attrs(w) == {a \in {"STOP", "FUNC"} : \/ a = "STOP" /\ w \in StopWords
                                      \/ a = "FUNC" /\ w \in FunctionWords}

HasContent(kind) == kind \notin {"Punct", "Other"}

(* Mutant: text that addresses the reader is evidence too. *)
IsEvidenceAlways(tok) ==
  HasContent(tok.kind) /\ "FUNC" \notin tok.attrs /\ "CUE" \notin tok.flags

IsEvidence(tok) ==
  /\ HasContent(tok.kind)
  /\ "FUNC" \notin tok.attrs
  /\ tok.flags \cap {"CUE", "DIRECTIVE"} = {}

Positions(s, P) == Chosen([k \in DOMAIN s |-> k], P)

Push(f, k, v) ==
  [x \in DOMAIN f \cup {k} |-> IF x # k THEN f[x]
                               ELSE IF k \in DOMAIN f THEN Append(f[k], v) ELSE <<v>>]

-----------------------------------------------------------------------------
(* tokenize: spaces separate, and a period between digits is in a number.  *)
InDecimal(text, k) ==
  /\ k \in 2 .. Len(text) - 1
  /\ text[k] = "."
  /\ text[k - 1] \in Digits /\ text[k + 1] \in Digits

TokenText(text, k) ==
  IF InDecimal(text, k + 1) THEN text[k] \o text[k + 1] \o text[k + 2] ELSE Lowered(text[k])

(* push_word: a contraction is two words, the first with the capital. *)
PushWord(g, capital) ==
  LET words == IF g \in DOMAIN Contractions THEN Contractions[g] ELSE <<g>>
  IN  [k \in DOMAIN words |-> [word |-> words[k], kind |-> KindOf(words[k]), capital |-> capital /\ k = 1]]

RawTokens(text) ==
  FoldLeft(LAMBDA toks, k :
             IF text[k] \in Spaces \/ InDecimal(text, k) \/ InDecimal(text, k - 1) THEN toks
             ELSE toks \o PushWord(TokenText(text, k), text[k] \in Capitals),
           <<>>, [k \in DOMAIN text |-> k])

WordsOf(raw) == [k \in DOMAIN raw |-> raw[k].word]

KeyTokens(words, falsey, seg) ==
  [k \in DOMAIN words |->
     [term |-> Stem(words[k]), kind |-> "Word", flags |-> IF falsey THEN {"NEGATED"} ELSE {},
      attrs |-> Attrs(words[k]) \cup {"KEY"}, seg |-> seg]]

TextTokens(raw, flags, seg) ==
  [k \in DOMAIN raw |->
     [term |-> Stem(raw[k].word), kind |-> raw[k].kind, flags |-> flags[k],
      attrs |-> Attrs(raw[k].word) \cup (IF raw[k].capital THEN {"CAP"} ELSE {}), seg |-> seg]]

-----------------------------------------------------------------------------
(* What a segment tells of time.  Units are in half hours, 48 to the day. *)
UnitOf(w) ==
  CASE w \in {"day", "days"} -> 48
    [] w \in {"week", "weeks", "wk", "wks"} -> 336
    [] w \in {"month", "months", "mo", "mos"} -> 1461
    [] w \in {"year", "years", "yr", "yrs"} -> 17532
    [] w \in {"hour", "hours", "hr", "hrs"} -> 2
    [] OTHER -> 0

RoundedDays(n) == (n + 2400) \div 4800

WindowBefore == {"within", "for", "up", "last", "past", "next", "every", "after", "exceeding", "over"}
WindowAfter == {"window", "period", "limit", "deadline", "term", "notice"}

Role(words, i) ==
  LET after == WordOr(words, i + 2)
  IN  IF after \in {"ago", "earlier", "before", "prior"} THEN "Ago"
      ELSE IF \/ after = "from" /\ WordOr(words, i + 3) = "now"
              \/ after \in {"later", "hence"}
              \/ WordOr(words, i - 1) = "in" THEN "Later"
      ELSE IF \/ \E k \in i - 3 .. i - 1 : WordOr(words, k) \in WindowBefore
              \/ after \in WindowAfter THEN "Window"
      ELSE "Plain"

Durations(raw, words, at, seg) ==
  LET value(k) == IF raw[k].kind \in {"Number", "Word"} THEN ParseNumber(words[k], raw[k].kind)
                  ELSE NoNumber
      spans == Positions(words, {k \in DOMAIN words :
                                   value(k) # NoNumber /\ UnitOf(WordOr(words, k + 1)) > 0})
  IN  [n \in DOMAIN spans |->
         [token |-> at + spans[n], seg |-> seg, kind |-> Role(words, spans[n]),
          days |-> value(spans[n]).value * UnitOf(words[spans[n] + 1])]]

DateSpan(token, seg, date) == [token |-> token, seg |-> seg, date |-> date]

(* Written dates: a month name, or digits and then a month name.           *)
WrittenAt(words, i) ==
  IF MonthAt(words, i) > 0 \/ words[i] \in Digits THEN ParseTextualDate(words, i, 2000) ELSE NoParse

TextualDates(words, at, seg) ==
  FoldLeft(LAMBDA s, i :
             IF i < s.next \/ WrittenAt(words, i) = NoParse THEN s
             ELSE [spans |-> Append(s.spans, DateSpan(at + i, seg, WrittenAt(words, i).date)),
                   next |-> i + WrittenAt(words, i).length],
           [spans |-> <<>>, next |-> 1], [i \in DOMAIN words |-> i]).spans

DateTokens(raw, at, seg) ==
  LET spans == Positions(raw, {k \in DOMAIN raw :
                                 raw[k].kind = "Date" /\ ParseDateToken(raw[k].word) # NoDate})
  IN  [n \in DOMAIN spans |-> DateSpan(at + spans[n], seg, ParseDateToken(raw[spans[n]].word))]

(* Is the date at word k said to be today's? *)
SaysToday(words, k, keyWords) ==
  LET w(j) == WordOr(words, k - j)
      before(j) == <<w(j), w(j - 1)>>
  IN  \/ \E j \in 2 .. 4 : \/ w(j) = "today" /\ w(j - 1) \in {"is", ":"}
                           \/ before(j) \in {<<"as", "of">>, <<"current", "date">>, <<"todays", "date">>}
      \/ w(1) = "today"
      \/ before(2) = <<"date", ":">>
      \/ ToSet(keyWords) \cap {"today", "now", "current_date", "as_of", "date"} # {}

(* The last date of the first segment that says so. *)
Reference(known, dates, words, at, keyWords) ==
  LET said == {k \in DOMAIN dates : SaysToday(words, dates[k].token - at, keyWords)}
  IN  IF known # NoDate \/ said = {} THEN known ELSE dates[Max(said)].date

-----------------------------------------------------------------------------
Numerals(raw, at, seg) ==
  LET spans == Positions(raw, {k \in DOMAIN raw : ParseNumber(raw[k].word, raw[k].kind) # NoNumber})
  IN  [n \in DOMAIN spans |->
         [token |-> at + spans[n], seg |-> seg, fromWord |-> raw[spans[n]].kind = "Word",
          number |-> ParseNumber(raw[spans[n]].word, raw[spans[n]].kind)]]

(* Pairs of evidence words that follow one another within three tokens.    *)
Bigrams(toks) ==
  LET evidence == Positions(toks, {k \in DOMAIN toks : IsEvidence(toks[k])})
      near == SelectSeq([n \in 1 .. Max({1, Len(evidence)}) - 1 |-> n],
                        LAMBDA n : evidence[n + 1] - evidence[n] <= 3)
  IN  [n \in DOMAIN near |-> <<toks[evidence[near[n]]].term, toks[evidence[near[n] + 1]].term>>]

TermCounts(toks) ==
  [t \in {toks[k].term : k \in {j \in DOMAIN toks : IsEvidence(toks[j])}} |->
     Cardinality({k \in DOMAIN toks : IsEvidence(toks[k]) /\ toks[k].term = t}) % TfLimit]

(* Mutant: the counts of a segment replace those of the segments before it. *)
GlobalCountsLast(global, tf) == tf @@ global

GlobalCounts(global, tf) ==
  [t \in DOMAIN global \cup DOMAIN tf |->
     (IF t \in DOMAIN global THEN global[t] ELSE 0) + (IF t \in DOMAIN tf THEN tf[t] ELSE 0)]

LowerText(keyWords, text) ==
  (IF keyWords = <<>> THEN <<>>
   ELSE FoldLeft(LAMBDA t, w : IF t = <<>> THEN <<w>> ELSE t \o <<" ", w>>, <<>>, keyWords) \o <<":", " ">>)
  \o LoweredAll(text)

(* The counts, postings and positions of a segment's tokens. *)
WithTokens(idx, seg, toks, tf) ==
  [idx EXCEPT
     !.tokens = @ \o toks,
     !.termTokens = FoldLeft(LAMBDA f, k : IF IsEvidence(toks[k])
                                           THEN Push(f, toks[k].term, Len(idx.tokens) + k) ELSE f,
                             @, [k \in DOMAIN toks |-> k]),
     !.directiveTokens = FoldLeft(LAMBDA b, tok :
                               IF /\ "DIRECTIVE" \in tok.flags
                                  /\ HasContent(tok.kind) /\ "FUNC" \notin tok.attrs
                               THEN BagOf!BagAdd(b, tok.term) ELSE b, @, toks),
     !.postings = FoldLeft(LAMBDA p, t : Push(p, t, <<seg, tf[t]>>), @, SetToSeq(DOMAIN tf)),
     !.globalTf = GlobalCounts(@, tf)]

(* What the words of a segment say of numbers and time. *)
WithFacts(idx, seg, raw, words, at, keyWords, dates) ==
  [idx EXCEPT
     !.numbers = @ \o Numerals(raw, at, seg),
     !.dates = @ \o dates,
     !.durations = @ \o Durations(raw, words, at, seg),
     !.reference = Reference(@, dates, words, at, keyWords)]

Segment(idx, field, range, keyWords, toks, lower) ==
  [field |-> field, first |-> range[1], last |-> range[2],
   tokFirst |-> Len(idx.tokens) + 1, tokLast |-> Len(idx.tokens) + Len(toks),
   flags |-> UNION {toks[k].flags : k \in DOMAIN toks},
   tf |-> TermCounts(toks),
   lowerFirst |-> Len(idx.lower) + 1, lowerLast |-> Len(idx.lower) + Len(lower)]

WithSegment(idx, segment, lower, pairs) ==
  [idx EXCEPT
     !.segments = Append(@, segment),
     !.lower = @ \o lower \o <<"\n">>,
     !.bigrams = FoldLeft(LAMBDA b, p : BagOf!BagAdd(b, p), @, pairs)]

SegmentRead(idx, seg, field, range, keyWords, keyToks, textToks, raw, lower) ==
  WithTokens(
    WithFacts(
      WithSegment(idx, Segment(idx, field, range, keyWords, keyToks \o textToks, lower),
                  lower, Bigrams(textToks)),
      seg, raw, WordsOf(raw), Len(idx.tokens) + Len(keyToks), keyWords,
      DateTokens(raw, Len(idx.tokens) + Len(keyToks), seg)
        \o TextualDates(WordsOf(raw), Len(idx.tokens) + Len(keyToks), seg)),
    seg, keyToks \o textToks, TermCounts(keyToks \o textToks))

(* push_segment: the key words first, then the tokens of the text. *)
PushSegment(idx, field, range, keyWords, text, raw, falsey) ==
  SegmentRead(idx, Len(idx.segments) + 1, field, range, keyWords,
              KeyTokens(keyWords, falsey, Len(idx.segments) + 1),
              TextTokens(raw, Flags(WordsOf(raw)), Len(idx.segments) + 1),
              raw, LowerText(keyWords, text))

-----------------------------------------------------------------------------
FieldText(v) ==
  CASE v.type = "text" -> v.text
    [] v.type = "number" -> <<v.number>>
    [] v.type = "bool" -> <<IF v.bool THEN "true" ELSE "false">>
    [] v.type = "null" -> <<"null">>

Falsey(v) ==
  CASE v.type = "bool" -> ~v.bool
    [] v.type = "null" -> TRUE
    [] v.type = "number" -> NumericCore[v.number] = 0
    [] v.type = "text" ->
         \E w \in FalseyWords : SelectSeq(LoweredAll(v.text), LAMBDA g : g \notin Spaces) = <<w>>

FieldKeyWords(f) ==
  IF KeyWords(f.key) # <<>> THEN KeyWords(f.key) ELSE KeyWords(LastComponent(f.path))

Field(f, text, segFirst, segLast) ==
  [path |-> f.path, key |-> f.key, keyTerms |-> [k \in DOMAIN PathWords(f.path) |-> Stem(PathWords(f.path)[k])],
   value |-> f.value, text |-> text, depth |-> f.depth, segFirst |-> segFirst, segLast |-> segLast]

(* The first segment takes the key words; a field without text is visible  *)
(* by its key alone.                                                       *)
Pieces(f, text, ranges) ==
  IF ranges # <<>>
  THEN [n \in DOMAIN ranges |->
          [range |-> ranges[n], keys |-> IF n = 1 THEN FieldKeyWords(f) ELSE <<>>,
           text |-> SubSeq(text, ranges[n][1], ranges[n][2])]]
  ELSE IF FieldKeyWords(f) = <<>> THEN <<>>
  ELSE <<[range |-> <<1, 0>>, keys |-> FieldKeyWords(f), text |-> <<>>]>>

PushSegments(idx, field, pieces, falsey) ==
  FoldLeft(LAMBDA acc, p : PushSegment(acc, field, p.range, p.keys, p.text, RawTokens(p.text), falsey),
           idx, pieces)

FieldAdded(before, idx, field, f, text) ==
  [idx EXCEPT
     !.offsets = Append(@, Len(before.lower) + 1),
     !.paths = [p \in DOMAIN @ \cup {f.path} |-> IF p = f.path THEN field ELSE @[p]],
     !.keys = FoldLeft(LAMBDA acc, w : Push(acc, Stem(w), field), @, PathWords(f.path)),
     !.fields = Append(@, Field(f, text, Len(before.segments) + 1, Len(idx.segments)))]

(* Mutant: a segment belongs to the field of its own number. *)
AddFieldBySegment(idx, f) ==
  FieldAdded(idx,
             PushSegments(idx, Len(idx.segments) + 1,
                          Pieces(f, FieldText(f.value),
                                 IF f.value.type = "text" THEN SegmentRanges(f.value.text)
                                 ELSE <<<<1, Len(FieldText(f.value))>>>>),
                          Falsey(f.value)),
             Len(idx.fields) + 1, f, FieldText(f.value))

AddField(idx, f) ==
  FieldAdded(idx,
             PushSegments(idx, Len(idx.fields) + 1,
                          Pieces(f, FieldText(f.value),
                                 IF f.value.type = "text" THEN SegmentRanges(f.value.text)
                                 ELSE <<<<1, Len(FieldText(f.value))>>>>),
                          Falsey(f.value)),
             Len(idx.fields) + 1, f, FieldText(f.value))

EmptyIndex ==
  [fields |-> <<>>, segments |-> <<>>, tokens |-> <<>>, postings |-> <<>>, globalTf |-> <<>>,
   termTokens |-> <<>>, directiveTokens |-> EmptyBag, bigrams |-> EmptyBag, numbers |-> <<>>,
   dates |-> <<>>, durations |-> <<>>, reference |-> NoDate, paths |-> <<>>, keys |-> <<>>,
   lower |-> <<>>, offsets |-> <<>>, arrays |-> <<>>, plain |-> FALSE]

Moved(d) == IF d.kind = "Ago" THEN -RoundedDays(d.days) ELSE RoundedDays(d.days)

(* finish: durations become dates once today's date is known. *)
DayOf(idx, d) == FromDays(DaysFromEpoch(idx.reference) + Moved(d))

RelativeDates(idx) ==
  LET told == Chosen(idx.durations,
                     {n \in DOMAIN idx.durations :
                        idx.durations[n].kind \in {"Ago", "Later"} /\ DayOf(idx, idx.durations[n]) # NoDate})
  IN  [n \in DOMAIN told |-> DateSpan(told[n].token, told[n].seg, DayOf(idx, told[n]))]

Finish(idx, arrays) ==
  [idx EXCEPT
     !.arrays = [k \in DOMAIN arrays |->
                   [path |-> arrays[k].path, length |-> arrays[k].length,
                    keyTerms |-> [n \in DOMAIN KeyWords(arrays[k].key) |->
                                    Stem(KeyWords(arrays[k].key)[n])]]],
     !.dates = IF idx.reference = NoDate THEN @ ELSE @ \o RelativeDates(idx)]

Build(flat, plain) == [Finish(FoldLeft(AddField, EmptyIndex, flat.fields), flat.arrays) EXCEPT !.plain = plain]
BuildIndex(state) == Build(Flattened(state), state.type = "text")

-----------------------------------------------------------------------------
(* Lookups.  A binary search may return any of equal offsets: those of     *)
(* fields without segment and that of the field after them.                *)
SegmentAt(idx, pos) ==
  LET at == {s \in DOMAIN idx.segments :
               pos \in idx.segments[s].lowerFirst .. idx.segments[s].lowerLast}
  IN  IF at = {} THEN 0 ELSE Max(at)

(* Mutant: a place between two fields is said to be in the later one.      *)
FieldsAtNext(idx, pos) == {Min({Len(idx.offsets)} \cup {f \in DOMAIN idx.offsets : idx.offsets[f] >= pos})}

FieldsAt(idx, pos) ==
  LET here == {f \in DOMAIN idx.offsets : idx.offsets[f] = pos}
  IN  IF here # {} THEN here ELSE {Max({1} \cup {f \in DOMAIN idx.offsets : idx.offsets[f] < pos})}

(* Mutant: a path goes on only after a dot. *)
WithinDotted(path, p) ==
  \E k \in 0 .. Len(p) - Len(path) :
    /\ SubSeq(p, k + 1, k + Len(path)) = path
    /\ k > 0 => p[k] = "."
    /\ k + Len(path) < Len(p) => p[k + Len(path) + 1] = "."

(* path stands in p as whole components. *)
Within(path, p) ==
  \E k \in 0 .. Len(p) - Len(path) :
    /\ SubSeq(p, k + 1, k + Len(path)) = path
    /\ k > 0 => p[k] = "."
    /\ k + Len(path) < Len(p) => p[k + Len(path) + 1] \in {"."} \cup ToSet(IndexGlyphs)

FieldsForPath(idx, path) ==
  IF path = <<>> THEN {}
  ELSE IF path \in DOMAIN idx.paths THEN {idx.paths[path]}
  ELSE {f \in DOMAIN idx.fields : Within(LoweredAll(path), LoweredAll(idx.fields[f].path))}
=============================================================================
