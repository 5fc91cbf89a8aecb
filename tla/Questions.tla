----------------------------- MODULE Questions -----------------------------
(***************************************************************************)
(* What the resolvers see of a question: crates/core/src/question, its     *)
(* analysis.rs and the literals and ranges of criteria.rs.  Its weighted   *)
(* terms are in the module Criteria.                                       *)
(*                                                                         *)
(* A question is [id, kind, instructions, criteria]; a criterion an entry  *)
(* of a name and a JSON value for a Choice, else a JSON value of text.     *)
(***************************************************************************)
EXTENDS Ranges

CONSTANTS
  QuestionKeys,    \* QUESTION_KEYS
  QuestionOpeners  \* WH_WORDS, AUX_VERBS and the verbs of looks_like_question

NothingSaid == [question |-> <<>>, context |-> <<>>, data |-> <<>>]
Both(a, b) == [f \in DOMAIN a |-> a[f] \o b[f]]

LooksLikeQuestion(text) ==
  LET t == SelectSeq(LoweredAll(text), LAMBDA g : g \notin Spaces)
  IN  t # <<>> /\ (t[Len(t)] = "?" \/ t[1] \in QuestionOpeners)

Scalar(v) ==
  CASE v.type = "number" -> <<v.number>>
    [] v.type = "bool" -> <<IF v.bool THEN "true" ELSE "false">>
    [] v.type = "null" -> <<"null">>
    [] OTHER -> v.text

(* collect_strings: the texts of a structured value. *)
Strings(v) ==
  LET strings[x \in JsonValues] ==
        IF IsContainer(x) THEN FoldLeft(LAMBDA s, c : s \o strings[c], <<>>, Children(x))
        ELSE IF x = Null THEN <<>> ELSE <<Scalar(x)>>
  IN  strings[v]

IsQuestionKey(key) ==
  LoweredAll(key) \in {<<k>> : k \in QuestionKeys} \/ ToSet(KeyWords(key)) \cap QuestionKeys # {}

Datum(e) ==
  [NothingSaid EXCEPT !.context = IF IsContainer(e.value) THEN Strings(e.value) ELSE <<Scalar(e.value)>>,
                      !.data = <<e>>]

(* flatten_instructions: what is asked, and data to ask it about. *)
Asks(e) ==
  \/ e.value.type = "text" /\ (IsQuestionKey(e.key) \/ LooksLikeQuestion(e.value.text))
  \/ e.value.type = "array" /\ IsQuestionKey(e.key)

Instructions(v) ==
  LET said[x \in JsonValues] ==
        CASE x.type = "text" -> [NothingSaid EXCEPT !.question = <<x.text>>]
          [] x.type = "array" -> FoldLeft(LAMBDA s, c : Both(s, said[c]), NothingSaid, x.items)
          [] x.type = "object" ->
               FoldLeft(LAMBDA s, e : Both(s, IF Asks(e) THEN said[e.value] ELSE Datum(e)),
                        NothingSaid, x.entries)
          [] OTHER -> NothingSaid
  IN  said[v]

JoinTexts(texts) ==
  FoldLeft(LAMBDA t, x : IF t = <<>> THEN x ELSE t \o <<" ">> \o x, <<>>, texts)

-----------------------------------------------------------------------------
Trimmed(text, S) ==
  LET kept == {k \in DOMAIN text : text[k] \notin S}
  IN  IF kept = {} THEN <<>> ELSE SubSeq(text, Min(kept), Max(kept))

(* Names between backticks, the glyph "tick". *)
Names(text) ==
  LET names[from \in 1 .. Len(text) + 1] ==
        LET marks == {k \in from .. Len(text) : text[k] = "tick"}
            open == Min(marks)
            close == Min(marks \ {open})
        IN  IF Cardinality(marks) < 2 THEN {}
            ELSE IF close = open + 1 THEN names[close]
            ELSE {Trimmed(SubSeq(text, open + 1, close - 1), Spaces)} \cup names[close + 1]
  IN  names[1]

(* The data of the instructions that their text names. *)
ReferredData(said, names) ==
  SelectSeq(said.data, LAMBDA e :
    e.key \in names /\ e = SelectSeq(said.data, LAMBDA d : d.key = e.key)[1])

-----------------------------------------------------------------------------
(* normalize_literal: no mark at either end, and one space for separators. *)
Spaced(text) ==
  LET t == [k \in DOMAIN text |-> IF text[k] \in Spaces \cup {"_", "-"} THEN " " ELSE text[k]]
      kept == Positions(t, {k \in DOMAIN t : t[k] # " " \/ (k > 1 /\ t[k - 1] # " ")})
  IN  [n \in DOMAIN kept |-> t[kept[n]]]

Literal(text) ==
  Trimmed(Spaced(Trimmed(Trimmed(LoweredAll(text), Spaces), {"\"", "'", ".", ",", ";"})), {" "})

LiteralLike(v) ==
  v = Null \/ (v.type = "text" /\ Len(SelectSeq(v.text, LAMBDA g : g \notin Spaces)) <= 3)

ShortText(v) == v.type = "text" /\ Len(SelectSeq(v.text, LAMBDA g : g \notin Spaces)) \in 1 .. 6

HasNumber(raw) == Numerals(raw, 0, 0) # <<>>
RangeOrElse(own, ofName) == IF own # NoRange THEN own ELSE ofName

Criterion(e, named) ==
  [literals |-> SelectSeq(<<IF named THEN Literal(e.key) ELSE <<>>>>
                          \o <<IF ShortText(e.value) THEN Literal(e.value.text) ELSE <<>>>>,
                          LAMBDA l : l # <<>>),
   range |-> RangeOrElse(ParseRange(IF e.value.type = "text" THEN RawTokens(LoweredAll(e.value.text)) ELSE <<>>),
                         ParseRange(RawTokens(Literal(e.key))))]

(* Levels have their number for a name, and the hypotheses of a Noul their *)
(* truth.                                                                  *)
LevelNames == <<"0", "1", "2", "3", "4", "5", "6", "7", "8", "9">>

Named(q, k) ==
  CASE q.kind = "choice" -> q.criteria[k]
    [] q.kind = "score" -> Entry(<<LevelNames[k]>>, q.criteria[k])
    [] q.kind = "noul" -> Entry(<<IF k = 1 THEN "true" ELSE "false">>, q.criteria[k])

(* A negated content word makes the question a negated one. *)
QuestionNegated(raw, flags) ==
  \E k \in DOMAIN raw :
    "NEGATED" \in flags[k] /\ HasContent(raw[k].kind) /\ raw[k].word \notin FunctionWords

QuestionTerms(raw, flags) ==
  {Stem(raw[k].word) : k \in {j \in DOMAIN raw :
     /\ HasContent(raw[j].kind)
     /\ raw[j].word \notin FunctionWords \cup StopWords
     /\ "CUE" \notin flags[j]}}

Viewed(q, idx, said, names, raw, rawContext) ==
  [kind |-> q.kind, raw |-> raw,
   focus |-> UNION {FieldsForPath(idx, n) : n \in names},
   refData |-> ReferredData(said, names),
   terms |-> QuestionTerms(raw, Flags(WordsOf(raw)))
             \cup QuestionTerms(rawContext, Flags(WordsOf(rawContext))),
   negated |-> QuestionNegated(raw, Flags(WordsOf(raw))),
   literal |-> q.kind = "choice" /\ \A k \in DOMAIN q.criteria : LiteralLike(q.criteria[k].value),
   criteria |-> [k \in DOMAIN q.criteria |-> Criterion(Named(q, k), q.kind = "choice")]]

ViewSaid(q, idx, said) ==
  Viewed(q, idx, said,
         Names(JoinTexts(said.question) \o <<" ">> \o JoinTexts(said.context)),
         RawTokens(LoweredAll(JoinTexts(said.question))),
         RawTokens(LoweredAll(JoinTexts(said.context))))

View(q, idx) == ViewSaid(q, idx, Instructions(q.instructions))
=============================================================================
