----------------------------- MODULE Documents -----------------------------
(***************************************************************************)
(* A request as its questions see it: it is validated, its state is        *)
(* flattened and indexed field by field, and each question is first put to *)
(* the resolvers.  crates/core: api/validate.rs, state, question,          *)
(* resolvers, in the order of engine.rs; the questions do not see each     *)
(* other (module Evaluate), so they are taken one by one.                  *)
(***************************************************************************)
EXTENDS Resolvers, Validate

CONSTANT Requests

ChoiceQuestions ==
  [id : Texts, kind : {"choice"}, instructions : JsonValues, criteria : Seq([key : Texts, value : JsonValues])]
OtherQuestions ==
  [id : Texts, kind : {"score", "noul"}, instructions : JsonValues, criteria : Seq(JsonValues)]

ASSUME DocumentsAssumption ==
  Requests \subseteq
    [model : STRING, state : JsonValues, questions : Seq(ChoiceQuestions \cup OtherQuestions)]

VARIABLES
  request,   \* the request
  stage,     \* "posted", "rejected", "indexing", "answering" or "answered"
  verdict,   \* what validation says
  flat,      \* the flat fields of the state
  idx,       \* the index
  views,     \* the questions read so far
  answers    \* what the resolvers say of them

vars == <<request, stage, verdict, flat, idx, views, answers>>

DocumentsInit ==
  /\ request \in Requests
  /\ stage = "posted"
  /\ verdict = NoProblem
  /\ flat = Walked(<<>>, <<>>)
  /\ idx = EmptyIndex
  /\ views = <<>>
  /\ answers = <<>>

Reject ==
  /\ stage = "posted"
  /\ Verdict(request) # NoProblem
  /\ verdict' = Verdict(request)
  /\ stage' = "rejected"
  /\ UNCHANGED <<request, flat, idx, views, answers>>

Accept ==
  /\ stage = "posted"
  /\ Verdict(request) = NoProblem
  /\ flat' = Flattened(request.state)
  /\ idx' = [EmptyIndex EXCEPT !.plain = (request.state.type = "text")]
  /\ stage' = "indexing"
  /\ UNCHANGED <<request, verdict, views, answers>>

AddNextField ==
  /\ stage = "indexing"
  /\ Len(idx.fields) < Len(flat.fields)
  /\ idx' = AddField(idx, flat.fields[Len(idx.fields) + 1])
  /\ UNCHANGED <<request, stage, verdict, flat, views, answers>>

FinishIndex ==
  /\ stage = "indexing"
  /\ Len(idx.fields) = Len(flat.fields)
  /\ idx' = Finish(idx, flat.arrays)
  /\ stage' = "answering"
  /\ UNCHANGED <<request, verdict, flat, views, answers>>

Answered(view) == [resolved |-> Resolve(view, idx), window |-> WindowCheck(idx, view)]

Answer ==
  /\ stage = "answering"
  /\ Len(answers) < Len(request.questions)
  /\ views' = Append(views, View(request.questions[Len(answers) + 1], idx))
  /\ answers' = Append(answers, Answered(View(request.questions[Len(answers) + 1], idx)))
  /\ stage' = IF Len(answers') = Len(request.questions) THEN "answered" ELSE stage
  /\ UNCHANGED <<request, verdict, flat, idx>>

DocumentsNext == Reject \/ Accept \/ AddNextField \/ FinishIndex \/ Answer

DocumentsSpec == DocumentsInit /\ [][DocumentsNext]_vars

-----------------------------------------------------------------------------
Read == stage \in {"answering", "answered"}

DocumentsTypeOK ==
  /\ request \in Requests
  /\ stage \in {"posted", "rejected", "indexing", "answering", "answered"}
  /\ verdict.status \in {0, 404, 413, 422}
  /\ Len(idx.fields) <= Len(flat.fields)
  /\ \A s \in DOMAIN idx.segments : FieldOf(idx, [seg |-> s]) \in DOMAIN idx.fields
  /\ Len(views) = Len(answers)
  /\ \A k \in DOMAIN answers : answers[k].window \in -1 .. 1

(* What validation counts bounds what the walk makes: an accepted state    *)
(* has no more fields than the limit of leaves, and no field lies so deep  *)
(* that its depth (a u8 that saturates) is no longer its depth.            *)
ValidatedWithinLimits ==
  stage \notin {"posted", "rejected"} =>
    /\ Len(flat.fields) <= Limit.leaves
    /\ \A k \in DOMAIN flat.fields : flat.fields[k].depth < DepthLimit

(* No word of a text is lost or read twice: the segments of a text field   *)
(* cover it in order, none longer than the limit, and the tokens of the    *)
(* segments follow one another.                                            *)
SegmentsOf(f) == {s \in DOMAIN idx.segments : idx.segments[s].field = f}
RangesOfField(f) ==
  [s \in {n \in SegmentsOf(f) : idx.segments[n].first <= idx.segments[n].last} |->
     <<idx.segments[s].first, idx.segments[s].last>>]

SegmentsCoverText ==
  Read =>
    /\ \A f \in DOMAIN idx.fields : idx.fields[f].value.type = "text" =>
         CoversText(RangesOfField(f), idx.fields[f].text)
    /\ \A s \in DOMAIN idx.segments :
         idx.segments[s].tokFirst = IF s = 1 THEN 1 ELSE idx.segments[s - 1].tokLast + 1

(* Postings, positions and counts tell the same of every term: a posting   *)
(* per segment that has it, in order, and their sum is its count.          *)
PostingsAgree ==
  Read =>
    /\ DOMAIN idx.postings = DOMAIN idx.globalTf /\ DOMAIN idx.termTokens = DOMAIN idx.globalTf
    /\ \A t \in DOMAIN idx.globalTf :
         LET p == idx.postings[t]
         IN  /\ \A k \in 1 .. Len(p) - 1 : p[k][1] < p[k + 1][1]
             /\ FoldLeft(LAMBDA n, x : n + x[2], 0, p) = idx.globalTf[t]
             /\ \A k \in DOMAIN p : p[k][2] = Cardinality(
                  {n \in ToSet(idx.termTokens[t]) :
                     n \in idx.segments[p[k][1]].tokFirst .. idx.segments[p[k][1]].tokLast})

(* Sentences that address whoever reads the state are no evidence: without *)
(* them the state has the same words, and every Choice by literal options  *)
(* the same answer.                                                        *)
IsDirective(text) ==
  \E k \in DOMAIN Flags(WordsOf(RawTokens(text))) : "DIRECTIVE" \in Flags(WordsOf(RawTokens(text)))[k]

Undirected(text) ==
  FoldLeft(LAMBDA t, r : IF IsDirective(SubSeq(text, r[1], r[2])) THEN t
                         ELSE t \o SubSeq(text, r[1], r[2]) \o <<"\n">>,
           <<>>, SegmentRanges(text))

WithoutDirectives(v) ==
  LET without[x \in JsonValues] ==
        CASE x.type = "text" -> Text(Undirected(x.text))
          [] x.type = "object" ->
               Object([k \in DOMAIN x.entries |-> Entry(x.entries[k].key, without[x.entries[k].value])])
          [] x.type = "array" -> Array([k \in DOMAIN x.items |-> without[x.items[k]]])
          [] OTHER -> x
  IN  without[v]

SameEvidence(other) ==
  /\ idx.globalTf = other.globalTf
  /\ \A k \in DOMAIN answers :
       LET q == request.questions[k]
       IN  EnumExtraction(View(q, idx), idx) = EnumExtraction(View(q, other), other)

DirectivesAddNothing ==
  stage = "answered" => SameEvidence(BuildIndex(WithoutDirectives(request.state)))

(* Both searches by position find the field a place belongs to; searching  *)
(* by field may also find a field without any text that begins there.      *)
OffsetsFindOwner ==
  Read =>
    \A pos \in DOMAIN idx.lower : SegmentAt(idx, pos) # 0 =>
      LET owner == idx.segments[SegmentAt(idx, pos)].field
      IN  /\ owner \in FieldsAt(idx, pos)
          /\ \A f \in FieldsAt(idx, pos) \ {owner} : SegmentsOf(f) = {}

(* A reference to a container is a reference to all that it holds.         *)
UnderPath(path, p) ==
  /\ Len(path) < Len(p) /\ SubSeq(p, 1, Len(path)) = path
  /\ p[Len(path) + 1] \in {"."} \cup ToSet(IndexGlyphs)

PathPrefixes(p) == {SubSeq(p, 1, n) : n \in 1 .. Len(p)}
Paths == UNION {PathPrefixes(idx.fields[f].path) : f \in DOMAIN idx.fields}

ReferenceCoversSubtree ==
  stage = "answered" =>
    \A path \in Paths \ DOMAIN idx.paths :
      {f \in DOMAIN idx.fields : UnderPath(path, idx.fields[f].path)} \subseteq FieldsForPath(idx, path)

(* "Five days ago" is the day five days before today on the calendar.      *)
DayAfter(d) ==
  IF d[3] < DaysInMonth(d[1], d[2]) THEN <<d[1], d[2], d[3] + 1>>
  ELSE IF d[2] < 12 THEN <<d[1], d[2] + 1, 1>> ELSE <<d[1] + 1, 1, 1>>

LaterDay(d, n) == FoldLeft(LAMBDA day, k : DayAfter(day), d, [k \in 1 .. n |-> k])

(* b is n days after a, or a is -n days after b. *)
DaysApart(a, b, n) == IF n >= 0 THEN b = LaterDay(a, n) ELSE a = LaterDay(b, -n)

(* The years that have dates are 1 to 9999. *)
FirstDate == <<1, 1, 1>>
LastDate == <<9999, 12, 31>>
OnCalendar(day) == day \in DaysFromEpoch(FirstDate) .. DaysFromEpoch(LastDate)

RelativeDatesResolved ==
  Read /\ idx.reference # NoDate =>
    \A d \in ToSet(idx.durations) :
      LET n == RoundedDays(d.days)
          today == DaysFromEpoch(idx.reference)
          Told(s) == s.token = d.token /\ s.seg = d.seg
      IN  /\ d.kind = "Later" /\ OnCalendar(today + n) =>
               \E s \in ToSet(idx.dates) : Told(s) /\ DaysApart(idx.reference, s.date, n)
          /\ d.kind = "Ago" /\ OnCalendar(today - n) =>
               \E s \in ToSet(idx.dates) : Told(s) /\ DaysApart(s.date, idx.reference, n)

-----------------------------------------------------------------------------
Fired(k, name) == k \in DOMAIN answers /\ answers[k].resolved.name = name
TopOf(logits) == {k \in DOMAIN logits : \A j \in DOMAIN logits : logits[j] <= logits[k]}

(* A level is picked only if every number that could be meant lies in it:  *)
(* none is ignored, and no other level is as good.                         *)
LevelsHoldTheirNumbers ==
  \A k \in DOMAIN answers : Fired(k, "numeric_range") =>
    LET ranges == RangesOf(views[k])
        found == SelectSeq(ranges, HasRange)
        logits == answers[k].resolved.logits
    IN  \E level \in DOMAIN ranges :
          /\ TopOf(logits) = {level}
          /\ \A n \in ToSet(Measured(idx, views[k], LevelKind(found), LevelUnit(found))) :
               InRange(ranges[level], n.number.value)

(* Questions that are each other's complement never get the same answer:   *)
(* more than and at most, less than and at least.                          *)
Complement == [Gt |-> "Le", Le |-> "Gt", Lt |-> "Ge", Ge |-> "Lt"]

Complementary(a, b) ==
  /\ a.cmp \in DOMAIN Complement /\ b.cmp = Complement[a.cmp]
  /\ a.value = b.value /\ a.kind = b.kind /\ a.unit = b.unit

ComplementsDisagree ==
  \A j, k \in DOMAIN answers :
    /\ Fired(j, "numeric_comparison") /\ Fired(k, "numeric_comparison")
    /\ Complementary(ParseComparison(views[j].raw), ParseComparison(views[k].raw))
    /\ views[j].focus = views[k].focus /\ views[j].negated = views[k].negated
    => answers[j].resolved # answers[k].resolved

-----------------------------------------------------------------------------
(* docs/ALGORITHMS.md, numeric_range: at least two levels parse as numeric *)
(* ranges.                                                                 *)
OwnRange(v) == v.type = "text" /\ HasNumber(RawTokens(LoweredAll(v.text)))

RangesAreWritten ==
  \A k \in DOMAIN answers :
    Fired(k, "numeric_range") /\ request.questions[k].kind = "score" =>
      Cardinality({n \in DOMAIN request.questions[k].criteria :
                     OwnRange(request.questions[k].criteria[n])}) >= 2

(* docs/ALGORITHMS.md: a resolver fires only when the answer is            *)
(* mechanically determined; so "no less than" and "at least", which the    *)
(* code reads as the same comparison, have the same answer.                *)
SameComparisonSameAnswer ==
  \A j, k \in DOMAIN answers :
    /\ Fired(j, "numeric_comparison") /\ Fired(k, "numeric_comparison")
    /\ ParseComparison(views[j].raw) = ParseComparison(views[k].raw)
    /\ views[j].focus = views[k].focus
    => answers[j].resolved = answers[k].resolved
=============================================================================
