--------------------------- MODULE ScopeAnnotate ---------------------------
(***************************************************************************)
(* annotate of crates/core/src/text/negation.rs: one pass over the tokens  *)
(* of a segment.  Cues open scopes; a scope flags the tokens after it      *)
(* until its window of content tokens is used up or the clause ends.       *)
(***************************************************************************)
EXTENDS Directive

CONSTANTS
  Texts,             \* the segments to annotate
  FunctionWords,     \* is_function_word
  Terminators,       \* CLAUSE_TERMINATORS
  HardCues,          \* HARD_CUES
  Negators,          \* NEGATORS
  NegatorBigrams,    \* NEGATOR_BIGRAMS, NON_NEGATING, ...: pairs of words
  NonNegating,
  Exceptions,
  Requests,
  RequestBigrams,
  InquiryBigrams,
  Hypotheticals,
  Intensifiers,
  Diminishers,
  QuestionOpeners,   \* WH_WORDS and AUX_VERBS
  NegWindow, HypWindow, ReqWindow, ExcWindow, DegreeWindow

Degrees == {"INTENSIFIED", "DIMINISHED"}
ScopeFlags == {"NEGATED", "HYPOTHETICAL", "REQUEST", "EXCEPTION"} \cup Degrees
SegmentFlags == {"DIRECTIVE", "INTERROGATIVE"}
Flags == ScopeFlags \cup SegmentFlags \cup {"CUE"}

Window == [f \in ScopeFlags |->
  CASE f = "NEGATED"      -> NegWindow
    [] f = "HYPOTHETICAL" -> HypWindow
    [] f = "REQUEST"      -> ReqWindow
    [] f = "EXCEPTION"    -> ExcWindow
    [] f \in Degrees      -> DegreeWindow]

(* No phrase of the lists ends in a terminator, so reading one in a single *)
(* step never runs over the end of a clause; no token is empty, so it      *)
(* never runs over the end of the segment.                                 *)
ASSUME ScopeAssumption ==
  /\ {NegWindow, HypWindow, ReqWindow, ExcWindow, DegreeWindow} \subseteq Nat \ {0}
  /\ Terminators \subseteq Words
  /\ Negators \cup Exceptions \cup Requests \cup Hypotheticals \subseteq Words
  /\ Intensifiers \cup Diminishers \subseteq Words
  /\ NegatorBigrams \cup NonNegating \cup RequestBigrams \cup InquiryBigrams
       \subseteq Words \X (Words \ (Terminators \cup ClauseMarks))
  /\ {"to", "for", "from"} \cap (Terminators \cup ClauseMarks) = {}
  /\ "" \notin Tokens
  /\ Texts \subseteq Seq(Tokens)

VARIABLES
  tokens,   \* the segment
  i,        \* the next token
  flags,    \* the flags given so far, by token
  scopes,   \* content tokens each scope has left, 0 when it is closed
  met       \* history: the cue phrases met, as records

vars == <<tokens, i, flags, scopes, met>>

-----------------------------------------------------------------------------
EndsClause(t) == t \in ClauseMarks \cup Terminators
HasContent(t) == t \in Words \cup Values
Content(t) == HasContent(t) /\ t \notin FunctionWords

Interrogative(ts) ==
  \/ ts[Len(ts)] = "?"
  \/ WordAt(WordsOf(ts), 1) \in QuestionOpeners /\ \A k \in DOMAIN ts : ts[k] # "."

OfSegment(ts) ==
  {f \in SegmentFlags : \/ f = "DIRECTIVE" /\ IsDirective(ts)
                        \/ f = "INTERROGATIVE" /\ Interrogative(ts)}

Closed == [f \in ScopeFlags |-> 0]

(* Scopes::apply: what a token is given, and what is left after it.        *)
Given(sc, content) == {f \in ScopeFlags : sc[f] > 0 /\ (content \/ f \notin Degrees)}

(* Mutant: a window goes on counting when its scope is closed. *)
UsedBelowZero(sc, content) ==
  [f \in ScopeFlags |-> IF content THEN sc[f] - 1 ELSE sc[f]]

Used(sc, content) ==
  [f \in ScopeFlags |-> IF content /\ sc[f] > 0 THEN sc[f] - 1 ELSE sc[f]]

Phrase(kind, length) == [kind |-> kind, length |-> length]

(* The cue phrase a word and its next one begin, bigrams first.            *)
PhraseAt(w, next) ==
  IF <<w, next>> \in NonNegating    THEN Phrase("Idiom", 2)
  ELSE IF <<w, next>> \in NegatorBigrams THEN Phrase("Negator", 2)
  ELSE IF w \in Negators            THEN Phrase("Negator", IF next = "to" THEN 2 ELSE 1)
  ELSE IF w \in Exceptions          THEN Phrase("Exception", IF next \in {"for", "from"} THEN 2 ELSE 1)
  ELSE IF <<w, next>> \in RequestBigrams THEN Phrase("Request", 2)
  ELSE IF <<w, next>> \in InquiryBigrams THEN Phrase("Inquiry", 2)
  ELSE IF w \in Requests            THEN Phrase("Request", 1)
  ELSE IF w \in Hypotheticals       THEN Phrase("Hypothetical", 1)
  ELSE IF w \in Intensifiers        THEN Phrase("Intensifier", 1)
  ELSE IF w \in Diminishers         THEN Phrase("Diminisher", 1)
  ELSE Phrase("None", 1)

Here == PhraseAt(tokens[i], WordAt(tokens, i + 1))

(* Mutant: a negator inside a negation scope opens one again. *)
OpenedWithoutToggle(kind, sc) ==
  CASE kind = "Negator" -> [sc EXCEPT !["NEGATED"] = NegWindow]
    [] kind = "Exception" -> [sc EXCEPT !["EXCEPTION"] = ExcWindow]
    [] OTHER -> sc

(* Mutant: a request leaves the hypothesis before it open. *)
OpenedKeepingHypothesis(kind, sc) ==
  CASE kind = "Request" -> [sc EXCEPT !["REQUEST"] = ReqWindow]
    [] kind \in {"Inquiry", "Hypothetical"} -> [sc EXCEPT !["HYPOTHETICAL"] = HypWindow]
    [] OTHER -> sc

(* What a phrase does to the scopes, after its own words took theirs. *)
Opened(kind, sc) ==
  CASE kind = "Idiom" -> sc
    [] kind = "Negator" -> [sc EXCEPT !["NEGATED"] = IF @ > 0 THEN 0 ELSE NegWindow]
    [] kind = "Exception" -> [sc EXCEPT !["EXCEPTION"] = ExcWindow]
    [] kind = "Request" -> [sc EXCEPT !["REQUEST"] = ReqWindow, !["HYPOTHETICAL"] = 0]
    [] kind \in {"Inquiry", "Hypothetical"} -> [sc EXCEPT !["HYPOTHETICAL"] = HypWindow]
    [] kind = "Intensifier" ->
         [sc EXCEPT !["INTENSIFIED"] = DegreeWindow, !["DIMINISHED"] = 0]
    [] kind = "Diminisher" ->
         [sc EXCEPT !["DIMINISHED"] = DegreeWindow, !["INTENSIFIED"] = 0]

OpenedBy(kind) ==
  CASE kind = "Idiom" -> {}
    [] kind = "Negator" -> {"NEGATED"}
    [] kind = "Exception" -> {"EXCEPTION"}
    [] kind = "Request" -> {"REQUEST"}
    [] kind \in {"Inquiry", "Hypothetical"} -> {"HYPOTHETICAL"}
    [] kind = "Intensifier" -> {"INTENSIFIED"}
    [] kind = "Diminisher" -> {"DIMINISHED"}

Meet(kind, length) ==
  met' = met \cup {[kind |-> kind, first |-> i, last |-> i + length - 1]}

-----------------------------------------------------------------------------
ScopeInit ==
  /\ tokens \in Texts
  /\ i = 1
  /\ flags = [k \in DOMAIN tokens |-> OfSegment(tokens)]
  /\ scopes = Closed
  /\ met = {}

More == i <= Len(tokens)

(* Mutant: only an exception word closes the scopes. *)
EndClauseLeavingScopes ==
  /\ More
  /\ EndsClause(tokens[i])
  /\ flags' = [flags EXCEPT ![i] = @ \cup (IF tokens[i] \in Terminators THEN {"CUE"} ELSE {})]
  /\ i' = i + 1
  /\ UNCHANGED <<tokens, scopes, met>>

(* A terminator closes every scope; an exception word among them opens its *)
(* own again.                                                              *)
EndClause ==
  /\ More
  /\ EndsClause(tokens[i])
  /\ flags' = [flags EXCEPT ![i] = @ \cup (IF tokens[i] \in Terminators THEN {"CUE"} ELSE {})]
  /\ \/ /\ tokens[i] \in Exceptions
        /\ scopes' = Opened("Exception", Closed)
        /\ Meet("Exception", 1)
     \/ /\ tokens[i] \notin Exceptions
        /\ scopes' = Closed
        /\ UNCHANGED met
  /\ i' = i + 1
  /\ UNCHANGED tokens

(* A token that begins no cue phrase is given the open scopes. *)
Plain ==
  /\ More
  /\ ~EndsClause(tokens[i])
  /\ Here.kind = "None"
  /\ LET content == Content(tokens[i])
     IN  /\ flags' = [flags EXCEPT ![i] = @ \cup Given(scopes, content)]
         /\ scopes' = Used(scopes, content)
  /\ i' = i + 1
  /\ UNCHANGED <<tokens, met>>

(* Hard cues are no evidence; soft ones are given the scopes open before.  *)
Hard(w, kind) == w \in HardCues \/ kind = "Idiom"
CueGiven(hard, sc, content) == IF hard THEN {"CUE"} ELSE Given(sc, content)
CueUsed(hard, sc, content) == IF hard THEN sc ELSE Used(sc, content)

CueWord ==
  /\ More
  /\ ~EndsClause(tokens[i])
  /\ Here.kind # "None"
  /\ Here.length = 1
  /\ LET w == tokens[i]
         hard == Hard(w, Here.kind)
     IN  /\ flags' = [flags EXCEPT ![i] = @ \cup CueGiven(hard, scopes, Content(w))]
         /\ scopes' = Opened(Here.kind, CueUsed(hard, scopes, Content(w)))
  /\ Meet(Here.kind, 1)
  /\ i' = i + 1
  /\ UNCHANGED tokens

CuePhrase ==
  /\ More
  /\ ~EndsClause(tokens[i])
  /\ Here.kind # "None"
  /\ Here.length = 2
  /\ LET w == tokens[i]
         v == tokens[i + 1]
         hard == Hard(w, Here.kind)
         hard2 == Hard(v, Here.kind) \/ v \in FunctionWords
         between == CueUsed(hard, scopes, Content(w))
     IN  /\ flags' = [flags EXCEPT
              ![i] = @ \cup CueGiven(hard, scopes, Content(w)),
              ![i + 1] = @ \cup CueGiven(hard2, between, HasContent(v))]
         /\ scopes' = Opened(Here.kind, CueUsed(hard2, between, HasContent(v)))
  /\ Meet(Here.kind, 2)
  /\ i' = i + 2
  /\ UNCHANGED tokens

ScopeNext == EndClause \/ Plain \/ CueWord \/ CuePhrase
ScopeSpec == ScopeInit /\ [][ScopeNext]_vars

-----------------------------------------------------------------------------
(* Types: no index runs past the segment, no window below zero. *)
ScopeTypeOK ==
  /\ tokens \in Seq(Tokens)
  /\ i \in 1 .. Len(tokens) + 1
  /\ flags \in [DOMAIN tokens -> SUBSET Flags]
  /\ \A f \in ScopeFlags : scopes[f] \in 0 .. Window[f]
  /\ \A c \in met : c.first \in 1 .. c.last /\ c.last < i

(* The tokens from j up to k that use up the window of an open scope. *)
UsedBetween(j, k) ==
  {n \in DOMAIN tokens : j <= n /\ n <= k /\ Content(tokens[n]) /\ "CUE" \notin flags[n]}

SameClause(j, k) == \A n \in DOMAIN tokens : j <= n /\ n <= k => ~EndsClause(tokens[n])

(* A scope of flag f opened at phrase c reaches token k. *)
Reaches(c, f, k) ==
  /\ f \in OpenedBy(c.kind)
  /\ c.last < k
  /\ SameClause(c.last + 1, k)
  /\ Cardinality(UsedBetween(c.last + 1, k - 1)) < Window[f]

(* Lines 5-7: whatever a token is flagged with, a cue of that kind stands  *)
(* before it, in its clause, no more than a window of content words away.  *)
ScopesJustified ==
  \A k \in DOMAIN tokens : \A f \in flags[k] \cap ScopeFlags : \E c \in met : Reaches(c, f, k)

(* The negators that stand before token k in its clause. *)
NegatorsBefore(k) ==
  {c \in met : c.kind = "Negator" /\ c.last < k /\ SameClause(c.last + 1, k)}

LastBefore(k) == CHOOSE c \in NegatorsBefore(k) : \A d \in NegatorsBefore(k) : d.last <= c.last

(* While each negator stands well within the window of the one before it,  *)
(* negations cancel: a token is negated when their number is odd (line 8). *)
NegationParity ==
  \A k \in 1 .. i - 1 :
    /\ "CUE" \notin flags[k]
    /\ \A c \in met : k \notin c.first .. c.last
    /\ \A c \in NegatorsBefore(k) :
         \E d \in NegatorsBefore(k) \cup {[first |-> k, last |-> k - 1]} :
           /\ c.last < d.first
           /\ Cardinality(UsedBetween(c.last + 1, d.last)) < NegWindow
    => ("NEGATED" \in flags[k] <=> Cardinality(NegatorsBefore(k)) % 2 = 1)

(* A request ends the hypothesis before it: no token is hypothetical by a  *)
(* cue that stands before a request of the same clause (line 835).         *)
RequestsEndHypotheses ==
  \A k \in 1 .. i - 1 : "HYPOTHETICAL" \in flags[k] =>
    \E c \in met : Reaches(c, "HYPOTHETICAL", k) /\
      ~\E d \in met : d.kind = "Request" /\ c.last < d.first /\ d.last < k

=============================================================================
