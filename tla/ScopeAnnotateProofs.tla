------------------------ MODULE ScopeAnnotateProofs ------------------------
(***************************************************************************)
(* For every segment, word list and window: a scope flag has its reason,   *)
(* negations cancel and a request ends the hypothesis before it.           *)
(* The strengthening is about the scopes that are still open: each has a   *)
(* phrase of its kind in the same clause, and what it has left is no more  *)
(* than its window less the content words passed since.  The negation      *)
(* scope has exactly that left after an odd number of negators, nothing    *)
(* after an even one; no request was met since a hypothesis was opened.    *)
(***************************************************************************)
EXTENDS ScopeAnnotate, FiniteSetTheorems, TLAPS

Kinds == {"Idiom", "Negator", "Exception", "Request", "Inquiry", "Hypothetical",
          "Intensifier", "Diminisher"}

(* UsedBetween, of any assignment of flags. *)
UsedIn(fl, j, k) ==
  {n \in DOMAIN tokens : j <= n /\ n <= k /\ Content(tokens[n]) /\ "CUE" \notin fl[n]}

(* A scope of flag f with m tokens left has its reason when it meets token j. *)
Reason(M, fl, c, f, j, m) ==
  /\ c \in M
  /\ f \in OpenedBy(c.kind)
  /\ c.last \in Nat /\ c.last < j
  /\ SameClause(c.last + 1, j - 1)
  /\ Cardinality(UsedIn(fl, c.last + 1, j - 1)) + m <= Window[f]

OpenAt(M, sc, fl, j) ==
  \A f \in ScopeFlags : sc[f] > 0 => \E c \in M : Reason(M, fl, c, f, j, sc[f])

Shape ==
  /\ tokens \in Seq(Tokens)
  /\ i \in 1 .. Len(tokens) + 1
  /\ flags \in [DOMAIN tokens -> SUBSET Flags]
  /\ scopes \in [ScopeFlags -> Nat]
  /\ \A f \in ScopeFlags : scopes[f] <= Window[f]
  /\ \A c \in met : c.first \in 1 .. c.last /\ c.last \in Nat /\ c.last < i

Untouched == \A k \in DOMAIN tokens : k >= i => flags[k] \subseteq SegmentFlags

Justified == \A k \in 1 .. i - 1 : \A f \in flags[k] \cap ScopeFlags : \E c \in met : Reaches(c, f, k)

SInv == Shape /\ Untouched /\ OpenAt(met, scopes, flags, i) /\ Justified

-----------------------------------------------------------------------------
LEMMA WindowType == Window \in [ScopeFlags -> Nat \ {0}]
  BY ScopeAssumption DEF Window, ScopeFlags, Degrees

LEMMA WindowIs ==
  /\ Window["NEGATED"] = NegWindow
  /\ Window["HYPOTHETICAL"] = HypWindow
  /\ Window["REQUEST"] = ReqWindow
  /\ Window["EXCEPTION"] = ExcWindow
  /\ Window["INTENSIFIED"] = DegreeWindow
  /\ Window["DIMINISHED"] = DegreeWindow
  BY DEF Window, ScopeFlags, Degrees

LEMMA UsedFinite ==
  ASSUME tokens \in Seq(Tokens), NEW fl, NEW j, NEW k
  PROVE  IsFiniteSet(UsedIn(fl, j, k)) /\ Cardinality(UsedIn(fl, j, k)) \in Nat
<1>1. IsFiniteSet(1 .. Len(tokens))
  BY FS_Interval
<1>2. UsedIn(fl, j, k) \subseteq 1 .. Len(tokens)
  BY DEF UsedIn
<1> QED
  BY <1>1, <1>2, FS_Subset, FS_CardinalityType

(* One token later: a token with content counts once, a cue not at all.    *)
LEMMA UsedStep ==
  ASSUME tokens \in Seq(Tokens), NEW fl, NEW fl2, NEW a \in Nat, NEW j \in DOMAIN tokens,
         \A n \in DOMAIN tokens : n < j => fl2[n] = fl[n]
  PROVE  Cardinality(UsedIn(fl2, a, j)) <=
           Cardinality(UsedIn(fl, a, j - 1)) +
             (IF Content(tokens[j]) /\ "CUE" \notin fl2[j] THEN 1 ELSE 0)
<1> DEFINE U == UsedIn(fl, a, j - 1)
<1>1. IsFiniteSet(U) /\ Cardinality(U) \in Nat
  BY UsedFinite
<1>2. CASE Content(tokens[j]) /\ "CUE" \notin fl2[j]
  <2>1. UsedIn(fl2, a, j) \subseteq U \cup {j}
    BY DEF UsedIn
  <2>2. j \notin U
    BY DEF UsedIn
  <2>3. IsFiniteSet(U \cup {j}) /\ Cardinality(U \cup {j}) = Cardinality(U) + 1
    BY <1>1, <2>2, FS_AddElement
  <2>4. Cardinality(UsedIn(fl2, a, j)) <= Cardinality(U \cup {j})
    BY <2>1, <2>3, FS_Subset
  <2> QED
    BY <1>2, <2>3, <2>4
<1>3. CASE ~(Content(tokens[j]) /\ "CUE" \notin fl2[j])
  <2>1. UsedIn(fl2, a, j) \subseteq U
    BY <1>3 DEF UsedIn
  <2>2. Cardinality(UsedIn(fl2, a, j)) <= Cardinality(U)
    BY <1>1, <2>1, FS_Subset
  <2> QED
    BY <1>1, <1>3, <2>2
<1> QED
  BY <1>2, <1>3

(* The scopes pass over a token that does not end the clause. *)
LEMMA Advance ==
  ASSUME tokens \in Seq(Tokens), NEW fl, NEW fl2, NEW j \in DOMAIN tokens, NEW M,
         \A n \in DOMAIN tokens : n < j => fl2[n] = fl[n],
         ~EndsClause(tokens[j]),
         NEW sc \in [ScopeFlags -> Nat], OpenAt(M, sc, fl, j),
         NEW hard \in BOOLEAN, NEW content \in BOOLEAN,
         hard => "CUE" \in fl2[j],
         ~hard /\ Content(tokens[j]) => content
  PROVE  /\ OpenAt(M, CueUsed(hard, sc, content), fl2, j + 1)
         /\ CueUsed(hard, sc, content) \in [ScopeFlags -> Nat]
         /\ \A f \in ScopeFlags : CueUsed(hard, sc, content)[f] <= sc[f]
<1> DEFINE sc2 == CueUsed(hard, sc, content)
<1>1. /\ sc2 \in [ScopeFlags -> Nat]
      /\ \A f \in ScopeFlags : sc2[f] <= sc[f]
      /\ \A f \in ScopeFlags : ~hard /\ content /\ sc[f] > 0 => sc2[f] = sc[f] - 1
  BY DEF CueUsed, Used
<1>2. ASSUME NEW f \in ScopeFlags, sc2[f] > 0
      PROVE  \E c \in M : Reason(M, fl2, c, f, j + 1, sc2[f])
  <2>1. sc[f] > 0
    BY <1>1, <1>2
  <2>2. PICK c \in M : Reason(M, fl, c, f, j, sc[f])
    BY <2>1 DEF OpenAt
  <2>3. j \in Nat /\ j + 1 - 1 = j
    OBVIOUS
  <2>4. SameClause(c.last + 1, j)
    BY <2>2, <2>3 DEF Reason, SameClause
  <2>5. Cardinality(UsedIn(fl2, c.last + 1, j)) + sc2[f] <= Window[f]
    <3>1. c.last + 1 \in Nat
      BY <2>2 DEF Reason
    <3>2. /\ Cardinality(UsedIn(fl2, c.last + 1, j)) \in Nat
          /\ Cardinality(UsedIn(fl, c.last + 1, j - 1)) \in Nat
      BY UsedFinite
    <3>3. Cardinality(UsedIn(fl2, c.last + 1, j)) <=
            Cardinality(UsedIn(fl, c.last + 1, j - 1)) +
              (IF Content(tokens[j]) /\ "CUE" \notin fl2[j] THEN 1 ELSE 0)
      BY <3>1, UsedStep
    <3>4. Cardinality(UsedIn(fl, c.last + 1, j - 1)) + sc[f] <= Window[f]
      BY <2>2 DEF Reason
    <3>5. Content(tokens[j]) /\ "CUE" \notin fl2[j] => sc2[f] = sc[f] - 1
      BY <1>1, <2>1
    <3>6. Window[f] \in Nat /\ sc[f] \in Nat /\ sc2[f] \in Nat /\ sc2[f] <= sc[f]
      BY <1>1, WindowType
    <3> QED
      BY <3>2, <3>3, <3>4, <3>5, <3>6
  <2> QED
    BY <2>2, <2>3, <2>4, <2>5 DEF Reason
<1> QED
  BY <1>1, <1>2 DEF OpenAt

(* What a token is given has its reason. *)
LEMMA GivenReaches ==
  ASSUME tokens \in Seq(Tokens), NEW fl, NEW j \in DOMAIN tokens, NEW M,
         ~EndsClause(tokens[j]),
         NEW sc \in [ScopeFlags -> Nat], OpenAt(M, sc, fl, j),
         NEW hard \in BOOLEAN, NEW content \in BOOLEAN,
         NEW f \in CueGiven(hard, sc, content) \cap ScopeFlags
  PROVE  \E c \in M : /\ f \in OpenedBy(c.kind) /\ c.last < j
                      /\ SameClause(c.last + 1, j)
                      /\ Cardinality(UsedIn(fl, c.last + 1, j - 1)) < Window[f]
<1>1. sc[f] > 0
  BY DEF CueGiven, Given, ScopeFlags, Degrees
<1>2. PICK c \in M : Reason(M, fl, c, f, j, sc[f])
  BY <1>1 DEF OpenAt
<1>3. SameClause(c.last + 1, j)
  BY <1>2 DEF Reason, SameClause
<1>4. Cardinality(UsedIn(fl, c.last + 1, j - 1)) < Window[f]
  <2>1. Cardinality(UsedIn(fl, c.last + 1, j - 1)) \in Nat
    BY UsedFinite
  <2>2. Window[f] \in Nat /\ sc[f] \in Nat
    BY WindowType
  <2> QED
    BY <1>1, <1>2, <2>1, <2>2 DEF Reason
<1> QED
  BY <1>2, <1>3, <1>4 DEF Reason

(* A phrase leaves a scope, closes it, or opens it in full. *)
LEMMA OpenedIs ==
  ASSUME NEW kind \in Kinds, NEW sc \in [ScopeFlags -> Nat]
  PROVE  /\ Opened(kind, sc) \in [ScopeFlags -> Nat]
         /\ \A f \in ScopeFlags :
              Opened(kind, sc)[f] \in {0, sc[f]} \/
                (f \in OpenedBy(kind) /\ Opened(kind, sc)[f] = Window[f])
<1> USE ScopeAssumption DEF ScopeFlags, Degrees
<1>1. CASE kind = "Idiom"
  BY <1>1 DEF Opened
<1>2. CASE kind = "Negator"
  BY <1>2, WindowIs DEF Opened, OpenedBy
<1>3. CASE kind = "Exception"
  BY <1>3, WindowIs DEF Opened, OpenedBy
<1>4. CASE kind = "Request"
  BY <1>4, WindowIs DEF Opened, OpenedBy
<1>5. CASE kind \in {"Inquiry", "Hypothetical"}
  BY <1>5, WindowIs DEF Opened, OpenedBy
<1>6. CASE kind = "Intensifier"
  BY <1>6, WindowIs DEF Opened, OpenedBy
<1>7. CASE kind = "Diminisher"
  BY <1>7, WindowIs DEF Opened, OpenedBy
<1> QED
  BY <1>1, <1>2, <1>3, <1>4, <1>5, <1>6, <1>7 DEF Kinds

(* Opening a scope after the phrase that opens it. *)
LEMMA OpeningHasReason ==
  ASSUME tokens \in Seq(Tokens), NEW fl, NEW j \in Nat, NEW M, NEW kind \in Kinds, NEW k \in Nat,
         NEW sc \in [ScopeFlags -> Nat], OpenAt(M, sc, fl, j + 1),
         \A f \in ScopeFlags : sc[f] <= Window[f]
  PROVE  LET M2 == M \cup {[kind |-> kind, first |-> k, last |-> j]}
         IN  /\ OpenAt(M2, Opened(kind, sc), fl, j + 1)
             /\ Opened(kind, sc) \in [ScopeFlags -> Nat]
             /\ \A f \in ScopeFlags : Opened(kind, sc)[f] <= Window[f]
<1> DEFINE c0 == [kind |-> kind, first |-> k, last |-> j]
           M2 == M \cup {c0}
           sc2 == Opened(kind, sc)
<1>1. \A f \in ScopeFlags : sc2[f] \in {0, sc[f]} \/ (f \in OpenedBy(kind) /\ sc2[f] = Window[f])
  BY OpenedIs
<1>2. sc2 \in [ScopeFlags -> Nat]
  BY OpenedIs
<1>3. \A f \in ScopeFlags : sc2[f] <= Window[f]
  BY <1>1, WindowType
<1> HIDE DEF sc2
<1>4. ASSUME NEW f \in ScopeFlags, sc2[f] > 0
      PROVE  \E c \in M2 : Reason(M2, fl, c, f, j + 1, sc2[f])
  <2>1. CASE sc2[f] = sc[f]
    <3>1. PICK c \in M : Reason(M, fl, c, f, j + 1, sc[f])
      BY <1>4, <2>1 DEF OpenAt
    <3>2. Reason(M2, fl, c, f, j + 1, sc[f])
      BY <3>1 DEF Reason
    <3>3. Reason(M2, fl, c, f, j + 1, sc2[f])
      BY <2>1, <3>2
    <3> QED
      BY <3>3
  <2>2. CASE f \in OpenedBy(kind) /\ sc2[f] = Window[f]
    <3>1. UsedIn(fl, j + 1, j) = {} /\ j + 1 - 1 = j
      BY DEF UsedIn
    <3>2. Cardinality(UsedIn(fl, j + 1, j + 1 - 1)) = 0
      BY <3>1, FS_EmptySet
    <3>3. SameClause(j + 1, j + 1 - 1)
      BY DEF SameClause
    <3>4. c0 \in M2 /\ c0.kind = kind /\ c0.last = j
      OBVIOUS
    <3>5. Reason(M2, fl, c0, f, j + 1, sc2[f])
      BY <2>2, <3>2, <3>3, <3>4, WindowType DEF Reason
    <3> QED
      BY <3>4, <3>5
  <2>3. sc2[f] = sc[f] \/ (f \in OpenedBy(kind) /\ sc2[f] = Window[f])
    BY <1>1, <1>2, <1>4
  <2> QED
    BY <2>1, <2>2, <2>3
<1> QED
  BY <1>2, <1>3, <1>4 DEF OpenAt, sc2

-----------------------------------------------------------------------------
(* What tokens before the present one were given is not touched again.     *)
LEMMA KeepJustified ==
  ASSUME SInv, UNCHANGED tokens, met \subseteq met',
         \A n \in 1 .. i - 1 : flags'[n] = flags[n],
         NEW k \in 1 .. i - 1, NEW f \in flags'[k] \cap ScopeFlags
  PROVE  \E c \in met' : Reaches(c, f, k)'
<1>1. PICK c \in met : Reaches(c, f, k)
  BY DEF SInv, Justified
<1>2. UsedBetween(c.last + 1, k - 1)' = UsedBetween(c.last + 1, k - 1)
  BY DEF UsedBetween, SInv, Shape
<1> QED
  BY <1>1, <1>2 DEF Reaches, SameClause

(* The token the pass is at. *)
LEMMA AtToken ==
  ASSUME SInv, More
  PROVE  i \in DOMAIN tokens /\ i \in Nat /\ DOMAIN tokens = 1 .. Len(tokens)
<1>1. tokens \in Seq(Tokens) /\ i \in 1 .. Len(tokens) + 1
  BY DEF SInv, Shape
<1>2. Len(tokens) \in Nat /\ DOMAIN tokens = 1 .. Len(tokens)
  BY <1>1
<1> QED
  BY <1>1, <1>2 DEF More

(* Only the flags before token j count for the scopes open at j. *)
LEMMA OpenBefore ==
  ASSUME tokens \in Seq(Tokens), NEW fl, NEW fl2, NEW j \in Nat, NEW M, NEW sc,
         \A n \in DOMAIN tokens : n < j => fl2[n] = fl[n], OpenAt(M, sc, fl, j)
  PROVE  OpenAt(M, sc, fl2, j)
<1>1. \A a : UsedIn(fl2, a, j - 1) = UsedIn(fl, a, j - 1)
  BY DEF UsedIn
<1> QED
  BY <1>1 DEF OpenAt, Reason

LEMMA InitSInv == ScopeInit => SInv
<1> SUFFICES ASSUME ScopeInit PROVE SInv
  OBVIOUS
<1>1. tokens \in Seq(Tokens)
  BY ScopeAssumption DEF ScopeInit
<1>2. Shape
  BY <1>1, WindowType DEF ScopeInit, Shape, OfSegment, Flags, Closed
<1>3. Untouched /\ OpenAt(met, scopes, flags, i) /\ Justified
  BY DEF ScopeInit, Untouched, OpenAt, Justified, OfSegment, Closed
<1> QED
  BY <1>2, <1>3 DEF SInv

(* The new flags are the given ones: the scopes justify them. *)
LEMMA GivenIsNew ==
  ASSUME SInv, More, NEW hard \in BOOLEAN, NEW content \in BOOLEAN,
         NEW f \in (flags[i] \cup CueGiven(hard, scopes, content)) \cap ScopeFlags
  PROVE  f \in CueGiven(hard, scopes, content) \cap ScopeFlags
  BY DEF SInv, Shape, Untouched, More, SegmentFlags, ScopeFlags, Degrees

LEMMA EndClauseInv == ASSUME SInv, EndClause PROVE SInv'
<1> USE DEF SInv
<1>0. i \in DOMAIN tokens /\ i \in Nat /\ DOMAIN tokens = 1 .. Len(tokens)
  BY AtToken DEF EndClause
<1>1. /\ UNCHANGED tokens /\ i' = i + 1
      /\ met \subseteq met'
      /\ \A n \in DOMAIN tokens \ {i} : flags'[n] = flags[n]
      /\ flags'[i] \subseteq flags[i] \cup {"CUE"}
      /\ flags' \in [DOMAIN tokens -> SUBSET Flags]
  BY <1>0 DEF EndClause, Shape, Meet, Flags
<1>2. Shape'
  <2>1. scopes' \in [ScopeFlags -> Nat] /\ \A f \in ScopeFlags : scopes'[f] <= Window[f]
    <3>1. Closed \in [ScopeFlags -> Nat] /\ \A f \in ScopeFlags : Closed[f] = 0
      BY DEF Closed
    <3>2. /\ Opened("Exception", Closed) \in [ScopeFlags -> Nat]
          /\ \A f \in ScopeFlags : Opened("Exception", Closed)[f] \in {0, Window[f]}
      BY <3>1, OpenedIs DEF Kinds
    <3> QED
      BY <3>1, <3>2, WindowType DEF EndClause
  <2>2. i' \in 1 .. Len(tokens) + 1
    BY <1>0, <1>1
  <2>3. \A c \in met' : c.first \in 1 .. c.last /\ c.last \in Nat /\ c.last < i'
    BY <1>0, <1>1 DEF Shape, EndClause, Meet
  <2> QED
    BY <1>1, <2>1, <2>2, <2>3 DEF Shape
<1>3. Untouched'
  BY <1>0, <1>1 DEF Untouched
<1>4. Justified'
  <2>1. ASSUME NEW k \in 1 .. i, NEW f \in flags'[k] \cap ScopeFlags
        PROVE  \E c \in met' : Reaches(c, f, k)'
    <3>1. CASE k # i
      BY <1>1, <2>1, <3>1, KeepJustified DEF Shape
    <3>2. CASE k = i
      BY <1>0, <1>1, <2>1, <3>2 DEF Untouched, ScopeFlags, Degrees, SegmentFlags
    <3> QED
      BY <3>1, <3>2
  <2> QED
    BY <1>1, <2>1 DEF Justified, Shape
<1>5. OpenAt(met', scopes', flags', i')
  <2>1. CASE scopes' = Closed
    BY <2>1 DEF OpenAt, Closed
  <2>2. CASE /\ scopes' = Opened("Exception", Closed)
             /\ met' = met \cup {[kind |-> "Exception", first |-> i, last |-> i + 1 - 1]}
    <3>1. OpenAt(met, Closed, flags', i + 1)
      BY DEF OpenAt, Closed
    <3>2. Closed \in [ScopeFlags -> Nat] /\ \A f \in ScopeFlags : Closed[f] <= Window[f]
      BY WindowType DEF Closed
    <3>3. i + 1 - 1 = i /\ i \in Nat
      BY <1>1 DEF Shape
    <3>4. OpenAt(met \cup {[kind |-> "Exception", first |-> i, last |-> i]},
                 Opened("Exception", Closed), flags', i + 1)
      BY <3>1, <3>2, <3>3, OpeningHasReason DEF Shape, Kinds
    <3> QED
      BY <1>1, <2>2, <3>3, <3>4
  <2> QED
    BY <2>1, <2>2 DEF EndClause, Meet
<1>6. OpenAt(met, scopes, flags, i)'
  BY <1>1, <1>5 DEF OpenAt, Reason, SameClause, UsedIn
<1> QED
  BY <1>2, <1>3, <1>4, <1>6

LEMMA PhraseKinds ==
  ASSUME NEW w, NEW v
  PROVE  /\ PhraseAt(w, v).kind \in Kinds \cup {"None"}
         /\ PhraseAt(w, v).length \in {1, 2}
         /\ PhraseAt(w, v).length = 2 =>
              \/ <<w, v>> \in NegatorBigrams \cup NonNegating \cup RequestBigrams
                               \cup InquiryBigrams
              \/ v \in {"to", "for", "from"}
  BY DEF PhraseAt, Phrase, Kinds

(* The second word of a phrase is there, in the same clause. *)
LEMMA SecondToken ==
  ASSUME SInv, More, Here.length = 2
  PROVE  i + 1 \in DOMAIN tokens /\ ~EndsClause(tokens[i + 1])
<1> DEFINE v == WordAt(tokens, i + 1)
<1>1. v \notin Terminators \cup ClauseMarks /\ v # ""
  <2>1. CASE <<tokens[i], v>> \in NegatorBigrams \cup NonNegating \cup RequestBigrams
                                    \cup InquiryBigrams
    BY <2>1, ScopeAssumption DEF Tokens
  <2>2. CASE v \in {"to", "for", "from"}
    BY <2>2, ScopeAssumption
  <2> QED
    BY <2>1, <2>2, PhraseKinds DEF Here
<1> QED
  BY <1>1 DEF WordAt, EndsClause

(* A phrase met that accounts for flag f of token k. *)
ReasonAt(fl, f, k) ==
  \E c \in met : /\ f \in OpenedBy(c.kind) /\ c.last < k
                 /\ SameClause(c.last + 1, k)
                 /\ Cardinality(UsedIn(fl, c.last + 1, k - 1)) < Window[f]

(* Tokens i to m are given their flags in this step, all with a reason. *)
LEMMA StepJustified ==
  ASSUME SInv, More, UNCHANGED tokens, met \subseteq met', NEW m \in Nat, i' = m + 1, i <= m,
         \A n \in 1 .. i - 1 : flags'[n] = flags[n],
         \A k \in i .. m : \A f \in flags'[k] \cap ScopeFlags : ReasonAt(flags', f, k)
  PROVE  Justified'
<1>1. ASSUME NEW k \in 1 .. m, NEW f \in flags'[k] \cap ScopeFlags
      PROVE  \E c \in met' : Reaches(c, f, k)'
  <2>1. CASE k < i
    BY <2>1, KeepJustified, AtToken
  <2>2. CASE k >= i
    <3>1. PICK c \in met : /\ f \in OpenedBy(c.kind) /\ c.last < k
                           /\ SameClause(c.last + 1, k)
                           /\ Cardinality(UsedIn(flags', c.last + 1, k - 1)) < Window[f]
      BY <2>2 DEF ReasonAt
    <3>2. UsedIn(flags', c.last + 1, k - 1) = UsedBetween(c.last + 1, k - 1)'
      BY DEF UsedIn, UsedBetween
    <3> QED
      BY <3>1, <3>2 DEF Reaches, SameClause
  <2> QED
    BY <2>1, <2>2, AtToken
<1>2. i' - 1 = m
  OBVIOUS
<1> QED
  BY <1>1, <1>2 DEF Justified

(* The first, or only, token of a step. *)
LEMMA FirstToken ==
  ASSUME SInv, More, ~EndsClause(tokens[i]),
         NEW hard \in BOOLEAN, NEW content \in BOOLEAN,
         ~hard /\ Content(tokens[i]) => content,
         \A n \in 1 .. i - 1 : flags'[n] = flags[n],
         flags'[i] = flags[i] \cup CueGiven(hard, scopes, content)
  PROVE  /\ OpenAt(met, CueUsed(hard, scopes, content), flags', i + 1)
         /\ CueUsed(hard, scopes, content) \in [ScopeFlags -> Nat]
         /\ \A f \in ScopeFlags : CueUsed(hard, scopes, content)[f] <= Window[f]
         /\ \A f \in flags'[i] \cap ScopeFlags : ReasonAt(flags', f, i)
<1>0. /\ i \in DOMAIN tokens /\ i \in Nat /\ DOMAIN tokens = 1 .. Len(tokens)
      /\ tokens \in Seq(Tokens)
      /\ scopes \in [ScopeFlags -> Nat] /\ \A f \in ScopeFlags : scopes[f] <= Window[f]
      /\ OpenAt(met, scopes, flags, i)
  BY AtToken DEF SInv, Shape
<1>1. \A n \in DOMAIN tokens : n < i => flags'[n] = flags[n]
  BY <1>0
<1>2. hard => "CUE" \in flags'[i]
  BY DEF CueGiven
<1>3. /\ OpenAt(met, CueUsed(hard, scopes, content), flags', i + 1)
      /\ CueUsed(hard, scopes, content) \in [ScopeFlags -> Nat]
      /\ \A f \in ScopeFlags : CueUsed(hard, scopes, content)[f] <= scopes[f]
  BY <1>0, <1>1, <1>2, Advance
<1>4. \A f \in ScopeFlags : CueUsed(hard, scopes, content)[f] <= Window[f]
  BY <1>0, <1>3, WindowType
<1>5. ASSUME NEW f \in flags'[i] \cap ScopeFlags PROVE ReasonAt(flags', f, i)
  <2>1. f \in CueGiven(hard, scopes, content) \cap ScopeFlags
    BY GivenIsNew
  <2>2. OpenAt(met, scopes, flags', i)
    BY <1>0, <1>1, OpenBefore
  <2> QED
    BY <1>0, <2>1, <2>2, GivenReaches DEF ReasonAt
<1> QED
  BY <1>3, <1>4, <1>5

LEMMA PlainInv == ASSUME SInv, Plain PROVE SInv'
<1> DEFINE content == Content(tokens[i])
<1>0. /\ i \in DOMAIN tokens /\ i \in Nat /\ DOMAIN tokens = 1 .. Len(tokens)
      /\ More /\ ~EndsClause(tokens[i]) /\ tokens \in Seq(Tokens)
      /\ scopes \in [ScopeFlags -> Nat] /\ content \in BOOLEAN
      /\ OpenAt(met, scopes, flags, i)
  BY AtToken DEF Plain, SInv, Shape, Content, HasContent
<1>1. /\ UNCHANGED tokens /\ i' = i + 1 /\ met' = met
      /\ \A n \in DOMAIN tokens \ {i} : flags'[n] = flags[n]
      /\ flags'[i] = flags[i] \cup CueGiven(FALSE, scopes, content)
      /\ flags' \in [DOMAIN tokens -> SUBSET Flags]
      /\ scopes' = CueUsed(FALSE, scopes, content)
  BY <1>0 DEF Plain, SInv, Shape, Flags, CueGiven, CueUsed, Given
<1>2. /\ OpenAt(met, scopes', flags', i + 1)
      /\ scopes' \in [ScopeFlags -> Nat]
      /\ \A f \in ScopeFlags : scopes'[f] <= Window[f]
      /\ \A f \in flags'[i] \cap ScopeFlags : ReasonAt(flags', f, i)
  <2> HIDE DEF content
  <2>1. \A n \in 1 .. i - 1 : flags'[n] = flags[n]
    BY <1>0, <1>1
  <2>2. ~FALSE /\ Content(tokens[i]) => content
    BY DEF content
  <2>3. /\ OpenAt(met, CueUsed(FALSE, scopes, content), flags', i + 1)
        /\ CueUsed(FALSE, scopes, content) \in [ScopeFlags -> Nat]
        /\ \A f \in ScopeFlags : CueUsed(FALSE, scopes, content)[f] <= Window[f]
        /\ \A f \in flags'[i] \cap ScopeFlags : ReasonAt(flags', f, i)
    BY <1>0, <1>1, <2>1, <2>2, FirstToken
  <2> QED
    BY <1>1, <2>3
<1>3. Shape'
  <2>1. i' \in 1 .. Len(tokens) + 1
    BY <1>0, <1>1
  <2>2. \A c \in met' : c.first \in 1 .. c.last /\ c.last \in Nat /\ c.last < i'
    BY <1>0, <1>1 DEF SInv, Shape
  <2> QED
    BY <1>0, <1>1, <1>2, <2>1, <2>2 DEF Shape
<1>4. Untouched'
  BY <1>0, <1>1 DEF SInv, Untouched
<1>5. Justified'
  <2>1. \A n \in 1 .. i - 1 : flags'[n] = flags[n]
    BY <1>0, <1>1
  <2>2. \A k \in i .. i : \A f \in flags'[k] \cap ScopeFlags : ReasonAt(flags', f, k)
    BY <1>0, <1>2
  <2>3. i <= i /\ met \subseteq met'
    BY <1>0, <1>1
  <2> QED
    BY <1>0, <1>1, <2>1, <2>2, <2>3, StepJustified
<1>6. OpenAt(met, scopes, flags, i)'
  BY <1>1, <1>2 DEF OpenAt, Reason, SameClause, UsedIn
<1> QED
  BY <1>3, <1>4, <1>5, <1>6 DEF SInv

(* A phrase of tokens i to m that has passed the open scopes opens its own. *)
LEMMA PhraseInv ==
  ASSUME SInv, More, NEW m \in Nat, i <= m, m \in DOMAIN tokens,
         UNCHANGED tokens, i' = m + 1, NEW kind \in Kinds,
         met' = met \cup {[kind |-> kind, first |-> i, last |-> m]},
         NEW sc \in [ScopeFlags -> Nat],
         OpenAt(met, sc, flags', m + 1), \A f \in ScopeFlags : sc[f] <= Window[f],
         scopes' = Opened(kind, sc),
         flags' \in [DOMAIN tokens -> SUBSET Flags],
         \A n \in DOMAIN tokens : n \notin i .. m => flags'[n] = flags[n],
         \A k \in i .. m : \A f \in flags'[k] \cap ScopeFlags : ReasonAt(flags', f, k)
  PROVE  SInv'
<1>0. i \in DOMAIN tokens /\ i \in Nat /\ DOMAIN tokens = 1 .. Len(tokens)
      /\ tokens \in Seq(Tokens)
  BY AtToken DEF SInv, Shape
<1>1. /\ OpenAt(met', scopes', flags', m + 1)
      /\ scopes' \in [ScopeFlags -> Nat]
      /\ \A f \in ScopeFlags : scopes'[f] <= Window[f]
  BY <1>0, OpeningHasReason
<1>2. Shape'
  <2>1. i' \in 1 .. Len(tokens) + 1
    BY <1>0
  <2>2. \A c \in met' : c.first \in 1 .. c.last /\ c.last \in Nat /\ c.last < i'
    BY <1>0 DEF SInv, Shape
  <2> QED
    BY <1>0, <1>1, <2>1, <2>2 DEF Shape
<1>3. Untouched'
  BY <1>0 DEF SInv, Untouched
<1>4. Justified'
  <2>1. \A n \in 1 .. i - 1 : flags'[n] = flags[n]
    BY <1>0
  <2>2. met \subseteq met'
    OBVIOUS
  <2> QED
    BY <2>1, <2>2, StepJustified
<1>5. OpenAt(met, scopes, flags, i)'
  BY <1>1 DEF OpenAt, Reason, SameClause, UsedIn
<1> QED
  BY <1>2, <1>3, <1>4, <1>5 DEF SInv

LEMMA CueWordInv == ASSUME SInv, CueWord PROVE SInv'
<1> DEFINE content == Content(tokens[i])
           hard == Hard(tokens[i], Here.kind)
           kind == Here.kind
<1>0. /\ i \in DOMAIN tokens /\ i \in Nat /\ DOMAIN tokens = 1 .. Len(tokens)
      /\ More /\ ~EndsClause(tokens[i]) /\ tokens \in Seq(Tokens)
      /\ flags \in [DOMAIN tokens -> SUBSET Flags]
      /\ content \in BOOLEAN /\ hard \in BOOLEAN /\ kind \in Kinds
      /\ ~hard /\ Content(tokens[i]) => content
  BY AtToken, PhraseKinds DEF CueWord, SInv, Shape, Content, HasContent, Hard, Here
<1>1. /\ UNCHANGED tokens /\ i' = i + 1
      /\ met' = met \cup {[kind |-> kind, first |-> i, last |-> i]}
      /\ scopes' = Opened(kind, CueUsed(hard, scopes, content))
      /\ flags' = [flags EXCEPT ![i] = @ \cup CueGiven(hard, scopes, content)]
  <2>1. i + 1 - 1 = i
    BY <1>0
  <2> QED
    BY <2>1 DEF CueWord, Meet
<1> HIDE DEF content, hard, kind
<1>2. /\ \A n \in DOMAIN tokens : n \notin i .. i => flags'[n] = flags[n]
      /\ flags'[i] = flags[i] \cup CueGiven(hard, scopes, content)
      /\ flags' \in [DOMAIN tokens -> SUBSET Flags]
      /\ \A n \in 1 .. i - 1 : flags'[n] = flags[n]
  BY <1>0, <1>1 DEF CueGiven, Given, Flags
<1>3. /\ OpenAt(met, CueUsed(hard, scopes, content), flags', i + 1)
      /\ CueUsed(hard, scopes, content) \in [ScopeFlags -> Nat]
      /\ \A f \in ScopeFlags : CueUsed(hard, scopes, content)[f] <= Window[f]
      /\ \A f \in flags'[i] \cap ScopeFlags : ReasonAt(flags', f, i)
  BY <1>0, <1>2, FirstToken
<1>4. \A k \in i .. i : \A f \in flags'[k] \cap ScopeFlags : ReasonAt(flags', f, k)
  BY <1>0, <1>3
<1>5. i <= i
  BY <1>0
<1> QED
  BY <1>0, <1>1, <1>2, <1>3, <1>4, <1>5, PhraseInv

LEMMA CuePhraseInv == ASSUME SInv, CuePhrase PROVE SInv'
<1> DEFINE content == Content(tokens[i])
           content2 == HasContent(tokens[i + 1])
           kind == Here.kind
           hard == Hard(tokens[i], Here.kind)
           hard2 == Hard(tokens[i + 1], Here.kind) \/ tokens[i + 1] \in FunctionWords
           between == CueUsed(hard, scopes, content)
<1>0. /\ i \in DOMAIN tokens /\ i \in Nat /\ DOMAIN tokens = 1 .. Len(tokens)
      /\ More /\ ~EndsClause(tokens[i]) /\ tokens \in Seq(Tokens)
      /\ flags \in [DOMAIN tokens -> SUBSET Flags]
      /\ i + 1 \in DOMAIN tokens /\ ~EndsClause(tokens[i + 1])
  BY AtToken, SecondToken DEF CuePhrase, SInv, Shape
<1>a. /\ content \in BOOLEAN /\ hard \in BOOLEAN /\ kind \in Kinds
      /\ content2 \in BOOLEAN /\ hard2 \in BOOLEAN
      /\ (~hard /\ Content(tokens[i]) => content)
      /\ (~hard2 /\ Content(tokens[i + 1]) => content2)
  <2>1. kind \in Kinds
    BY PhraseKinds DEF CuePhrase, Here
  <2>2. content \in BOOLEAN /\ hard \in BOOLEAN /\ content2 \in BOOLEAN /\ hard2 \in BOOLEAN
    BY DEF Content, HasContent, Hard
  <2>3. ~hard2 /\ Content(tokens[i + 1]) => content2
    BY DEF Content
  <2> QED
    BY <2>1, <2>2, <2>3
<1>1. /\ UNCHANGED tokens /\ i' = i + 2
      /\ met' = met \cup {[kind |-> kind, first |-> i, last |-> i + 1]}
      /\ scopes' = Opened(kind, CueUsed(hard2, between, content2))
      /\ flags' = [flags EXCEPT ![i] = @ \cup CueGiven(hard, scopes, content),
                                ![i + 1] = @ \cup CueGiven(hard2, between, content2)]
  <2>1. i + 2 - 1 = i + 1
    BY <1>0
  <2> QED
    BY <2>1 DEF CuePhrase, Meet
<1> HIDE DEF content, content2, hard, hard2, kind, between
<1>2. /\ \A n \in DOMAIN tokens : n \notin i .. i + 1 => flags'[n] = flags[n]
      /\ flags'[i] = flags[i] \cup CueGiven(hard, scopes, content)
      /\ flags'[i + 1] = flags[i + 1] \cup CueGiven(hard2, between, content2)
      /\ flags' \in [DOMAIN tokens -> SUBSET Flags]
      /\ \A n \in 1 .. i - 1 : flags'[n] = flags[n]
  <2>1. i # i + 1
    BY <1>0
  <2>2. \A h, sc, c : CueGiven(h, sc, c) \subseteq Flags
    BY DEF CueGiven, Given, Flags
  <2> QED
    BY <1>0, <1>1, <2>1, <2>2
<1>3. /\ OpenAt(met, between, flags', i + 1)
      /\ between \in [ScopeFlags -> Nat]
      /\ \A f \in ScopeFlags : between[f] <= Window[f]
      /\ \A f \in flags'[i] \cap ScopeFlags : ReasonAt(flags', f, i)
  BY <1>0, <1>a, <1>2, FirstToken DEF between
<1>4. hard2 => "CUE" \in flags'[i + 1]
  BY <1>2 DEF CueGiven
<1>5. /\ OpenAt(met, CueUsed(hard2, between, content2), flags', i + 1 + 1)
      /\ CueUsed(hard2, between, content2) \in [ScopeFlags -> Nat]
      /\ \A f \in ScopeFlags : CueUsed(hard2, between, content2)[f] <= between[f]
  BY <1>0, <1>a, <1>3, <1>4, Advance
<1>6. ASSUME NEW f \in flags'[i + 1] \cap ScopeFlags PROVE ReasonAt(flags', f, i + 1)
  <2>1. flags[i + 1] \subseteq SegmentFlags
    BY <1>0 DEF SInv, Untouched
  <2>2. f \in CueGiven(hard2, between, content2) \cap ScopeFlags
    BY <1>2, <2>1 DEF SegmentFlags, ScopeFlags, Degrees
  <2> QED
    BY <1>0, <1>a, <1>3, <2>2, GivenReaches DEF ReasonAt
<1>7. \A k \in i .. i + 1 : \A f \in flags'[k] \cap ScopeFlags : ReasonAt(flags', f, k)
  BY <1>0, <1>3, <1>6
<1>8. \A f \in ScopeFlags : CueUsed(hard2, between, content2)[f] <= Window[f]
  BY <1>3, <1>5, WindowType
<1>9. i <= i + 1 /\ i + 1 \in Nat /\ i' = i + 1 + 1
  BY <1>0, <1>1
<1> DEFINE after == CueUsed(hard2, between, content2)
<1>b. /\ OpenAt(met, after, flags', (i + 1) + 1)
      /\ after \in [ScopeFlags -> Nat]
      /\ \A f \in ScopeFlags : after[f] <= Window[f]
      /\ scopes' = Opened(kind, after)
  BY <1>1, <1>5, <1>8
<1> HIDE DEF after
<1> PICK m \in Nat : m = i + 1
  BY <1>0
<1>c. /\ More /\ UNCHANGED tokens /\ flags' \in [DOMAIN tokens -> SUBSET Flags]
      /\ i <= m /\ m \in DOMAIN tokens /\ i' = m + 1
      /\ met' = met \cup {[kind |-> kind, first |-> i, last |-> m]}
      /\ OpenAt(met, after, flags', m + 1)
      /\ \A n \in DOMAIN tokens : n \notin i .. m => flags'[n] = flags[n]
      /\ \A k \in i .. m : \A f \in flags'[k] \cap ScopeFlags : ReasonAt(flags', f, k)
  BY <1>0, <1>1, <1>2, <1>b, <1>7, <1>9
<1>d. kind \in Kinds
  BY <1>a
<1> QED
  BY <1>b, <1>c, <1>d, PhraseInv

-----------------------------------------------------------------------------
LEMMA StepSInv == SInv /\ [ScopeNext]_vars => SInv'
<1> SUFFICES ASSUME SInv, [ScopeNext]_vars PROVE SInv'
  OBVIOUS
<1>1. CASE UNCHANGED vars
  <2> USE <1>1 DEF vars, SInv
  <2>1. Shape' /\ Untouched'
    BY DEF Shape, Untouched
  <2>2. OpenAt(met, scopes, flags, i)'
    BY DEF OpenAt, Reason, SameClause, UsedIn
  <2>3. Justified'
    BY DEF Justified, Reaches, SameClause, UsedBetween
  <2> QED
    BY <2>1, <2>2, <2>3
<1> QED
  BY <1>1, EndClauseInv, PlainInv, CueWordInv, CuePhraseInv DEF ScopeNext

THEOREM ScopeInvariant == ScopeSpec => []SInv
  BY InitSInv, StepSInv, PTL DEF ScopeSpec

(* The pass stays within the segment and no window is counted below zero,  *)
(* for every segment, word list and window.                                *)
THEOREM ScopeTypes == ScopeSpec => []ScopeTypeOK
<1>1. SInv => ScopeTypeOK
  BY WindowType DEF SInv, Shape, ScopeTypeOK
<1> QED
  BY <1>1, ScopeInvariant, PTL

(* Whatever a token is flagged with, a cue of that kind stands before it,  *)
(* in its clause, no more than a window of content words away.             *)
THEOREM FlagsHaveReasons == ScopeSpec => []ScopesJustified
<1>1. SInv => ScopesJustified
  <2> SUFFICES ASSUME SInv, NEW k \in DOMAIN tokens, NEW f \in flags[k] \cap ScopeFlags
               PROVE  \E c \in met : Reaches(c, f, k)
    BY DEF ScopesJustified
  <2>1. k < i
    BY DEF SInv, Untouched, SegmentFlags, ScopeFlags, Degrees, Shape
  <2> QED
    BY <2>1 DEF SInv, Justified, Shape
<1> QED
  BY <1>1, ScopeInvariant, PTL
-----------------------------------------------------------------------------
(* The negators that stand before token j in its clause, among the phrases *)
(* M, and what the negation scope has left when it meets token j: nothing  *)
(* after an even number of them, the window of the last one less what was  *)
(* used since after an odd number.                                         *)
NegatorsTo(M, j) ==
  {c \in M : c.kind = "Negator" /\ c.last < j /\ SameClause(c.last + 1, j - 1)}

InSight(M, fl, j) ==
  \A c \in NegatorsTo(M, j) :
    \E d \in NegatorsTo(M, j) \cup {[first |-> j, last |-> j - 1]} :
      c.last < d.first /\ Cardinality(UsedIn(fl, c.last + 1, d.last)) < NegWindow

Odd(M, j) == Cardinality(NegatorsTo(M, j)) % 2 = 1

Running(M, left, fl, j) ==
  \E c \in NegatorsTo(M, j) :
    /\ \A d \in NegatorsTo(M, j) : d.last <= c.last
    /\ left + Cardinality(UsedIn(fl, c.last + 1, j - 1)) = NegWindow

Toggled(M, left, fl, j) ==
  InSight(M, fl, j) => IF Odd(M, j) THEN Running(M, left, fl, j) ELSE left = 0

(* Phrases are intervals before token j. *)
PhrasesTo(M, j) ==
  /\ IsFiniteSet(M)
  /\ \A c \in M : c.first \in 1 .. c.last /\ c.last \in Nat /\ c.last < j

LEMMA UsedGrows ==
  ASSUME tokens \in Seq(Tokens), NEW fl, NEW a, NEW j \in Nat, NEW k \in Nat, j <= k
  PROVE  Cardinality(UsedIn(fl, a, j)) <= Cardinality(UsedIn(fl, a, k))
<1>1. UsedIn(fl, a, j) \subseteq UsedIn(fl, a, k)
  BY DEF UsedIn
<1> QED
  BY <1>1, UsedFinite, FS_Subset

LEMMA UsedSame ==
  ASSUME tokens \in Seq(Tokens), NEW fl, NEW fl2, NEW a, NEW j \in Nat,
         \A n \in DOMAIN tokens : n < j => fl2[n] = fl[n]
  PROVE  \A k \in Int : k < j => UsedIn(fl2, a, k) = UsedIn(fl, a, k)
  BY DEF UsedIn

(* Exactly one more is used, if the token has content and is no cue. *)
LEMMA UsedOneMore ==
  ASSUME tokens \in Seq(Tokens), NEW fl, NEW fl2, NEW a \in Nat, NEW j \in DOMAIN tokens, a <= j,
         \A n \in DOMAIN tokens : n < j => fl2[n] = fl[n]
  PROVE  Cardinality(UsedIn(fl2, a, j)) =
           Cardinality(UsedIn(fl, a, j - 1)) +
             (IF Content(tokens[j]) /\ "CUE" \notin fl2[j] THEN 1 ELSE 0)
<1> DEFINE U == UsedIn(fl, a, j - 1)
<1>1. IsFiniteSet(U) /\ Cardinality(U) \in Nat
  BY UsedFinite
<1>2. CASE Content(tokens[j]) /\ "CUE" \notin fl2[j]
  <2>1. UsedIn(fl2, a, j) = U \cup {j}
    BY <1>2 DEF UsedIn
  <2>2. j \notin U
    BY DEF UsedIn
  <2> QED
    BY <1>1, <1>2, <2>1, <2>2, FS_AddElement
<1>3. CASE ~(Content(tokens[j]) /\ "CUE" \notin fl2[j])
  <2>1. UsedIn(fl2, a, j) = U
    BY <1>3 DEF UsedIn
  <2> QED
    BY <1>1, <1>3, <2>1
<1> QED
  BY <1>2, <1>3

(* The last negator, with all of them in sight, has its window open. *)
LEMMA LastInSight ==
  ASSUME tokens \in Seq(Tokens), NEW fl, NEW j \in Nat, NEW M, PhrasesTo(M, j), InSight(M, fl, j),
         NEW c \in NegatorsTo(M, j), \A d \in NegatorsTo(M, j) : d.last <= c.last
  PROVE  Cardinality(UsedIn(fl, c.last + 1, j - 1)) < NegWindow
<1>1. PICK d \in NegatorsTo(M, j) \cup {[first |-> j, last |-> j - 1]} :
        c.last < d.first /\ Cardinality(UsedIn(fl, c.last + 1, d.last)) < NegWindow
  BY DEF InSight
<1>2. d \notin NegatorsTo(M, j)
  BY <1>1 DEF PhrasesTo, NegatorsTo
<1> QED
  BY <1>1, <1>2

LEMMA NegatorsFinite ==
  ASSUME NEW M, NEW j, PhrasesTo(M, j), NEW k
  PROVE  IsFiniteSet(NegatorsTo(M, k)) /\ Cardinality(NegatorsTo(M, k)) \in Nat
<1>1. NegatorsTo(M, k) \subseteq M
  BY DEF NegatorsTo
<1> QED
  BY <1>1, FS_Subset, FS_CardinalityType DEF PhrasesTo

LEMMA NegWindowType == NegWindow \in Nat \ {0}
  BY ScopeAssumption

(* How the negation scope goes past a token. *)
LEMMA UsedUp ==
  ASSUME NEW hard \in BOOLEAN, NEW content \in BOOLEAN, NEW sc \in [ScopeFlags -> Nat],
         NEW f \in ScopeFlags
  PROVE  CueUsed(hard, sc, content)[f] =
           IF ~hard /\ content /\ sc[f] > 0 THEN sc[f] - 1 ELSE sc[f]
  BY DEF CueUsed, Used

(* Token j, that does not end the clause, takes its flags from the scopes. *)
Takes(fl, fl2, j, hard, content, sc) ==
  /\ ~EndsClause(tokens[j])
  /\ hard \in BOOLEAN /\ content \in BOOLEAN
  /\ ~hard => (content <=> Content(tokens[j]))
  /\ fl[j] \subseteq SegmentFlags
  /\ \A n \in DOMAIN tokens : n < j => fl2[n] = fl[n]
  /\ fl2[j] = fl[j] \cup CueGiven(hard, sc, content)

LEMMA CountedIs ==
  ASSUME NEW fl, NEW fl2, NEW j, NEW hard, NEW content, NEW sc,
         Takes(fl, fl2, j, hard, content, sc)
  PROVE  Content(tokens[j]) /\ "CUE" \notin fl2[j] <=> ~hard /\ content
<1>1. CASE hard
  BY <1>1 DEF Takes, CueGiven
<1>2. CASE ~hard
  <2>1. "CUE" \notin fl2[j]
    BY <1>2 DEF Takes, CueGiven, Given, SegmentFlags, ScopeFlags, Degrees
  <2> QED
    BY <1>2, <2>1 DEF Takes
<1> QED
  BY <1>1, <1>2 DEF Takes

LEMMA NegatorsPass ==
  ASSUME tokens \in Seq(Tokens), NEW M, NEW j \in DOMAIN tokens, j \in Nat, PhrasesTo(M, j),
         ~EndsClause(tokens[j])
  PROVE  NegatorsTo(M, j + 1) = NegatorsTo(M, j)
<1>1. ASSUME NEW c \in M PROVE c \in NegatorsTo(M, j + 1) <=> c \in NegatorsTo(M, j)
  <2>1. c.last \in Nat /\ c.last < j /\ j + 1 - 1 = j
    BY DEF PhrasesTo
  <2>2. SameClause(c.last + 1, j) <=> SameClause(c.last + 1, j - 1)
    <3>1. \A n \in DOMAIN tokens : n \in Nat /\ (n <= j <=> n <= j - 1 \/ n = j)
      OBVIOUS
    <3> QED
      BY <2>1, <3>1 DEF SameClause
  <2> QED
    BY <2>1, <2>2 DEF NegatorsTo
<1> QED
  BY <1>1 DEF NegatorsTo

LEMMA InSightBefore ==
  ASSUME tokens \in Seq(Tokens), NEW fl, NEW fl2, NEW j \in DOMAIN tokens, j \in Nat, NEW M,
         PhrasesTo(M, j), ~EndsClause(tokens[j]),
         \A n \in DOMAIN tokens : n < j => fl2[n] = fl[n],
         InSight(M, fl2, j + 1)
  PROVE  InSight(M, fl, j)
<1>1. NegatorsTo(M, j + 1) = NegatorsTo(M, j)
  BY NegatorsPass
<1> SUFFICES ASSUME NEW c \in NegatorsTo(M, j)
             PROVE  \E d \in NegatorsTo(M, j) \cup {[first |-> j, last |-> j - 1]} :
                      c.last < d.first /\ Cardinality(UsedIn(fl, c.last + 1, d.last)) < NegWindow
  BY DEF InSight
<1>2. PICK d \in NegatorsTo(M, j) \cup {[first |-> j + 1, last |-> j + 1 - 1]} :
        c.last < d.first /\ Cardinality(UsedIn(fl2, c.last + 1, d.last)) < NegWindow
  BY <1>1 DEF InSight
<1>3. c.last \in Nat /\ c.last < j
  BY DEF PhrasesTo, NegatorsTo
<1>4. CASE d \in NegatorsTo(M, j)
  <2>1. d.last \in Nat /\ d.last < j
    BY <1>4 DEF PhrasesTo, NegatorsTo
  <2>2. UsedIn(fl2, c.last + 1, d.last) = UsedIn(fl, c.last + 1, d.last)
    BY <2>1, UsedSame
  <2> QED
    BY <1>2, <1>4, <2>2
<1>5. CASE d = [first |-> j + 1, last |-> j + 1 - 1]
  <2>1. UsedIn(fl2, c.last + 1, j - 1) = UsedIn(fl, c.last + 1, j - 1)
    BY UsedSame
  <2>2. Cardinality(UsedIn(fl2, c.last + 1, j - 1)) <= Cardinality(UsedIn(fl2, c.last + 1, j))
    <3>1. j - 1 \in Nat /\ j - 1 <= j
      OBVIOUS
    <3> QED
      BY <3>1, UsedGrows
  <2>3. d.last = j
    BY <1>5
  <2>4. Cardinality(UsedIn(fl2, c.last + 1, j)) < NegWindow
    BY <1>2, <2>3
  <2>5. /\ Cardinality(UsedIn(fl2, c.last + 1, j)) \in Nat
        /\ Cardinality(UsedIn(fl, c.last + 1, j - 1)) \in Nat
    BY UsedFinite
  <2>6. Cardinality(UsedIn(fl, c.last + 1, j - 1)) < NegWindow
    BY <2>1, <2>2, <2>4, <2>5, NegWindowType
  <2> DEFINE e == [first |-> j, last |-> j - 1]
  <2>7. e.first = j /\ e.last = j - 1
    OBVIOUS
  <2> HIDE DEF e
  <2>8. c.last < e.first /\ Cardinality(UsedIn(fl, c.last + 1, e.last)) < NegWindow
    BY <1>3, <2>6, <2>7
  <2> QED
    BY <2>8 DEF e
<1> QED
  BY <1>2, <1>4, <1>5

(* A token that opens nothing keeps the account of the negators.           *)
LEMMA TogglePass ==
  ASSUME tokens \in Seq(Tokens), NEW fl, NEW fl2, NEW j \in DOMAIN tokens, j \in Nat, NEW M,
         PhrasesTo(M, j), NEW hard, NEW content, NEW sc \in [ScopeFlags -> Nat],
         Takes(fl, fl2, j, hard, content, sc),
         Toggled(M, sc["NEGATED"], fl, j)
  PROVE  Toggled(M, CueUsed(hard, sc, content)["NEGATED"], fl2, j + 1)
<1> DEFINE left == sc["NEGATED"]
           after == CueUsed(hard, sc, content)["NEGATED"]
<1>1. left \in Nat /\ after = IF ~hard /\ content /\ left > 0 THEN left - 1 ELSE left
  <2>1. hard \in BOOLEAN /\ content \in BOOLEAN /\ "NEGATED" \in ScopeFlags
    BY DEF Takes, ScopeFlags
  <2> QED
    BY <2>1, UsedUp
<1> SUFFICES ASSUME InSight(M, fl2, j + 1)
             PROVE  IF Odd(M, j + 1) THEN Running(M, after, fl2, j + 1) ELSE after = 0
  BY DEF Toggled
<1>2. NegatorsTo(M, j + 1) = NegatorsTo(M, j)
  BY NegatorsPass DEF Takes
<1>3. InSight(M, fl, j)
  BY InSightBefore DEF Takes
<1>4. Odd(M, j + 1) <=> Odd(M, j)
  BY <1>2 DEF Odd
<1>5. IF Odd(M, j) THEN Running(M, left, fl, j) ELSE left = 0
  BY <1>3 DEF Toggled
<1> HIDE DEF left, after
<1>6. CASE Odd(M, j)
  <2>1. PICK c \in NegatorsTo(M, j) :
          /\ \A d \in NegatorsTo(M, j) : d.last <= c.last
          /\ left + Cardinality(UsedIn(fl, c.last + 1, j - 1)) = NegWindow
    BY <1>5, <1>6 DEF Running
  <2>2. Cardinality(UsedIn(fl, c.last + 1, j - 1)) < NegWindow
    BY <1>3, <2>1, LastInSight
  <2>3. c.last \in Nat /\ c.last + 1 \in Nat /\ c.last + 1 <= j /\ j + 1 - 1 = j
    BY DEF PhrasesTo, NegatorsTo
  <2>4. Cardinality(UsedIn(fl2, c.last + 1, j)) =
          Cardinality(UsedIn(fl, c.last + 1, j - 1)) + (IF ~hard /\ content THEN 1 ELSE 0)
    <3>1. Content(tokens[j]) /\ "CUE" \notin fl2[j] <=> ~hard /\ content
      BY CountedIs
    <3>2. \A n \in DOMAIN tokens : n < j => fl2[n] = fl[n]
      BY DEF Takes
    <3>3. Cardinality(UsedIn(fl2, c.last + 1, j)) =
            Cardinality(UsedIn(fl, c.last + 1, j - 1)) +
              (IF Content(tokens[j]) /\ "CUE" \notin fl2[j] THEN 1 ELSE 0)
      BY <2>3, <3>2, UsedOneMore
    <3> QED
      BY <3>1, <3>3
  <2>5. Cardinality(UsedIn(fl, c.last + 1, j - 1)) \in Nat /\ NegWindow \in Nat
    BY UsedFinite, NegWindowType
  <2>6. after + Cardinality(UsedIn(fl2, c.last + 1, j)) = NegWindow
    BY <1>1, <2>1, <2>2, <2>4, <2>5
  <2> QED
    BY <1>2, <1>4, <1>6, <2>1, <2>3, <2>6 DEF Running
<1>7. CASE ~Odd(M, j)
  BY <1>1, <1>4, <1>5, <1>7
<1> QED
  BY <1>6, <1>7

(* A phrase that ends at token j joins those before it. *)
Joined(M, kind, k, j) == M \cup {[kind |-> kind, first |-> k, last |-> j]}

LEMMA JoinedPhrases ==
  ASSUME NEW j \in Nat, NEW k \in 1 .. j, NEW M, PhrasesTo(M, k), NEW kind
  PROVE  PhrasesTo(Joined(M, kind, k, j), j + 1) /\ PhrasesTo(M, j + 1)
<1> DEFINE c0 == [kind |-> kind, first |-> k, last |-> j]
<1>1. IsFiniteSet(M \cup {c0})
  BY FS_AddElement DEF PhrasesTo
<1>2. c0.first = k /\ c0.last = j
  OBVIOUS
<1> HIDE DEF c0
<1>3. \A c \in M \cup {c0} : c.first \in 1 .. c.last /\ c.last \in Nat /\ c.last < j + 1
  BY <1>2 DEF PhrasesTo
<1> QED
  BY <1>1, <1>3 DEF PhrasesTo, Joined, c0

LEMMA NegatorsJoined ==
  ASSUME tokens \in Seq(Tokens), NEW j \in Nat, NEW k \in 1 .. j, NEW M, PhrasesTo(M, k), NEW kind,
         NEW c0, c0 = [kind |-> kind, first |-> k, last |-> j]
  PROVE  /\ c0 \notin NegatorsTo(M, j + 1)
         /\ NegatorsTo(Joined(M, kind, k, j), j + 1) =
              NegatorsTo(M, j + 1) \cup (IF kind = "Negator" THEN {c0} ELSE {})
<1>1. c0.kind = kind /\ c0.last = j /\ j + 1 - 1 = j
  OBVIOUS
<1>2. SameClause(c0.last + 1, j)
  BY <1>1 DEF SameClause
<1>3. c0 \notin NegatorsTo(M, j + 1)
  BY <1>1 DEF NegatorsTo, PhrasesTo
<1> QED
  BY <1>1, <1>2, <1>3 DEF NegatorsTo, Joined

LEMMA InSightUnjoined ==
  ASSUME tokens \in Seq(Tokens), NEW fl, NEW j \in Nat, NEW k \in 1 .. j, NEW M, PhrasesTo(M, k),
         NEW kind, kind = "Negator",
         InSight(Joined(M, kind, k, j), fl, j + 1)
  PROVE  InSight(M, fl, j + 1)
<1> DEFINE c0 == [kind |-> kind, first |-> k, last |-> j]
           end == [first |-> j + 1, last |-> j + 1 - 1]
           N == NegatorsTo(M, j + 1)
<1>1. NegatorsTo(Joined(M, kind, k, j), j + 1) = N \cup {c0}
  BY NegatorsJoined
<1>2. c0.first = k /\ c0.last = j /\ end.first = j + 1 /\ end.last = j
  OBVIOUS
<1>3. ASSUME NEW c \in N
      PROVE  \E d \in N \cup {end} :
               c.last < d.first /\ Cardinality(UsedIn(fl, c.last + 1, d.last)) < NegWindow
  <2>1. PICK d \in N \cup {c0} \cup {end} :
          c.last < d.first /\ Cardinality(UsedIn(fl, c.last + 1, d.last)) < NegWindow
    BY <1>1 DEF InSight
  <2>2. c.last \in Nat /\ c.last < j + 1
    BY DEF PhrasesTo, NegatorsTo
  <2> HIDE DEF c0, end, N
  <2> QED
    BY <1>2, <2>1, <2>2
<1> QED
  BY <1>3 DEF InSight

(* A negator toggles the scope, another phrase leaves it.                  *)
LEMMA OpenedNegated ==
  ASSUME NEW kind \in Kinds, NEW sc \in [ScopeFlags -> Nat]
  PROVE  Opened(kind, sc)["NEGATED"] =
           IF kind = "Negator" THEN (IF sc["NEGATED"] > 0 THEN 0 ELSE NegWindow)
           ELSE sc["NEGATED"]
<1> USE DEF ScopeFlags, Degrees, Opened
<1>1. CASE kind = "Idiom"
  BY <1>1
<1>2. CASE kind = "Negator"
  BY <1>2
<1>3. CASE kind = "Exception"
  BY <1>3
<1>4. CASE kind = "Request"
  BY <1>4
<1>5. CASE kind \in {"Inquiry", "Hypothetical"}
  BY <1>5
<1>6. CASE kind = "Intensifier"
  BY <1>6
<1>7. CASE kind = "Diminisher"
  BY <1>7
<1> QED
  BY <1>1, <1>2, <1>3, <1>4, <1>5, <1>6, <1>7 DEF Kinds

LEMMA ToggleOpen ==
  ASSUME tokens \in Seq(Tokens), NEW fl, NEW j \in Nat, NEW k \in 1 .. j, NEW M, PhrasesTo(M, k),
         NEW kind \in Kinds, NEW sc \in [ScopeFlags -> Nat],
         Toggled(M, sc["NEGATED"], fl, j + 1)
  PROVE  Toggled(Joined(M, kind, k, j), Opened(kind, sc)["NEGATED"], fl, j + 1)
<1> DEFINE c0 == [kind |-> kind, first |-> k, last |-> j]
           N == NegatorsTo(M, j + 1)
           M2 == Joined(M, kind, k, j)
           left == sc["NEGATED"]
           after == Opened(kind, sc)["NEGATED"]
<1>1. left \in Nat
  BY DEF ScopeFlags
<1>2. after = IF kind = "Negator" THEN (IF left > 0 THEN 0 ELSE NegWindow) ELSE left
  BY OpenedNegated
<1>3. c0 \notin N /\ NegatorsTo(M2, j + 1) = N \cup (IF kind = "Negator" THEN {c0} ELSE {})
  BY NegatorsJoined
<1>4. IsFiniteSet(N) /\ Cardinality(N) \in Nat
  BY JoinedPhrases, NegatorsFinite
<1>5. CASE kind # "Negator"
  <2>1. NegatorsTo(M2, j + 1) = NegatorsTo(M, j + 1) /\ after = left
    BY <1>2, <1>3, <1>5
  <2> HIDE DEF M2, after
  <2> SUFFICES Toggled(M2, after, fl, j + 1)
    BY DEF M2, after
  <2> QED
    BY <2>1 DEF Toggled, InSight, Odd, Running
<1>6. CASE kind = "Negator"
  <2> SUFFICES ASSUME InSight(M2, fl, j + 1)
               PROVE  IF Odd(M2, j + 1) THEN Running(M2, after, fl, j + 1) ELSE after = 0
    BY DEF Toggled
  <2>1. InSight(M, fl, j + 1)
    BY <1>6, InSightUnjoined
  <2>2. IF Odd(M, j + 1) THEN Running(M, left, fl, j + 1) ELSE left = 0
    BY <2>1 DEF Toggled
  <2>3. /\ NegatorsTo(M2, j + 1) = N \cup {c0}
        /\ Cardinality(NegatorsTo(M2, j + 1)) = Cardinality(N) + 1
    BY <1>3, <1>4, <1>6, FS_AddElement
  <2>4. Odd(M2, j + 1) <=> ~Odd(M, j + 1)
    BY <1>4, <2>3 DEF Odd
  <2>5. CASE Odd(M, j + 1)
    <3>1. PICK c \in N : /\ \A d \in N : d.last <= c.last
                         /\ left + Cardinality(UsedIn(fl, c.last + 1, j + 1 - 1)) = NegWindow
      BY <2>2, <2>5 DEF Running
    <3>2. Cardinality(UsedIn(fl, c.last + 1, j + 1 - 1)) < NegWindow
      <4>1. PhrasesTo(M, j + 1) /\ j + 1 \in Nat
        BY JoinedPhrases
      <4> QED
        BY <2>1, <3>1, <4>1, LastInSight
    <3>3. Cardinality(UsedIn(fl, c.last + 1, j + 1 - 1)) \in Nat
      BY UsedFinite
    <3>4. left > 0
      BY <1>1, <3>1, <3>2, <3>3, NegWindowType
    <3> QED
      BY <1>2, <1>6, <2>4, <2>5, <3>4
  <2>6. CASE ~Odd(M, j + 1)
    <3>1. after = NegWindow
      BY <1>2, <1>6, <2>2, <2>6
    <3>2. c0.last = j /\ j + 1 - 1 = j
      OBVIOUS
    <3>3. \A d \in N : d.last <= j
      BY DEF NegatorsTo, PhrasesTo
    <3>4. Cardinality(UsedIn(fl, j + 1, j)) = 0
      <4>1. UsedIn(fl, j + 1, j) = {}
        BY DEF UsedIn
      <4> QED
        BY <4>1, FS_EmptySet
    <3>5. Running(M2, after, fl, j + 1)
      <4> HIDE DEF c0, N, M2, after
      <4>1. c0 \in NegatorsTo(M2, j + 1) /\ \A d \in NegatorsTo(M2, j + 1) : d.last <= c0.last
        BY <2>3, <3>2, <3>3
      <4>2. after + Cardinality(UsedIn(fl, c0.last + 1, j + 1 - 1)) = NegWindow
        BY <3>1, <3>2, <3>4, NegWindowType
      <4> QED
        BY <4>1, <4>2 DEF Running
    <3> QED
      BY <2>4, <2>6, <3>5
  <2> QED
    BY <2>5, <2>6
<1> QED
  BY <1>5, <1>6

(* After a token that ends the clause, no negator stands before.           *)
LEMMA ToggleClause ==
  ASSUME tokens \in Seq(Tokens), NEW fl, NEW j \in DOMAIN tokens, j \in Nat, EndsClause(tokens[j]),
         NEW M, \A c \in M : c.last \in Nat /\ (c.last < j \/ c.kind # "Negator")
  PROVE  Toggled(M, 0, fl, j + 1) /\ NegatorsTo(M, j + 1) = {}
<1>1. ASSUME NEW c \in NegatorsTo(M, j + 1) PROVE FALSE
  <2>1. c.last \in Nat /\ c.last < j /\ SameClause(c.last + 1, j)
    BY DEF NegatorsTo
  <2> QED
    BY <2>1 DEF SameClause
<1>2. NegatorsTo(M, j + 1) = {}
  BY <1>1
<1>3. ~Odd(M, j + 1)
  BY <1>2, FS_EmptySet DEF Odd
<1> QED
  BY <1>2, <1>3 DEF Toggled

-----------------------------------------------------------------------------
(* The phrases no request was met after, and the hypothesis scope alone: it *)
(* has its reason among those.                                             *)
Unended(M) == {c \in M : ~\E d \in M : d.kind = "Request" /\ c.last < d.first}
HypothesisOf(sc) == [f \in ScopeFlags |-> IF f = "HYPOTHETICAL" THEN sc[f] ELSE 0]
Supposed(M, sc, fl, j) == OpenAt(Unended(M), HypothesisOf(sc), fl, j)

LEMMA HypothesisType ==
  ASSUME NEW sc \in [ScopeFlags -> Nat]
  PROVE  /\ HypothesisOf(sc) \in [ScopeFlags -> Nat]
         /\ \A f \in ScopeFlags : HypothesisOf(sc)[f] <= sc[f]
         /\ HypothesisOf(sc)["HYPOTHETICAL"] = sc["HYPOTHETICAL"]
  BY DEF HypothesisOf, ScopeFlags

LEMMA HypothesisUsed ==
  ASSUME NEW hard \in BOOLEAN, NEW content \in BOOLEAN, NEW sc \in [ScopeFlags -> Nat]
  PROVE  CueUsed(hard, HypothesisOf(sc), content) = HypothesisOf(CueUsed(hard, sc, content))
<1>1. CASE hard
  BY <1>1 DEF CueUsed
<1>2. CASE ~hard
  <2> DEFINE u == Used(HypothesisOf(sc), content)
             v == HypothesisOf(Used(sc, content))
  <2>1. DOMAIN u = ScopeFlags /\ DOMAIN v = ScopeFlags
    BY DEF Used, HypothesisOf
  <2>2. ASSUME NEW f \in ScopeFlags PROVE u[f] = v[f]
    BY DEF Used, HypothesisOf
  <2>3. u = [f \in ScopeFlags |-> u[f]] /\ v = [f \in ScopeFlags |-> v[f]]
    BY DEF Used, HypothesisOf
  <2> HIDE DEF u, v
  <2>4. u = v
    BY <2>2, <2>3
  <2> QED
    BY <1>2, <2>4 DEF CueUsed, u, v
<1> QED
  BY <1>1, <1>2

LEMMA SupposedPass ==
  ASSUME tokens \in Seq(Tokens), NEW fl, NEW fl2, NEW j \in DOMAIN tokens, NEW M,
         NEW hard, NEW content, NEW sc \in [ScopeFlags -> Nat],
         Takes(fl, fl2, j, hard, content, sc),
         Supposed(M, sc, fl, j)
  PROVE  Supposed(M, CueUsed(hard, sc, content), fl2, j + 1)
<1> DEFINE h == HypothesisOf(sc)
           U == Unended(M)
<1>1. /\ ~EndsClause(tokens[j]) /\ hard \in BOOLEAN /\ content \in BOOLEAN
      /\ (~hard /\ Content(tokens[j]) => content)
      /\ \A n \in DOMAIN tokens : n < j => fl2[n] = fl[n]
  BY DEF Takes
<1>2. hard => "CUE" \in fl2[j]
  BY DEF Takes, CueGiven
<1>3. h \in [ScopeFlags -> Nat] /\ OpenAt(U, h, fl, j)
  BY HypothesisType DEF Supposed
<1>4. CueUsed(hard, h, content) = HypothesisOf(CueUsed(hard, sc, content))
  BY <1>1, HypothesisUsed
<1> HIDE DEF h, U
<1>5. OpenAt(U, CueUsed(hard, h, content), fl2, j + 1)
  BY <1>1, <1>2, <1>3, Advance
<1> QED
  BY <1>4, <1>5 DEF Supposed, U

(* A hypothesis is opened by its own phrases and closed by a request.      *)
LEMMA OpenedHypothesis ==
  ASSUME NEW kind \in Kinds, NEW sc \in [ScopeFlags -> Nat]
  PROVE  HypothesisOf(Opened(kind, sc))["HYPOTHETICAL"] =
           IF kind = "Request" THEN 0
           ELSE IF kind \in {"Inquiry", "Hypothetical"} THEN HypWindow
           ELSE sc["HYPOTHETICAL"]
<1> USE DEF ScopeFlags, Degrees, Opened, HypothesisOf
<1>1. CASE kind = "Idiom"
  BY <1>1
<1>2. CASE kind = "Negator"
  BY <1>2
<1>3. CASE kind = "Exception"
  BY <1>3
<1>4. CASE kind = "Request"
  BY <1>4
<1>5. CASE kind \in {"Inquiry", "Hypothetical"}
  BY <1>5
<1>6. CASE kind = "Intensifier"
  BY <1>6
<1>7. CASE kind = "Diminisher"
  BY <1>7
<1> QED
  BY <1>1, <1>2, <1>3, <1>4, <1>5, <1>6, <1>7 DEF Kinds

LEMMA SupposedOpen ==
  ASSUME tokens \in Seq(Tokens), NEW fl, NEW j \in Nat, NEW k \in 1 .. j, NEW M, PhrasesTo(M, k),
         NEW kind \in Kinds, NEW sc \in [ScopeFlags -> Nat],
         Supposed(M, sc, fl, j + 1)
  PROVE  Supposed(Joined(M, kind, k, j), Opened(kind, sc), fl, j + 1)
<1> DEFINE c0 == [kind |-> kind, first |-> k, last |-> j]
           M2 == Joined(M, kind, k, j)
           f == "HYPOTHETICAL"
           h == HypothesisOf(sc)
           h2 == HypothesisOf(Opened(kind, sc))
<1>0. c0.kind = kind /\ c0.first = k /\ c0.last = j /\ M2 = M \cup {c0}
  BY DEF Joined
<1>1. c0 \in Unended(M2)
  BY <1>0 DEF Unended, PhrasesTo
<1>2. kind # "Request" => Unended(M) \subseteq Unended(M2)
  BY <1>0 DEF Unended
<1>3. h2[f] = IF kind = "Request" THEN 0
              ELSE IF kind \in {"Inquiry", "Hypothetical"} THEN HypWindow
              ELSE h[f]
  BY OpenedHypothesis, HypothesisType
<1>4. \A g \in ScopeFlags : g # f => h2[g] = 0
  BY DEF HypothesisOf
<1>5. f \in ScopeFlags /\ Window[f] = HypWindow
  BY WindowIs DEF ScopeFlags
<1> HIDE DEF c0, M2, h, h2
<1> SUFFICES ASSUME h2[f] > 0
             PROVE  \E c \in Unended(M2) : Reason(Unended(M2), fl, c, f, j + 1, h2[f])
  BY <1>4 DEF Supposed, OpenAt, M2, h2
<1>6. CASE kind \in {"Inquiry", "Hypothetical"}
  <2>1. UsedIn(fl, j + 1, j) = {} /\ j + 1 - 1 = j
    BY DEF UsedIn
  <2>2. Cardinality(UsedIn(fl, j + 1, j + 1 - 1)) = 0
    BY <2>1, FS_EmptySet
  <2>3. SameClause(j + 1, j + 1 - 1)
    BY DEF SameClause
  <2>4. f \in OpenedBy(c0.kind)
    BY <1>0, <1>6 DEF OpenedBy
  <2>5. Reason(Unended(M2), fl, c0, f, j + 1, h2[f])
    BY <1>0, <1>1, <1>3, <1>5, <1>6, <2>2, <2>3, <2>4, WindowType DEF Reason
  <2> QED
    BY <1>1, <2>5
<1>7. CASE kind \notin {"Inquiry", "Hypothetical"}
  <2>1. kind # "Request" /\ h2[f] = h[f]
    BY <1>3, <1>7
  <2>2. PICK c \in Unended(M) : Reason(Unended(M), fl, c, f, j + 1, h[f])
    BY <1>5, <2>1 DEF Supposed, OpenAt, h
  <2> QED
    BY <1>2, <2>1, <2>2 DEF Reason
<1> QED
  BY <1>6, <1>7

-----------------------------------------------------------------------------
(* What the two properties say of one token.                               *)
Before(M, k) == {c \in M : c.kind = "Negator" /\ c.last < k /\ SameClause(c.last + 1, k)}

Clear(M, fl, k) ==
  /\ "CUE" \notin fl[k]
  /\ \A c \in M : k \notin c.first .. c.last
  /\ \A c \in Before(M, k) :
       \E d \in Before(M, k) \cup {[first |-> k, last |-> k - 1]} :
         c.last < d.first /\ Cardinality(UsedIn(fl, c.last + 1, d.last)) < NegWindow

Parity(M, fl, k) ==
  Clear(M, fl, k) => ("NEGATED" \in fl[k] <=> Cardinality(Before(M, k)) % 2 = 1)

Hypothesized(M, fl, k) ==
  "HYPOTHETICAL" \in fl[k] =>
    \E c \in M : /\ "HYPOTHETICAL" \in OpenedBy(c.kind) /\ c.last < k
                 /\ SameClause(c.last + 1, k)
                 /\ Cardinality(UsedIn(fl, c.last + 1, k - 1)) < Window["HYPOTHETICAL"]
                 /\ ~\E d \in M : d.kind = "Request" /\ c.last < d.first /\ d.last < k

LEMMA ParityIs == NegationParity <=> \A k \in 1 .. i - 1 : Parity(met, flags, k)
<1>1. \A k : NegatorsBefore(k) = Before(met, k)
  BY DEF NegatorsBefore, Before
<1>2. \A a, b : UsedBetween(a, b) = UsedIn(flags, a, b)
  BY DEF UsedBetween, UsedIn
<1> QED
  BY <1>1, <1>2 DEF NegationParity, Parity, Clear

LEMMA HypothesizedIs ==
  RequestsEndHypotheses <=> \A k \in 1 .. i - 1 : Hypothesized(met, flags, k)
<1>1. \A a, b : UsedBetween(a, b) = UsedIn(flags, a, b)
  BY DEF UsedBetween, UsedIn
<1> QED
  BY <1>1 DEF RequestsEndHypotheses, Reaches, Hypothesized

(* Neither is changed by what later tokens are given or begin.             *)
LEMMA TokenKept ==
  ASSUME tokens \in Seq(Tokens), NEW fl, NEW fl2, NEW k \in Nat, k \in DOMAIN tokens,
         \A n \in DOMAIN tokens : n <= k => fl2[n] = fl[n],
         NEW M, \A c \in M : c.first \in Nat /\ c.last \in Nat,
         NEW M2, M \subseteq M2, \A c \in M2 \ M : c.last \in Nat /\ c.last >= k
  PROVE  /\ Parity(M, fl, k) => Parity(M2, fl2, k)
         /\ Hypothesized(M, fl, k) => Hypothesized(M2, fl2, k)
<1>1. \A a : \A b \in Int : b <= k => UsedIn(fl2, a, b) = UsedIn(fl, a, b)
  BY DEF UsedIn
<1>2. Before(M2, k) = Before(M, k)
  BY DEF Before
<1>3. fl2[k] = fl[k]
  OBVIOUS
<1>4. ASSUME Clear(M2, fl2, k) PROVE Clear(M, fl, k)
  <2>1. ASSUME NEW c \in Before(M, k)
        PROVE  \E d \in Before(M, k) \cup {[first |-> k, last |-> k - 1]} :
                 c.last < d.first /\ Cardinality(UsedIn(fl, c.last + 1, d.last)) < NegWindow
    <3>1. PICK d \in Before(M, k) \cup {[first |-> k, last |-> k - 1]} :
            c.last < d.first /\ Cardinality(UsedIn(fl2, c.last + 1, d.last)) < NegWindow
      BY <1>2, <1>4 DEF Clear
    <3>2. d.last \in Int /\ d.last <= k
      BY DEF Before
    <3>3. UsedIn(fl2, c.last + 1, d.last) = UsedIn(fl, c.last + 1, d.last)
      BY <1>1, <3>2
    <3> QED
      BY <3>1, <3>3
  <2>2. "CUE" \notin fl[k] /\ \A c \in M : k \notin c.first .. c.last
    BY <1>3, <1>4 DEF Clear
  <2> QED
    BY <2>1, <2>2 DEF Clear
<1>5. Parity(M, fl, k) => Parity(M2, fl2, k)
  BY <1>2, <1>3, <1>4 DEF Parity
<1>6. ASSUME Hypothesized(M, fl, k), "HYPOTHETICAL" \in fl2[k]
      PROVE  Hypothesized(M2, fl2, k)
  <2>1. PICK c \in M : /\ "HYPOTHETICAL" \in OpenedBy(c.kind) /\ c.last < k
                       /\ SameClause(c.last + 1, k)
                       /\ Cardinality(UsedIn(fl, c.last + 1, k - 1)) < Window["HYPOTHETICAL"]
                       /\ ~\E d \in M : d.kind = "Request" /\ c.last < d.first /\ d.last < k
    BY <1>3, <1>6 DEF Hypothesized
  <2>2. UsedIn(fl2, c.last + 1, k - 1) = UsedIn(fl, c.last + 1, k - 1)
    BY <1>1
  <2>3. ~\E d \in M2 : d.kind = "Request" /\ c.last < d.first /\ d.last < k
    BY <2>1
  <2> QED
    BY <2>1, <2>2, <2>3 DEF Hypothesized
<1> QED
  BY <1>5, <1>6 DEF Hypothesized

(* A token that takes its flags from the scopes.                           *)
LEMMA TokenHypothesized ==
  ASSUME tokens \in Seq(Tokens), NEW fl, NEW fl2, NEW j \in DOMAIN tokens, j \in Nat, NEW M,
         NEW hard, NEW content, NEW sc \in [ScopeFlags -> Nat],
         Takes(fl, fl2, j, hard, content, sc), Supposed(M, sc, fl, j),
         NEW M2, M \subseteq M2, \A c \in M2 \ M : c.last \in Nat /\ c.last >= j
  PROVE  Hypothesized(M2, fl2, j)
<1> DEFINE f == "HYPOTHETICAL"
           h == HypothesisOf(sc)
           U == Unended(M)
<1> SUFFICES ASSUME f \in fl2[j]
             PROVE  \E c \in M2 : /\ f \in OpenedBy(c.kind) /\ c.last < j
                                  /\ SameClause(c.last + 1, j)
                                  /\ Cardinality(UsedIn(fl2, c.last + 1, j - 1)) < Window[f]
                                  /\ ~\E d \in M2 : d.kind = "Request" /\ c.last < d.first /\ d.last < j
  BY DEF Hypothesized
<1>1. /\ ~EndsClause(tokens[j]) /\ hard \in BOOLEAN /\ content \in BOOLEAN
      /\ \A n \in DOMAIN tokens : n < j => fl2[n] = fl[n]
  BY DEF Takes
<1>2. h \in [ScopeFlags -> Nat] /\ OpenAt(U, h, fl, j) /\ h[f] = sc[f]
  BY HypothesisType DEF Supposed
<1>3. f \in CueGiven(hard, sc, content)
  BY DEF Takes, SegmentFlags
<1>4. f \in CueGiven(hard, h, content) \cap ScopeFlags
  BY <1>2, <1>3 DEF CueGiven, Given, ScopeFlags, Degrees
<1> HIDE DEF h, U
<1>5. PICK c \in U : /\ f \in OpenedBy(c.kind) /\ c.last < j
                     /\ SameClause(c.last + 1, j)
                     /\ Cardinality(UsedIn(fl, c.last + 1, j - 1)) < Window[f]
  BY <1>1, <1>2, <1>4, GivenReaches
<1>6. UsedIn(fl2, c.last + 1, j - 1) = UsedIn(fl, c.last + 1, j - 1)
  BY <1>1 DEF UsedIn
<1>7. c \in M2 /\ ~\E d \in M2 : d.kind = "Request" /\ c.last < d.first /\ d.last < j
  BY DEF U, Unended
<1> QED
  BY <1>5, <1>6, <1>7

LEMMA TokenParity ==
  ASSUME tokens \in Seq(Tokens), NEW fl, NEW fl2, NEW j \in DOMAIN tokens, j \in Nat, NEW M,
         NEW hard, NEW content, NEW sc \in [ScopeFlags -> Nat],
         PhrasesTo(M, j),
         Takes(fl, fl2, j, hard, content, sc), Toggled(M, sc["NEGATED"], fl, j)
  PROVE  Parity(M, fl2, j)
<1>1. Before(M, j) = NegatorsTo(M, j)
  <2>1. ASSUME NEW c \in M PROVE c \in Before(M, j) <=> c \in NegatorsTo(M, j)
    <3>1. c.last \in Nat /\ c.last < j
      BY DEF PhrasesTo
    <3>2. \A n \in DOMAIN tokens : n \in Nat /\ (n <= j <=> n <= j - 1 \/ n = j)
      OBVIOUS
    <3>3. SameClause(c.last + 1, j) <=> SameClause(c.last + 1, j - 1)
      BY <3>1, <3>2 DEF SameClause, Takes
    <3> QED
      BY <3>1, <3>3 DEF Before, NegatorsTo
  <2> QED
    BY <2>1 DEF Before, NegatorsTo
<1> SUFFICES ASSUME Clear(M, fl2, j)
             PROVE  "NEGATED" \in fl2[j] <=> Odd(M, j)
  BY <1>1 DEF Parity, Odd
<1>2. \A a : \A b \in Int : b < j => UsedIn(fl2, a, b) = UsedIn(fl, a, b)
  BY UsedSame DEF Takes
<1>3. InSight(M, fl, j)
  <2> SUFFICES ASSUME NEW c \in NegatorsTo(M, j)
               PROVE  \E d \in NegatorsTo(M, j) \cup {[first |-> j, last |-> j - 1]} :
                        c.last < d.first /\ Cardinality(UsedIn(fl, c.last + 1, d.last)) < NegWindow
    BY DEF InSight
  <2>1. PICK d \in NegatorsTo(M, j) \cup {[first |-> j, last |-> j - 1]} :
          c.last < d.first /\ Cardinality(UsedIn(fl2, c.last + 1, d.last)) < NegWindow
    BY <1>1 DEF Clear
  <2>2. d.last \in Int /\ d.last < j
    BY DEF NegatorsTo, PhrasesTo
  <2> QED
    BY <1>2, <2>1, <2>2
<1>4. "NEGATED" \in fl2[j] <=> sc["NEGATED"] > 0
  <2>1. ~hard
    BY DEF Clear, Takes, CueGiven
  <2> QED
    BY <2>1 DEF Takes, CueGiven, Given, SegmentFlags, ScopeFlags, Degrees
<1>5. CASE Odd(M, j)
  <2>1. PICK c \in NegatorsTo(M, j) :
          /\ \A d \in NegatorsTo(M, j) : d.last <= c.last
          /\ sc["NEGATED"] + Cardinality(UsedIn(fl, c.last + 1, j - 1)) = NegWindow
    BY <1>3, <1>5 DEF Toggled, Running
  <2>2. Cardinality(UsedIn(fl, c.last + 1, j - 1)) < NegWindow
    BY <1>3, <2>1, LastInSight
  <2>3. Cardinality(UsedIn(fl, c.last + 1, j - 1)) \in Nat /\ sc["NEGATED"] \in Nat
    BY UsedFinite DEF ScopeFlags
  <2> QED
    BY <1>4, <1>5, <2>1, <2>2, <2>3, NegWindowType
<1>6. CASE ~Odd(M, j)
  BY <1>3, <1>4, <1>6 DEF Toggled
<1> QED
  BY <1>5, <1>6

-----------------------------------------------------------------------------
(* The invariant behind the two properties.                                *)
Account(M, sc, fl, j) ==
  /\ PhrasesTo(M, j)
  /\ sc \in [ScopeFlags -> Nat]
  /\ Supposed(M, sc, fl, j)
  /\ Toggled(M, sc["NEGATED"], fl, j)

Told(M, fl, j) == Parity(M, fl, j) /\ Hypothesized(M, fl, j)

PassInv ==
  /\ SInv
  /\ Account(met, scopes, flags, i)
  /\ \A k \in 1 .. i - 1 : Told(met, flags, k)

LEMMA AccountPass ==
  ASSUME tokens \in Seq(Tokens), NEW fl, NEW fl2, NEW j \in DOMAIN tokens, j \in Nat, NEW M,
         NEW hard, NEW content, NEW sc, Account(M, sc, fl, j),
         Takes(fl, fl2, j, hard, content, sc)
  PROVE  Account(M, CueUsed(hard, sc, content), fl2, j + 1)
<1> DEFINE sc2 == CueUsed(hard, sc, content)
<1>1. sc2 \in [ScopeFlags -> Nat]
  BY DEF Account, Takes, CueUsed, Used
<1>2. PhrasesTo(M, j + 1)
  BY DEF Account, PhrasesTo
<1>3. Supposed(M, sc2, fl2, j + 1)
  BY SupposedPass DEF Account
<1>4. Toggled(M, sc2["NEGATED"], fl2, j + 1)
  BY TogglePass DEF Account
<1> QED
  BY <1>1, <1>2, <1>3, <1>4 DEF Account

LEMMA AccountOpen ==
  ASSUME tokens \in Seq(Tokens), NEW fl, NEW j \in Nat, NEW k \in 1 .. j, NEW M, PhrasesTo(M, k),
         NEW kind \in Kinds, NEW sc, Account(M, sc, fl, j + 1)
  PROVE  Account(Joined(M, kind, k, j), Opened(kind, sc), fl, j + 1)
<1> DEFINE M2 == Joined(M, kind, k, j)
           sc2 == Opened(kind, sc)
<1>1. sc2 \in [ScopeFlags -> Nat]
  BY OpenedIs DEF Account
<1>2. PhrasesTo(M2, j + 1)
  BY JoinedPhrases
<1>3. Supposed(M2, sc2, fl, j + 1)
  BY SupposedOpen DEF Account
<1>4. Toggled(M2, sc2["NEGATED"], fl, j + 1)
  BY ToggleOpen DEF Account
<1> QED
  BY <1>1, <1>2, <1>3, <1>4 DEF Account

LEMMA AccountClause ==
  ASSUME tokens \in Seq(Tokens), NEW fl, NEW j \in DOMAIN tokens, j \in Nat, EndsClause(tokens[j]),
         NEW M, PhrasesTo(M, j),
         NEW M2, NEW sc,
         \/ M2 = M /\ sc = Closed
         \/ M2 = Joined(M, "Exception", j, j) /\ sc = Opened("Exception", Closed)
  PROVE  Account(M2, sc, fl, j + 1)
<1>0. j \in 1 .. j
  BY DEF PhrasesTo
<1>1. Closed \in [ScopeFlags -> Nat] /\ \A f \in ScopeFlags : Closed[f] = 0
  BY DEF Closed
<1>2. Account(M, Closed, fl, j + 1)
  <2>1. PhrasesTo(M, j + 1)
    BY <1>0, JoinedPhrases
  <2>2. Supposed(M, Closed, fl, j + 1)
    BY <1>1, HypothesisType DEF Supposed, OpenAt
  <2>3. \A c \in M : c.last \in Nat /\ c.last < j
    BY DEF PhrasesTo
  <2>4. Toggled(M, Closed["NEGATED"], fl, j + 1)
    BY <1>1, <2>3, ToggleClause DEF ScopeFlags
  <2> QED
    BY <1>1, <2>1, <2>2, <2>4 DEF Account
<1>3. "Exception" \in Kinds
  BY DEF Kinds
<1> DEFINE kind == "Exception"
<1> HIDE DEF kind
<1>4. Account(Joined(M, kind, j, j), Opened(kind, Closed), fl, j + 1)
  BY <1>0, <1>2, <1>3, AccountOpen DEF kind
<1> QED
  BY <1>2, <1>4 DEF kind

LEMMA KeptTold ==
  ASSUME tokens \in Seq(Tokens), NEW fl, NEW fl2, NEW j \in Nat, NEW M, PhrasesTo(M, j),
         NEW k \in 1 .. j - 1, k \in DOMAIN tokens, Told(M, fl, k),
         \A n \in DOMAIN tokens : n < j => fl2[n] = fl[n],
         NEW M2, M \subseteq M2, \A c \in M2 \ M : c.last \in Nat /\ c.last >= j
  PROVE  Told(M2, fl2, k)
<1>1. /\ \A c \in M : c.first \in Nat /\ c.last \in Nat
      /\ \A c \in M2 \ M : c.last \in Nat /\ c.last >= k
      /\ k \in Nat
      /\ \A n \in DOMAIN tokens : n <= k => fl2[n] = fl[n]
  BY DEF PhrasesTo
<1> QED
  BY <1>1, TokenKept DEF Told

(* A token that is part of a phrase: nothing is said of its negation.      *)
LEMMA PhraseTold ==
  ASSUME tokens \in Seq(Tokens), NEW fl, NEW fl2, NEW j \in DOMAIN tokens, j \in Nat, NEW M,
         NEW hard, NEW content, NEW sc, Account(M, sc, fl, j),
         Takes(fl, fl2, j, hard, content, sc),
         NEW kind, NEW k \in 1 .. j, NEW m \in Nat, j <= m
  PROVE  Told(Joined(M, kind, k, m), fl2, j)
<1> DEFINE c0 == [kind |-> kind, first |-> k, last |-> m]
<1>1. Joined(M, kind, k, m) = M \cup {c0} /\ c0.first = k /\ c0.last = m
  BY DEF Joined
<1> HIDE DEF c0
<1>2. Parity(M \cup {c0}, fl2, j)
  BY <1>1 DEF Parity, Clear
<1>3. Hypothesized(M \cup {c0}, fl2, j)
  BY <1>1, TokenHypothesized DEF Account
<1> QED
  BY <1>1, <1>2, <1>3 DEF Told

LEMMA ClauseTold ==
  ASSUME tokens \in Seq(Tokens), NEW fl2, NEW j \in DOMAIN tokens, j \in Nat,
         EndsClause(tokens[j]), fl2[j] \subseteq SegmentFlags \cup {"CUE"},
         NEW M, \A c \in M : c.last \in Nat
  PROVE  Told(M, fl2, j)
<1>1. Before(M, j) = {}
  BY DEF Before, SameClause
<1>2. "NEGATED" \notin fl2[j] /\ "HYPOTHETICAL" \notin fl2[j]
  BY DEF SegmentFlags
<1>3. Cardinality({}) = 0
  BY FS_EmptySet
<1> QED
  BY <1>1, <1>2, <1>3 DEF Told, Parity, Hypothesized

(* The tokens before the present one stay accounted for.                   *)
LEMMA StepKeepsTold ==
  ASSUME PassInv, More, UNCHANGED tokens,
         \A n \in DOMAIN tokens : n < i => flags'[n] = flags[n],
         NEW m \in Nat, i <= m, m \in DOMAIN tokens, i' = m + 1,
         \/ met' = met
         \/ \E kind : met' = Joined(met, kind, i, m),
         \A k \in i .. m : Told(met', flags', k)
  PROVE  \A k \in 1 .. i' - 1 : Told(met', flags', k)
<1>0. /\ i \in DOMAIN tokens /\ i \in Nat /\ DOMAIN tokens = 1 .. Len(tokens)
      /\ tokens \in Seq(Tokens)
  BY AtToken DEF PassInv, SInv, Shape
<1>1. met \subseteq met' /\ \A c \in met' \ met : c.last \in Nat /\ c.last >= i
  BY DEF Joined
<1>2. ASSUME NEW k \in 1 .. i - 1 PROVE Told(met', flags', k)
  <2>1. PhrasesTo(met, i) /\ Told(met, flags, k) /\ k \in DOMAIN tokens
    BY <1>0 DEF PassInv, Account
  <2> QED
    BY <1>0, <1>1, <2>1, KeptTold
<1>3. \A k \in 1 .. i' - 1 : k \in 1 .. i - 1 \/ k \in i .. m
  BY <1>0
<1> QED
  BY <1>2, <1>3

LEMMA AccountLater ==
  ASSUME UNCHANGED tokens
  PROVE  /\ \A k : Told(met, flags, k)' <=> Told(met', flags', k)
         /\ Account(met, scopes, flags, i)' <=> Account(met', scopes', flags', i')
<1>1. \A k : Told(met, flags, k)' <=> Told(met', flags', k)
  BY DEF Told, Parity, Clear, Before, SameClause, UsedIn, Hypothesized
<1>2. Account(met, scopes, flags, i)' <=> Account(met', scopes', flags', i')
  BY DEF Account, Supposed, OpenAt, Reason, SameClause, UsedIn, Toggled, InSight, Odd, Running,
         NegatorsTo
<1> QED
  BY <1>1, <1>2

(* One step, from its tokens: SInv is known to hold after it.              *)
LEMMA StepPasses ==
  ASSUME PassInv, SInv', More, UNCHANGED tokens,
         \A n \in DOMAIN tokens : n < i => flags'[n] = flags[n],
         NEW m \in Nat, i <= m, m \in DOMAIN tokens, i' = m + 1,
         \/ met' = met
         \/ \E kind : met' = Joined(met, kind, i, m),
         \A k \in i .. m : Told(met', flags', k),
         Account(met', scopes', flags', m + 1)
  PROVE  PassInv'
<1>1. \A k \in 1 .. i' - 1 : Told(met', flags', k)
  BY StepKeepsTold
<1> QED
  BY <1>1, AccountLater DEF PassInv

LEMMA PassStarts == ScopeInit => PassInv
<1> SUFFICES ASSUME ScopeInit PROVE PassInv
  OBVIOUS
<1>1. SInv
  BY InitSInv
<1>2. /\ i = 1 /\ scopes = Closed /\ met = {}
      /\ Closed \in [ScopeFlags -> Nat] /\ \A f \in ScopeFlags : Closed[f] = 0
  BY DEF ScopeInit, Closed
<1>3. PhrasesTo(met, i)
  BY <1>2, FS_EmptySet DEF PhrasesTo
<1>4. Supposed(met, scopes, flags, i)
  BY <1>2, HypothesisType DEF Supposed, OpenAt
<1>5. Toggled(met, scopes["NEGATED"], flags, i)
  <2>1. NegatorsTo(met, i) = {}
    BY <1>2 DEF NegatorsTo
  <2>2. ~Odd(met, i)
    BY <2>1, FS_EmptySet DEF Odd
  <2> QED
    BY <1>2, <2>2 DEF Toggled, ScopeFlags
<1> QED
  BY <1>1, <1>2, <1>3, <1>4, <1>5 DEF PassInv, Account

LEMMA EndClausePasses == ASSUME PassInv, EndClause PROVE PassInv'
<1>0. /\ i \in DOMAIN tokens /\ i \in Nat /\ DOMAIN tokens = 1 .. Len(tokens)
      /\ tokens \in Seq(Tokens) /\ SInv /\ More /\ EndsClause(tokens[i])
      /\ flags \in [DOMAIN tokens -> SUBSET Flags]
      /\ flags[i] \subseteq SegmentFlags /\ PhrasesTo(met, i)
  BY AtToken DEF EndClause, PassInv, SInv, Shape, Untouched, Account
<1>1. /\ SInv' /\ UNCHANGED tokens /\ i' = i + 1
      /\ \A n \in DOMAIN tokens : n < i => flags'[n] = flags[n]
      /\ flags'[i] \subseteq SegmentFlags \cup {"CUE"}
  BY <1>0, EndClauseInv DEF EndClause
<1>2. \/ met' = met /\ scopes' = Closed
      \/ met' = Joined(met, "Exception", i, i) /\ scopes' = Opened("Exception", Closed)
  <2>1. i + 1 - 1 = i
    BY <1>0
  <2> QED
    BY <2>1 DEF EndClause, Meet, Joined
<1>3. Account(met', scopes', flags', i + 1)
  BY <1>0, <1>2, AccountClause
<1>4. \A c \in met' : c.last \in Nat
  BY <1>0, <1>2 DEF PhrasesTo, Joined
<1>5. Told(met', flags', i)
  BY <1>0, <1>1, <1>4, ClauseTold
<1>6. \A k \in i .. i : Told(met', flags', k)
  BY <1>0, <1>5
<1>7. met' = met \/ \E kind : met' = Joined(met, kind, i, i)
  BY <1>2
<1> QED
  BY <1>0, <1>1, <1>3, <1>6, <1>7, StepPasses

LEMMA PlainPasses == ASSUME PassInv, Plain PROVE PassInv'
<1> DEFINE content == Content(tokens[i])
           hard == FALSE
<1>0. /\ i \in DOMAIN tokens /\ i \in Nat /\ DOMAIN tokens = 1 .. Len(tokens)
      /\ tokens \in Seq(Tokens) /\ SInv /\ More /\ ~EndsClause(tokens[i])
      /\ flags \in [DOMAIN tokens -> SUBSET Flags]
      /\ flags[i] \subseteq SegmentFlags /\ Account(met, scopes, flags, i)
  BY AtToken DEF Plain, PassInv, SInv, Shape, Untouched
<1>1. /\ SInv' /\ UNCHANGED tokens /\ i' = i + 1 /\ met' = met
      /\ \A n \in DOMAIN tokens : n < i => flags'[n] = flags[n]
      /\ flags'[i] = flags[i] \cup CueGiven(hard, scopes, content)
      /\ scopes' = CueUsed(hard, scopes, content)
  BY <1>0, PlainInv DEF Plain, CueGiven, CueUsed
<1>2. Takes(flags, flags', i, hard, content, scopes)
  BY <1>0, <1>1 DEF Takes, Content, HasContent
<1> HIDE DEF hard, content
<1>3. Account(met', scopes', flags', i + 1)
  BY <1>0, <1>1, <1>2, AccountPass
<1>4. Parity(met, flags', i)
  BY <1>0, <1>2, TokenParity DEF Account
<1>5. Hypothesized(met, flags', i)
  BY <1>0, <1>2, TokenHypothesized DEF Account
<1>6. \A k \in i .. i : Told(met', flags', k)
  BY <1>0, <1>1, <1>4, <1>5 DEF Told
<1> QED
  BY <1>0, <1>1, <1>3, <1>6, StepPasses

LEMMA CueWordPasses == ASSUME PassInv, CueWord PROVE PassInv'
<1> DEFINE content == Content(tokens[i])
           hard == Hard(tokens[i], Here.kind)
           kind == Here.kind
<1>0. /\ i \in DOMAIN tokens /\ i \in Nat /\ DOMAIN tokens = 1 .. Len(tokens)
      /\ tokens \in Seq(Tokens) /\ SInv /\ More /\ ~EndsClause(tokens[i])
      /\ flags \in [DOMAIN tokens -> SUBSET Flags]
      /\ flags[i] \subseteq SegmentFlags /\ Account(met, scopes, flags, i)
  BY AtToken DEF CueWord, PassInv, SInv, Shape, Untouched
<1>a. kind \in Kinds
  BY PhraseKinds DEF CueWord, Here
<1>1. /\ SInv' /\ UNCHANGED tokens /\ i' = i + 1 /\ met' = Joined(met, kind, i, i)
      /\ \A n \in DOMAIN tokens : n < i => flags'[n] = flags[n]
      /\ flags'[i] = flags[i] \cup CueGiven(hard, scopes, content)
      /\ scopes' = Opened(kind, CueUsed(hard, scopes, content))
  <2>1. i + 1 - 1 = i
    BY <1>0
  <2> QED
    BY <1>0, <2>1, CueWordInv DEF CueWord, Meet, Joined
<1>2. Takes(flags, flags', i, hard, content, scopes)
  BY <1>0, <1>1 DEF Takes, Content, HasContent, Hard
<1> HIDE DEF hard, content, kind
<1> DEFINE sc == CueUsed(hard, scopes, content)
<1>3. Account(met, sc, flags', i + 1)
  BY <1>0, <1>2, AccountPass
<1> HIDE DEF sc
<1>b. i \in 1 .. i /\ i <= i /\ PhrasesTo(met, i)
  BY <1>0 DEF Account
<1>4. Account(met', scopes', flags', i + 1)
  BY <1>0, <1>a, <1>b, <1>1, <1>3, AccountOpen DEF sc
<1>5. Told(met', flags', i)
  BY <1>0, <1>b, <1>1, <1>2, PhraseTold
<1>6. \A k \in i .. i : Told(met', flags', k)
  BY <1>0, <1>5
<1>7. \E knd : met' = Joined(met, knd, i, i)
  BY <1>1
<1> QED
  BY <1>0, <1>b, <1>1, <1>4, <1>6, <1>7, StepPasses

LEMMA CuePhrasePasses == ASSUME PassInv, CuePhrase PROVE PassInv'
<1> DEFINE content == Content(tokens[i])
           content2 == HasContent(tokens[i + 1])
           kind == Here.kind
           hard == Hard(tokens[i], Here.kind)
           hard2 == Hard(tokens[i + 1], Here.kind) \/ tokens[i + 1] \in FunctionWords
           between == CueUsed(hard, scopes, content)
           m == i + 1
           first == [flags EXCEPT ![i] = @ \cup CueGiven(hard, scopes, content)]
<1>0. /\ i \in DOMAIN tokens /\ i \in Nat /\ DOMAIN tokens = 1 .. Len(tokens)
      /\ tokens \in Seq(Tokens) /\ SInv /\ More /\ ~EndsClause(tokens[i])
      /\ flags \in [DOMAIN tokens -> SUBSET Flags]
      /\ flags[i] \subseteq SegmentFlags /\ Account(met, scopes, flags, i)
      /\ m \in DOMAIN tokens /\ m \in Nat /\ i < m /\ ~EndsClause(tokens[m])
      /\ flags[m] \subseteq SegmentFlags
  <2>1. SInv /\ More /\ Here.length = 2
    BY DEF CuePhrase, PassInv
  <2>2. i \in DOMAIN tokens /\ i \in Nat /\ DOMAIN tokens = 1 .. Len(tokens)
    BY <2>1, AtToken
  <2>3. m \in DOMAIN tokens /\ ~EndsClause(tokens[m])
    BY <2>1, SecondToken
  <2> QED
    BY <2>1, <2>2, <2>3 DEF CuePhrase, PassInv, SInv, Shape, Untouched
<1>a. kind \in Kinds
  BY PhraseKinds DEF CuePhrase, Here
<1>1. /\ SInv' /\ UNCHANGED tokens /\ i' = m + 1 /\ met' = Joined(met, kind, i, m)
      /\ scopes' = Opened(kind, CueUsed(hard2, between, content2))
      /\ flags' = [flags EXCEPT ![i] = @ \cup CueGiven(hard, scopes, content),
                                ![m] = @ \cup CueGiven(hard2, between, content2)]
  <2>1. i + 2 - 1 = m /\ i + 2 = m + 1
    BY <1>0
  <2> QED
    BY <1>0, <2>1, CuePhraseInv DEF CuePhrase, Meet, Joined, PassInv
<1>2. /\ hard \in BOOLEAN /\ content \in BOOLEAN /\ hard2 \in BOOLEAN /\ content2 \in BOOLEAN
      /\ content = Content(tokens[i])
      /\ ~hard2 => (content2 <=> Content(tokens[m]))
  BY DEF Content, HasContent, Hard
<1> HIDE DEF content, content2, hard, hard2, kind
<1>3. /\ first[i] = flags[i] \cup CueGiven(hard, scopes, content)
      /\ \A n \in DOMAIN tokens : n # i => first[n] = flags[n]
      /\ DOMAIN first = DOMAIN tokens
  BY <1>0
<1>b. i # m /\ \A n \in DOMAIN tokens : n < m <=> n < i \/ n = i
  BY <1>0
<1>c. \A n \in DOMAIN tokens : n < i => n # i /\ n # m
  BY <1>0
<1> HIDE DEF first, m, between
<1>d. /\ \A n \in DOMAIN tokens : n < i => flags'[n] = flags[n]
      /\ flags'[i] = flags[i] \cup CueGiven(hard, scopes, content)
      /\ flags'[m] = flags[m] \cup CueGiven(hard2, between, content2)
  BY <1>0, <1>1, <1>b, <1>c
<1>4. /\ \A n \in DOMAIN tokens : n < i => first[n] = flags[n]
      /\ \A n \in DOMAIN tokens : n < m => flags'[n] = first[n]
      /\ flags'[m] = first[m] \cup CueGiven(hard2, between, content2)
      /\ first[m] = flags[m]
      /\ \A n \in DOMAIN tokens : n < i => flags'[n] = flags[n]
      /\ flags'[i] = flags[i] \cup CueGiven(hard, scopes, content)
  BY <1>0, <1>3, <1>b, <1>c, <1>d
<1>5. /\ Takes(flags, first, i, hard, content, scopes)
      /\ Takes(flags, flags', i, hard, content, scopes)
      /\ Takes(first, flags', m, hard2, content2, between)
  BY <1>0, <1>2, <1>3, <1>4 DEF Takes
<1>6. Account(met, between, first, m)
  BY <1>0, <1>5, AccountPass DEF between, m
<1> DEFINE after == CueUsed(hard2, between, content2)
<1>7. Account(met, after, flags', m + 1)
  BY <1>0, <1>5, <1>6, AccountPass
<1> HIDE DEF after
<1>8. i \in 1 .. m /\ i \in 1 .. i /\ m \in i .. m /\ PhrasesTo(met, i) /\ i <= m /\ m <= m
  BY <1>0 DEF Account
<1>9. Account(met', scopes', flags', m + 1)
  BY <1>0, <1>a, <1>1, <1>7, <1>8, AccountOpen DEF after
<1>10. Told(met', flags', i)
  BY <1>0, <1>1, <1>5, <1>8, PhraseTold
<1>11. Told(met', flags', m)
  BY <1>0, <1>1, <1>5, <1>6, <1>8, PhraseTold
<1>12. \A k \in i .. m : Told(met', flags', k)
  BY <1>0, <1>10, <1>11 DEF m
<1>13. \E knd : met' = Joined(met, knd, i, m)
  BY <1>1
<1> QED
  BY <1>0, <1>1, <1>4, <1>8, <1>9, <1>12, <1>13, StepPasses

LEMMA PassSteps == PassInv /\ [ScopeNext]_vars => PassInv'
<1> SUFFICES ASSUME PassInv, [ScopeNext]_vars PROVE PassInv'
  OBVIOUS
<1>1. CASE UNCHANGED vars
  <2>1. SInv'
    BY StepSInv DEF PassInv
  <2>2. UNCHANGED <<tokens, i, flags, scopes, met>>
    BY <1>1 DEF vars
  <2> QED
    BY <2>1, <2>2, AccountLater DEF PassInv
<1> QED
  BY <1>1, EndClausePasses, PlainPasses, CueWordPasses, CuePhrasePasses DEF ScopeNext

THEOREM PassInvariant == ScopeSpec => []PassInv
  BY PassStarts, PassSteps, PTL DEF ScopeSpec

(* Negations cancel: while each negator stands within the window of the    *)
(* one before it, a token is negated when their number is odd, for every   *)
(* segment, word list and window (negation.rs:8).                          *)
THEOREM NegationsCancel == ScopeSpec => []NegationParity
<1>1. PassInv => NegationParity
  BY ParityIs DEF PassInv, Told
<1> QED
  BY <1>1, PassInvariant, PTL

(* A request ends the hypothesis before it: no token is hypothetical by a  *)
(* cue that stands before a request of its clause (negation.rs:835).       *)
THEOREM RequestsWin == ScopeSpec => []RequestsEndHypotheses
<1>1. PassInv => RequestsEndHypotheses
  BY HypothesizedIs DEF PassInv, Told
<1> QED
  BY <1>1, PassInvariant, PTL
=============================================================================
