------------------------- MODULE OptionOrderProofs -------------------------
(***************************************************************************)
(* The vocabulary of a question, for every lexical graph, question and     *)
(* order of its options: a stem has one id, every id in what has been read *)
(* stands for a term, and if the forms of each new stem agree, every       *)
(* option says what it says alone.                                         *)
(***************************************************************************)
EXTENDS OptionOrder, SequenceTheorems, TLAPS

-----------------------------------------------------------------------------
(* Lists of anything.                                                      *)
IsList(s) == \E S : s \in Seq(S)

LEMMA ListShape ==
  ASSUME NEW s, IsList(s) PROVE Len(s) \in Nat /\ DOMAIN s = 1 .. Len(s)
  BY DEF IsList

LEMMA EmptyList == IsList(<<>>) /\ Len(<<>>) = 0 /\ DOMAIN <<>> = {}
<1>1. <<>> \in Seq({})
  OBVIOUS
<1> QED
  BY <1>1 DEF IsList

LEMMA AppendList ==
  ASSUME NEW s, IsList(s), NEW e
  PROVE  /\ IsList(Append(s, e))
         /\ Len(Append(s, e)) = Len(s) + 1
         /\ DOMAIN Append(s, e) = DOMAIN s \cup {Len(s) + 1}
         /\ \A i \in DOMAIN s : Append(s, e)[i] = s[i]
         /\ Append(s, e)[Len(s) + 1] = e
<1>1. PICK S : s \in Seq(S)
  BY DEF IsList
<1>2. s \in Seq(S \cup {e}) /\ e \in S \cup {e}
  BY <1>1
<1>3. /\ Append(s, e) \in Seq(S \cup {e})
      /\ Len(Append(s, e)) = Len(s) + 1
      /\ \A i \in 1 .. Len(s) : Append(s, e)[i] = s[i]
      /\ Append(s, e)[Len(s) + 1] = e
  BY <1>2, AppendProperties
<1>4. IsList(Append(s, e))
  BY <1>3 DEF IsList
<1>5. Len(s) \in Nat /\ DOMAIN s = 1 .. Len(s)
  BY ListShape
<1>6. DOMAIN Append(s, e) = 1 .. Len(s) + 1
  BY <1>3, <1>4, ListShape
<1>7. 1 .. Len(s) + 1 = (1 .. Len(s)) \cup {Len(s) + 1}
  BY <1>5
<1> QED
  BY <1>3, <1>4, <1>5, <1>6, <1>7

LEMMA ExceptList ==
  ASSUME NEW s, IsList(s), NEW k, NEW e
  PROVE  /\ IsList([s EXCEPT ![k] = e])
         /\ Len([s EXCEPT ![k] = e]) = Len(s)
         /\ DOMAIN [s EXCEPT ![k] = e] = DOMAIN s
<1>1. PICK S : s \in Seq(S)
  BY DEF IsList
<1>2. s \in Seq(S \cup {e}) /\ e \in S \cup {e}
  BY <1>1
<1>3. CASE k \in 1 .. Len(s)
  <2>1. [s EXCEPT ![k] = e] \in Seq(S \cup {e}) /\ Len([s EXCEPT ![k] = e]) = Len(s)
    BY <1>2, <1>3, ExceptSeq
  <2> QED
    BY <2>1 DEF IsList
<1>4. CASE k \notin 1 .. Len(s)
  <2>1. [s EXCEPT ![k] = e] = s
    BY <1>1, <1>4
  <2> QED
    BY <2>1
<1> QED
  BY <1>3, <1>4

(* A list of stems, cut short as the code does.                            *)
LEMMA TakeList ==
  ASSUME NEW s \in Seq(Stems), NEW n \in Nat
  PROVE  /\ IsList(Take(s, n))
         /\ \A i \in DOMAIN Take(s, n) : Take(s, n)[i] \in Stems /\ Take(s, n)[i] \in Range(s)
<1> DEFINE m == IF Len(s) < n THEN Len(s) ELSE n
<1>1. m \in Nat /\ m <= Len(s) /\ Len(s) \in Nat /\ DOMAIN s = 1 .. Len(s)
  OBVIOUS
<1>2. Take(s, n) = [i \in 1 .. m |-> s[i]]
  <2>1. SubSeq(s, 1, m) = [i \in 1 .. m |-> s[i]]
    BY <1>1
  <2> QED
    BY <2>1 DEF Take
<1> HIDE DEF m
<1>3. Take(s, n) \in Seq(Stems)
  BY <1>1, <1>2
<1>4. \A i \in DOMAIN Take(s, n) : Take(s, n)[i] \in Range(s)
  BY <1>1, <1>2 DEF Range
<1> QED
  BY <1>3, <1>4 DEF IsList

-----------------------------------------------------------------------------
(* The vocabulary of a state.                                              *)
OneEach(terms) ==
  \A i, j \in DOMAIN terms : terms[i].stem = terms[j].stem => i = j

BaseOK(b) ==
  /\ IsList(b.terms)
  /\ OneEach(b.terms)
  /\ \A i \in DOMAIN b.terms : b.terms[i].stem \in Stems
  /\ \A s \in DOMAIN b.bySurface :
       b.bySurface[s] \in DOMAIN b.terms /\ b.terms[b.bySurface[s]].stem = StemOf[s]

LEMMA StemIdIs ==
  ASSUME NEW terms, NEW st, HasStem(terms, st)
  PROVE  StemId(terms, st) \in DOMAIN terms /\ terms[StemId(terms, st)].stem = st
  BY DEF HasStem, StemId

LEMMA TermHasStem == \A s, st : Term(s, st).stem = st
  BY DEF Term

LEMMA StemsAreStems == ASSUME NEW s \in DOMAIN StemOf PROVE StemOf[s] \in Stems
  BY VocabularyAssumption

LEMMA InternKeeps ==
  ASSUME NEW v, BaseOK(v), NEW s \in DOMAIN StemOf PROVE BaseOK(Intern(v, s).vocab)
<1> DEFINE st == StemOf[s]
           w == Intern(v, s).vocab
<1> SUFFICES BaseOK(w)
  OBVIOUS
<1>1. st \in Stems
  BY StemsAreStems
<1>2. CASE s \in DOMAIN v.bySurface
  <2>1. w = v
    BY <1>2 DEF Intern
  <2> QED
    BY <2>1
<1>3. CASE s \notin DOMAIN v.bySurface /\ HasStem(v.terms, st)
  <2>1. w.terms = v.terms /\ w.bySurface = Filled(v.bySurface, s, StemId(v.terms, st))
    BY <1>3 DEF Intern
  <2> HIDE DEF w
  <2> QED
    BY <1>3, <2>1, StemIdIs DEF BaseOK, Filled
<1>4. CASE s \notin DOMAIN v.bySurface /\ ~HasStem(v.terms, st)
  <2>1. w.terms = Append(v.terms, Term(s, st)) /\ w.bySurface = Filled(v.bySurface, s, Len(v.terms) + 1)
    BY <1>4 DEF Intern
  <2>2. /\ IsList(w.terms)
        /\ DOMAIN w.terms = DOMAIN v.terms \cup {Len(v.terms) + 1}
        /\ \A i \in DOMAIN v.terms : w.terms[i] = v.terms[i]
        /\ w.terms[Len(v.terms) + 1].stem = st
    BY <2>1, AppendList, TermHasStem DEF BaseOK
  <2> HIDE DEF w
  <2>3. OneEach(w.terms)
    BY <1>4, <2>2 DEF OneEach, BaseOK, HasStem
  <2>4. \A i \in DOMAIN w.terms : w.terms[i].stem \in Stems
    BY <1>1, <2>2 DEF BaseOK
  <2>5. ASSUME NEW x \in DOMAIN w.bySurface
        PROVE  w.bySurface[x] \in DOMAIN w.terms /\ w.terms[w.bySurface[x]].stem = StemOf[x]
    BY <2>1, <2>2 DEF BaseOK, Filled
  <2> QED
    BY <2>2, <2>3, <2>4, <2>5 DEF BaseOK
<1> QED
  BY <1>2, <1>3, <1>4

InternStep(p, q, r, v, s) == Intern(v, s).vocab
IsBase(p, q, r, v) == BaseOK(v)
StateLoop == INSTANCE Folding WITH Step <- InternStep, Good <- IsBase

LEMMA VocabIsBase ==
  ASSUME NEW tokens \in Seq(DOMAIN StemOf) PROVE BaseOK(VocabOf(tokens))
<1>1. VocabOf(tokens) = StateLoop!Fold(0, 0, 0, EmptyVocab, tokens)
  BY DEF VocabOf, StateLoop!Fold, InternStep, FoldLeft, MapThenFoldSet, Max, StateLoop!Greatest
<1>2. IsBase(0, 0, 0, EmptyVocab)
  BY EmptyList DEF IsBase, BaseOK, EmptyVocab, OneEach
<1>3. \A i \in 1 .. Len(tokens) : \A v :
        IsBase(0, 0, 0, v) => IsBase(0, 0, 0, InternStep(0, 0, 0, v, tokens[i]))
  BY InternKeeps DEF IsBase, InternStep
<1>4. Len(tokens) \in Nat /\ DOMAIN tokens = 1 .. Len(tokens)
  OBVIOUS
<1>5. IsBase(0, 0, 0, StateLoop!Fold(0, 0, 0, EmptyVocab, tokens))
  BY <1>2, <1>3, <1>4, StateLoop!FoldKeeps
<1> QED
  BY <1>1, <1>5 DEF IsBase

-----------------------------------------------------------------------------
(* An extension over a base.                                               *)
Size(v) == Len(v.terms)
IdsOf(b, x) == 1 .. Size(b) + Size(x)
IdList(b, x, ids) == IsList(ids) /\ \A n \in DOMAIN ids : ids[n] \in IdsOf(b, x)

TermsFit(b, x) ==
  /\ IsList(x.terms)
  /\ OneEach(x.terms)
  /\ \A i \in DOMAIN x.terms :
       x.terms[i].stem \in Stems /\ ~HasStem(b.terms, x.terms[i].stem)

SurfacesFit(b, x) ==
  \A s \in DOMAIN x.bySurface :
    x.bySurface[s] \in IdsOf(b, x) /\ Info(b, x, x.bySurface[s]).stem = StemOf[s]

ExpansionsFit(b, x) ==
  \A id \in DOMAIN x.expansions :
    /\ id \in IdsOf(b, x)
    /\ IdList(b, x, x.expansions[id].synonyms)
    /\ IdList(b, x, x.expansions[id].antonyms)

Shape(x) == x = [terms |-> x.terms, bySurface |-> x.bySurface, expansions |-> x.expansions]

ExtOK(b, x) == Shape(x) /\ TermsFit(b, x) /\ SurfacesFit(b, x) /\ ExpansionsFit(b, x)

(* An extension only ever grows: what an id stood for, it stands for.      *)
Grown(x, y) ==
  /\ Size(x) <= Size(y)
  /\ \A i \in DOMAIN x.terms : y.terms[i] = x.terms[i]

(* The number of terms is kept as a name of its own: the provers do not    *)
(* compute with lengths of components.                                     *)
LEMMA Sizes ==
  /\ \A b : BaseOK(b) => Size(b) \in Nat /\ DOMAIN b.terms = 1 .. Size(b)
  /\ \A x : IsList(x.terms) => Size(x) \in Nat /\ DOMAIN x.terms = 1 .. Size(x)
  /\ \A b, x : ExtOK(b, x) => Size(x) \in Nat /\ DOMAIN x.terms = 1 .. Size(x)
  BY ListShape DEF Size, BaseOK, ExtOK, TermsFit

LEMMA InfoAt ==
  \A b, x, id : Info(b, x, id) = IF id <= Size(b) THEN b.terms[id] ELSE x.terms[id - Size(b)]
  BY DEF Info, InState, Size

LEMMA GrownSelf == ASSUME NEW b, NEW x, ExtOK(b, x) PROVE Grown(x, x)
  BY Sizes DEF Grown

LEMMA GrownTwice ==
  ASSUME NEW b, NEW x, NEW y, NEW z, ExtOK(b, x), ExtOK(b, y), ExtOK(b, z),
         Grown(x, y), Grown(y, z)
  PROVE  Grown(x, z)
<1>1. /\ Size(x) \in Nat /\ DOMAIN x.terms = 1 .. Size(x)
      /\ Size(y) \in Nat /\ DOMAIN y.terms = 1 .. Size(y)
      /\ Size(z) \in Nat
  BY Sizes
<1>2. Size(x) <= Size(z)
  BY <1>1 DEF Grown
<1>3. DOMAIN x.terms \subseteq DOMAIN y.terms
  BY <1>1 DEF Grown
<1> QED
  BY <1>2, <1>3 DEF Grown

(* Ids count the terms of the base, then those of the extension.           *)
LEMMA IdParts ==
  \A n, m \in Nat : \A id \in 1 .. n + m :
    /\ id \in Int
    /\ id <= n => id \in 1 .. n
    /\ ~(id <= n) => id \notin 1 .. n /\ id - n \in 1 .. m
    /\ \A k \in Nat : m <= k => id \in 1 .. n + k
  OBVIOUS

LEMMA IdsFit ==
  ASSUME NEW b, NEW x, BaseOK(b), IsList(x.terms), NEW id \in IdsOf(b, x)
  PROVE  /\ id \in Int
         /\ id <= Size(b) => id \in DOMAIN b.terms
         /\ ~(id <= Size(b)) => id \notin DOMAIN b.terms /\ id - Size(b) \in DOMAIN x.terms
         /\ \A y : IsList(y.terms) /\ Size(x) <= Size(y) => id \in IdsOf(b, y)
<1>1. /\ Size(b) \in Nat /\ DOMAIN b.terms = 1 .. Size(b)
      /\ Size(x) \in Nat /\ DOMAIN x.terms = 1 .. Size(x)
  BY Sizes
<1>2. id \in 1 .. Size(b) + Size(x)
  BY DEF IdsOf
<1>3. /\ id \in Int
      /\ id <= Size(b) => id \in 1 .. Size(b)
      /\ ~(id <= Size(b)) => id \notin 1 .. Size(b) /\ id - Size(b) \in 1 .. Size(x)
      /\ \A k \in Nat : Size(x) <= k => id \in 1 .. Size(b) + k
  BY <1>1, <1>2, IdParts
<1>4. \A y : IsList(y.terms) /\ Size(x) <= Size(y) => id \in IdsOf(b, y)
  BY <1>3, Sizes DEF IdsOf
<1> QED
  BY <1>1, <1>3, <1>4

LEMMA GrownInfo ==
  ASSUME NEW b, NEW x, NEW y, BaseOK(b), ExtOK(b, x), IsList(y.terms), Grown(x, y),
         NEW id \in IdsOf(b, x)
  PROVE  id \in IdsOf(b, y) /\ Info(b, y, id) = Info(b, x, id)
<1>1. IsList(x.terms)
  BY DEF ExtOK, TermsFit
<1>2. id \in IdsOf(b, y)
  BY <1>1, IdsFit DEF Grown
<1>3. ~(id <= Size(b)) => id - Size(b) \in DOMAIN x.terms
  BY <1>1, IdsFit
<1> QED
  BY <1>2, <1>3, InfoAt DEF Grown

LEMMA GrownList ==
  ASSUME NEW b, NEW x, NEW y, BaseOK(b), ExtOK(b, x), IsList(y.terms), Grown(x, y),
         NEW ids, IdList(b, x, ids)
  PROVE  IdList(b, y, ids)
  BY GrownInfo DEF IdList

(* Where the term of an id is.                                             *)
LEMMA InfoIs ==
  ASSUME NEW b, NEW x, BaseOK(b), ExtOK(b, x), NEW id \in IdsOf(b, x)
  PROVE  \/ id \in DOMAIN b.terms /\ Info(b, x, id) = b.terms[id]
         \/ /\ id \notin DOMAIN b.terms
            /\ id - Size(b) \in DOMAIN x.terms
            /\ Info(b, x, id) = x.terms[id - Size(b)]
<1>1. IsList(x.terms)
  BY DEF ExtOK, TermsFit
<1>2. /\ id <= Size(b) => id \in DOMAIN b.terms
      /\ ~(id <= Size(b)) => id \notin DOMAIN b.terms /\ id - Size(b) \in DOMAIN x.terms
  BY <1>1, IdsFit
<1> QED
  BY <1>2, InfoAt

LEMMA InfoStem ==
  ASSUME NEW b, NEW x, BaseOK(b), ExtOK(b, x), NEW id \in IdsOf(b, x)
  PROVE  Info(b, x, id).stem \in Stems
  BY InfoIs DEF BaseOK, ExtOK, TermsFit

(* One id per stem.                                                        *)
LEMMA OneId ==
  ASSUME NEW b, NEW x, BaseOK(b), ExtOK(b, x), NEW id \in IdsOf(b, x), NEW other \in IdsOf(b, x),
         Info(b, x, id).stem = Info(b, x, other).stem
  PROVE  id = other
<1>1. Size(b) \in Nat /\ id \in Int /\ other \in Int
  BY Sizes DEF IdsOf
<1>2. CASE id \in DOMAIN b.terms /\ other \in DOMAIN b.terms
  BY <1>2, InfoIs DEF BaseOK, OneEach
<1>3. CASE id \notin DOMAIN b.terms /\ other \notin DOMAIN b.terms
  <2>1. id - Size(b) = other - Size(b)
    BY <1>3, InfoIs DEF ExtOK, TermsFit, OneEach
  <2> QED
    BY <1>1, <2>1
<1>4. CASE id \in DOMAIN b.terms <=> other \notin DOMAIN b.terms
  BY <1>4, InfoIs DEF ExtOK, TermsFit, HasStem
<1> QED
  BY <1>2, <1>3, <1>4

-----------------------------------------------------------------------------
(* Interning: a stem gets one id, whether the base has it, the extension   *)
(* has it, or it is pushed now.                                            *)
NewId(b, x) == Size(b) + Size(x) + 1

LEMMA CarriedOver ==
  ASSUME NEW b, NEW x, NEW y, BaseOK(b), ExtOK(b, x), IsList(y.terms), Grown(x, y),
         y.bySurface = x.bySurface, y.expansions = x.expansions
  PROVE  SurfacesFit(b, y) /\ ExpansionsFit(b, y)
<1>1. ASSUME NEW s \in DOMAIN y.bySurface
      PROVE  y.bySurface[s] \in IdsOf(b, y) /\ Info(b, y, y.bySurface[s]).stem = StemOf[s]
  <2>1. x.bySurface[s] \in IdsOf(b, x) /\ Info(b, x, x.bySurface[s]).stem = StemOf[s]
    BY DEF ExtOK, SurfacesFit
  <2> QED
    BY <2>1, GrownInfo
<1>2. ASSUME NEW id \in DOMAIN y.expansions
      PROVE  /\ id \in IdsOf(b, y)
             /\ IdList(b, y, y.expansions[id].synonyms)
             /\ IdList(b, y, y.expansions[id].antonyms)
  <2>1. /\ id \in IdsOf(b, x)
        /\ IdList(b, x, x.expansions[id].synonyms)
        /\ IdList(b, x, x.expansions[id].antonyms)
    BY DEF ExtOK, ExpansionsFit
  <2> QED
    BY <2>1, GrownInfo, GrownList
<1> QED
  BY <1>1, <1>2 DEF SurfacesFit, ExpansionsFit

PushedTo(x, t) == [x EXCEPT !.terms = Append(@, t)]

LEMMA PushFits ==
  ASSUME NEW b, NEW x, BaseOK(b), ExtOK(b, x), NEW t, t.stem \in Stems,
         ~HasStem(b.terms, t.stem), ~HasStem(x.terms, t.stem)
  PROVE  LET y == PushedTo(x, t)
         IN  /\ ExtOK(b, y) /\ Grown(x, y)
             /\ y.bySurface = x.bySurface /\ y.expansions = x.expansions
             /\ NewId(b, x) \in IdsOf(b, y) /\ Info(b, y, NewId(b, x)) = t
             /\ \A i \in DOMAIN y.terms : y.terms[i] = t \/ i \in DOMAIN x.terms
<1> DEFINE y == PushedTo(x, t)
<1>1. /\ y.terms = Append(x.terms, t)
      /\ y.bySurface = x.bySurface /\ y.expansions = x.expansions
      /\ y = [terms |-> y.terms, bySurface |-> y.bySurface, expansions |-> y.expansions]
  BY DEF ExtOK, Shape, PushedTo
<1> HIDE DEF y
<1>2. /\ IsList(y.terms)
      /\ Size(y) = Size(x) + 1
      /\ DOMAIN y.terms = DOMAIN x.terms \cup {Size(x) + 1}
      /\ \A i \in DOMAIN x.terms : y.terms[i] = x.terms[i]
      /\ y.terms[Size(x) + 1] = t
  BY <1>1, AppendList DEF ExtOK, TermsFit, Size
<1>3. /\ Size(b) \in Nat /\ Size(x) \in Nat /\ DOMAIN x.terms = 1 .. Size(x)
  BY Sizes
<1>4. Grown(x, y)
  BY <1>2, <1>3 DEF Grown
<1>5. TermsFit(b, y)
  BY <1>2 DEF ExtOK, TermsFit, OneEach, HasStem
<1>6. SurfacesFit(b, y) /\ ExpansionsFit(b, y)
  BY <1>1, <1>2, <1>4, CarriedOver
<1>8. NewId(b, x) \in IdsOf(b, y)
  BY <1>2, <1>3 DEF NewId, IdsOf
<1>9. Info(b, y, NewId(b, x)) = t
  <2>1. ~(NewId(b, x) <= Size(b)) /\ NewId(b, x) - Size(b) = Size(x) + 1
    BY <1>3 DEF NewId
  <2> QED
    BY <1>2, <2>1, InfoAt
<1>10. \A i \in DOMAIN y.terms : y.terms[i] = t \/ i \in DOMAIN x.terms
  BY <1>2
<1> QED
  BY <1>1, <1>4, <1>5, <1>6, <1>8, <1>9, <1>10 DEF ExtOK, Shape, y

(* A stem that is known has its id.                                        *)
LEMMA KnownId ==
  ASSUME NEW b, NEW x, BaseOK(b), ExtOK(b, x), NEW st, ExtKnows(b, x, st)
  PROVE  ExtStemId(b, x, st) \in IdsOf(b, x) /\ Info(b, x, ExtStemId(b, x, st)).stem = st
<1>1. /\ Size(b) \in Nat /\ DOMAIN b.terms = 1 .. Size(b)
      /\ Size(x) \in Nat /\ DOMAIN x.terms = 1 .. Size(x)
  BY Sizes
<1>2. CASE HasStem(b.terms, st)
  <2> DEFINE id == StemId(b.terms, st)
  <2>1. ExtStemId(b, x, st) = id
    BY <1>2 DEF ExtStemId
  <2>2. id \in DOMAIN b.terms /\ b.terms[id].stem = st
    BY <1>2, StemIdIs
  <2> HIDE DEF id
  <2>3. id <= Size(b) /\ id \in IdsOf(b, x)
    BY <1>1, <2>2 DEF IdsOf
  <2> QED
    BY <2>1, <2>2, <2>3, InfoAt
<1>3. CASE ~HasStem(b.terms, st) /\ HasStem(x.terms, st)
  <2> DEFINE id == StemId(x.terms, st)
  <2>1. ExtStemId(b, x, st) = Size(b) + id
    BY <1>3 DEF ExtStemId, Size
  <2>2. id \in DOMAIN x.terms /\ x.terms[id].stem = st
    BY <1>3, StemIdIs
  <2> HIDE DEF id
  <2> DEFINE k == Size(b) + id
  <2>3. ~(k <= Size(b)) /\ k - Size(b) = id /\ k \in IdsOf(b, x)
    BY <1>1, <2>2 DEF IdsOf
  <2>4. ExtStemId(b, x, st) = k
    BY <2>1
  <2> HIDE DEF k
  <2> QED
    BY <2>2, <2>3, <2>4, InfoAt
<1> QED
  BY <1>2, <1>3 DEF ExtKnows

(* What interning gives: an extension that only grew, by nothing but the   *)
(* term `t`, and an id for the stem.                                       *)
Interned(b, x, t, r) ==
  /\ ExtOK(b, r.ext) /\ Grown(x, r.ext)
  /\ r.ext.expansions = x.expansions
  /\ r.id \in IdsOf(b, r.ext) /\ Info(b, r.ext, r.id).stem = t.stem
  /\ \A i \in DOMAIN r.ext.terms : r.ext.terms[i] = t \/ i \in DOMAIN x.terms

LEMMA InternStemFits ==
  ASSUME NEW b, NEW x, BaseOK(b), ExtOK(b, x), NEW st \in Stems
  PROVE  Interned(b, x, Term(st, st), ExtInternStem(b, x, st))
<1> DEFINE r == ExtInternStem(b, x, st)
<1>1. r.id = ExtStemId(b, x, st)
  BY DEF ExtInternStem
<1>2. CASE ExtKnows(b, x, st)
  <2>1. r.ext = x
    BY <1>2 DEF ExtInternStem
  <2> HIDE DEF r
  <2> QED
    BY <1>1, <1>2, <2>1, KnownId, GrownSelf, TermHasStem DEF Interned, r
<1>3. CASE ~ExtKnows(b, x, st)
  <2>1. r.ext = PushedTo(x, Term(st, st))
    BY <1>3 DEF ExtInternStem, PushedTo
  <2>2. r.id = NewId(b, x)
    BY <1>1, <1>3 DEF ExtStemId, ExtKnows, NewId, Size
  <2> HIDE DEF r
  <2>3. /\ ExtOK(b, r.ext) /\ Grown(x, r.ext) /\ r.ext.expansions = x.expansions
        /\ NewId(b, x) \in IdsOf(b, r.ext) /\ Info(b, r.ext, NewId(b, x)) = Term(st, st)
        /\ \A i \in DOMAIN r.ext.terms : r.ext.terms[i] = Term(st, st) \/ i \in DOMAIN x.terms
    BY <1>3, <2>1, PushFits, TermHasStem DEF ExtKnows
  <2> QED
    BY <2>2, <2>3 DEF Interned, r
<1> QED
  BY <1>2, <1>3

(* A surface form is noted with the id of its stem.                        *)
LEMMA SurfaceFits ==
  ASSUME NEW b, NEW x, ExtOK(b, x), NEW s, NEW id \in IdsOf(b, x), Info(b, x, id).stem = StemOf[s],
         NEW y, y = [x EXCEPT !.bySurface = Filled(@, s, id)]
  PROVE  ExtOK(b, y) /\ y.terms = x.terms /\ y.expansions = x.expansions
<1>1. /\ y.terms = x.terms /\ y.expansions = x.expansions
      /\ y.bySurface = Filled(x.bySurface, s, id)
      /\ Shape(y)
  BY DEF ExtOK, Shape
<1>2. IdsOf(b, y) = IdsOf(b, x) /\ \A i : Info(b, y, i) = Info(b, x, i)
  BY <1>1 DEF IdsOf, Size, Info
<1>3. SurfacesFit(b, y)
  <2> SUFFICES ASSUME NEW z \in DOMAIN y.bySurface
               PROVE  /\ y.bySurface[z] \in IdsOf(b, x)
                      /\ Info(b, x, y.bySurface[z]).stem = StemOf[z]
    BY <1>2 DEF SurfacesFit
  <2>1. CASE z = s
    BY <1>1, <2>1 DEF Filled
  <2>2. CASE z # s
    BY <1>1, <2>2 DEF Filled, ExtOK, SurfacesFit
  <2> QED
    BY <2>1, <2>2
<1>4. TermsFit(b, y) /\ ExpansionsFit(b, y)
  BY <1>1, <1>2 DEF ExtOK, TermsFit, ExpansionsFit, IdList
<1> QED
  BY <1>1, <1>3, <1>4 DEF ExtOK

LEMMA InternFits ==
  ASSUME NEW b, NEW x, BaseOK(b), ExtOK(b, x), NEW s \in DOMAIN StemOf
  PROVE  Interned(b, x, Term(s, StemOf[s]), ExtIntern(b, x, s))
<1> DEFINE st == StemOf[s]
           r == ExtIntern(b, x, s)
<1>1. st \in Stems /\ Term(s, st).stem = st
  BY StemsAreStems, TermHasStem
<1>2. CASE s \in DOMAIN b.bySurface
  <2>1. r.ext = x /\ r.id = b.bySurface[s]
    BY <1>2 DEF ExtIntern
  <2>2. r.id \in DOMAIN b.terms /\ b.terms[r.id].stem = st
    BY <1>2, <2>1 DEF BaseOK
  <2> HIDE DEF r
  <2>3. r.id \in IdsOf(b, x) /\ Info(b, x, r.id).stem = st
    BY <2>2, Sizes, InfoAt DEF IdsOf
  <2> QED
    BY <1>1, <2>1, <2>3, GrownSelf DEF Interned, r
<1>3. CASE s \notin DOMAIN b.bySurface /\ s \in DOMAIN x.bySurface
  <2>1. r.ext = x /\ r.id = x.bySurface[s]
    BY <1>3 DEF ExtIntern
  <2> HIDE DEF r
  <2> QED
    BY <1>1, <1>3, <2>1, GrownSelf DEF Interned, ExtOK, SurfacesFit, r
<1>4. CASE s \notin DOMAIN b.bySurface /\ s \notin DOMAIN x.bySurface /\ ExtKnows(b, x, st)
  <2>1. r.id = ExtStemId(b, x, st)
    BY <1>4 DEF ExtIntern
  <2>2. r.ext = [x EXCEPT !.terms = x.terms, !.bySurface = Filled(x.bySurface, s, r.id)]
    BY <1>4, <2>1 DEF ExtIntern
  <2>3. r.ext = [x EXCEPT !.bySurface = Filled(@, s, r.id)]
    BY <2>2 DEF ExtOK, Shape
  <2> HIDE DEF r
  <2>4. r.id \in IdsOf(b, x) /\ Info(b, x, r.id).stem = st
    BY <1>4, <2>1, KnownId
  <2>5. ExtOK(b, r.ext) /\ r.ext.terms = x.terms /\ r.ext.expansions = x.expansions
    BY <2>3, <2>4, SurfaceFits
  <2> QED
    BY <1>1, <2>4, <2>5, GrownSelf DEF Interned, Grown, Size, IdsOf, Info, r
<1>5. CASE s \notin DOMAIN b.bySurface /\ s \notin DOMAIN x.bySurface /\ ~ExtKnows(b, x, st)
  <2> DEFINE y == PushedTo(x, Term(s, st))
  <2>1. r.id = NewId(b, x)
    BY <1>5 DEF ExtIntern, ExtStemId, ExtKnows, NewId, Size
  <2>2. r.ext = [x EXCEPT !.terms = Append(@, Term(s, st)),
                          !.bySurface = Filled(@, s, r.id)]
    BY <1>5 DEF ExtIntern
  <2>3. r.ext = [y EXCEPT !.bySurface = Filled(@, s, r.id)]
    BY <2>2 DEF ExtOK, Shape, PushedTo
  <2> HIDE DEF r
  <2>4. /\ ExtOK(b, y) /\ Grown(x, y) /\ y.expansions = x.expansions
        /\ NewId(b, x) \in IdsOf(b, y) /\ Info(b, y, NewId(b, x)) = Term(s, st)
        /\ \A i \in DOMAIN y.terms : y.terms[i] = Term(s, st) \/ i \in DOMAIN x.terms
    BY <1>1, <1>5, PushFits DEF ExtKnows
  <2> HIDE DEF y
  <2>5. ExtOK(b, r.ext) /\ r.ext.terms = y.terms /\ r.ext.expansions = y.expansions
    BY <1>1, <2>1, <2>3, <2>4, SurfaceFits
  <2> QED
    BY <1>1, <2>1, <2>4, <2>5 DEF Interned, Grown, Size, IdsOf, Info, r
<1> QED
  BY <1>2, <1>3, <1>4, <1>5

-----------------------------------------------------------------------------
(* What a question may do to its vocabulary: `from` is where it stands     *)
(* after the instructions, `read` the stems of the words of its options,   *)
(* `pushed` the pairs of a stem and a surface form that they may add.      *)
ContextOK(c) ==
  /\ BaseOK(c.base) /\ ExtOK(c.base, c.from)
  /\ \A st \in c.read, other \in Stems :
       other \in Range(SynonymStems[st]) \cup Range(AntonymStems[st])
         => <<other, other>> \in c.pushed

WordOK(c, w) ==
  w \in DOMAIN StemOf /\ StemOf[w] \in c.read /\ <<StemOf[w], w>> \in c.pushed

Fits(c, x) ==
  /\ ExtOK(c.base, x) /\ Grown(c.from, x)
  /\ \A n \in DOMAIN x.terms :
       n \in DOMAIN c.from.terms \/ \E p \in c.pushed : x.terms[n] = Term(p[2], p[1])

LEMMA FitsAfter ==
  ASSUME NEW c, ContextOK(c), NEW x, Fits(c, x), NEW p \in c.pushed, NEW r,
         Interned(c.base, x, Term(p[2], p[1]), r)
  PROVE  Fits(c, r.ext)
<1>1. /\ ExtOK(c.base, r.ext) /\ Grown(x, r.ext)
      /\ \A n \in DOMAIN r.ext.terms : r.ext.terms[n] = Term(p[2], p[1]) \/ n \in DOMAIN x.terms
  BY DEF Interned
<1>2. Grown(c.from, r.ext)
  BY <1>1, GrownTwice DEF Fits, ContextOK
<1>3. \A n \in DOMAIN x.terms : r.ext.terms[n] = x.terms[n]
  BY <1>1 DEF Grown
<1> QED
  BY <1>1, <1>2, <1>3 DEF Fits

LEMMA FitsSelf == ASSUME NEW c, ContextOK(c) PROVE Fits(c, c.from)
  BY GrownSelf DEF ContextOK, Fits

-----------------------------------------------------------------------------
(* The expansion of a term: its related stems are interned one by one.     *)
RelateStep(c, id, x, acc, st) == Relate(id, acc, ExtInternStem(c.base, acc.ext, st))
Relating(c, id, x, acc) ==
  /\ Fits(c, acc.ext) /\ Grown(x, acc.ext)
  /\ acc.ext.expansions = x.expansions
  /\ IdList(c.base, acc.ext, acc.ids)
RelateLoop == INSTANCE Folding WITH Step <- RelateStep, Good <- Relating

LEMMA AddId ==
  ASSUME NEW b, NEW x, NEW ids, IdList(b, x, ids), NEW id \in IdsOf(b, x)
  PROVE  IdList(b, x, Append(ids, id))
<1> DEFINE more == Append(ids, id)
<1>1. /\ IsList(more)
      /\ DOMAIN more = DOMAIN ids \cup {Len(ids) + 1}
      /\ \A n \in DOMAIN ids : more[n] = ids[n]
      /\ more[Len(ids) + 1] = id
  BY AppendList DEF IdList
<1> HIDE DEF more
<1>2. \A n \in DOMAIN more : more[n] \in IdsOf(b, x)
  BY <1>1 DEF IdList
<1> QED
  BY <1>1, <1>2 DEF IdList, more

LEMMA NoIds == ASSUME NEW b, NEW x PROVE IdList(b, x, <<>>)
  BY EmptyList DEF IdList

(* Stems that the expansions may bring in.                                 *)
Related(c, st) == st \in Stems /\ <<st, st>> \in c.pushed

LEMMA RelateKeeps ==
  ASSUME NEW c, ContextOK(c), NEW id, NEW x, Fits(c, x), NEW acc, Relating(c, id, x, acc),
         NEW st, Related(c, st)
  PROVE  Relating(c, id, x, RelateStep(c, id, x, acc, st))
<1> DEFINE i == ExtInternStem(c.base, acc.ext, st)
           r == RelateStep(c, id, x, acc, st)
<1>1. Interned(c.base, acc.ext, Term(st, st), i)
  BY InternStemFits DEF Relating, Fits, ContextOK, Related
<1>2. /\ r.ext = i.ext
      /\ r.ids = acc.ids \/ r.ids = Append(acc.ids, i.id)
  BY DEF RelateStep, Relate
<1> HIDE DEF i
<1> SUFFICES Relating(c, id, x, r)
  OBVIOUS
<1> HIDE DEF r
<1>3. Fits(c, r.ext)
  <2>1. <<st, st>>[1] = st /\ <<st, st>>[2] = st /\ <<st, st>> \in c.pushed
    BY DEF Related
  <2> QED
    BY <1>1, <1>2, <2>1, FitsAfter DEF Relating
<1>4. Grown(acc.ext, r.ext) /\ r.ext.expansions = x.expansions
  BY <1>1, <1>2 DEF Interned, Relating
<1>5. Grown(x, r.ext)
  BY <1>3, <1>4, GrownTwice DEF Relating, Fits
<1>6. IdList(c.base, r.ext, acc.ids)
  BY <1>3, <1>4, GrownList DEF Relating, Fits, ContextOK, ExtOK, TermsFit
<1>7. IdList(c.base, r.ext, r.ids)
  BY <1>1, <1>2, <1>6, AddId DEF Interned
<1> QED
  BY <1>3, <1>4, <1>5, <1>7 DEF Relating

RelatedList(c, stems) == IsList(stems) /\ \A n \in DOMAIN stems : Related(c, stems[n])

LEMMA RelateAllFits ==
  ASSUME NEW c, ContextOK(c), NEW x, Fits(c, x), NEW id, NEW stems, RelatedList(c, stems)
  PROVE  Relating(c, id, x, RelateAll(c.base, x, id, stems))
<1> DEFINE base == [ext |-> x, ids |-> <<>>]
<1>1. RelateAll(c.base, x, id, stems) = RelateLoop!Fold(c, id, x, base, stems)
  BY DEF RelateAll, RelateLoop!Fold, RelateStep, FoldLeft, MapThenFoldSet, Max, RelateLoop!Greatest
<1>2. Relating(c, id, x, base)
  BY GrownSelf, NoIds DEF Relating, Fits
<1> HIDE DEF base
<1>3. Len(stems) \in Nat /\ DOMAIN stems = 1 .. Len(stems)
  BY ListShape DEF RelatedList
<1>4. \A n \in 1 .. Len(stems) : \A acc :
        Relating(c, id, x, acc) => Relating(c, id, x, RelateStep(c, id, x, acc, stems[n]))
  BY <1>3, RelateKeeps DEF RelatedList
<1>5. Relating(c, id, x, RelateLoop!Fold(c, id, x, base, stems))
  BY <1>2, <1>3, <1>4, RelateLoop!FoldKeeps
<1> QED
  BY <1>1, <1>5

(* The stems an expansion looks at.                                        *)
SynonymsOf(st) == Take(SynonymStems[st], MaxSynonyms)
AntonymsOf(st) == Take(AntonymStems[st], MaxAntonyms)

LEMMA RelatedLists ==
  ASSUME NEW c, ContextOK(c), NEW st \in Stems, st \in c.read
  PROVE  RelatedList(c, SynonymsOf(st)) /\ RelatedList(c, AntonymsOf(st))
<1>1. SynonymStems[st] \in Seq(Stems) /\ AntonymStems[st] \in Seq(Stems)
      /\ MaxSynonyms \in Nat /\ MaxAntonyms \in Nat
  BY VocabularyAssumption
<1> DEFINE s == SynonymsOf(st)
           a == AntonymsOf(st)
<1>2. /\ IsList(s) /\ \A n \in DOMAIN s : s[n] \in Stems /\ s[n] \in Range(SynonymStems[st])
      /\ IsList(a) /\ \A n \in DOMAIN a : a[n] \in Stems /\ a[n] \in Range(AntonymStems[st])
  BY <1>1, TakeList DEF SynonymsOf, AntonymsOf
<1> HIDE DEF s, a
<1>3. \A n \in DOMAIN s : Related(c, s[n])
  BY <1>2 DEF ContextOK, Related
<1>4. \A n \in DOMAIN a : Related(c, a[n])
  BY <1>2 DEF ContextOK, Related
<1> QED
  BY <1>2, <1>3, <1>4 DEF RelatedList, s, a

(* A term of the options, by its id.                                       *)
ReadId(c, x, id) == id \in IdsOf(c.base, x) /\ Info(c.base, x, id).stem \in c.read

LEMMA ReadIdGrown ==
  ASSUME NEW c, ContextOK(c), NEW x, NEW y, Fits(c, x), Fits(c, y), Grown(x, y),
         NEW id, ReadId(c, x, id)
  PROVE  ReadId(c, y, id) /\ Info(c.base, y, id) = Info(c.base, x, id)
  BY GrownInfo DEF ContextOK, Fits, ReadId, ExtOK, TermsFit

LEMMA SynonymsFit ==
  ASSUME NEW c, ContextOK(c), NEW x, Fits(c, x), NEW id, ReadId(c, x, id)
  PROVE  /\ Relating(c, id, x, Synonyms(c.base, x, id))
         /\ Relating(c, id, x, Antonyms(c.base, x, id))
<1> DEFINE st == Info(c.base, x, id).stem
<1>1. st \in Stems /\ st \in c.read
  BY InfoStem DEF ReadId, ContextOK, Fits
<1>2. /\ Synonyms(c.base, x, id) = RelateAll(c.base, x, id, SynonymsOf(st))
      /\ Antonyms(c.base, x, id) = RelateAll(c.base, x, id, AntonymsOf(st))
  BY DEF Synonyms, Antonyms, SynonymsOf, AntonymsOf
<1> HIDE DEF st
<1> QED
  BY <1>1, <1>2, RelatedLists, RelateAllFits

(* What an expansion gives.                                                *)
Expanded(c, x, e) ==
  /\ Fits(c, e.ext) /\ Grown(x, e.ext)
  /\ IdList(c.base, e.ext, e.expansion.synonyms)
  /\ IdList(c.base, e.ext, e.expansion.antonyms)

LEMMA RememberFits ==
  ASSUME NEW b, NEW x, BaseOK(b), ExtOK(b, x), NEW id \in IdsOf(b, x),
         NEW entry, IdList(b, x, entry.synonyms), IdList(b, x, entry.antonyms),
         NEW y, y = [x EXCEPT !.expansions = Filled(@, id, entry)]
  PROVE  /\ ExtOK(b, y) /\ y.terms = x.terms /\ y.expansions = Filled(x.expansions, id, entry)
         /\ IdsOf(b, y) = IdsOf(b, x) /\ \A i : Info(b, y, i) = Info(b, x, i)
<1>1. /\ y.terms = x.terms /\ y.bySurface = x.bySurface
      /\ y.expansions = Filled(x.expansions, id, entry)
      /\ Shape(y)
  BY DEF ExtOK, Shape
<1>2. IdsOf(b, y) = IdsOf(b, x) /\ \A i : Info(b, y, i) = Info(b, x, i)
  BY <1>1 DEF IdsOf, Size, Info
<1>3. ExpansionsFit(b, y)
  <2> SUFFICES ASSUME NEW z \in DOMAIN y.expansions
               PROVE  /\ z \in IdsOf(b, x)
                      /\ IdList(b, x, y.expansions[z].synonyms)
                      /\ IdList(b, x, y.expansions[z].antonyms)
    BY <1>2 DEF ExpansionsFit, IdList
  <2>1. CASE z = id
    BY <1>1, <2>1 DEF Filled
  <2>2. CASE z # id
    BY <1>1, <2>2 DEF Filled, ExtOK, ExpansionsFit
  <2> QED
    BY <2>1, <2>2
<1>4. TermsFit(b, y) /\ SurfacesFit(b, y)
  BY <1>1, <1>2 DEF ExtOK, TermsFit, SurfacesFit
<1> QED
  BY <1>1, <1>2, <1>3, <1>4 DEF ExtOK

(* The two steps of an expansion that is not cached.                       *)
LEMMA ExpandSteps ==
  ASSUME NEW c, ContextOK(c), NEW x, Fits(c, x), NEW id, ReadId(c, x, id),
         NEW s, s = Synonyms(c.base, x, id), NEW a, a = Antonyms(c.base, s.ext, id)
  PROVE  /\ Relating(c, id, x, s) /\ Relating(c, id, s.ext, a)
         /\ Grown(x, a.ext) /\ ReadId(c, a.ext, id) /\ a.ext.expansions = x.expansions
         /\ IdList(c.base, a.ext, s.ids)
         /\ \A i \in IdsOf(c.base, s.ext) : Info(c.base, a.ext, i) = Info(c.base, s.ext, i)
<1>1. Relating(c, id, x, s)
  BY SynonymsFit
<1>2. Fits(c, s.ext) /\ Grown(x, s.ext) /\ s.ext.expansions = x.expansions
      /\ IdList(c.base, s.ext, s.ids)
  BY <1>1 DEF Relating
<1>3. ReadId(c, s.ext, id)
  BY <1>2, ReadIdGrown
<1>4. Relating(c, id, s.ext, a)
  BY <1>2, <1>3, SynonymsFit
<1>5. Fits(c, a.ext) /\ Grown(s.ext, a.ext) /\ a.ext.expansions = x.expansions
  BY <1>2, <1>4 DEF Relating
<1>6. Grown(x, a.ext)
  BY <1>2, <1>5, GrownTwice DEF Fits
<1>7. ReadId(c, a.ext, id)
  BY <1>2, <1>3, <1>5, ReadIdGrown
<1>8. BaseOK(c.base) /\ ExtOK(c.base, s.ext) /\ IsList(a.ext.terms)
  BY <1>2, <1>5 DEF ContextOK, Fits, ExtOK, TermsFit
<1>9. /\ IdList(c.base, a.ext, s.ids)
      /\ \A i \in IdsOf(c.base, s.ext) : Info(c.base, a.ext, i) = Info(c.base, s.ext, i)
  BY <1>2, <1>5, <1>8, GrownList, GrownInfo
<1> QED
  BY <1>1, <1>4, <1>5, <1>6, <1>7, <1>9

LEMMA ExpansionFits ==
  ASSUME NEW c, ContextOK(c), NEW x, Fits(c, x), NEW id, ReadId(c, x, id)
  PROVE  Expanded(c, x, Expansion(c.base, x, id))
<1> DEFINE e == Expansion(c.base, x, id)
<1> SUFFICES Expanded(c, x, e)
  OBVIOUS
<1>1. CASE id \in DOMAIN x.expansions
  <2>1. e.ext = x /\ e.expansion = x.expansions[id]
    BY <1>1 DEF Expansion
  <2> HIDE DEF e
  <2> QED
    BY <1>1, <2>1, GrownSelf DEF Expanded, Fits, ExtOK, ExpansionsFit
<1>2. CASE id \notin DOMAIN x.expansions
  <2> DEFINE s == Synonyms(c.base, x, id)
             a == Antonyms(c.base, s.ext, id)
             entry == [synonyms |-> s.ids, antonyms |-> a.ids]
  <2>1. /\ e.ext = [a.ext EXCEPT !.expansions = Filled(@, id, entry)]
        /\ e.expansion = entry
    BY <1>2 DEF Expansion, Expand, Remember
  <2>2. entry.synonyms = s.ids /\ entry.antonyms = a.ids
    OBVIOUS
  <2>3. /\ Relating(c, id, s.ext, a)
        /\ Grown(x, a.ext) /\ ReadId(c, a.ext, id)
        /\ IdList(c.base, a.ext, s.ids)
    BY ExpandSteps
  <2> HIDE DEF s, a, entry, e
  <2>4. Fits(c, a.ext) /\ IdList(c.base, a.ext, a.ids)
    BY <2>3 DEF Relating
  <2>5. BaseOK(c.base) /\ ExtOK(c.base, a.ext) /\ id \in IdsOf(c.base, a.ext)
    BY <2>3, <2>4 DEF ContextOK, Fits, ReadId
  <2>6. /\ ExtOK(c.base, e.ext) /\ e.ext.terms = a.ext.terms
        /\ IdsOf(c.base, e.ext) = IdsOf(c.base, a.ext)
    BY <2>1, <2>2, <2>3, <2>4, <2>5, RememberFits
  <2>7. Fits(c, e.ext) /\ Grown(x, e.ext)
    BY <2>3, <2>4, <2>6 DEF Fits, Grown, Size
  <2> QED
    BY <2>1, <2>2, <2>3, <2>4, <2>6, <2>7 DEF Expanded, IdList
<1> QED
  BY <1>1, <1>2

-----------------------------------------------------------------------------
(* The terms of an option.                                                 *)
TermShape(t) ==
  t = [term |-> t.term, weight |-> t.weight, idf |-> t.idf, polarity |-> t.polarity,
       isName |-> t.isName, negated |-> t.negated, modality |-> t.modality]

TermOK(c, x, t) == TermShape(t) /\ ReadId(c, x, t.term) /\ t.polarity \in {1, -1}
TermList(c, x, terms) == IsList(terms) /\ \A n \in DOMAIN terms : TermOK(c, x, terms[n])

LEMMA QueryTermIs ==
  ASSUME NEW c, NEW x, NEW id, ReadId(c, x, id), NEW info, NEW tok, NEW polarity \in {1, -1},
         NEW isName, NEW weight
  PROVE  TermOK(c, x, QueryTerm(id, info, tok, polarity, isName, weight))
  BY DEF QueryTerm, TermOK, TermShape

(* A term that is met again gains weight, and stays what it is.            *)
Gain(old, t) ==
  [weight |-> Min({old.weight + t.weight \div 2, 2000 * old.idf}),
   modality |-> old.modality \cup t.modality,
   isName |-> old.isName \/ t.isName]

LEMMA GainedIs ==
  ASSUME NEW old, TermShape(old), NEW t
  PROVE  LET new == Gained(old, t)
         IN  /\ TermShape(new)
             /\ new.term = old.term /\ new.polarity = old.polarity /\ new.idf = old.idf
             /\ new.negated = old.negated
             /\ new.weight = Gain(old, t).weight
             /\ new.modality = Gain(old, t).modality
             /\ new.isName = Gain(old, t).isName
<1> DEFINE new == Gained(old, t)
           g == Gain(old, t)
<1>1. new = [old EXCEPT !.weight = g.weight, !.modality = g.modality, !.isName = g.isName]
  BY DEF Gained, Gain
<1> HIDE DEF new, g
<1>2. DOMAIN old = {"term", "weight", "idf", "polarity", "isName", "negated", "modality"}
  BY DEF TermShape
<1>3. /\ new.term = old.term /\ new.polarity = old.polarity /\ new.idf = old.idf
      /\ new.negated = old.negated
      /\ new.weight = g.weight /\ new.modality = g.modality /\ new.isName = g.isName
  BY <1>1, <1>2
<1>4. DOMAIN new = DOMAIN old /\ new = [k \in DOMAIN new |-> new[k]]
  BY <1>1
<1>5. TermShape(new)
  BY <1>2, <1>4 DEF TermShape
<1> QED
  BY <1>3, <1>5 DEF g, new

LEMMA GainedKeeps ==
  ASSUME NEW c, NEW x, NEW old, TermOK(c, x, old), NEW t
  PROVE  TermOK(c, x, Gained(old, t))
<1> DEFINE new == Gained(old, t)
<1>1. TermShape(new) /\ new.term = old.term /\ new.polarity = old.polarity
  BY GainedIs DEF TermOK
<1> HIDE DEF new
<1>2. TermOK(c, x, new)
  BY <1>1 DEF TermOK
<1> QED
  BY <1>2 DEF new

LEMMA PushTermKeeps ==
  ASSUME NEW c, NEW x, NEW terms, TermList(c, x, terms), NEW t, TermOK(c, x, t)
  PROVE  TermList(c, x, PushTerm(terms, t))
<1> DEFINE k == First(SameTerm(terms, t))
           new == PushTerm(terms, t)
<1> SUFFICES TermList(c, x, new)
  OBVIOUS
<1>1. CASE SameTerm(terms, t) = {}
  <2>1. new = Append(terms, t)
    BY <1>1 DEF PushTerm
  <2> HIDE DEF new
  <2>2. /\ IsList(new)
        /\ DOMAIN new = DOMAIN terms \cup {Len(terms) + 1}
        /\ \A i \in DOMAIN terms : new[i] = terms[i]
        /\ new[Len(terms) + 1] = t
    BY <2>1, AppendList DEF TermList
  <2> QED
    BY <2>2 DEF TermList
<1>2. CASE SameTerm(terms, t) # {}
  <2>1. new = [terms EXCEPT ![k] = Gained(terms[k], t)]
    BY <1>2 DEF PushTerm
  <2> HIDE DEF k, new
  <2>2. IsList(new) /\ DOMAIN new = DOMAIN terms
    BY <2>1, ExceptList DEF TermList
  <2>3. ASSUME NEW n \in DOMAIN new PROVE TermOK(c, x, new[n])
    <3>1. TermOK(c, x, terms[n])
      BY <2>2 DEF TermList
    <3>2. CASE n = k
      <4>1. new[n] = Gained(terms[n], t)
        BY <2>1, <2>2, <3>2
      <4> QED
        BY <3>1, <4>1, GainedKeeps
    <3>3. CASE n # k
      BY <2>1, <2>2, <3>1, <3>3
    <3> QED
      BY <3>2, <3>3
  <2> QED
    BY <2>2, <2>3 DEF TermList
<1> QED
  BY <1>1, <1>2

LEMMA TermsGrown ==
  ASSUME NEW c, ContextOK(c), NEW x, NEW y, Fits(c, x), Fits(c, y), Grown(x, y),
         NEW terms, TermList(c, x, terms)
  PROVE  TermList(c, y, terms)
  BY ReadIdGrown DEF TermList, TermOK

-----------------------------------------------------------------------------
(* Reading an option: its name, then its texts.                            *)
ReadOK(c, acc) ==
  /\ acc = [ext |-> acc.ext, terms |-> acc.terms, names |-> acc.names]
  /\ Fits(c, acc.ext)
  /\ TermList(c, acc.ext, acc.terms)
  /\ IdList(c.base, acc.ext, acc.names)

(* What interning the word of a token leaves for the token to do.          *)
LEMMA WordIsRead ==
  ASSUME NEW c, ContextOK(c), NEW acc, ReadOK(c, acc), NEW w, WordOK(c, w)
  PROVE  LET i == ExtIntern(c.base, acc.ext, w)
         IN  /\ Fits(c, i.ext) /\ Grown(acc.ext, i.ext) /\ i.ext.expansions = acc.ext.expansions
             /\ ReadId(c, i.ext, i.id) /\ Info(c.base, i.ext, i.id).stem = StemOf[w]
             /\ TermList(c, i.ext, acc.terms)
             /\ IdList(c.base, i.ext, acc.names)
<1> DEFINE i == ExtIntern(c.base, acc.ext, w)
           p == <<StemOf[w], w>>
<1>1. Interned(c.base, acc.ext, Term(w, StemOf[w]), i)
  BY InternFits DEF ContextOK, ReadOK, Fits, WordOK
<1>2. p \in c.pushed /\ Term(p[2], p[1]) = Term(w, StemOf[w])
  BY DEF WordOK
<1> HIDE DEF i, p
<1>3. Fits(c, i.ext)
  BY <1>1, <1>2, FitsAfter DEF ReadOK
<1>4. Grown(acc.ext, i.ext) /\ i.ext.expansions = acc.ext.expansions
  BY <1>1 DEF Interned
<1>5. ReadId(c, i.ext, i.id) /\ Info(c.base, i.ext, i.id).stem = StemOf[w]
  BY <1>1, TermHasStem DEF Interned, ReadId, WordOK
<1>6. TermList(c, i.ext, acc.terms)
  BY <1>3, <1>4, TermsGrown DEF ReadOK
<1>7. IdList(c.base, i.ext, acc.names)
  BY <1>3, <1>4, GrownList DEF ReadOK, Fits, ContextOK, ExtOK, TermsFit
<1> QED
  BY <1>3, <1>4, <1>5, <1>6, <1>7 DEF i

NameStep(c, q, r, acc, tok) == NameToken(c.base, acc, tok, ExtIntern(c.base, acc.ext, tok.word))
TextStep(c, hypothesis, text, acc, tok) ==
  TextToken(c.base, hypothesis, text, acc, tok, ExtIntern(c.base, acc.ext, tok.word))
TextsStep(c, hypothesis, r, acc, text) == ReadText(c.base, hypothesis, acc, text)
Reads(c, q, r, acc) == ReadOK(c, acc)

NameLoop == INSTANCE Folding WITH Step <- NameStep, Good <- Reads
TextLoop == INSTANCE Folding WITH Step <- TextStep, Good <- Reads
TextsLoop == INSTANCE Folding WITH Step <- TextsStep, Good <- Reads

LEMMA NameKeeps ==
  ASSUME NEW c, ContextOK(c), NEW acc, ReadOK(c, acc), NEW tok, WordOK(c, tok.word), NEW q, NEW r
  PROVE  ReadOK(c, NameStep(c, q, r, acc, tok))
<1> DEFINE i == ExtIntern(c.base, acc.ext, tok.word)
           new == NameStep(c, q, r, acc, tok)
           info == Info(c.base, i.ext, i.id)
           factor == IF info.stop THEN 275 ELSE 1100
           t == QueryTerm(i.id, info, tok, 1, TRUE, Max({info.idf, 15}) * factor)
<1> SUFFICES ReadOK(c, new)
  OBVIOUS
<1>1. /\ Fits(c, i.ext) /\ ReadId(c, i.ext, i.id)
      /\ TermList(c, i.ext, acc.terms)
      /\ IdList(c.base, i.ext, acc.names)
  BY WordIsRead
<1> DEFINE one == 1
<1>2. TermOK(c, i.ext, t)
  <2>1. one \in {1, -1} /\ t = QueryTerm(i.id, info, tok, one, TRUE, Max({info.idf, 15}) * factor)
    OBVIOUS
  <2> HIDE DEF one, i, info, factor
  <2> QED
    BY <1>1, <2>1, QueryTermIs DEF t
<1>3. CASE ~IsEvidence(info, tok)
  <2>1. new = [ext |-> i.ext, terms |-> acc.terms, names |-> acc.names]
    BY <1>3 DEF NameStep, NameToken, ReadOK
  <2> HIDE DEF i, new
  <2> QED
    BY <1>1, <2>1 DEF ReadOK
<1>4. CASE IsEvidence(info, tok)
  <2>1. new = [ext |-> i.ext, terms |-> PushTerm(acc.terms, t), names |-> Append(acc.names, i.id)]
    BY <1>4 DEF NameStep, NameToken
  <2> HIDE DEF i, new, t
  <2>2. TermList(c, i.ext, PushTerm(acc.terms, t)) /\ IdList(c.base, i.ext, Append(acc.names, i.id))
    BY <1>1, <1>2, PushTermKeeps, AddId DEF ReadId
  <2> QED
    BY <1>1, <2>1, <2>2 DEF ReadOK
<1> QED
  BY <1>3, <1>4

LEMMA TextKeeps ==
  ASSUME NEW c, ContextOK(c), NEW acc, ReadOK(c, acc), NEW tok, WordOK(c, tok.word),
         NEW hypothesis, NEW text, text.polarity \in {1, -1}
  PROVE  ReadOK(c, TextStep(c, hypothesis, text, acc, tok))
<1> DEFINE i == ExtIntern(c.base, acc.ext, tok.word)
           new == TextStep(c, hypothesis, text, acc, tok)
           info == Info(c.base, i.ext, i.id)
           factor == IF info.stop THEN (text.factor * 3) \div 10 ELSE text.factor
           t == QueryTerm(i.id, info, tok, text.polarity, FALSE, Max({info.idf, 10}) * factor)
<1> SUFFICES ReadOK(c, new)
  OBVIOUS
<1>1. /\ Fits(c, i.ext) /\ ReadId(c, i.ext, i.id)
      /\ TermList(c, i.ext, acc.terms)
      /\ IdList(c.base, i.ext, acc.names)
  BY WordIsRead
<1>2. TermOK(c, i.ext, t)
  BY <1>1, QueryTermIs
<1>3. CASE ~IsEvidence(info, tok) \/ (info.stop /\ hypothesis)
  <2>1. new = [ext |-> i.ext, terms |-> acc.terms, names |-> acc.names]
    BY <1>3 DEF TextStep, TextToken, ReadOK
  <2> HIDE DEF i, new
  <2> QED
    BY <1>1, <2>1 DEF ReadOK
<1>4. CASE ~(~IsEvidence(info, tok) \/ (info.stop /\ hypothesis))
  <2>1. new = [ext |-> i.ext, terms |-> PushTerm(acc.terms, t), names |-> acc.names]
    BY <1>4 DEF TextStep, TextToken, ReadOK
  <2> HIDE DEF i, new, t
  <2>2. TermList(c, i.ext, PushTerm(acc.terms, t))
    BY <1>1, <1>2, PushTermKeeps
  <2> QED
    BY <1>1, <2>1, <2>2 DEF ReadOK
<1> QED
  BY <1>3, <1>4

(* An option in words that are known to the context.                       *)
WordsOK(c, tokens) == Listed(tokens) /\ \A n \in DOMAIN tokens : WordOK(c, tokens[n].word)
TextOK(c, text) == WordsOK(c, text.tokens) /\ text.polarity \in {1, -1}
OptionOK(c, o) ==
  /\ WordsOK(c, o.name)
  /\ Listed(o.texts) /\ \A n \in DOMAIN o.texts : TextOK(c, o.texts[n])

LEMMA NameFits ==
  ASSUME NEW c, ContextOK(c), NEW x, Fits(c, x), NEW name, WordsOK(c, name)
  PROVE  ReadOK(c, ReadName(c.base, x, name))
<1> DEFINE base == [ext |-> x, terms |-> <<>>, names |-> <<>>]
<1>1. ReadName(c.base, x, name) = NameLoop!Fold(c, 0, 0, base, name)
  BY DEF ReadName, NameLoop!Fold, NameStep, FoldLeft, MapThenFoldSet, Max, NameLoop!Greatest
<1>2. Reads(c, 0, 0, base)
  BY EmptyList, NoIds DEF Reads, ReadOK, TermList
<1> HIDE DEF base
<1>3. Len(name) \in Nat /\ DOMAIN name = 1 .. Len(name)
  BY DEF WordsOK, Listed
<1>4. \A n \in 1 .. Len(name) : \A acc :
        Reads(c, 0, 0, acc) => Reads(c, 0, 0, NameStep(c, 0, 0, acc, name[n]))
  BY <1>3, NameKeeps DEF Reads, WordsOK
<1>5. Reads(c, 0, 0, NameLoop!Fold(c, 0, 0, base, name))
  BY <1>2, <1>3, <1>4, NameLoop!FoldKeeps
<1> QED
  BY <1>1, <1>5 DEF Reads

LEMMA TextFits ==
  ASSUME NEW c, ContextOK(c), NEW acc, ReadOK(c, acc), NEW hypothesis, NEW text, TextOK(c, text)
  PROVE  ReadOK(c, ReadText(c.base, hypothesis, acc, text))
<1> DEFINE tokens == text.tokens
<1>1. ReadText(c.base, hypothesis, acc, text) = TextLoop!Fold(c, hypothesis, text, acc, tokens)
  BY DEF ReadText, TextLoop!Fold, TextStep, FoldLeft, MapThenFoldSet, Max, TextLoop!Greatest
<1>2. Reads(c, hypothesis, text, acc)
  BY DEF Reads
<1>3. /\ Len(tokens) \in Nat /\ DOMAIN tokens = 1 .. Len(tokens)
      /\ \A n \in DOMAIN tokens : WordOK(c, tokens[n].word)
      /\ text.polarity \in {1, -1}
  BY DEF TextOK, WordsOK, Listed
<1> HIDE DEF tokens
<1>4. \A n \in 1 .. Len(tokens) : \A a :
        Reads(c, hypothesis, text, a) =>
          Reads(c, hypothesis, text, TextStep(c, hypothesis, text, a, tokens[n]))
  BY <1>3, TextKeeps DEF Reads
<1>5. Reads(c, hypothesis, text, TextLoop!Fold(c, hypothesis, text, acc, tokens))
  BY <1>2, <1>3, <1>4, TextLoop!FoldKeeps
<1> QED
  BY <1>1, <1>5 DEF Reads

LEMMA TextsFit ==
  ASSUME NEW c, ContextOK(c), NEW acc, ReadOK(c, acc), NEW hypothesis,
         NEW texts, Listed(texts), \A n \in DOMAIN texts : TextOK(c, texts[n])
  PROVE  ReadOK(c, ReadTexts(c.base, acc, hypothesis, texts))
<1>1. ReadTexts(c.base, acc, hypothesis, texts) = TextsLoop!Fold(c, hypothesis, 0, acc, texts)
  BY DEF ReadTexts, TextsLoop!Fold, TextsStep, FoldLeft, MapThenFoldSet, Max, TextsLoop!Greatest
<1>2. Reads(c, hypothesis, 0, acc)
  BY DEF Reads
<1>3. Len(texts) \in Nat /\ DOMAIN texts = 1 .. Len(texts)
  BY DEF Listed
<1>4. \A n \in 1 .. Len(texts) : \A a :
        Reads(c, hypothesis, 0, a) =>
          Reads(c, hypothesis, 0, TextsStep(c, hypothesis, 0, a, texts[n]))
  BY <1>3, TextFits DEF Reads, TextsStep
<1>5. Reads(c, hypothesis, 0, TextsLoop!Fold(c, hypothesis, 0, acc, texts))
  BY <1>2, <1>3, <1>4, TextsLoop!FoldKeeps
<1> QED
  BY <1>1, <1>5 DEF Reads

-----------------------------------------------------------------------------
(* Widening: the expansions of the terms that count for the option.        *)
SynonymList(b, x, l) ==
  IsList(l) /\ \A n \in DOMAIN l : l[n].term \in IdsOf(b, x) /\ l[n].from \in IdsOf(b, x)
AntonymList(b, x, l) == IsList(l) /\ \A n \in DOMAIN l : l[n].term \in IdsOf(b, x)

SynonymEntry(t, id) == [term |-> id, weight |-> (t.weight * 6) \div 10, from |-> t.term]
AntonymEntry(t, id) == [term |-> id, weight |-> t.weight]

SynonymStep(own, t, at, l, id) == PushRelated(own, l, SynonymEntry(t, id))
AntonymStep(own, t, at, l, id) == PushRelated(own, l, AntonymEntry(t, id))
SynonymsAt(own, t, at, l) == SynonymList(at.base, at.ext, l)
AntonymsAt(own, t, at, l) == AntonymList(at.base, at.ext, l)

SynonymLoop == INSTANCE Folding WITH Step <- SynonymStep, Good <- SynonymsAt
AntonymLoop == INSTANCE Folding WITH Step <- AntonymStep, Good <- AntonymsAt

LEMMA PushSynonymsFit ==
  ASSUME NEW b, NEW x, NEW own, NEW l, SynonymList(b, x, l), NEW t, t.term \in IdsOf(b, x),
         NEW ids, IdList(b, x, ids)
  PROVE  SynonymList(b, x, PushSynonyms(own, l, t, ids))
<1> DEFINE at == [base |-> b, ext |-> x]
<1>1. PushSynonyms(own, l, t, ids) = SynonymLoop!Fold(own, t, at, l, ids)
  BY DEF PushSynonyms, SynonymLoop!Fold, SynonymStep, SynonymEntry, FoldLeft,
         MapThenFoldSet, Max, SynonymLoop!Greatest
<1>2. at.base = b /\ at.ext = x
  OBVIOUS
<1> HIDE DEF at
<1>3. SynonymsAt(own, t, at, l)
  BY <1>2 DEF SynonymsAt
<1>4. Len(ids) \in Nat /\ DOMAIN ids = 1 .. Len(ids)
  BY ListShape DEF IdList
<1>5. ASSUME NEW n \in 1 .. Len(ids), NEW m, SynonymsAt(own, t, at, m)
      PROVE  SynonymsAt(own, t, at, SynonymStep(own, t, at, m, ids[n]))
  <2> DEFINE e == SynonymEntry(t, ids[n])
             new == SynonymStep(own, t, at, m, ids[n])
  <2>1. e.term \in IdsOf(b, x) /\ e.from \in IdsOf(b, x)
    BY <1>4 DEF SynonymEntry, IdList
  <2>2. new = m \/ new = Append(m, e)
    BY DEF SynonymStep, PushRelated
  <2> HIDE DEF e, new
  <2>3. IsList(m) /\ \A k \in DOMAIN m : m[k].term \in IdsOf(b, x) /\ m[k].from \in IdsOf(b, x)
    BY <1>2, <1>5 DEF SynonymsAt, SynonymList
  <2>4. IsList(new) /\ \A k \in DOMAIN new : new[k].term \in IdsOf(b, x) /\ new[k].from \in IdsOf(b, x)
    <3>1. CASE new = m
      BY <2>3, <3>1
    <3>2. CASE new = Append(m, e)
      <4>1. /\ IsList(new) /\ DOMAIN new = DOMAIN m \cup {Len(m) + 1}
            /\ \A k \in DOMAIN m : new[k] = m[k]
            /\ new[Len(m) + 1] = e
        BY <2>3, <3>2, AppendList
      <4> QED
        BY <2>1, <2>3, <4>1
    <3> QED
      BY <2>2, <3>1, <3>2
  <2>5. SynonymsAt(own, t, at, new)
    BY <1>2, <2>4 DEF SynonymsAt, SynonymList
  <2> QED
    BY <2>5 DEF new
<1>6. SynonymsAt(own, t, at, SynonymLoop!Fold(own, t, at, l, ids))
  BY <1>3, <1>4, <1>5, SynonymLoop!FoldKeeps
<1> QED
  BY <1>1, <1>2, <1>6 DEF SynonymsAt

LEMMA PushAntonymsFit ==
  ASSUME NEW b, NEW x, NEW own, NEW l, AntonymList(b, x, l), NEW t, NEW ids, IdList(b, x, ids)
  PROVE  AntonymList(b, x, PushAntonyms(own, l, t, ids))
<1> DEFINE at == [base |-> b, ext |-> x]
<1>1. PushAntonyms(own, l, t, ids) = AntonymLoop!Fold(own, t, at, l, ids)
  BY DEF PushAntonyms, AntonymLoop!Fold, AntonymStep, AntonymEntry, FoldLeft,
         MapThenFoldSet, Max, AntonymLoop!Greatest
<1>2. at.base = b /\ at.ext = x
  OBVIOUS
<1> HIDE DEF at
<1>3. AntonymsAt(own, t, at, l)
  BY <1>2 DEF AntonymsAt
<1>4. Len(ids) \in Nat /\ DOMAIN ids = 1 .. Len(ids)
  BY ListShape DEF IdList
<1>5. ASSUME NEW n \in 1 .. Len(ids), NEW m, AntonymsAt(own, t, at, m)
      PROVE  AntonymsAt(own, t, at, AntonymStep(own, t, at, m, ids[n]))
  <2> DEFINE e == AntonymEntry(t, ids[n])
             new == AntonymStep(own, t, at, m, ids[n])
  <2>1. e.term \in IdsOf(b, x)
    BY <1>4 DEF AntonymEntry, IdList
  <2>2. new = m \/ new = Append(m, e)
    BY DEF AntonymStep, PushRelated
  <2> HIDE DEF e, new
  <2>3. IsList(m) /\ \A k \in DOMAIN m : m[k].term \in IdsOf(b, x)
    BY <1>2, <1>5 DEF AntonymsAt, AntonymList
  <2>4. IsList(new) /\ \A k \in DOMAIN new : new[k].term \in IdsOf(b, x)
    <3>1. CASE new = m
      BY <2>3, <3>1
    <3>2. CASE new = Append(m, e)
      <4>1. /\ IsList(new) /\ DOMAIN new = DOMAIN m \cup {Len(m) + 1}
            /\ \A k \in DOMAIN m : new[k] = m[k]
            /\ new[Len(m) + 1] = e
        BY <2>3, <3>2, AppendList
      <4> QED
        BY <2>1, <2>3, <4>1
    <3> QED
      BY <2>2, <3>1, <3>2
  <2>5. AntonymsAt(own, t, at, new)
    BY <1>2, <2>4 DEF AntonymsAt, AntonymList
  <2> QED
    BY <2>5 DEF new
<1>6. AntonymsAt(own, t, at, AntonymLoop!Fold(own, t, at, l, ids))
  BY <1>3, <1>4, <1>5, AntonymLoop!FoldKeeps
<1> QED
  BY <1>1, <1>2, <1>6 DEF AntonymsAt

WideOK(c, read, acc) ==
  /\ Fits(c, acc.ext) /\ Grown(read.ext, acc.ext)
  /\ SynonymList(c.base, acc.ext, acc.expanded)
  /\ AntonymList(c.base, acc.ext, acc.antonyms)

WideStep(c, read, r, acc, t) == WidenBy(c.base, read, acc, t)
Widens(c, read, r, acc) == WideOK(c, read, acc)
WideLoop == INSTANCE Folding WITH Step <- WideStep, Good <- Widens

LEMMA ListsGrown ==
  ASSUME NEW c, ContextOK(c), NEW x, NEW y, Fits(c, x), Fits(c, y), Grown(x, y)
  PROVE  /\ \A l : SynonymList(c.base, x, l) => SynonymList(c.base, y, l)
         /\ \A l : AntonymList(c.base, x, l) => AntonymList(c.base, y, l)
<1>1. \A id \in IdsOf(c.base, x) : id \in IdsOf(c.base, y)
  BY GrownInfo DEF ContextOK, Fits, ExtOK, TermsFit
<1> QED
  BY <1>1 DEF SynonymList, AntonymList

LEMMA WidenKeeps ==
  ASSUME NEW c, ContextOK(c), NEW read, ReadOK(c, read), NEW acc, WideOK(c, read, acc),
         NEW t, TermOK(c, read.ext, t)
  PROVE  WideOK(c, read, WidenBy(c.base, read, acc, t))
<1>1. CASE ~Expandable(c.base, read.ext, t)
  BY <1>1 DEF WidenBy
<1>2. CASE Expandable(c.base, read.ext, t)
  <2> DEFINE e == Expansion(c.base, acc.ext, t.term)
             new == WidenBy(c.base, read, acc, t)
  <2>1. /\ new.ext = e.ext
        /\ new.expanded = PushSynonyms(read.terms, acc.expanded, t, e.expansion.synonyms)
        /\ new.antonyms = PushAntonyms(read.terms, acc.antonyms, t, e.expansion.antonyms)
    BY <1>2 DEF WidenBy, ExpandTerm
  <2>2. ReadId(c, acc.ext, t.term)
    BY ReadIdGrown DEF TermOK, ReadOK, WideOK
  <2>3. Expanded(c, acc.ext, e)
    BY <2>2, ExpansionFits DEF WideOK
  <2> SUFFICES WideOK(c, read, new)
    OBVIOUS
  <2> HIDE DEF e, new
  <2>4. Fits(c, new.ext) /\ Grown(acc.ext, new.ext)
    BY <2>1, <2>3 DEF Expanded
  <2>5. Grown(read.ext, new.ext)
    BY <2>4, GrownTwice DEF WideOK, ReadOK, Fits
  <2>6. /\ SynonymList(c.base, new.ext, acc.expanded)
        /\ AntonymList(c.base, new.ext, acc.antonyms)
    BY <2>4, ListsGrown DEF WideOK
  <2>7. t.term \in IdsOf(c.base, new.ext)
    BY <2>2, <2>4, ReadIdGrown DEF WideOK, ReadId
  <2>8. /\ SynonymList(c.base, new.ext, new.expanded)
        /\ AntonymList(c.base, new.ext, new.antonyms)
    BY <2>1, <2>3, <2>6, <2>7, PushSynonymsFit, PushAntonymsFit DEF Expanded
  <2> QED
    BY <2>4, <2>5, <2>8 DEF WideOK
<1> QED
  BY <1>1, <1>2

LEMMA WidenFits ==
  ASSUME NEW c, ContextOK(c), NEW read, ReadOK(c, read)
  PROVE  WideOK(c, read, Widen(c.base, read))
<1> DEFINE base == [ext |-> read.ext, expanded |-> <<>>, antonyms |-> <<>>]
           terms == read.terms
<1>1. Widen(c.base, read) = WideLoop!Fold(c, read, 0, base, terms)
  BY DEF Widen, WideLoop!Fold, WideStep, FoldLeft, MapThenFoldSet, Max, WideLoop!Greatest
<1>2. Widens(c, read, 0, base)
  BY EmptyList, GrownSelf DEF Widens, WideOK, ReadOK, Fits, SynonymList, AntonymList
<1>3. Len(terms) \in Nat /\ DOMAIN terms = 1 .. Len(terms)
      /\ \A n \in DOMAIN terms : TermOK(c, read.ext, terms[n])
  BY ListShape DEF ReadOK, TermList
<1> HIDE DEF base, terms
<1>4. \A n \in 1 .. Len(terms) : \A acc :
        Widens(c, read, 0, acc) => Widens(c, read, 0, WideStep(c, read, 0, acc, terms[n]))
  BY <1>3, WidenKeeps DEF Widens, WideStep
<1>5. Widens(c, read, 0, WideLoop!Fold(c, read, 0, base, terms))
  BY <1>2, <1>3, <1>4, WideLoop!FoldKeeps
<1> QED
  BY <1>1, <1>5 DEF Widens

-----------------------------------------------------------------------------
(* A whole option.                                                         *)
CriterionOK(c, x, cr) ==
  /\ IdList(c.base, x, cr.names)
  /\ TermList(c, x, cr.terms)
  /\ SynonymList(c.base, x, cr.expanded)
  /\ AntonymList(c.base, x, cr.antonyms)

LEMMA CriterionGrown ==
  ASSUME NEW c, ContextOK(c), NEW x, NEW y, Fits(c, x), Fits(c, y), Grown(x, y),
         NEW cr, CriterionOK(c, x, cr)
  PROVE  CriterionOK(c, y, cr)
<1>1. IdList(c.base, y, cr.names)
  BY GrownList DEF CriterionOK, ContextOK, Fits, ExtOK, TermsFit
<1> QED
  BY <1>1, TermsGrown, ListsGrown DEF CriterionOK

(* The same context, seen from a later extension.                          *)
LaterContext(c, x) == [base |-> c.base, from |-> x, read |-> c.read, pushed |-> c.pushed]

LEMMA LaterContextOK ==
  ASSUME NEW c, ContextOK(c), NEW x, Fits(c, x)
  PROVE  /\ ContextOK(LaterContext(c, x))
         /\ \A y : Fits(LaterContext(c, x), y) => Fits(c, y) /\ Grown(x, y)
<1> DEFINE d == LaterContext(c, x)
<1>1. d.base = c.base /\ d.from = x /\ d.read = c.read /\ d.pushed = c.pushed
  BY DEF LaterContext
<1> HIDE DEF d
<1>2. ContextOK(d)
  BY <1>1 DEF ContextOK, Fits
<1>3. ASSUME NEW y, Fits(d, y) PROVE Fits(c, y) /\ Grown(x, y)
  <2>1. ExtOK(c.base, y) /\ Grown(x, y)
    BY <1>1, <1>3 DEF Fits
  <2>2. Grown(c.from, y)
    BY <2>1, GrownTwice DEF Fits, ContextOK
  <2>3. \A n \in DOMAIN x.terms : y.terms[n] = x.terms[n]
    BY <2>1 DEF Grown
  <2> QED
    BY <1>1, <1>3, <2>1, <2>2, <2>3 DEF Fits
<1> QED
  BY <1>2, <1>3 DEF d

LEMMA OptionReads ==
  ASSUME NEW c, ContextOK(c), NEW x, Fits(c, x), NEW hypothesis, NEW o, OptionOK(c, o)
  PROVE  ReadOK(c, ReadTexts(c.base, ReadName(c.base, x, o.name), hypothesis, o.texts))
<1> DEFINE named == ReadName(c.base, x, o.name)
<1>1. ReadOK(c, named)
  BY NameFits DEF OptionOK
<1>2. Listed(o.texts) /\ \A n \in DOMAIN o.texts : TextOK(c, o.texts[n])
  BY DEF OptionOK
<1> DEFINE texts == o.texts
<1> HIDE DEF named, texts
<1>3. ReadOK(c, ReadTexts(c.base, named, hypothesis, texts))
  BY <1>1, <1>2, TextsFit DEF texts
<1> QED
  BY <1>3 DEF named, texts

LEMMA BuildFits ==
  ASSUME NEW c, ContextOK(c), NEW x, Fits(c, x), NEW hypothesis, NEW o, OptionOK(c, o),
         NEW r, r = BuildCriterion(c.base, x, hypothesis, o)
  PROVE  Fits(c, r.ext) /\ Grown(x, r.ext) /\ CriterionOK(c, r.ext, r.criterion)
<1> DEFINE d == LaterContext(c, x)
           read == ReadTexts(c.base, ReadName(c.base, x, o.name), hypothesis, o.texts)
           wide == Widen(c.base, read)
<1>1. d.base = c.base /\ d.from = x /\ d.read = c.read /\ d.pushed = c.pushed
  BY DEF LaterContext
<1>2. ContextOK(d) /\ \A y : Fits(d, y) => Fits(c, y) /\ Grown(x, y)
  BY LaterContextOK
<1>3. /\ r.ext = wide.ext /\ r.criterion.names = read.names /\ r.criterion.terms = read.terms
      /\ r.criterion.expanded = wide.expanded /\ r.criterion.antonyms = wide.antonyms
  BY DEF BuildCriterion, Widened, Built
<1> HIDE DEF d
<1>4. OptionOK(d, o)
  BY <1>1 DEF OptionOK, WordsOK, TextOK, WordOK
<1>5. Fits(d, x)
  BY <1>1, <1>2, FitsSelf
<1>6. ReadOK(d, read)
  BY <1>1, <1>2, <1>4, <1>5, OptionReads
<1> HIDE DEF read
<1>7. WideOK(d, read, wide)
  BY <1>1, <1>2, <1>6, WidenFits
<1> HIDE DEF wide
<1>8. Fits(d, wide.ext) /\ Grown(read.ext, wide.ext) /\ Fits(d, read.ext)
  BY <1>6, <1>7 DEF WideOK, ReadOK
<1>9. TermList(d, wide.ext, read.terms)
  BY <1>2, <1>6, <1>8, TermsGrown DEF ReadOK
<1>10. IdList(c.base, wide.ext, read.names)
  BY <1>1, <1>2, <1>6, <1>8, GrownList DEF ReadOK, Fits, ContextOK, ExtOK, TermsFit
<1>11. TermList(c, wide.ext, read.terms)
  BY <1>1, <1>9 DEF TermList, TermOK, ReadId
<1> QED
  BY <1>1, <1>2, <1>3, <1>7, <1>8, <1>10, <1>11 DEF CriterionOK, WideOK

-----------------------------------------------------------------------------
(* The instructions only intern.                                           *)
Interns(b, q, r, acc) == ExtOK(b, acc.ext) /\ acc.ext.expansions = <<>>
TokenStep(b, text, r, acc, tok) == ReadToken(b, text, acc, tok, ExtIntern(b, acc.ext, tok.word))
InstructionStep(b, q, r, acc, text) == ReadInstruction(b, acc, text)

TokenLoop == INSTANCE Folding WITH Step <- TokenStep, Good <- Interns
InstructionLoop == INSTANCE Folding WITH Step <- InstructionStep, Good <- Interns

LEMMA InstructionFits ==
  ASSUME NEW b, BaseOK(b), NEW acc, Interns(b, 0, 0, acc),
         NEW text, Listed(text.tokens), WordsKnown(text.tokens)
  PROVE  Interns(b, 0, 0, ReadInstruction(b, acc, text))
<1> DEFINE tokens == text.tokens
<1>1. ReadInstruction(b, acc, text) = TokenLoop!Fold(b, text, 0, acc, tokens)
  BY DEF ReadInstruction, TokenLoop!Fold, TokenStep, FoldLeft, MapThenFoldSet, Max, TokenLoop!Greatest
<1>2. Len(tokens) \in Nat /\ DOMAIN tokens = 1 .. Len(tokens)
      /\ \A n \in DOMAIN tokens : tokens[n].word \in DOMAIN StemOf
  BY DEF Listed, WordsKnown
<1> HIDE DEF tokens
<1>3. ASSUME NEW n \in 1 .. Len(tokens), NEW a, Interns(b, text, 0, a)
      PROVE  Interns(b, text, 0, TokenStep(b, text, 0, a, tokens[n]))
  <2> DEFINE w == tokens[n].word
             i == ExtIntern(b, a.ext, w)
             new == TokenStep(b, text, 0, a, tokens[n])
  <2>1. Interned(b, a.ext, Term(w, StemOf[w]), i)
    BY <1>2, <1>3, InternFits DEF Interns
  <2>2. new.ext = i.ext
    BY DEF TokenStep, ReadToken
  <2> HIDE DEF i, new
  <2>3. Interns(b, text, 0, new)
    BY <1>3, <2>1, <2>2 DEF Interns, Interned
  <2> QED
    BY <2>3 DEF new
<1>4. Interns(b, text, 0, acc)
  BY DEF Interns
<1>5. Interns(b, text, 0, TokenLoop!Fold(b, text, 0, acc, tokens))
  BY <1>2, <1>3, <1>4, TokenLoop!FoldKeeps
<1> QED
  BY <1>1, <1>5 DEF Interns

LEMMA InstructionsFit ==
  ASSUME NEW b, BaseOK(b), NEW texts, TextsOK(texts)
  PROVE  Interns(b, 0, 0, ReadInstructions(b, EmptyExt, texts))
<1> DEFINE base == [ext |-> EmptyExt, terms |-> <<>>]
<1>1. ReadInstructions(b, EmptyExt, texts) = InstructionLoop!Fold(b, 0, 0, base, texts)
  BY DEF ReadInstructions, InstructionLoop!Fold, InstructionStep, FoldLeft,
         MapThenFoldSet, Max, InstructionLoop!Greatest
<1>2. Interns(b, 0, 0, base)
  BY EmptyList DEF Interns, EmptyExt, ExtOK, Shape, TermsFit, OneEach, SurfacesFit, ExpansionsFit
<1> HIDE DEF base
<1>3. Len(texts) \in Nat /\ DOMAIN texts = 1 .. Len(texts)
      /\ \A n \in DOMAIN texts : Listed(texts[n].tokens) /\ WordsKnown(texts[n].tokens)
  BY DEF TextsOK, Listed
<1>4. \A n \in 1 .. Len(texts) : \A a :
        Interns(b, 0, 0, a) => Interns(b, 0, 0, InstructionStep(b, 0, 0, a, texts[n]))
  BY <1>3, InstructionFits DEF InstructionStep
<1>5. Interns(b, 0, 0, InstructionLoop!Fold(b, 0, 0, base, texts))
  BY <1>2, <1>3, <1>4, InstructionLoop!FoldKeeps
<1> QED
  BY <1>1, <1>5

-----------------------------------------------------------------------------
(* The context of the question that is asked.                              *)
Context ==
  [base |-> Base, from |-> Instructed,
   read |-> {StemOf[w] : w \in WordsRead}, pushed |-> Pushed]

LEMMA ContextIs ==
  /\ Context.base = Base /\ Context.from = Instructed
  /\ Context.read = {StemOf[w] : w \in WordsRead} /\ Context.pushed = Pushed
  BY DEF Context

LEMMA PushedIs ==
  /\ \A w \in WordsRead : <<StemOf[w], w>> \in Pushed
  /\ \A w \in WordsRead : \A other :
       other \in Range(SynonymStems[StemOf[w]]) \cup Range(AntonymStems[StemOf[w]])
         => <<other, other>> \in Pushed
<1> DEFINE read == {<<StemOf[w], w>> : w \in WordsRead}
           related == UNION {Range(SynonymStems[p[1]]) \cup Range(AntonymStems[p[1]]) : p \in read}
<1>1. Pushed = read \cup {<<st, st>> : st \in related}
  BY DEF Pushed
<1>2. ASSUME NEW w \in WordsRead, NEW other,
             other \in Range(SynonymStems[StemOf[w]]) \cup Range(AntonymStems[StemOf[w]])
      PROVE  other \in related
  <2> DEFINE p == <<StemOf[w], w>>
  <2>1. p \in read /\ p[1] = StemOf[w]
    OBVIOUS
  <2> HIDE DEF p, read
  <2> QED
    BY <1>2, <2>1
<1> QED
  BY <1>1, <1>2

LEMMA AskedContext ==
  ASSUME asked \in Questions
  PROVE  /\ ContextOK(Context)
         /\ Instructed.expansions = <<>>
         /\ \A k \in DOMAIN Options : OptionOK(Context, Options[k])
<1>1. /\ asked.state \in Seq(DOMAIN StemOf)
      /\ TextsOK(asked.question.instructions)
      /\ \A k \in DOMAIN Options :
           /\ Listed(Options[k].name) /\ WordsKnown(Options[k].name)
           /\ TextsOK(Options[k].texts)
  BY OrderAssumption DEF Options
<1>2. BaseOK(Base)
  BY <1>1, VocabIsBase DEF Base
<1>3. ExtOK(Base, Instructed) /\ Instructed.expansions = <<>>
  BY <1>1, <1>2, InstructionsFit DEF Instructed, Interns
<1>4. ASSUME NEW st \in Context.read, NEW other \in Stems,
             other \in Range(SynonymStems[st]) \cup Range(AntonymStems[st])
      PROVE  <<other, other>> \in Context.pushed
  BY <1>4, ContextIs, PushedIs
<1>5. ContextOK(Context)
  BY <1>2, <1>3, <1>4, ContextIs DEF ContextOK
<1>6. ASSUME NEW k \in DOMAIN Options PROVE OptionOK(Context, Options[k])
  <2>1. ASSUME NEW w \in WordsRead, w \in DOMAIN StemOf PROVE WordOK(Context, w)
    BY <2>1, ContextIs, PushedIs DEF WordOK
  <2>2. Options[k] \in Range(Options)
    BY DEF Range
  <2> DEFINE o == Options[k]
  <2>3. ASSUME NEW n \in DOMAIN o.name PROVE o.name[n].word \in WordsRead
    <3>1. o.name[n] \in Range(o.name)
      BY DEF Range
    <3> QED
      BY <2>2, <3>1 DEF WordsRead
  <2>4. ASSUME NEW m \in DOMAIN o.texts, NEW n \in DOMAIN o.texts[m].tokens
        PROVE  o.texts[m].tokens[n].word \in WordsRead
    <3>1. o.texts[m] \in Range(o.texts)
      BY DEF Range
    <3>2. o.texts[m].tokens[n] \in Range(o.texts[m].tokens)
      BY DEF Range
    <3> QED
      BY <2>2, <3>1, <3>2 DEF WordsRead
  <2>5. /\ Listed(o.name) /\ \A n \in DOMAIN o.name : o.name[n].word \in DOMAIN StemOf
        /\ Listed(o.texts)
        /\ \A m \in DOMAIN o.texts :
             /\ Listed(o.texts[m].tokens) /\ o.texts[m].polarity \in {1, -1}
             /\ \A n \in DOMAIN o.texts[m].tokens : o.texts[m].tokens[n].word \in DOMAIN StemOf
    BY <1>1 DEF WordsKnown, TextsOK
  <2> HIDE DEF o
  <2>6. WordsOK(Context, o.name)
    BY <2>1, <2>3, <2>5 DEF WordsOK
  <2>7. ASSUME NEW m \in DOMAIN o.texts PROVE TextOK(Context, o.texts[m])
    BY <2>1, <2>4, <2>5 DEF TextOK, WordsOK
  <2> QED
    BY <2>5, <2>6, <2>7 DEF OptionOK, o
<1> QED
  BY <1>3, <1>5, <1>6

-----------------------------------------------------------------------------
(* The invariant: the extension fits what the question may do to it, and   *)
(* every criterion built stays true of it.                                 *)
ReadingInv ==
  /\ asked \in Questions
  /\ left \subseteq DOMAIN Options
  /\ left \cup DOMAIN built = DOMAIN Options
  /\ Fits(Context, ext)
  /\ \A k \in DOMAIN built : CriterionOK(Context, ext, built[k])

LEMMA ReadingStarts == OrderInit => ReadingInv
<1> SUFFICES ASSUME OrderInit PROVE ReadingInv
  OBVIOUS
<1>1. /\ asked \in Questions /\ left = DOMAIN Options /\ ext = Instructed /\ built = <<>>
  BY DEF OrderInit
<1>2. Fits(Context, ext)
  BY <1>1, AskedContext, ContextIs, FitsSelf
<1>3. DOMAIN built = {}
  BY <1>1
<1> QED
  BY <1>1, <1>2, <1>3 DEF ReadingInv

LEMMA ReadingSteps == ReadingInv /\ [OrderNext]_vars => ReadingInv'
<1> SUFFICES ASSUME ReadingInv, [OrderNext]_vars PROVE ReadingInv'
  OBVIOUS
<1>1. CASE UNCHANGED vars
  BY <1>1 DEF vars, ReadingInv, Context, Base, Instructed, Options, WordsRead, Pushed
<1>2. ASSUME NEW k \in left, Build(k) PROVE ReadingInv'
  <2> DEFINE r == BuildCriterion(Base, ext, FALSE, Options[k])
  <2>1. /\ left' = left \ {k} /\ asked' = asked
        /\ ext' = r.ext /\ built' = Filled(built, k, r.criterion)
    BY <1>2 DEF Build
  <2>2. Context' = Context /\ Options' = Options
    BY <2>1 DEF Context, Base, Instructed, Options, WordsRead, Pushed
  <2>3. ContextOK(Context) /\ OptionOK(Context, Options[k])
    BY AskedContext DEF ReadingInv
  <2>4. Fits(Context, r.ext) /\ Grown(ext, r.ext) /\ CriterionOK(Context, r.ext, r.criterion)
    BY <2>3, ContextIs, BuildFits DEF ReadingInv
  <2> HIDE DEF r
  <2>5. ASSUME NEW j \in DOMAIN built' PROVE CriterionOK(Context, ext', built'[j])
    <3>1. CASE j = k
      BY <2>1, <2>4, <3>1 DEF Filled
    <3>2. CASE j # k
      <4>1. j \in DOMAIN built /\ built'[j] = built[j]
        BY <2>1, <2>5, <3>2 DEF Filled
      <4>2. CriterionOK(Context, ext, built[j]) /\ Fits(Context, ext)
        BY <4>1 DEF ReadingInv
      <4> QED
        BY <2>1, <2>3, <2>4, <4>1, <4>2, CriterionGrown
    <3> QED
      BY <3>1, <3>2
  <2>6. Fits(Context, ext')
    BY <2>1, <2>4
  <2>7. left' \subseteq DOMAIN Options /\ left' \cup DOMAIN built' = DOMAIN Options
    BY <2>1 DEF ReadingInv, Filled
  <2>8. \A j \in DOMAIN built' : CriterionOK(Context', ext', built'[j])
    BY <2>2, <2>5
  <2>9. Fits(Context', ext')
    BY <2>2, <2>6
  <2> QED
    BY <2>1, <2>2, <2>7, <2>8, <2>9 DEF ReadingInv
<1> QED
  BY <1>1, <1>2 DEF OrderNext

LEMMA ReadingInvariant == OrderSpec => []ReadingInv
  BY ReadingStarts, ReadingSteps, PTL DEF OrderSpec

LEMMA IdsAre == Ids = IdsOf(Base, ext) /\ \A id : Stem(id) = Info(Base, ext, id).stem
  BY DEF Ids, IdsOf, Size, Stem

(* Types: whatever the order of the options, every id in a criterion and   *)
(* in the cache of expansions stands for a term.                           *)
THEOREM OrderTypes == OrderSpec => []OrderTypeOK
<1>1. ReadingInv => OrderTypeOK
  <2> SUFFICES ASSUME ReadingInv PROVE OrderTypeOK
    OBVIOUS
  <2>1. ASSUME NEW k \in DOMAIN built
        PROVE  /\ \A n \in DOMAIN built[k].terms :
                    /\ built[k].terms[n].term \in Ids
                    /\ built[k].terms[n].polarity \in {1, -1}
               /\ \A n \in DOMAIN built[k].expanded :
                    {built[k].expanded[n].term, built[k].expanded[n].from} \subseteq Ids
               /\ \A n \in DOMAIN built[k].antonyms : built[k].antonyms[n].term \in Ids
    <3>1. CriterionOK(Context, ext, built[k])
      BY DEF ReadingInv
    <3> DEFINE c == built[k]
    <3> HIDE DEF c
    <3>2. \A n \in DOMAIN c.terms : c.terms[n].term \in Ids /\ c.terms[n].polarity \in {1, -1}
      BY <3>1, ContextIs, IdsAre DEF CriterionOK, TermList, TermOK, ReadId, c
    <3>3. /\ \A n \in DOMAIN c.expanded : c.expanded[n].term \in Ids /\ c.expanded[n].from \in Ids
          /\ \A n \in DOMAIN c.antonyms : c.antonyms[n].term \in Ids
      BY <3>1, ContextIs, IdsAre DEF CriterionOK, SynonymList, AntonymList, c
    <3> QED
      BY <3>2, <3>3 DEF c
  <2>2. \A id \in DOMAIN ext.expansions : id \in Ids
    BY ContextIs, IdsAre DEF ReadingInv, Fits, ExtOK, ExpansionsFit
  <2> QED
    BY <2>1, <2>2 DEF OrderTypeOK, ReadingInv
<1> QED
  BY <1>1, ReadingInvariant, PTL

(* One id per stem, and every surface form resolves to the id of its stem, *)
(* whether the state, the question or the lexical graph brought it in      *)
(* (vocab.rs:127-175).                                                     *)
THEOREM StemsHaveOneId == OrderSpec => []OneIdPerStem
<1>1. ReadingInv => OneIdPerStem
  <2> SUFFICES ASSUME ReadingInv PROVE OneIdPerStem
    OBVIOUS
  <2>1. BaseOK(Base) /\ ExtOK(Base, ext)
    BY AskedContext, ContextIs DEF ReadingInv, ContextOK, Fits
  <2>2. ASSUME NEW a \in Ids, NEW b \in Ids, Stem(a) = Stem(b) PROVE a = b
    BY <2>1, <2>2, OneId, IdsAre
  <2>3. \A s \in DOMAIN ext.bySurface : Stem(ext.bySurface[s]) = StemOf[s]
    BY <2>1, IdsAre DEF ExtOK, SurfacesFit
  <2>4. ASSUME NEW s \in DOMAIN Base.bySurface PROVE Stem(Base.bySurface[s]) = StemOf[s]
    <3> DEFINE id == Base.bySurface[s]
    <3>1. id \in DOMAIN Base.terms /\ Base.terms[id].stem = StemOf[s]
      BY <2>1 DEF BaseOK
    <3> HIDE DEF id
    <3>2. id <= Size(Base)
      BY <2>1, <3>1, Sizes
    <3> QED
      BY <3>1, <3>2, InfoAt, IdsAre DEF id
  <2> QED
    BY <2>2, <2>3, <2>4 DEF OneIdPerStem
<1> QED
  BY <1>1, ReadingInvariant, PTL

-----------------------------------------------------------------------------
(* Two extensions of one question, reached in different orders: their ids  *)
(* differ, and are compared by their stems.                                *)
StemAt(c, x, id) == Info(c.base, x, id).stem

Alike(c, x, y, id, jd) ==
  /\ id \in IdsOf(c.base, x) /\ jd \in IdsOf(c.base, y)
  /\ StemAt(c, x, id) = StemAt(c, y, jd)

LEMMA FitsIs ==
  ASSUME NEW c, ContextOK(c), NEW x, Fits(c, x)
  PROVE  BaseOK(c.base) /\ ExtOK(c.base, x) /\ ExtOK(c.base, c.from) /\ IsList(x.terms)
         /\ Grown(c.from, x)
  BY DEF ContextOK, Fits, ExtOK, TermsFit

LEMMA AlikeSame ==
  ASSUME NEW c, ContextOK(c), NEW x, NEW y, Fits(c, x), Fits(c, y),
         NEW id, NEW jd, Alike(c, x, y, id, jd), NEW id2, NEW jd2, Alike(c, x, y, id2, jd2)
  PROVE  id = id2 <=> jd = jd2
  BY FitsIs, OneId DEF Alike, StemAt

LEMMA AlikeGrown ==
  ASSUME NEW c, ContextOK(c), NEW x, NEW y, Fits(c, x), Fits(c, y),
         NEW x2, NEW y2, Fits(c, x2), Fits(c, y2), Grown(x, x2), Grown(y, y2),
         NEW id, NEW jd, Alike(c, x, y, id, jd)
  PROVE  Alike(c, x2, y2, id, jd)
  BY FitsIs, GrownInfo DEF Alike, StemAt

(* The forms of a stem that is new to the options agree on everything but  *)
(* the surface.                                                            *)
FormsAgree(c) ==
  \A p, q \in c.pushed :
    p[1] = q[1] /\ ~ExtKnows(c.base, c.from, p[1]) =>
      [Term(p[2], p[1]) EXCEPT !.surface = q[2]] = Term(q[2], q[1])

InfoLike(i, j) == i.idf = j.idf /\ i.stop = j.stop /\ i.func = j.func

LEMMA FormsLike ==
  ASSUME NEW c, FormsAgree(c), NEW p \in c.pushed, NEW q \in c.pushed,
         p[1] = q[1], ~ExtKnows(c.base, c.from, p[1])
  PROVE  InfoLike(Term(p[2], p[1]), Term(q[2], q[1]))
<1> DEFINE t == Term(p[2], p[1])
           u == Term(q[2], q[1])
<1>1. [t EXCEPT !.surface = q[2]] = u
  BY DEF FormsAgree
<1>2. t = [stem |-> t.stem, surface |-> t.surface, idf |-> t.idf, stop |-> t.stop, func |-> t.func]
  BY DEF Term
<1> HIDE DEF t, u
<1> QED
  BY <1>1, <1>2 DEF InfoLike, t, u

(* A stem that the instructions knew is known under its old id.            *)
LEMMA OldInfo ==
  ASSUME NEW c, ContextOK(c), NEW x, Fits(c, x), NEW id \in IdsOf(c.base, x),
         ExtKnows(c.base, c.from, StemAt(c, x, id))
  PROVE  Info(c.base, x, id) =
           Info(c.base, c.from, ExtStemId(c.base, c.from, StemAt(c, x, id)))
<1> DEFINE st == StemAt(c, x, id)
           old == ExtStemId(c.base, c.from, st)
<1>1. old \in IdsOf(c.base, c.from) /\ Info(c.base, c.from, old).stem = st
  BY FitsIs, KnownId
<1> HIDE DEF old
<1>2. old \in IdsOf(c.base, x) /\ Info(c.base, x, old) = Info(c.base, c.from, old)
  BY <1>1, FitsIs, GrownInfo
<1>3. old = id
  BY <1>1, <1>2, FitsIs, OneId DEF StemAt
<1> QED
  BY <1>2, <1>3 DEF old

LEMMA NewInfo ==
  ASSUME NEW c, ContextOK(c), NEW x, Fits(c, x), NEW id \in IdsOf(c.base, x),
         ~ExtKnows(c.base, c.from, StemAt(c, x, id))
  PROVE  \E p \in c.pushed : p[1] = StemAt(c, x, id) /\ Info(c.base, x, id) = Term(p[2], p[1])
<1> DEFINE n == id - Size(c.base)
<1>1. ~HasStem(c.base.terms, StemAt(c, x, id)) /\ ~HasStem(c.from.terms, StemAt(c, x, id))
  BY DEF ExtKnows
<1>2. n \in DOMAIN x.terms /\ Info(c.base, x, id) = x.terms[n]
  BY <1>1, FitsIs, InfoIs DEF StemAt, HasStem
<1> HIDE DEF n
<1>3. n \notin DOMAIN c.from.terms
  BY <1>1, <1>2, FitsIs DEF StemAt, HasStem, Grown
<1>4. PICK p \in c.pushed : x.terms[n] = Term(p[2], p[1])
  BY <1>2, <1>3 DEF Fits
<1> QED
  BY <1>2, <1>4, TermHasStem DEF StemAt

LEMMA AlikeInfo ==
  ASSUME NEW c, ContextOK(c), FormsAgree(c), NEW x, NEW y, Fits(c, x), Fits(c, y),
         NEW id, NEW jd, Alike(c, x, y, id, jd)
  PROVE  InfoLike(Info(c.base, x, id), Info(c.base, y, jd))
<1> DEFINE st == StemAt(c, x, id)
<1>1. id \in IdsOf(c.base, x) /\ jd \in IdsOf(c.base, y) /\ StemAt(c, y, jd) = st
  BY DEF Alike
<1>2. CASE ExtKnows(c.base, c.from, st)
  BY <1>1, <1>2, OldInfo DEF InfoLike
<1>3. CASE ~ExtKnows(c.base, c.from, st)
  <2>1. PICK p \in c.pushed : p[1] = st /\ Info(c.base, x, id) = Term(p[2], p[1])
    BY <1>1, <1>3, NewInfo
  <2>2. PICK q \in c.pushed : q[1] = st /\ Info(c.base, y, jd) = Term(q[2], q[1])
    BY <1>1, <1>3, NewInfo
  <2> HIDE DEF st
  <2> QED
    BY <1>3, <2>1, <2>2, FormsLike
<1> QED
  BY <1>2, <1>3

-----------------------------------------------------------------------------
(* Lists of ids that are alike.                                            *)
IdsAlike(c, x, y, ids, jds) ==
  /\ IsList(ids) /\ IsList(jds) /\ DOMAIN ids = DOMAIN jds /\ Len(ids) = Len(jds)
  /\ \A n \in DOMAIN ids : Alike(c, x, y, ids[n], jds[n])

StemsOf(c, x, ids) == [n \in DOMAIN ids |-> StemAt(c, x, ids[n])]

LEMMA AlikeStems ==
  ASSUME NEW c, NEW x, NEW y, NEW ids, NEW jds, IdsAlike(c, x, y, ids, jds)
  PROVE  StemsOf(c, x, ids) = StemsOf(c, y, jds)
  BY DEF IdsAlike, Alike, StemsOf

LEMMA SameLength == ASSUME NEW n \in Nat, NEW m \in Nat, 1 .. n = 1 .. m PROVE n = m
<1>1. CASE n < m
  <2>1. m \in 1 .. m /\ m \notin 1 .. n
    BY <1>1
  <2> QED
    BY <2>1
<1>2. CASE m < n
  <2>1. n \in 1 .. n /\ n \notin 1 .. m
    BY <1>2
  <2> QED
    BY <2>1
<1> QED
  BY <1>1, <1>2

LEMMA StemsAlike ==
  ASSUME NEW c, NEW x, NEW y, NEW ids, NEW jds, IdList(c.base, x, ids), IdList(c.base, y, jds),
         StemsOf(c, x, ids) = StemsOf(c, y, jds)
  PROVE  IdsAlike(c, x, y, ids, jds)
<1> DEFINE s == StemsOf(c, x, ids)
           t == StemsOf(c, y, jds)
<1>1. /\ DOMAIN s = DOMAIN ids /\ \A n \in DOMAIN ids : s[n] = StemAt(c, x, ids[n])
      /\ DOMAIN t = DOMAIN jds /\ \A n \in DOMAIN jds : t[n] = StemAt(c, y, jds[n])
      /\ s = t
  BY DEF StemsOf
<1> HIDE DEF s, t
<1>2. /\ Len(ids) \in Nat /\ DOMAIN ids = 1 .. Len(ids)
      /\ Len(jds) \in Nat /\ DOMAIN jds = 1 .. Len(jds)
  BY ListShape DEF IdList
<1>3. DOMAIN ids = DOMAIN jds
  BY <1>1
<1>4. Len(ids) = Len(jds)
  BY <1>2, <1>3, SameLength
<1> QED
  BY <1>1, <1>3, <1>4 DEF IdsAlike, Alike, IdList

LEMMA IdsAlikeGrown ==
  ASSUME NEW c, ContextOK(c), NEW x, NEW y, Fits(c, x), Fits(c, y),
         NEW x2, NEW y2, Fits(c, x2), Fits(c, y2), Grown(x, x2), Grown(y, y2),
         NEW ids, NEW jds, IdsAlike(c, x, y, ids, jds)
  PROVE  IdsAlike(c, x2, y2, ids, jds)
  BY AlikeGrown DEF IdsAlike

LEMMA StemsGrown ==
  ASSUME NEW c, ContextOK(c), NEW x, NEW y, Fits(c, x), Fits(c, y), Grown(x, y),
         NEW ids, IdList(c.base, x, ids)
  PROVE  StemsOf(c, y, ids) = StemsOf(c, x, ids)
<1>1. \A n \in DOMAIN ids : StemAt(c, y, ids[n]) = StemAt(c, x, ids[n])
  BY FitsIs, GrownInfo DEF IdList, StemAt
<1> QED
  BY <1>1 DEF StemsOf

LEMMA IdsAlikeAppend ==
  ASSUME NEW c, NEW x, NEW y, NEW ids, NEW jds, IdsAlike(c, x, y, ids, jds),
         NEW id, NEW jd, Alike(c, x, y, id, jd)
  PROVE  IdsAlike(c, x, y, Append(ids, id), Append(jds, jd))
<1> DEFINE s == Append(ids, id)
           t == Append(jds, jd)
<1>1. /\ IsList(s) /\ Len(s) = Len(ids) + 1 /\ DOMAIN s = DOMAIN ids \cup {Len(ids) + 1}
      /\ \A n \in DOMAIN ids : s[n] = ids[n]
      /\ s[Len(ids) + 1] = id
  BY AppendList DEF IdsAlike
<1>2. /\ IsList(t) /\ Len(t) = Len(jds) + 1 /\ DOMAIN t = DOMAIN jds \cup {Len(jds) + 1}
      /\ \A n \in DOMAIN jds : t[n] = jds[n]
      /\ t[Len(jds) + 1] = jd
  BY AppendList DEF IdsAlike
<1> HIDE DEF s, t
<1>3. DOMAIN s = DOMAIN t /\ Len(s) = Len(t)
  BY <1>1, <1>2 DEF IdsAlike
<1>4. \A n \in DOMAIN s : Alike(c, x, y, s[n], t[n])
  BY <1>1, <1>2 DEF IdsAlike
<1>5. IdsAlike(c, x, y, s, t)
  BY <1>1, <1>2, <1>3, <1>4 DEF IdsAlike
<1> QED
  BY <1>5 DEF s, t

-----------------------------------------------------------------------------
(* Two runs of the loop over related stems.                                *)
RelatingBoth(c, ids, from, acc) ==
  /\ Relating(c, ids[1], from[1], acc[1])
  /\ Relating(c, ids[2], from[2], acc[2])
  /\ IdsAlike(c, acc[1].ext, acc[2].ext, acc[1].ids, acc[2].ids)
RelatePair == INSTANCE Folding WITH Step <- RelateStep, Good <- RelatingBoth

LEMMA RelateBoth ==
  ASSUME NEW c, ContextOK(c), NEW x, NEW y, Fits(c, x), Fits(c, y),
         NEW id, NEW jd, Alike(c, x, y, id, jd),
         NEW acc, NEW acc2, Relating(c, id, x, acc), Relating(c, jd, y, acc2),
         IdsAlike(c, acc.ext, acc2.ext, acc.ids, acc2.ids),
         NEW st, Related(c, st),
         NEW r, r = RelateStep(c, id, x, acc, st), NEW r2, r2 = RelateStep(c, jd, y, acc2, st)
  PROVE  /\ Relating(c, id, x, r) /\ Relating(c, jd, y, r2)
         /\ IdsAlike(c, r.ext, r2.ext, r.ids, r2.ids)
<1> DEFINE i == ExtInternStem(c.base, acc.ext, st)
           j == ExtInternStem(c.base, acc2.ext, st)
           new == ~(i.id = id \/ Contains(acc.ids, i.id))
           new2 == ~(j.id = jd \/ Contains(acc2.ids, j.id))
<1>1. Relating(c, id, x, r) /\ Relating(c, jd, y, r2)
  BY RelateKeeps
<1>2. /\ Interned(c.base, acc.ext, Term(st, st), i)
      /\ Interned(c.base, acc2.ext, Term(st, st), j)
  BY InternStemFits DEF Relating, Fits, ContextOK, Related
<1>3. /\ r.ext = i.ext /\ r.ids = IF new THEN Append(acc.ids, i.id) ELSE acc.ids
      /\ r2.ext = j.ext /\ r2.ids = IF new2 THEN Append(acc2.ids, j.id) ELSE acc2.ids
  BY DEF RelateStep, Relate
<1>4. Alike(c, r.ext, r2.ext, i.id, j.id)
  BY <1>2, <1>3, TermHasStem DEF Interned, Alike, StemAt
<1>5. /\ Fits(c, r.ext) /\ Fits(c, r2.ext) /\ Grown(x, r.ext) /\ Grown(y, r2.ext)
      /\ Fits(c, acc.ext) /\ Fits(c, acc2.ext)
  BY <1>1 DEF Relating
<1>6. Grown(acc.ext, r.ext) /\ Grown(acc2.ext, r2.ext)
  BY <1>2, <1>3 DEF Interned
<1>7. Alike(c, r.ext, r2.ext, id, jd)
  BY <1>5, AlikeGrown
<1>8. IdsAlike(c, r.ext, r2.ext, acc.ids, acc2.ids)
  BY <1>5, <1>6, IdsAlikeGrown
<1>9. i.id = id <=> j.id = jd
  BY <1>4, <1>5, <1>7, AlikeSame
<1>10. Contains(acc.ids, i.id) <=> Contains(acc2.ids, j.id)
  <2>1. \A n \in DOMAIN acc.ids : acc.ids[n] = i.id <=> acc2.ids[n] = j.id
    BY <1>4, <1>5, <1>8, AlikeSame DEF IdsAlike
  <2>2. DOMAIN acc.ids = 1 .. Len(acc.ids) /\ Len(acc.ids) = Len(acc2.ids)
    BY <1>8, ListShape DEF IdsAlike
  <2> QED
    BY <2>1, <2>2 DEF Contains
<1>11. new <=> new2
  BY <1>9, <1>10
<1> HIDE DEF i, j, new, new2
<1> QED
  BY <1>1, <1>3, <1>4, <1>8, <1>11, IdsAlikeAppend

LEMMA RelateAllAlike ==
  ASSUME NEW c, ContextOK(c), NEW x, NEW y, Fits(c, x), Fits(c, y),
         NEW id, NEW jd, Alike(c, x, y, id, jd), NEW stems, RelatedList(c, stems),
         NEW r, r = RelateAll(c.base, x, id, stems), NEW r2, r2 = RelateAll(c.base, y, jd, stems)
  PROVE  IdsAlike(c, r.ext, r2.ext, r.ids, r2.ids)
<1> DEFINE base == [ext |-> x, ids |-> <<>>]
           base2 == [ext |-> y, ids |-> <<>>]
           n == Len(stems)
<1>1. r = RelatePair!Fold(c, id, x, base, stems) /\ r2 = RelatePair!Fold(c, jd, y, base2, stems)
  BY DEF RelateAll, RelatePair!Fold, RelateStep, FoldLeft, MapThenFoldSet, Max, RelatePair!Greatest
<1>2. /\ Relating(c, id, x, base) /\ Relating(c, jd, y, base2)
      /\ IdsAlike(c, base.ext, base2.ext, base.ids, base2.ids)
  BY GrownSelf, NoIds, EmptyList DEF Relating, Fits, IdsAlike
<1> HIDE DEF base, base2
<1>3. RelatingBoth(c, <<id, jd>>, <<x, y>>, <<base, base2>>)
  BY <1>2 DEF RelatingBoth
<1>4. n \in Nat /\ DOMAIN stems = 1 .. n /\ \A m \in 1 .. n : Related(c, stems[m])
  BY ListShape DEF RelatedList
<1> HIDE DEF n
<1>5. ASSUME NEW m \in 1 .. n, NEW a, NEW a2, RelatingBoth(c, <<id, jd>>, <<x, y>>, <<a, a2>>)
      PROVE  RelatingBoth(c, <<id, jd>>, <<x, y>>,
               <<RelateStep(c, id, x, a, stems[m]), RelateStep(c, jd, y, a2, stems[m])>>)
  BY <1>4, <1>5, RelateBoth DEF RelatingBoth
<1>6. RelatingBoth(c, <<id, jd>>, <<x, y>>, <<r, r2>>)
  BY <1>1, <1>3, <1>4, <1>5, RelatePair!FoldsAgree
<1> QED
  BY <1>6 DEF RelatingBoth

-----------------------------------------------------------------------------
(* The stems an expansion brings are a function of the stem it is of.      *)
SynonymsIn(c, x, id) ==
  StemsOf(c, Synonyms(c.base, x, id).ext, Synonyms(c.base, x, id).ids)
AntonymsIn(c, x, id) ==
  StemsOf(c, Antonyms(c.base, x, id).ext, Antonyms(c.base, x, id).ids)

StemSynonyms(c, st) ==
  CHOOSE s : \E x, id : /\ Fits(c, x) /\ ReadId(c, x, id) /\ StemAt(c, x, id) = st
                        /\ s = SynonymsIn(c, x, id)
StemAntonyms(c, st) ==
  CHOOSE s : \E x, id : /\ Fits(c, x) /\ ReadId(c, x, id) /\ StemAt(c, x, id) = st
                        /\ s = AntonymsIn(c, x, id)

LEMMA RelatedAlike ==
  ASSUME NEW c, ContextOK(c), NEW x, NEW y, Fits(c, x), Fits(c, y),
         NEW id, NEW jd, ReadId(c, x, id), ReadId(c, y, jd), StemAt(c, x, id) = StemAt(c, y, jd)
  PROVE  SynonymsIn(c, x, id) = SynonymsIn(c, y, jd) /\ AntonymsIn(c, x, id) = AntonymsIn(c, y, jd)
<1> DEFINE st == StemAt(c, x, id)
<1>1. st \in Stems /\ st \in c.read
  BY FitsIs, InfoStem DEF ReadId, StemAt
<1>2. RelatedList(c, SynonymsOf(st)) /\ RelatedList(c, AntonymsOf(st))
  BY <1>1, RelatedLists
<1>3. Alike(c, x, y, id, jd)
  BY DEF Alike, ReadId
<1>4. /\ Synonyms(c.base, x, id) = RelateAll(c.base, x, id, SynonymsOf(st))
      /\ Synonyms(c.base, y, jd) = RelateAll(c.base, y, jd, SynonymsOf(st))
      /\ Antonyms(c.base, x, id) = RelateAll(c.base, x, id, AntonymsOf(st))
      /\ Antonyms(c.base, y, jd) = RelateAll(c.base, y, jd, AntonymsOf(st))
  BY DEF Synonyms, Antonyms, SynonymsOf, AntonymsOf, StemAt
<1> HIDE DEF st
<1> DEFINE s == Synonyms(c.base, x, id)
           s2 == Synonyms(c.base, y, jd)
           a == Antonyms(c.base, x, id)
           a2 == Antonyms(c.base, y, jd)
<1>5. IdsAlike(c, s.ext, s2.ext, s.ids, s2.ids)
  BY <1>2, <1>3, <1>4, RelateAllAlike
<1>6. IdsAlike(c, a.ext, a2.ext, a.ids, a2.ids)
  BY <1>2, <1>3, <1>4, RelateAllAlike
<1> QED
  BY <1>5, <1>6, AlikeStems DEF SynonymsIn, AntonymsIn

LEMMA RelatedByStem ==
  ASSUME NEW c, ContextOK(c), NEW x, Fits(c, x), NEW id, ReadId(c, x, id)
  PROVE  /\ SynonymsIn(c, x, id) = StemSynonyms(c, StemAt(c, x, id))
         /\ AntonymsIn(c, x, id) = StemAntonyms(c, StemAt(c, x, id))
<1> DEFINE st == StemAt(c, x, id)
           S(s) == \E y, jd : /\ Fits(c, y) /\ ReadId(c, y, jd) /\ StemAt(c, y, jd) = st
                              /\ s = SynonymsIn(c, y, jd)
           A(s) == \E y, jd : /\ Fits(c, y) /\ ReadId(c, y, jd) /\ StemAt(c, y, jd) = st
                              /\ s = AntonymsIn(c, y, jd)
<1>1. S(SynonymsIn(c, x, id)) /\ A(AntonymsIn(c, x, id))
  OBVIOUS
<1>2. StemSynonyms(c, st) = (CHOOSE s : S(s)) /\ StemAntonyms(c, st) = (CHOOSE s : A(s))
  BY DEF StemSynonyms, StemAntonyms
<1>3. S(StemSynonyms(c, st)) /\ A(StemAntonyms(c, st))
  <2> HIDE DEF S, A
  <2> QED
    BY <1>1, <1>2
<1>4. PICK y, jd : /\ Fits(c, y) /\ ReadId(c, y, jd) /\ StemAt(c, y, jd) = st
                   /\ StemSynonyms(c, st) = SynonymsIn(c, y, jd)
  BY <1>3
<1>5. PICK z, kd : /\ Fits(c, z) /\ ReadId(c, z, kd) /\ StemAt(c, z, kd) = st
                   /\ StemAntonyms(c, st) = AntonymsIn(c, z, kd)
  BY <1>3
<1>6. SynonymsIn(c, x, id) = SynonymsIn(c, y, jd)
  BY <1>4, RelatedAlike
<1>7. AntonymsIn(c, x, id) = AntonymsIn(c, z, kd)
  BY <1>5, RelatedAlike
<1> QED
  BY <1>4, <1>5, <1>6, <1>7

(* What the cache of expansions holds is what would be computed again.     *)
ExpansionIs(c, x, id, e) ==
  /\ StemsOf(c, x, e.synonyms) = StemSynonyms(c, StemAt(c, x, id))
  /\ StemsOf(c, x, e.antonyms) = StemAntonyms(c, StemAt(c, x, id))

CacheAgrees(c, x) == \A id \in DOMAIN x.expansions : ExpansionIs(c, x, id, x.expansions[id])

LEMMA ExpansionGrown ==
  ASSUME NEW c, ContextOK(c), NEW x, NEW y, Fits(c, x), Fits(c, y), Grown(x, y),
         NEW id \in IdsOf(c.base, x), NEW e, IdList(c.base, x, e.synonyms),
         IdList(c.base, x, e.antonyms), ExpansionIs(c, x, id, e)
  PROVE  ExpansionIs(c, y, id, e)
<1>1. StemAt(c, y, id) = StemAt(c, x, id)
  BY FitsIs, GrownInfo DEF StemAt
<1>2. /\ StemsOf(c, y, e.synonyms) = StemsOf(c, x, e.synonyms)
      /\ StemsOf(c, y, e.antonyms) = StemsOf(c, x, e.antonyms)
  BY StemsGrown
<1> QED
  BY <1>1, <1>2 DEF ExpansionIs

LEMMA CacheKept ==
  ASSUME NEW c, ContextOK(c), NEW x, NEW y, Fits(c, x), Fits(c, y), Grown(x, y),
         y.expansions = x.expansions, CacheAgrees(c, x)
  PROVE  CacheAgrees(c, y)
<1> SUFFICES ASSUME NEW id \in DOMAIN y.expansions PROVE ExpansionIs(c, y, id, y.expansions[id])
  BY DEF CacheAgrees
<1>1. ExpansionIs(c, x, id, x.expansions[id])
  BY DEF CacheAgrees
<1>2. /\ id \in IdsOf(c.base, x)
      /\ IdList(c.base, x, x.expansions[id].synonyms)
      /\ IdList(c.base, x, x.expansions[id].antonyms)
  BY DEF Fits, ExtOK, ExpansionsFit
<1> QED
  BY <1>1, <1>2, ExpansionGrown

LEMMA ExpansionAgrees ==
  ASSUME NEW c, ContextOK(c), NEW x, Fits(c, x), CacheAgrees(c, x), NEW id, ReadId(c, x, id),
         NEW e, e = Expansion(c.base, x, id)
  PROVE  CacheAgrees(c, e.ext) /\ ExpansionIs(c, e.ext, id, e.expansion)
<1>1. CASE id \in DOMAIN x.expansions
  <2>1. e.ext = x /\ e.expansion = x.expansions[id]
    BY <1>1 DEF Expansion
  <2> QED
    BY <1>1, <2>1 DEF CacheAgrees
<1>2. CASE id \notin DOMAIN x.expansions
  <2> DEFINE s == Synonyms(c.base, x, id)
             a == Antonyms(c.base, s.ext, id)
             entry == [synonyms |-> s.ids, antonyms |-> a.ids]
  <2>1. /\ e.ext = [a.ext EXCEPT !.expansions = Filled(@, id, entry)]
        /\ e.expansion = entry
    BY <1>2 DEF Expansion, Expand, Remember
  <2>2. entry.synonyms = s.ids /\ entry.antonyms = a.ids
    OBVIOUS
  <2>3. /\ Relating(c, id, x, s) /\ Relating(c, id, s.ext, a)
        /\ Grown(x, a.ext) /\ ReadId(c, a.ext, id) /\ a.ext.expansions = x.expansions
        /\ IdList(c.base, a.ext, s.ids)
    BY ExpandSteps
  <2>4. /\ StemsOf(c, s.ext, s.ids) = SynonymsIn(c, x, id)
        /\ StemsOf(c, a.ext, a.ids) = AntonymsIn(c, s.ext, id)
    BY DEF SynonymsIn, AntonymsIn
  <2> HIDE DEF s, a, entry
  <2>5. /\ Fits(c, s.ext) /\ Grown(x, s.ext) /\ IdList(c.base, s.ext, s.ids)
        /\ Fits(c, a.ext) /\ Grown(s.ext, a.ext) /\ IdList(c.base, a.ext, a.ids)
    BY <2>3 DEF Relating
  <2>6. ReadId(c, s.ext, id) /\ StemAt(c, s.ext, id) = StemAt(c, x, id)
    BY <2>5, ReadIdGrown DEF StemAt
  <2>7. StemAt(c, a.ext, id) = StemAt(c, x, id)
    BY <2>3, <2>5, ReadIdGrown DEF StemAt
  <2>8. /\ StemsOf(c, a.ext, s.ids) = StemSynonyms(c, StemAt(c, x, id))
        /\ StemsOf(c, a.ext, a.ids) = StemAntonyms(c, StemAt(c, x, id))
    BY <2>4, <2>5, <2>6, StemsGrown, RelatedByStem
  <2>9. ExpansionIs(c, a.ext, id, entry)
    BY <2>2, <2>7, <2>8 DEF ExpansionIs
  <2>10. CacheAgrees(c, a.ext)
    BY <2>3, <2>5, CacheKept
  <2>11. /\ e.ext.expansions = Filled(x.expansions, id, entry)
         /\ \A i : Info(c.base, e.ext, i) = Info(c.base, a.ext, i)
    <3>1. BaseOK(c.base) /\ ExtOK(c.base, a.ext) /\ id \in IdsOf(c.base, a.ext)
      BY <2>3, <2>5, FitsIs DEF ReadId
    <3> QED
      BY <2>1, <2>2, <2>3, <2>5, <3>1, RememberFits
  <2>12. \A i, d : ExpansionIs(c, a.ext, i, d) => ExpansionIs(c, e.ext, i, d)
    BY <2>11 DEF ExpansionIs, StemsOf, StemAt
  <2>13. CacheAgrees(c, e.ext)
    <3> SUFFICES ASSUME NEW i \in DOMAIN e.ext.expansions
                 PROVE  ExpansionIs(c, e.ext, i, e.ext.expansions[i])
      BY DEF CacheAgrees
    <3>1. CASE i = id
      BY <2>9, <2>11, <2>12, <3>1 DEF Filled
    <3>2. CASE i # id
      <4>1. i \in DOMAIN a.ext.expansions /\ e.ext.expansions[i] = a.ext.expansions[i]
        BY <2>3, <2>11, <3>2 DEF Filled
      <4> QED
        BY <2>10, <2>12, <4>1 DEF CacheAgrees
    <3> QED
      BY <3>1, <3>2
  <2> QED
    BY <2>1, <2>9, <2>12, <2>13
<1> QED
  BY <1>1, <1>2

-----------------------------------------------------------------------------
(* Lists of terms that are alike.                                          *)
TermLike(c, x, y, t, u) ==
  /\ Alike(c, x, y, t.term, u.term)
  /\ t.weight = u.weight /\ t.idf = u.idf /\ t.polarity = u.polarity
  /\ t.isName = u.isName /\ t.negated = u.negated /\ t.modality = u.modality

TermsAlike(c, x, y, ts, us) ==
  /\ IsList(ts) /\ IsList(us) /\ DOMAIN ts = DOMAIN us /\ Len(ts) = Len(us)
  /\ \A n \in DOMAIN ts : TermLike(c, x, y, ts[n], us[n])

LEMMA TermsAlikeGrown ==
  ASSUME NEW c, ContextOK(c), NEW x, NEW y, Fits(c, x), Fits(c, y),
         NEW x2, NEW y2, Fits(c, x2), Fits(c, y2), Grown(x, x2), Grown(y, y2),
         NEW ts, NEW us, TermsAlike(c, x, y, ts, us)
  PROVE  TermsAlike(c, x2, y2, ts, us)
  BY AlikeGrown DEF TermsAlike, TermLike

LEMMA QueryTermLike ==
  ASSUME NEW c, NEW x, NEW y, NEW id, NEW jd, Alike(c, x, y, id, jd),
         NEW i, NEW j, InfoLike(i, j), NEW tok, NEW polarity, NEW isName, NEW weight
  PROVE  TermLike(c, x, y, QueryTerm(id, i, tok, polarity, isName, weight),
                           QueryTerm(jd, j, tok, polarity, isName, weight))
<1> DEFINE t == QueryTerm(id, i, tok, polarity, isName, weight)
           u == QueryTerm(jd, j, tok, polarity, isName, weight)
<1>1. /\ t.term = id /\ u.term = jd /\ t.weight = u.weight /\ t.idf = i.idf /\ u.idf = j.idf
      /\ t.polarity = u.polarity /\ t.isName = u.isName /\ t.negated = u.negated
      /\ t.modality = u.modality
  BY DEF QueryTerm
<1> HIDE DEF t, u
<1>2. TermLike(c, x, y, t, u)
  BY <1>1 DEF TermLike, InfoLike
<1> QED
  BY <1>2 DEF t, u

LEMMA GainedLike ==
  ASSUME NEW c, NEW x, NEW y, NEW old, NEW old2, TermShape(old), TermShape(old2),
         TermLike(c, x, y, old, old2), NEW t, NEW u, TermLike(c, x, y, t, u)
  PROVE  TermLike(c, x, y, Gained(old, t), Gained(old2, u))
<1>1. Gain(old, t) = Gain(old2, u)
  BY DEF Gain, TermLike
<1> DEFINE new == Gained(old, t)
           new2 == Gained(old2, u)
<1>2. /\ new.term = old.term /\ new.polarity = old.polarity /\ new.idf = old.idf
      /\ new.negated = old.negated
      /\ new.weight = Gain(old, t).weight
      /\ new.modality = Gain(old, t).modality
      /\ new.isName = Gain(old, t).isName
  BY GainedIs
<1>3. /\ new2.term = old2.term /\ new2.polarity = old2.polarity /\ new2.idf = old2.idf
      /\ new2.negated = old2.negated
      /\ new2.weight = Gain(old2, u).weight
      /\ new2.modality = Gain(old2, u).modality
      /\ new2.isName = Gain(old2, u).isName
  BY GainedIs
<1> HIDE DEF new, new2
<1>4. TermLike(c, x, y, new, new2)
  BY <1>1, <1>2, <1>3 DEF TermLike
<1> QED
  BY <1>4 DEF new, new2

LEMMA PushTermAlike ==
  ASSUME NEW c, ContextOK(c), NEW x, NEW y, Fits(c, x), Fits(c, y),
         NEW ts, NEW us, TermList(c, x, ts), TermList(c, y, us), TermsAlike(c, x, y, ts, us),
         NEW t, NEW u, TermLike(c, x, y, t, u)
  PROVE  TermsAlike(c, x, y, PushTerm(ts, t), PushTerm(us, u))
<1> DEFINE r == PushTerm(ts, t)
           r2 == PushTerm(us, u)
           same == SameTerm(ts, t)
           k == First(same)
<1>1. SameTerm(us, u) = same
  <2>1. \A n \in DOMAIN ts : ts[n].term = t.term <=> us[n].term = u.term
    BY AlikeSame DEF TermsAlike, TermLike
  <2> QED
    BY <2>1 DEF SameTerm, TermsAlike, TermLike
<1>2. IsList(ts) /\ IsList(us) /\ DOMAIN ts = DOMAIN us /\ Len(ts) = Len(us)
  BY DEF TermsAlike
<1> SUFFICES TermsAlike(c, x, y, r, r2)
  OBVIOUS
<1>3. CASE same = {}
  <2>1. r = Append(ts, t) /\ r2 = Append(us, u)
    BY <1>1, <1>3 DEF PushTerm
  <2> HIDE DEF r, r2
  <2>2. /\ IsList(r) /\ Len(r) = Len(ts) + 1 /\ DOMAIN r = DOMAIN ts \cup {Len(ts) + 1}
        /\ \A n \in DOMAIN ts : r[n] = ts[n]
        /\ r[Len(ts) + 1] = t
    BY <1>2, <2>1, AppendList
  <2>3. /\ IsList(r2) /\ Len(r2) = Len(us) + 1 /\ DOMAIN r2 = DOMAIN us \cup {Len(us) + 1}
        /\ \A n \in DOMAIN us : r2[n] = us[n]
        /\ r2[Len(us) + 1] = u
    BY <1>2, <2>1, AppendList
  <2>4. DOMAIN r = DOMAIN r2 /\ Len(r) = Len(r2)
    BY <1>2, <2>2, <2>3
  <2>5. \A n \in DOMAIN r : TermLike(c, x, y, r[n], r2[n])
    BY <1>2, <2>2, <2>3 DEF TermsAlike
  <2> QED
    BY <2>2, <2>3, <2>4, <2>5 DEF TermsAlike
<1>4. CASE same # {}
  <2>1. /\ r = [ts EXCEPT ![k] = Gained(ts[k], t)]
        /\ r2 = [us EXCEPT ![k] = Gained(us[k], u)]
    BY <1>1, <1>4 DEF PushTerm
  <2> HIDE DEF r, r2, k
  <2>2. /\ IsList(r) /\ DOMAIN r = DOMAIN ts /\ Len(r) = Len(ts)
        /\ IsList(r2) /\ DOMAIN r2 = DOMAIN us /\ Len(r2) = Len(us)
    BY <1>2, <2>1, ExceptList
  <2>3. ASSUME NEW n \in DOMAIN r PROVE TermLike(c, x, y, r[n], r2[n])
    <3>1. TermLike(c, x, y, ts[n], us[n]) /\ TermShape(ts[n]) /\ TermShape(us[n])
      BY <1>2, <2>2 DEF TermsAlike, TermList, TermOK
    <3>2. CASE n = k
      <4>1. r[n] = Gained(ts[n], t) /\ r2[n] = Gained(us[n], u)
        BY <1>2, <2>1, <2>2, <3>2
      <4> QED
        BY <3>1, <4>1, GainedLike
    <3>3. CASE n # k
      <4>1. r[n] = ts[n] /\ r2[n] = us[n]
        BY <1>2, <2>1, <2>2, <3>3
      <4> QED
        BY <3>1, <4>1
    <3> QED
      BY <3>2, <3>3
  <2> QED
    BY <1>2, <2>2, <2>3 DEF TermsAlike
<1> QED
  BY <1>3, <1>4

-----------------------------------------------------------------------------
(* Two readings of one option.                                             *)
ReadBoth(c, a, a2) ==
  /\ ReadOK(c, a) /\ ReadOK(c, a2)
  /\ CacheAgrees(c, a.ext) /\ CacheAgrees(c, a2.ext)
  /\ TermsAlike(c, a.ext, a2.ext, a.terms, a2.terms)
  /\ IdsAlike(c, a.ext, a2.ext, a.names, a2.names)

LEMMA WordIsReadAlike ==
  ASSUME NEW c, ContextOK(c), FormsAgree(c), NEW a, NEW a2, ReadBoth(c, a, a2),
         NEW w, WordOK(c, w),
         NEW i, i = ExtIntern(c.base, a.ext, w), NEW j, j = ExtIntern(c.base, a2.ext, w)
  PROVE  /\ Fits(c, i.ext) /\ Fits(c, j.ext) /\ CacheAgrees(c, i.ext) /\ CacheAgrees(c, j.ext)
         /\ ReadId(c, i.ext, i.id) /\ ReadId(c, j.ext, j.id)
         /\ TermList(c, i.ext, a.terms) /\ TermList(c, j.ext, a2.terms)
         /\ Alike(c, i.ext, j.ext, i.id, j.id)
         /\ InfoLike(Info(c.base, i.ext, i.id), Info(c.base, j.ext, j.id))
         /\ TermsAlike(c, i.ext, j.ext, a.terms, a2.terms)
         /\ IdsAlike(c, i.ext, j.ext, a.names, a2.names)
<1>1. ReadOK(c, a) /\ ReadOK(c, a2) /\ Fits(c, a.ext) /\ Fits(c, a2.ext)
  BY DEF ReadBoth, ReadOK
<1>2. /\ Fits(c, i.ext) /\ Grown(a.ext, i.ext) /\ i.ext.expansions = a.ext.expansions
      /\ ReadId(c, i.ext, i.id) /\ Info(c.base, i.ext, i.id).stem = StemOf[w]
      /\ TermList(c, i.ext, a.terms)
  BY <1>1, WordIsRead
<1>3. /\ Fits(c, j.ext) /\ Grown(a2.ext, j.ext) /\ j.ext.expansions = a2.ext.expansions
      /\ ReadId(c, j.ext, j.id) /\ Info(c.base, j.ext, j.id).stem = StemOf[w]
      /\ TermList(c, j.ext, a2.terms)
  BY <1>1, WordIsRead
<1>4. CacheAgrees(c, i.ext) /\ CacheAgrees(c, j.ext)
  BY <1>1, <1>2, <1>3, CacheKept DEF ReadBoth
<1>5. Alike(c, i.ext, j.ext, i.id, j.id)
  BY <1>2, <1>3 DEF Alike, StemAt, ReadId
<1>6. InfoLike(Info(c.base, i.ext, i.id), Info(c.base, j.ext, j.id))
  BY <1>2, <1>3, <1>5, AlikeInfo
<1>7. /\ TermsAlike(c, i.ext, j.ext, a.terms, a2.terms)
      /\ IdsAlike(c, i.ext, j.ext, a.names, a2.names)
  BY <1>1, <1>2, <1>3, TermsAlikeGrown, IdsAlikeGrown DEF ReadBoth
<1> QED
  BY <1>2, <1>3, <1>4, <1>5, <1>6, <1>7

LEMMA NameAlike ==
  ASSUME NEW c, ContextOK(c), FormsAgree(c), NEW a, NEW a2, ReadBoth(c, a, a2),
         NEW tok, WordOK(c, tok.word), NEW q, NEW r
  PROVE  ReadBoth(c, NameStep(c, q, r, a, tok), NameStep(c, q, r, a2, tok))
<1> DEFINE i == ExtIntern(c.base, a.ext, tok.word)
           j == ExtIntern(c.base, a2.ext, tok.word)
           info == Info(c.base, i.ext, i.id)
           info2 == Info(c.base, j.ext, j.id)
           new == NameStep(c, q, r, a, tok)
           new2 == NameStep(c, q, r, a2, tok)
           factor == IF info.stop THEN 275 ELSE 1100
           factor2 == IF info2.stop THEN 275 ELSE 1100
           weight == Max({info.idf, 15}) * factor
           weight2 == Max({info2.idf, 15}) * factor2
           one == 1
           named == TRUE
           t == QueryTerm(i.id, info, tok, one, named, weight)
           u == QueryTerm(j.id, info2, tok, one, named, weight2)
<1>1. /\ CacheAgrees(c, i.ext) /\ CacheAgrees(c, j.ext)
      /\ Fits(c, i.ext) /\ Fits(c, j.ext)
      /\ TermList(c, i.ext, a.terms) /\ TermList(c, j.ext, a2.terms)
      /\ Alike(c, i.ext, j.ext, i.id, j.id)
      /\ InfoLike(info, info2)
      /\ TermsAlike(c, i.ext, j.ext, a.terms, a2.terms)
      /\ IdsAlike(c, i.ext, j.ext, a.names, a2.names)
  BY WordIsReadAlike
<1>2. ReadOK(c, new) /\ ReadOK(c, new2)
  BY NameKeeps DEF ReadBoth
<1>3. weight = weight2 /\ (IsEvidence(info, tok) <=> IsEvidence(info2, tok))
  BY <1>1 DEF InfoLike, IsEvidence
<1> SUFFICES ReadBoth(c, new, new2)
  OBVIOUS
<1>4. CASE ~IsEvidence(info, tok)
  <2>1. /\ new = [ext |-> i.ext, terms |-> a.terms, names |-> a.names]
        /\ new2 = [ext |-> j.ext, terms |-> a2.terms, names |-> a2.names]
    BY <1>3, <1>4 DEF NameStep, NameToken, ReadBoth, ReadOK
  <2> HIDE DEF i, j, new, new2
  <2> QED
    BY <1>1, <1>2, <2>1 DEF ReadBoth
<1>5. CASE IsEvidence(info, tok)
  <2>1. /\ new = [ext |-> i.ext, terms |-> PushTerm(a.terms, t), names |-> Append(a.names, i.id)]
        /\ new2 = [ext |-> j.ext, terms |-> PushTerm(a2.terms, u), names |-> Append(a2.names, j.id)]
    BY <1>3, <1>5 DEF NameStep, NameToken
  <2> HIDE DEF i, j, new, new2, info, info2, weight, weight2, one, named
  <2>2. TermLike(c, i.ext, j.ext, t, u)
    BY <1>1, <1>3, QueryTermLike
  <2> HIDE DEF t, u
  <2>3. TermsAlike(c, i.ext, j.ext, PushTerm(a.terms, t), PushTerm(a2.terms, u))
    BY <1>1, <2>2, PushTermAlike
  <2>4. IdsAlike(c, i.ext, j.ext, Append(a.names, i.id), Append(a2.names, j.id))
    BY <1>1, IdsAlikeAppend
  <2> QED
    BY <1>1, <1>2, <2>1, <2>3, <2>4 DEF ReadBoth
<1> QED
  BY <1>4, <1>5

LEMMA TextAlike ==
  ASSUME NEW c, ContextOK(c), FormsAgree(c), NEW a, NEW a2, ReadBoth(c, a, a2),
         NEW tok, WordOK(c, tok.word), NEW hypothesis, NEW text, text.polarity \in {1, -1}
  PROVE  ReadBoth(c, TextStep(c, hypothesis, text, a, tok), TextStep(c, hypothesis, text, a2, tok))
<1> DEFINE i == ExtIntern(c.base, a.ext, tok.word)
           j == ExtIntern(c.base, a2.ext, tok.word)
           info == Info(c.base, i.ext, i.id)
           info2 == Info(c.base, j.ext, j.id)
           new == TextStep(c, hypothesis, text, a, tok)
           new2 == TextStep(c, hypothesis, text, a2, tok)
           factor == IF info.stop THEN (text.factor * 3) \div 10 ELSE text.factor
           factor2 == IF info2.stop THEN (text.factor * 3) \div 10 ELSE text.factor
           weight == Max({info.idf, 10}) * factor
           weight2 == Max({info2.idf, 10}) * factor2
           named == FALSE
           t == QueryTerm(i.id, info, tok, text.polarity, named, weight)
           u == QueryTerm(j.id, info2, tok, text.polarity, named, weight2)
<1>1. /\ CacheAgrees(c, i.ext) /\ CacheAgrees(c, j.ext)
      /\ Fits(c, i.ext) /\ Fits(c, j.ext)
      /\ TermList(c, i.ext, a.terms) /\ TermList(c, j.ext, a2.terms)
      /\ Alike(c, i.ext, j.ext, i.id, j.id)
      /\ InfoLike(info, info2)
      /\ TermsAlike(c, i.ext, j.ext, a.terms, a2.terms)
      /\ IdsAlike(c, i.ext, j.ext, a.names, a2.names)
  BY WordIsReadAlike
<1>2. ReadOK(c, new) /\ ReadOK(c, new2)
  BY TextKeeps DEF ReadBoth
<1>3. /\ weight = weight2 /\ (IsEvidence(info, tok) <=> IsEvidence(info2, tok))
      /\ info.stop = info2.stop
  BY <1>1 DEF InfoLike, IsEvidence
<1> SUFFICES ReadBoth(c, new, new2)
  OBVIOUS
<1>4. CASE ~IsEvidence(info, tok) \/ (info.stop /\ hypothesis)
  <2>1. /\ new = [ext |-> i.ext, terms |-> a.terms, names |-> a.names]
        /\ new2 = [ext |-> j.ext, terms |-> a2.terms, names |-> a2.names]
    BY <1>3, <1>4 DEF TextStep, TextToken, ReadBoth, ReadOK
  <2> HIDE DEF i, j, new, new2
  <2> QED
    BY <1>1, <1>2, <2>1 DEF ReadBoth
<1>5. CASE ~(~IsEvidence(info, tok) \/ (info.stop /\ hypothesis))
  <2>1. /\ new = [ext |-> i.ext, terms |-> PushTerm(a.terms, t), names |-> a.names]
        /\ new2 = [ext |-> j.ext, terms |-> PushTerm(a2.terms, u), names |-> a2.names]
    BY <1>3, <1>5 DEF TextStep, TextToken, ReadBoth, ReadOK
  <2> HIDE DEF i, j, new, new2, info, info2, weight, weight2, named
  <2>2. TermLike(c, i.ext, j.ext, t, u)
    BY <1>1, <1>3, QueryTermLike
  <2> HIDE DEF t, u
  <2>3. TermsAlike(c, i.ext, j.ext, PushTerm(a.terms, t), PushTerm(a2.terms, u))
    BY <1>1, <2>2, PushTermAlike
  <2> QED
    BY <1>1, <1>2, <2>1, <2>3 DEF ReadBoth
<1> QED
  BY <1>4, <1>5

ReadsBoth(c, q, r, acc) == ReadBoth(c, acc[1], acc[2])
NamePair == INSTANCE Folding WITH Step <- NameStep, Good <- ReadsBoth
TextPair == INSTANCE Folding WITH Step <- TextStep, Good <- ReadsBoth
TextsPair == INSTANCE Folding WITH Step <- TextsStep, Good <- ReadsBoth

LEMMA ReadNameAlike ==
  ASSUME NEW c, ContextOK(c), FormsAgree(c), NEW x, NEW y, Fits(c, x), Fits(c, y),
         CacheAgrees(c, x), CacheAgrees(c, y), NEW name, WordsOK(c, name)
  PROVE  ReadBoth(c, ReadName(c.base, x, name), ReadName(c.base, y, name))
<1> DEFINE base == [ext |-> x, terms |-> <<>>, names |-> <<>>]
           base2 == [ext |-> y, terms |-> <<>>, names |-> <<>>]
           r == ReadName(c.base, x, name)
           r2 == ReadName(c.base, y, name)
<1>1. r = NamePair!Fold(c, 0, 0, base, name) /\ r2 = NamePair!Fold(c, 0, 0, base2, name)
  BY DEF ReadName, NamePair!Fold, NameStep, FoldLeft, MapThenFoldSet, Max, NamePair!Greatest
<1>2. ReadBoth(c, base, base2)
  BY EmptyList, NoIds DEF ReadBoth, ReadOK, TermList, TermsAlike, IdsAlike
<1> HIDE DEF base, base2, r, r2
<1>3. ReadsBoth(c, 0, 0, <<base, base2>>)
  BY <1>2 DEF ReadsBoth
<1>4. Len(name) \in Nat /\ DOMAIN name = 1 .. Len(name)
  BY DEF WordsOK, Listed
<1>5. ASSUME NEW n \in 1 .. Len(name), NEW a, NEW a2, ReadsBoth(c, 0, 0, <<a, a2>>)
      PROVE  ReadsBoth(c, 0, 0, <<NameStep(c, 0, 0, a, name[n]), NameStep(c, 0, 0, a2, name[n])>>)
  BY <1>4, <1>5, NameAlike DEF ReadsBoth, WordsOK
<1>6. ReadsBoth(c, 0, 0, <<r, r2>>)
  BY <1>1, <1>3, <1>4, <1>5, NamePair!FoldsAgree
<1> QED
  BY <1>6 DEF ReadsBoth, r, r2

LEMMA ReadTextAlike ==
  ASSUME NEW c, ContextOK(c), FormsAgree(c), NEW a, NEW a2, ReadBoth(c, a, a2),
         NEW hypothesis, NEW text, TextOK(c, text)
  PROVE  ReadBoth(c, ReadText(c.base, hypothesis, a, text), ReadText(c.base, hypothesis, a2, text))
<1> DEFINE tokens == text.tokens
           r == ReadText(c.base, hypothesis, a, text)
           r2 == ReadText(c.base, hypothesis, a2, text)
<1>1. /\ r = TextPair!Fold(c, hypothesis, text, a, tokens)
      /\ r2 = TextPair!Fold(c, hypothesis, text, a2, tokens)
  BY DEF ReadText, TextPair!Fold, TextStep, FoldLeft, MapThenFoldSet, Max, TextPair!Greatest
<1>2. /\ Len(tokens) \in Nat /\ DOMAIN tokens = 1 .. Len(tokens)
      /\ \A n \in DOMAIN tokens : WordOK(c, tokens[n].word)
      /\ text.polarity \in {1, -1}
  BY DEF TextOK, WordsOK, Listed
<1> HIDE DEF tokens, r, r2
<1>3. ReadsBoth(c, 0, 0, <<a, a2>>)
  BY DEF ReadsBoth
<1>4. ASSUME NEW n \in 1 .. Len(tokens), NEW z, NEW z2, ReadsBoth(c, 0, 0, <<z, z2>>)
      PROVE  ReadsBoth(c, 0, 0, <<TextStep(c, hypothesis, text, z, tokens[n]),
                                  TextStep(c, hypothesis, text, z2, tokens[n])>>)
  BY <1>2, <1>4, TextAlike DEF ReadsBoth
<1>5. ReadsBoth(c, 0, 0, <<r, r2>>)
  BY <1>1, <1>2, <1>3, <1>4, TextPair!FoldsAgree
<1> QED
  BY <1>5 DEF ReadsBoth, r, r2

LEMMA ReadTextsAlike ==
  ASSUME NEW c, ContextOK(c), FormsAgree(c), NEW a, NEW a2, ReadBoth(c, a, a2),
         NEW hypothesis, NEW texts, Listed(texts), \A n \in DOMAIN texts : TextOK(c, texts[n])
  PROVE  ReadBoth(c, ReadTexts(c.base, a, hypothesis, texts),
                     ReadTexts(c.base, a2, hypothesis, texts))
<1> DEFINE r == ReadTexts(c.base, a, hypothesis, texts)
           r2 == ReadTexts(c.base, a2, hypothesis, texts)
<1>1. /\ r = TextsPair!Fold(c, hypothesis, 0, a, texts)
      /\ r2 = TextsPair!Fold(c, hypothesis, 0, a2, texts)
  BY DEF ReadTexts, TextsPair!Fold, TextsStep, FoldLeft, MapThenFoldSet, Max, TextsPair!Greatest
<1> HIDE DEF r, r2
<1>2. Len(texts) \in Nat /\ DOMAIN texts = 1 .. Len(texts)
  BY DEF Listed
<1>3. ReadsBoth(c, 0, 0, <<a, a2>>)
  BY DEF ReadsBoth
<1>4. ASSUME NEW n \in 1 .. Len(texts), NEW z, NEW z2, ReadsBoth(c, 0, 0, <<z, z2>>)
      PROVE  ReadsBoth(c, 0, 0, <<TextsStep(c, hypothesis, 0, z, texts[n]),
                                  TextsStep(c, hypothesis, 0, z2, texts[n])>>)
  BY <1>2, <1>4, ReadTextAlike DEF ReadsBoth, TextsStep
<1>5. ReadsBoth(c, 0, 0, <<r, r2>>)
  BY <1>1, <1>2, <1>3, <1>4, TextsPair!FoldsAgree
<1> QED
  BY <1>5 DEF ReadsBoth, r, r2

LEMMA OptionReadsAlike ==
  ASSUME NEW c, ContextOK(c), FormsAgree(c), NEW x, NEW y, Fits(c, x), Fits(c, y),
         CacheAgrees(c, x), CacheAgrees(c, y), NEW hypothesis, NEW o, OptionOK(c, o)
  PROVE  ReadBoth(c, ReadTexts(c.base, ReadName(c.base, x, o.name), hypothesis, o.texts),
                     ReadTexts(c.base, ReadName(c.base, y, o.name), hypothesis, o.texts))
<1> DEFINE named == ReadName(c.base, x, o.name)
           named2 == ReadName(c.base, y, o.name)
           texts == o.texts
<1>1. ReadBoth(c, named, named2)
  BY ReadNameAlike DEF OptionOK
<1>2. Listed(texts) /\ \A n \in DOMAIN texts : TextOK(c, texts[n])
  BY DEF OptionOK
<1> HIDE DEF named, named2, texts
<1>3. ReadBoth(c, ReadTexts(c.base, named, hypothesis, texts),
                  ReadTexts(c.base, named2, hypothesis, texts))
  BY <1>1, <1>2, ReadTextsAlike
<1> QED
  BY <1>3 DEF named, named2, texts

-----------------------------------------------------------------------------
(* Lists of related terms that are alike.                                  *)
SynonymShape(e) == e = [term |-> e.term, weight |-> e.weight, from |-> e.from]
SynonymLike(c, x, y, e, f) ==
  /\ SynonymShape(e) /\ SynonymShape(f)
  /\ Alike(c, x, y, e.term, f.term) /\ Alike(c, x, y, e.from, f.from) /\ e.weight = f.weight

AntonymShape(e) == e = [term |-> e.term, weight |-> e.weight]
AntonymLike(c, x, y, e, f) ==
  /\ AntonymShape(e) /\ AntonymShape(f)
  /\ Alike(c, x, y, e.term, f.term) /\ e.weight = f.weight

SynonymsAlike(c, x, y, l, m) ==
  /\ IsList(l) /\ IsList(m) /\ DOMAIN l = DOMAIN m /\ Len(l) = Len(m)
  /\ \A n \in DOMAIN l : SynonymLike(c, x, y, l[n], m[n])
AntonymsAlike(c, x, y, l, m) ==
  /\ IsList(l) /\ IsList(m) /\ DOMAIN l = DOMAIN m /\ Len(l) = Len(m)
  /\ \A n \in DOMAIN l : AntonymLike(c, x, y, l[n], m[n])

LEMMA RelatedGrown ==
  ASSUME NEW c, ContextOK(c), NEW x, NEW y, Fits(c, x), Fits(c, y),
         NEW x2, NEW y2, Fits(c, x2), Fits(c, y2), Grown(x, x2), Grown(y, y2)
  PROVE  /\ \A l, m : SynonymsAlike(c, x, y, l, m) => SynonymsAlike(c, x2, y2, l, m)
         /\ \A l, m : AntonymsAlike(c, x, y, l, m) => AntonymsAlike(c, x2, y2, l, m)
<1>1. \A id, jd : Alike(c, x, y, id, jd) => Alike(c, x2, y2, id, jd)
  BY AlikeGrown
<1> QED
  BY <1>1 DEF SynonymsAlike, AntonymsAlike, SynonymLike, AntonymLike

(* Whether a term is among the option's own.                               *)
IsOwn(own, id) == \E k \in DOMAIN own : own[k].term = id

LEMMA OwnAlike ==
  ASSUME NEW c, ContextOK(c), NEW x, NEW y, Fits(c, x), Fits(c, y),
         NEW ts, NEW us, TermsAlike(c, x, y, ts, us), NEW id, NEW jd, Alike(c, x, y, id, jd)
  PROVE  IsOwn(ts, id) <=> IsOwn(us, jd)
<1>1. \A k \in DOMAIN ts : ts[k].term = id <=> us[k].term = jd
  BY AlikeSame DEF TermsAlike, TermLike
<1> QED
  BY <1>1 DEF IsOwn, TermsAlike

LEMMA PushRelatedIs ==
  ASSUME NEW own, NEW l, NEW e
  PROVE  PushRelated(own, l, e) = IF IsOwn(own, e.term) THEN l ELSE Append(l, e)
  BY DEF PushRelated, IsOwn

(* Both lists, as they grow; `at` holds the context and the two extensions.*)
SynonymsBoth(g, h, at, acc) == SynonymsAlike(at.context, at.x, at.y, acc[1], acc[2])
AntonymsBoth(g, h, at, acc) == AntonymsAlike(at.context, at.x, at.y, acc[1], acc[2])
SynonymPair == INSTANCE Folding WITH Step <- SynonymStep, Good <- SynonymsBoth
AntonymPair == INSTANCE Folding WITH Step <- AntonymStep, Good <- AntonymsBoth

LEMMA SynonymStepAlike ==
  ASSUME NEW c, ContextOK(c), NEW x, NEW y, Fits(c, x), Fits(c, y),
         NEW ts, NEW us, TermsAlike(c, x, y, ts, us), NEW t, NEW u, TermLike(c, x, y, t, u),
         NEW id, NEW jd, Alike(c, x, y, id, jd), NEW at, NEW at2,
         NEW l, NEW m, SynonymsAlike(c, x, y, l, m)
  PROVE  SynonymsAlike(c, x, y, SynonymStep(ts, t, at, l, id), SynonymStep(us, u, at2, m, jd))
<1> DEFINE e == SynonymEntry(t, id)
           f == SynonymEntry(u, jd)
           r == SynonymStep(ts, t, at, l, id)
           r2 == SynonymStep(us, u, at2, m, jd)
<1>1. e.term = id /\ f.term = jd /\ SynonymLike(c, x, y, e, f)
  BY DEF SynonymEntry, SynonymLike, SynonymShape, TermLike
<1>2. IsOwn(ts, id) <=> IsOwn(us, jd)
  BY OwnAlike
<1> HIDE DEF e, f
<1>3. /\ r = IF IsOwn(ts, id) THEN l ELSE Append(l, e)
      /\ r2 = IF IsOwn(ts, id) THEN m ELSE Append(m, f)
  BY <1>1, <1>2, PushRelatedIs DEF SynonymStep, e, f
<1> SUFFICES SynonymsAlike(c, x, y, r, r2)
  OBVIOUS
<1> HIDE DEF r, r2
<1>4. CASE IsOwn(ts, id)
  BY <1>3, <1>4
<1>5. CASE ~IsOwn(ts, id)
  <2>1. /\ IsList(r) /\ Len(r) = Len(l) + 1 /\ DOMAIN r = DOMAIN l \cup {Len(l) + 1}
        /\ \A n \in DOMAIN l : r[n] = l[n]
        /\ r[Len(l) + 1] = e
    BY <1>3, <1>5, AppendList DEF SynonymsAlike
  <2>2. /\ IsList(r2) /\ Len(r2) = Len(m) + 1 /\ DOMAIN r2 = DOMAIN m \cup {Len(m) + 1}
        /\ \A n \in DOMAIN m : r2[n] = m[n]
        /\ r2[Len(m) + 1] = f
    BY <1>3, <1>5, AppendList DEF SynonymsAlike
  <2>3. DOMAIN r = DOMAIN r2 /\ Len(r) = Len(r2)
    BY <2>1, <2>2 DEF SynonymsAlike
  <2>4. \A n \in DOMAIN r : SynonymLike(c, x, y, r[n], r2[n])
    BY <1>1, <2>1, <2>2 DEF SynonymsAlike
  <2> QED
    BY <2>1, <2>2, <2>3, <2>4 DEF SynonymsAlike
<1> QED
  BY <1>4, <1>5

LEMMA AntonymStepAlike ==
  ASSUME NEW c, ContextOK(c), NEW x, NEW y, Fits(c, x), Fits(c, y),
         NEW ts, NEW us, TermsAlike(c, x, y, ts, us), NEW t, NEW u, TermLike(c, x, y, t, u),
         NEW id, NEW jd, Alike(c, x, y, id, jd), NEW at, NEW at2,
         NEW l, NEW m, AntonymsAlike(c, x, y, l, m)
  PROVE  AntonymsAlike(c, x, y, AntonymStep(ts, t, at, l, id), AntonymStep(us, u, at2, m, jd))
<1> DEFINE e == AntonymEntry(t, id)
           f == AntonymEntry(u, jd)
           r == AntonymStep(ts, t, at, l, id)
           r2 == AntonymStep(us, u, at2, m, jd)
<1>1. e.term = id /\ f.term = jd /\ AntonymLike(c, x, y, e, f)
  BY DEF AntonymEntry, AntonymLike, AntonymShape, TermLike
<1>2. IsOwn(ts, id) <=> IsOwn(us, jd)
  BY OwnAlike
<1> HIDE DEF e, f
<1>3. /\ r = IF IsOwn(ts, id) THEN l ELSE Append(l, e)
      /\ r2 = IF IsOwn(ts, id) THEN m ELSE Append(m, f)
  BY <1>1, <1>2, PushRelatedIs DEF AntonymStep, e, f
<1> SUFFICES AntonymsAlike(c, x, y, r, r2)
  OBVIOUS
<1> HIDE DEF r, r2
<1>4. CASE IsOwn(ts, id)
  BY <1>3, <1>4
<1>5. CASE ~IsOwn(ts, id)
  <2>1. /\ IsList(r) /\ Len(r) = Len(l) + 1 /\ DOMAIN r = DOMAIN l \cup {Len(l) + 1}
        /\ \A n \in DOMAIN l : r[n] = l[n]
        /\ r[Len(l) + 1] = e
    BY <1>3, <1>5, AppendList DEF AntonymsAlike
  <2>2. /\ IsList(r2) /\ Len(r2) = Len(m) + 1 /\ DOMAIN r2 = DOMAIN m \cup {Len(m) + 1}
        /\ \A n \in DOMAIN m : r2[n] = m[n]
        /\ r2[Len(m) + 1] = f
    BY <1>3, <1>5, AppendList DEF AntonymsAlike
  <2>3. DOMAIN r = DOMAIN r2 /\ Len(r) = Len(r2)
    BY <2>1, <2>2 DEF AntonymsAlike
  <2>4. \A n \in DOMAIN r : AntonymLike(c, x, y, r[n], r2[n])
    BY <1>1, <2>1, <2>2 DEF AntonymsAlike
  <2> QED
    BY <2>1, <2>2, <2>3, <2>4 DEF AntonymsAlike
<1> QED
  BY <1>4, <1>5

LEMMA PushSynonymsAlike ==
  ASSUME NEW c, ContextOK(c), NEW x, NEW y, Fits(c, x), Fits(c, y),
         NEW ts, NEW us, TermsAlike(c, x, y, ts, us), NEW t, NEW u, TermLike(c, x, y, t, u),
         NEW ids, NEW jds, IdsAlike(c, x, y, ids, jds), NEW l, NEW m, SynonymsAlike(c, x, y, l, m)
  PROVE  SynonymsAlike(c, x, y, PushSynonyms(ts, l, t, ids), PushSynonyms(us, m, u, jds))
<1> DEFINE at == [context |-> c, x |-> x, y |-> y]
           r == PushSynonyms(ts, l, t, ids)
           r2 == PushSynonyms(us, m, u, jds)
           n == Len(ids)
<1>1. r = SynonymPair!Fold(ts, t, at, l, ids) /\ r2 = SynonymPair!Fold(us, u, at, m, jds)
  BY DEF PushSynonyms, SynonymPair!Fold, SynonymStep, SynonymEntry, FoldLeft,
         MapThenFoldSet, Max, SynonymPair!Greatest
<1>2. at.context = c /\ at.x = x /\ at.y = y
  OBVIOUS
<1>3. n \in Nat /\ DOMAIN ids = 1 .. n /\ DOMAIN jds = 1 .. n
      /\ \A k \in 1 .. n : Alike(c, x, y, ids[k], jds[k])
  BY ListShape DEF IdsAlike
<1> HIDE DEF at, r, r2, n
<1>4. SynonymsBoth(0, 0, at, <<l, m>>)
  BY <1>2 DEF SynonymsBoth
<1>5. ASSUME NEW k \in 1 .. n, NEW a, NEW a2, SynonymsBoth(0, 0, at, <<a, a2>>)
      PROVE  SynonymsBoth(0, 0, at, <<SynonymStep(ts, t, at, a, ids[k]),
                                      SynonymStep(us, u, at, a2, jds[k])>>)
  BY <1>2, <1>3, <1>5, SynonymStepAlike DEF SynonymsBoth
<1>6. SynonymsBoth(0, 0, at, <<r, r2>>)
  BY <1>1, <1>3, <1>4, <1>5, SynonymPair!FoldsAgree
<1> QED
  BY <1>2, <1>6 DEF SynonymsBoth, r, r2

LEMMA PushAntonymsAlike ==
  ASSUME NEW c, ContextOK(c), NEW x, NEW y, Fits(c, x), Fits(c, y),
         NEW ts, NEW us, TermsAlike(c, x, y, ts, us), NEW t, NEW u, TermLike(c, x, y, t, u),
         NEW ids, NEW jds, IdsAlike(c, x, y, ids, jds), NEW l, NEW m, AntonymsAlike(c, x, y, l, m)
  PROVE  AntonymsAlike(c, x, y, PushAntonyms(ts, l, t, ids), PushAntonyms(us, m, u, jds))
<1> DEFINE at == [context |-> c, x |-> x, y |-> y]
           r == PushAntonyms(ts, l, t, ids)
           r2 == PushAntonyms(us, m, u, jds)
           n == Len(ids)
<1>1. r = AntonymPair!Fold(ts, t, at, l, ids) /\ r2 = AntonymPair!Fold(us, u, at, m, jds)
  BY DEF PushAntonyms, AntonymPair!Fold, AntonymStep, AntonymEntry, FoldLeft,
         MapThenFoldSet, Max, AntonymPair!Greatest
<1>2. at.context = c /\ at.x = x /\ at.y = y
  OBVIOUS
<1>3. n \in Nat /\ DOMAIN ids = 1 .. n /\ DOMAIN jds = 1 .. n
      /\ \A k \in 1 .. n : Alike(c, x, y, ids[k], jds[k])
  BY ListShape DEF IdsAlike
<1> HIDE DEF at, r, r2, n
<1>4. AntonymsBoth(0, 0, at, <<l, m>>)
  BY <1>2 DEF AntonymsBoth
<1>5. ASSUME NEW k \in 1 .. n, NEW a, NEW a2, AntonymsBoth(0, 0, at, <<a, a2>>)
      PROVE  AntonymsBoth(0, 0, at, <<AntonymStep(ts, t, at, a, ids[k]),
                                      AntonymStep(us, u, at, a2, jds[k])>>)
  BY <1>2, <1>3, <1>5, AntonymStepAlike DEF AntonymsBoth
<1>6. AntonymsBoth(0, 0, at, <<r, r2>>)
  BY <1>1, <1>3, <1>4, <1>5, AntonymPair!FoldsAgree
<1> QED
  BY <1>2, <1>6 DEF AntonymsBoth, r, r2

-----------------------------------------------------------------------------
(* Two widenings of one option.                                            *)
WideBoth(c, read, read2, a, a2) ==
  /\ WideOK(c, read, a) /\ WideOK(c, read2, a2)
  /\ CacheAgrees(c, a.ext) /\ CacheAgrees(c, a2.ext)
  /\ SynonymsAlike(c, a.ext, a2.ext, a.expanded, a2.expanded)
  /\ AntonymsAlike(c, a.ext, a2.ext, a.antonyms, a2.antonyms)

WidensBoth(c, reads, r, acc) == WideBoth(c, reads[1], reads[2], acc[1], acc[2])
WidePair == INSTANCE Folding WITH Step <- WideStep, Good <- WidensBoth

LEMMA ExpandableAlike ==
  ASSUME NEW c, ContextOK(c), FormsAgree(c), NEW x, NEW y, Fits(c, x), Fits(c, y),
         NEW t, NEW u, TermLike(c, x, y, t, u)
  PROVE  Expandable(c.base, x, t) <=> Expandable(c.base, y, u)
<1>1. InfoLike(Info(c.base, x, t.term), Info(c.base, y, u.term))
  BY AlikeInfo DEF TermLike
<1> QED
  BY <1>1 DEF Expandable, InfoLike, TermLike

LEMMA ExpansionsAlike ==
  ASSUME NEW c, ContextOK(c), NEW x, NEW y, Fits(c, x), Fits(c, y),
         CacheAgrees(c, x), CacheAgrees(c, y),
         NEW id, NEW jd, ReadId(c, x, id), ReadId(c, y, jd), Alike(c, x, y, id, jd),
         NEW e, e = Expansion(c.base, x, id), NEW f, f = Expansion(c.base, y, jd)
  PROVE  /\ Fits(c, e.ext) /\ Fits(c, f.ext) /\ Grown(x, e.ext) /\ Grown(y, f.ext)
         /\ CacheAgrees(c, e.ext) /\ CacheAgrees(c, f.ext)
         /\ IdsAlike(c, e.ext, f.ext, e.expansion.synonyms, f.expansion.synonyms)
         /\ IdsAlike(c, e.ext, f.ext, e.expansion.antonyms, f.expansion.antonyms)
<1>1. Expanded(c, x, e) /\ Expanded(c, y, f)
  BY ExpansionFits
<1>2. /\ CacheAgrees(c, e.ext) /\ ExpansionIs(c, e.ext, id, e.expansion)
      /\ CacheAgrees(c, f.ext) /\ ExpansionIs(c, f.ext, jd, f.expansion)
  BY ExpansionAgrees
<1>3. /\ Fits(c, e.ext) /\ Fits(c, f.ext) /\ Grown(x, e.ext) /\ Grown(y, f.ext)
      /\ IdList(c.base, e.ext, e.expansion.synonyms) /\ IdList(c.base, f.ext, f.expansion.synonyms)
      /\ IdList(c.base, e.ext, e.expansion.antonyms) /\ IdList(c.base, f.ext, f.expansion.antonyms)
  BY <1>1 DEF Expanded
<1>4. StemAt(c, e.ext, id) = StemAt(c, f.ext, jd)
  BY <1>3, AlikeGrown DEF Alike
<1>5. /\ StemsOf(c, e.ext, e.expansion.synonyms) = StemsOf(c, f.ext, f.expansion.synonyms)
      /\ StemsOf(c, e.ext, e.expansion.antonyms) = StemsOf(c, f.ext, f.expansion.antonyms)
  BY <1>2, <1>4 DEF ExpansionIs
<1> QED
  BY <1>2, <1>3, <1>5, StemsAlike

LEMMA WidenByAlike ==
  ASSUME NEW c, ContextOK(c), FormsAgree(c), NEW read, NEW read2, ReadBoth(c, read, read2),
         NEW a, NEW a2, WideBoth(c, read, read2, a, a2),
         NEW t, NEW u, TermOK(c, read.ext, t), TermOK(c, read2.ext, u),
         TermLike(c, read.ext, read2.ext, t, u)
  PROVE  WideBoth(c, read, read2, WidenBy(c.base, read, a, t), WidenBy(c.base, read2, a2, u))
<1> DEFINE r == WidenBy(c.base, read, a, t)
           r2 == WidenBy(c.base, read2, a2, u)
<1>1. /\ ReadOK(c, read) /\ ReadOK(c, read2) /\ Fits(c, read.ext) /\ Fits(c, read2.ext)
      /\ Fits(c, a.ext) /\ Fits(c, a2.ext) /\ Grown(read.ext, a.ext) /\ Grown(read2.ext, a2.ext)
      /\ WideOK(c, read, a) /\ WideOK(c, read2, a2)
  BY DEF ReadBoth, ReadOK, WideBoth, WideOK
<1>2. WideOK(c, read, r) /\ WideOK(c, read2, r2)
  BY <1>1, WidenKeeps
<1>3. Expandable(c.base, read.ext, t) <=> Expandable(c.base, read2.ext, u)
  BY <1>1, ExpandableAlike
<1>4. CASE ~Expandable(c.base, read.ext, t)
  BY <1>3, <1>4 DEF WidenBy
<1>5. CASE Expandable(c.base, read.ext, t)
  <2> DEFINE e == Expansion(c.base, a.ext, t.term)
             f == Expansion(c.base, a2.ext, u.term)
  <2>1. /\ r.ext = e.ext
        /\ r.expanded = PushSynonyms(read.terms, a.expanded, t, e.expansion.synonyms)
        /\ r.antonyms = PushAntonyms(read.terms, a.antonyms, t, e.expansion.antonyms)
    BY <1>5 DEF WidenBy, ExpandTerm
  <2>2. /\ r2.ext = f.ext
        /\ r2.expanded = PushSynonyms(read2.terms, a2.expanded, u, f.expansion.synonyms)
        /\ r2.antonyms = PushAntonyms(read2.terms, a2.antonyms, u, f.expansion.antonyms)
    BY <1>3, <1>5 DEF WidenBy, ExpandTerm
  <2>3. ReadId(c, a.ext, t.term) /\ ReadId(c, a2.ext, u.term)
    BY <1>1, ReadIdGrown DEF TermOK
  <2>4. Alike(c, a.ext, a2.ext, t.term, u.term)
    BY <1>1, AlikeGrown DEF TermLike
  <2>5. /\ Fits(c, e.ext) /\ Fits(c, f.ext) /\ Grown(a.ext, e.ext) /\ Grown(a2.ext, f.ext)
        /\ CacheAgrees(c, e.ext) /\ CacheAgrees(c, f.ext)
        /\ IdsAlike(c, e.ext, f.ext, e.expansion.synonyms, f.expansion.synonyms)
        /\ IdsAlike(c, e.ext, f.ext, e.expansion.antonyms, f.expansion.antonyms)
    BY <1>1, <2>3, <2>4, ExpansionsAlike DEF WideBoth
  <2> SUFFICES WideBoth(c, read, read2, r, r2)
    OBVIOUS
  <2> HIDE DEF e, f, r, r2
  <2>6. Grown(read.ext, e.ext) /\ Grown(read2.ext, f.ext)
    BY <1>1, <2>5, GrownTwice DEF Fits
  <2>7. /\ TermsAlike(c, e.ext, f.ext, read.terms, read2.terms)
        /\ TermLike(c, e.ext, f.ext, t, u)
    BY <1>1, <2>5, <2>6, TermsAlikeGrown, AlikeGrown DEF ReadBoth, TermLike
  <2>8. /\ SynonymsAlike(c, e.ext, f.ext, a.expanded, a2.expanded)
        /\ AntonymsAlike(c, e.ext, f.ext, a.antonyms, a2.antonyms)
    BY <1>1, <2>5, RelatedGrown DEF WideBoth
  <2>9. SynonymsAlike(c, e.ext, f.ext, r.expanded, r2.expanded)
    BY <2>1, <2>2, <2>5, <2>7, <2>8, PushSynonymsAlike
  <2>10. AntonymsAlike(c, e.ext, f.ext, r.antonyms, r2.antonyms)
    BY <2>1, <2>2, <2>5, <2>7, <2>8, PushAntonymsAlike
  <2> QED
    BY <1>2, <2>1, <2>2, <2>5, <2>9, <2>10 DEF WideBoth, r, r2
<1> QED
  BY <1>4, <1>5

LEMMA WidenAlike ==
  ASSUME NEW c, ContextOK(c), FormsAgree(c), NEW read, NEW read2, ReadBoth(c, read, read2)
  PROVE  WideBoth(c, read, read2, Widen(c.base, read), Widen(c.base, read2))
<1> DEFINE base == [ext |-> read.ext, expanded |-> <<>>, antonyms |-> <<>>]
           base2 == [ext |-> read2.ext, expanded |-> <<>>, antonyms |-> <<>>]
           r == Widen(c.base, read)
           r2 == Widen(c.base, read2)
           ts == read.terms
           us == read2.terms
           n == Len(ts)
<1>1. r = WidePair!Fold(c, read, 0, base, ts) /\ r2 = WidePair!Fold(c, read2, 0, base2, us)
  BY DEF Widen, WidePair!Fold, WideStep, FoldLeft, MapThenFoldSet, Max, WidePair!Greatest
<1>2. WideBoth(c, read, read2, base, base2)
  BY EmptyList, GrownSelf
     DEF WideBoth, WideOK, ReadBoth, ReadOK, Fits, SynonymList, AntonymList, SynonymsAlike, AntonymsAlike
<1>3. /\ n \in Nat /\ DOMAIN ts = 1 .. n /\ DOMAIN us = 1 .. n
      /\ \A k \in 1 .. n : /\ TermOK(c, read.ext, ts[k]) /\ TermOK(c, read2.ext, us[k])
                           /\ TermLike(c, read.ext, read2.ext, ts[k], us[k])
  BY ListShape DEF ReadBoth, ReadOK, TermList, TermsAlike
<1> HIDE DEF base, base2, r, r2, ts, us, n
<1>4. WidensBoth(c, <<read, read2>>, 0, <<base, base2>>)
  BY <1>2 DEF WidensBoth
<1>5. ASSUME NEW k \in 1 .. n, NEW a, NEW a2, WidensBoth(c, <<read, read2>>, 0, <<a, a2>>)
      PROVE  WidensBoth(c, <<read, read2>>, 0,
               <<WideStep(c, read, 0, a, ts[k]), WideStep(c, read2, 0, a2, us[k])>>)
  BY <1>3, <1>5, WidenByAlike DEF WidensBoth, WideStep
<1>6. WidensBoth(c, <<read, read2>>, 0, <<r, r2>>)
  BY <1>1, <1>3, <1>4, <1>5, WidePair!FoldsAgree
<1> QED
  BY <1>6 DEF WidensBoth, r, r2

-----------------------------------------------------------------------------
(* What is said of an option.                                              *)
SaidTerm(b, x, t) == [t EXCEPT !.term = Info(b, x, @).stem]
SaidSynonym(b, x, e) == [e EXCEPT !.term = Info(b, x, @).stem, !.from = Info(b, x, @).stem]

LEMMA SaidIs ==
  \A b, x, cr :
    Said(b, x, cr) =
      [names |-> [n \in DOMAIN cr.names |-> Info(b, x, cr.names[n]).stem],
       terms |-> [n \in DOMAIN cr.terms |-> SaidTerm(b, x, cr.terms[n])],
       expanded |-> [n \in DOMAIN cr.expanded |-> SaidSynonym(b, x, cr.expanded[n])],
       antonyms |-> [n \in DOMAIN cr.antonyms |-> SaidTerm(b, x, cr.antonyms[n])]]
  BY DEF Said, SaidTerm, SaidSynonym

LEMMA SaidGrown ==
  ASSUME NEW c, ContextOK(c), NEW x, NEW y, Fits(c, x), Fits(c, y), Grown(x, y),
         NEW cr, CriterionOK(c, x, cr)
  PROVE  Said(c.base, y, cr) = Said(c.base, x, cr)
<1>1. \A id \in IdsOf(c.base, x) : Info(c.base, y, id) = Info(c.base, x, id)
  BY FitsIs, GrownInfo
<1>2. \A n \in DOMAIN cr.names : Info(c.base, y, cr.names[n]) = Info(c.base, x, cr.names[n])
  BY <1>1 DEF CriterionOK, IdList
<1>3. \A n \in DOMAIN cr.terms : SaidTerm(c.base, y, cr.terms[n]) = SaidTerm(c.base, x, cr.terms[n])
  BY <1>1 DEF CriterionOK, TermList, TermOK, ReadId, SaidTerm
<1>4. \A n \in DOMAIN cr.expanded :
        SaidSynonym(c.base, y, cr.expanded[n]) = SaidSynonym(c.base, x, cr.expanded[n])
  BY <1>1 DEF CriterionOK, SynonymList, SaidSynonym
<1>5. \A n \in DOMAIN cr.antonyms :
        SaidTerm(c.base, y, cr.antonyms[n]) = SaidTerm(c.base, x, cr.antonyms[n])
  BY <1>1 DEF CriterionOK, AntonymList, SaidTerm
<1> QED
  BY <1>2, <1>3, <1>4, <1>5, SaidIs

LEMMA SaidTermAlike ==
  ASSUME NEW c, NEW x, NEW y, NEW t, NEW u, TermShape(t), TermShape(u), TermLike(c, x, y, t, u)
  PROVE  SaidTerm(c.base, x, t) = SaidTerm(c.base, y, u)
<1> DEFINE st == Info(c.base, x, t.term).stem
<1>1. Info(c.base, y, u.term).stem = st
  BY DEF TermLike, Alike, StemAt
<1>2. SaidTerm(c.base, x, t) = [t EXCEPT !.term = st] /\ SaidTerm(c.base, y, u) = [u EXCEPT !.term = st]
  BY <1>1 DEF SaidTerm
<1> HIDE DEF st
<1>3. [t EXCEPT !.term = st] =
        [term |-> st, weight |-> t.weight, idf |-> t.idf, polarity |-> t.polarity,
         isName |-> t.isName, negated |-> t.negated, modality |-> t.modality]
  BY DEF TermShape
<1>4. [u EXCEPT !.term = st] =
        [term |-> st, weight |-> u.weight, idf |-> u.idf, polarity |-> u.polarity,
         isName |-> u.isName, negated |-> u.negated, modality |-> u.modality]
  BY DEF TermShape
<1> QED
  BY <1>2, <1>3, <1>4 DEF TermLike

LEMMA SaidSynonymAlike ==
  ASSUME NEW c, NEW x, NEW y, NEW e, NEW f, SynonymLike(c, x, y, e, f)
  PROVE  SaidSynonym(c.base, x, e) = SaidSynonym(c.base, y, f)
<1> DEFINE st == Info(c.base, x, e.term).stem
           from == Info(c.base, x, e.from).stem
           r == SaidSynonym(c.base, x, e)
           r2 == SaidSynonym(c.base, y, f)
<1>1. Info(c.base, y, f.term).stem = st /\ Info(c.base, y, f.from).stem = from
  BY DEF SynonymLike, Alike, StemAt
<1>2. r = [e EXCEPT !.term = st, !.from = from] /\ r2 = [f EXCEPT !.term = st, !.from = from]
  BY <1>1 DEF SaidSynonym
<1>3. e = [term |-> e.term, weight |-> e.weight, from |-> e.from]
      /\ f = [term |-> f.term, weight |-> f.weight, from |-> f.from]
      /\ e.weight = f.weight
  BY DEF SynonymLike, SynonymShape
<1> HIDE DEF st, from, r, r2
<1>4. DOMAIN e = {"term", "weight", "from"} /\ DOMAIN f = {"term", "weight", "from"}
  BY <1>3
<1>5. /\ r.term = st /\ r.from = from /\ r.weight = e.weight
      /\ r2.term = st /\ r2.from = from /\ r2.weight = f.weight
  BY <1>2, <1>4
<1>6. /\ DOMAIN r = {"term", "weight", "from"} /\ r = [k \in DOMAIN r |-> r[k]]
      /\ DOMAIN r2 = {"term", "weight", "from"} /\ r2 = [k \in DOMAIN r2 |-> r2[k]]
  BY <1>2, <1>4
<1>7. \A k \in DOMAIN r : r[k] = r2[k]
  BY <1>3, <1>5, <1>6
<1>8. r = r2
  BY <1>6, <1>7
<1> QED
  BY <1>8 DEF r, r2

LEMMA SaidAntonymAlike ==
  ASSUME NEW c, NEW x, NEW y, NEW e, NEW f, AntonymLike(c, x, y, e, f)
  PROVE  SaidTerm(c.base, x, e) = SaidTerm(c.base, y, f)
<1> DEFINE st == Info(c.base, x, e.term).stem
<1>1. Info(c.base, y, f.term).stem = st
  BY DEF AntonymLike, Alike, StemAt
<1>2. SaidTerm(c.base, x, e) = [e EXCEPT !.term = st] /\ SaidTerm(c.base, y, f) = [f EXCEPT !.term = st]
  BY <1>1 DEF SaidTerm
<1> HIDE DEF st
<1>3. /\ [e EXCEPT !.term = st] = [term |-> st, weight |-> e.weight]
      /\ [f EXCEPT !.term = st] = [term |-> st, weight |-> f.weight]
  BY DEF AntonymLike, AntonymShape
<1> QED
  BY <1>2, <1>3 DEF AntonymLike

(* An option says the same wherever the question has got to.               *)
LEMMA BuildAlike ==
  ASSUME NEW c, ContextOK(c), FormsAgree(c), NEW x, NEW y, Fits(c, x), Fits(c, y),
         CacheAgrees(c, x), CacheAgrees(c, y), NEW hypothesis, NEW o, OptionOK(c, o),
         NEW r, r = BuildCriterion(c.base, x, hypothesis, o),
         NEW r2, r2 = BuildCriterion(c.base, y, hypothesis, o)
  PROVE  /\ CacheAgrees(c, r.ext)
         /\ Said(c.base, r.ext, r.criterion) = Said(c.base, r2.ext, r2.criterion)
<1> DEFINE read == ReadTexts(c.base, ReadName(c.base, x, o.name), hypothesis, o.texts)
           read2 == ReadTexts(c.base, ReadName(c.base, y, o.name), hypothesis, o.texts)
           wide == Widen(c.base, read)
           wide2 == Widen(c.base, read2)
           cr == r.criterion
           cr2 == r2.criterion
<1>1. /\ r.ext = wide.ext /\ cr.names = read.names /\ cr.terms = read.terms
      /\ cr.expanded = wide.expanded /\ cr.antonyms = wide.antonyms
      /\ r2.ext = wide2.ext /\ cr2.names = read2.names /\ cr2.terms = read2.terms
      /\ cr2.expanded = wide2.expanded /\ cr2.antonyms = wide2.antonyms
  BY DEF BuildCriterion, Widened, Built
<1>2. ReadBoth(c, read, read2)
  BY OptionReadsAlike
<1> HIDE DEF read, read2, cr, cr2
<1>3. WideBoth(c, read, read2, wide, wide2)
  BY <1>2, WidenAlike
<1> HIDE DEF wide, wide2
<1>4. /\ Fits(c, read.ext) /\ Fits(c, read2.ext) /\ Fits(c, wide.ext) /\ Fits(c, wide2.ext)
      /\ Grown(read.ext, wide.ext) /\ Grown(read2.ext, wide2.ext)
  BY <1>2, <1>3 DEF ReadBoth, ReadOK, WideBoth, WideOK
<1>5. IdsAlike(c, wide.ext, wide2.ext, read.names, read2.names)
  BY <1>2, <1>4, IdsAlikeGrown DEF ReadBoth
<1>6. TermsAlike(c, wide.ext, wide2.ext, read.terms, read2.terms)
  BY <1>2, <1>4, TermsAlikeGrown DEF ReadBoth
<1>7. [n \in DOMAIN cr.names |-> Info(c.base, r.ext, cr.names[n]).stem] =
        [n \in DOMAIN cr2.names |-> Info(c.base, r2.ext, cr2.names[n]).stem]
  BY <1>1, <1>5 DEF IdsAlike, Alike, StemAt
<1>8. [n \in DOMAIN cr.terms |-> SaidTerm(c.base, r.ext, cr.terms[n])] =
        [n \in DOMAIN cr2.terms |-> SaidTerm(c.base, r2.ext, cr2.terms[n])]
  <2>1. \A n \in DOMAIN cr.terms :
          SaidTerm(c.base, r.ext, cr.terms[n]) = SaidTerm(c.base, r2.ext, cr2.terms[n])
    BY <1>1, <1>2, <1>6, SaidTermAlike DEF TermsAlike, ReadBoth, ReadOK, TermList, TermOK
  <2> QED
    BY <1>1, <1>6, <2>1 DEF TermsAlike
<1>9. [n \in DOMAIN cr.expanded |-> SaidSynonym(c.base, r.ext, cr.expanded[n])] =
        [n \in DOMAIN cr2.expanded |-> SaidSynonym(c.base, r2.ext, cr2.expanded[n])]
  <2>1. SynonymsAlike(c, r.ext, r2.ext, cr.expanded, cr2.expanded)
    BY <1>1, <1>3 DEF WideBoth
  <2>2. \A n \in DOMAIN cr.expanded :
          SaidSynonym(c.base, r.ext, cr.expanded[n]) = SaidSynonym(c.base, r2.ext, cr2.expanded[n])
    BY <2>1, SaidSynonymAlike DEF SynonymsAlike
  <2> QED
    BY <2>1, <2>2 DEF SynonymsAlike
<1>10. [n \in DOMAIN cr.antonyms |-> SaidTerm(c.base, r.ext, cr.antonyms[n])] =
         [n \in DOMAIN cr2.antonyms |-> SaidTerm(c.base, r2.ext, cr2.antonyms[n])]
  <2>1. AntonymsAlike(c, r.ext, r2.ext, cr.antonyms, cr2.antonyms)
    BY <1>1, <1>3 DEF WideBoth
  <2>2. \A n \in DOMAIN cr.antonyms :
          SaidTerm(c.base, r.ext, cr.antonyms[n]) = SaidTerm(c.base, r2.ext, cr2.antonyms[n])
    BY <2>1, SaidAntonymAlike DEF AntonymsAlike
  <2> QED
    BY <2>1, <2>2 DEF AntonymsAlike
<1>11. CacheAgrees(c, r.ext)
  BY <1>1, <1>3 DEF WideBoth
<1>12. Said(c.base, r.ext, cr) = Said(c.base, r2.ext, cr2)
  BY <1>7, <1>8, <1>9, <1>10, SaidIs
<1> QED
  BY <1>11, <1>12 DEF cr, cr2

-----------------------------------------------------------------------------
(* An option read right after the instructions, and all of them read in    *)
(* request order.                                                          *)
Alone(c, o) ==
  LET r == BuildCriterion(c.base, c.from, FALSE, o)
  IN  Said(c.base, r.ext, r.criterion)

RequestStep(b, q, r, read, o) == ReadOption(read, BuildCriterion(b, read.ext, FALSE, o))
Anything(p, q, r, acc) == TRUE
RequestLoop == INSTANCE Folding WITH Step <- RequestStep, Good <- Anything

SoFar(c, options, n, read) ==
  /\ read = [ext |-> read.ext, criteria |-> read.criteria]
  /\ Fits(c, read.ext) /\ CacheAgrees(c, read.ext)
  /\ IsList(read.criteria) /\ Len(read.criteria) = n
  /\ \A k \in DOMAIN read.criteria :
       /\ CriterionOK(c, read.ext, read.criteria[k])
       /\ Said(c.base, read.ext, read.criteria[k]) = Alone(c, options[k])

LEMMA BuildAlone ==
  ASSUME NEW c, ContextOK(c), FormsAgree(c), NEW y, CacheAgrees(c, y), y = c.from,
         NEW x, Fits(c, x), CacheAgrees(c, x), NEW o, OptionOK(c, o),
         NEW no, no = FALSE, NEW r, r = BuildCriterion(c.base, x, no, o)
  PROVE  /\ Fits(c, r.ext) /\ Grown(x, r.ext) /\ CriterionOK(c, r.ext, r.criterion)
         /\ CacheAgrees(c, r.ext)
         /\ Said(c.base, r.ext, r.criterion) = Alone(c, o)
<1>1. PICK r2 : r2 = BuildCriterion(c.base, y, no, o)
  OBVIOUS
<1>2. Alone(c, o) = Said(c.base, r2.ext, r2.criterion)
  BY <1>1 DEF Alone
<1>3. Fits(c, y)
  BY FitsSelf
<1>4. /\ CacheAgrees(c, r.ext)
      /\ Said(c.base, r.ext, r.criterion) = Said(c.base, r2.ext, r2.criterion)
  BY <1>1, <1>3, BuildAlike
<1>5. Fits(c, r.ext) /\ Grown(x, r.ext) /\ CriterionOK(c, r.ext, r.criterion)
  BY BuildFits
<1> QED
  BY <1>2, <1>4, <1>5

LEMMA OneMore ==
  ASSUME NEW c, ContextOK(c), FormsAgree(c), CacheAgrees(c, c.from),
         NEW options, NEW n \in Nat, NEW read, SoFar(c, options, n, read),
         OptionOK(c, options[n + 1])
  PROVE  SoFar(c, options, n + 1, RequestStep(c.base, 0, 0, read, options[n + 1]))
<1> DEFINE o == options[n + 1]
           r == BuildCriterion(c.base, read.ext, FALSE, o)
           new == RequestStep(c.base, 0, 0, read, o)
           old == read.criteria
           crs == new.criteria
<1>0. OptionOK(c, o) /\ Fits(c, read.ext) /\ CacheAgrees(c, read.ext)
  BY DEF SoFar
<1> HIDE DEF o
<1>1. /\ Fits(c, r.ext) /\ Grown(read.ext, r.ext) /\ CriterionOK(c, r.ext, r.criterion)
      /\ CacheAgrees(c, r.ext)
      /\ Said(c.base, r.ext, r.criterion) = Alone(c, o)
  BY <1>0, BuildAlone
<1>2. new = [read EXCEPT !.ext = r.ext, !.criteria = Append(@, r.criterion)]
  BY DEF RequestStep, ReadOption
<1> SUFFICES SoFar(c, options, n + 1, new)
  BY DEF o
<1> HIDE DEF r, new
<1>3. /\ new = [ext |-> new.ext, criteria |-> new.criteria] /\ new.ext = r.ext
      /\ crs = Append(old, r.criterion)
  <2>1. read = [ext |-> read.ext, criteria |-> read.criteria]
    BY DEF SoFar
  <2>2. DOMAIN read = {"ext", "criteria"}
    BY <2>1
  <2>3. new.ext = r.ext /\ crs = Append(old, r.criterion)
    BY <1>2, <2>2
  <2>4. DOMAIN new = {"ext", "criteria"} /\ new = [k \in DOMAIN new |-> new[k]]
    BY <1>2, <2>2
  <2> QED
    BY <2>3, <2>4
<1>4. IsList(old) /\ Len(old) = n
  BY DEF SoFar
<1>5. /\ IsList(crs) /\ Len(crs) = n + 1 /\ DOMAIN crs = DOMAIN old \cup {n + 1}
      /\ \A k \in DOMAIN old : crs[k] = old[k]
      /\ crs[n + 1] = r.criterion
  BY <1>3, <1>4, AppendList
<1>6. ASSUME NEW k \in DOMAIN crs
      PROVE  /\ CriterionOK(c, r.ext, crs[k])
             /\ Said(c.base, r.ext, crs[k]) = Alone(c, options[k])
  <2>1. CASE k = n + 1
    BY <1>1, <1>5, <2>1 DEF o
  <2>2. CASE k # n + 1
    <3>1. k \in DOMAIN old /\ crs[k] = old[k]
      BY <1>5, <2>2
    <3>2. /\ CriterionOK(c, read.ext, old[k]) /\ Fits(c, read.ext)
          /\ Said(c.base, read.ext, old[k]) = Alone(c, options[k])
      BY <3>1 DEF SoFar
    <3> QED
      BY <1>1, <3>1, <3>2, CriterionGrown, SaidGrown
  <2> QED
    BY <2>1, <2>2
<1> QED
  BY <1>1, <1>3, <1>5, <1>6 DEF SoFar

LEMMA RequestOrder ==
  ASSUME NEW c, ContextOK(c), FormsAgree(c), CacheAgrees(c, c.from),
         NEW options, Listed(options), \A k \in DOMAIN options : OptionOK(c, options[k]),
         NEW read, read = RequestLoop!Fold(c.base, 0, 0, [ext |-> c.from, criteria |-> <<>>], options)
  PROVE  SoFar(c, options, Len(options), read)
<1> DEFINE base == [ext |-> c.from, criteria |-> <<>>]
           n == Len(options)
<1>1. SoFar(c, options, 0, base)
  BY EmptyList, FitsSelf DEF SoFar
<1>2. n \in Nat /\ DOMAIN options = 1 .. n
  BY DEF Listed
<1> HIDE DEF base, n
<1>3. PICK acc : RequestLoop!Accumulates(acc, c.base, 0, 0, base, n, options)
  BY <1>2, RequestLoop!Accumulators
<1>7. /\ acc[0] = base
      /\ \A i \in 1 .. n : acc[i] = RequestStep(c.base, 0, 0, acc[i - 1], options[i])
      /\ read = acc[n]
  BY <1>3 DEF RequestLoop!Accumulates, base
<1> DEFINE S == {m \in Nat : m <= n => SoFar(c, options, m, acc[m])}
<1>4. 0 \in S
  BY <1>1, <1>7
<1>5. ASSUME NEW m \in Nat, m \in S PROVE m + 1 \in S
  <2>1. SUFFICES ASSUME m + 1 <= n PROVE SoFar(c, options, m + 1, acc[m + 1])
    OBVIOUS
  <2>2. m + 1 \in 1 .. n /\ (m + 1) - 1 = m /\ SoFar(c, options, m, acc[m])
    BY <1>2, <1>5, <2>1
  <2>3. acc[m + 1] = RequestStep(c.base, 0, 0, acc[m], options[m + 1])
    BY <1>7, <2>2
  <2>4. OptionOK(c, options[m + 1])
    BY <1>2, <2>2
  <2>5. SoFar(c, options, m + 1, RequestStep(c.base, 0, 0, acc[m], options[m + 1]))
    BY <2>2, <2>4, OneMore
  <2> QED
    BY <2>3, <2>5
<1> HIDE DEF S
<1>6. n \in S
  BY <1>2, <1>4, <1>5, RequestLoop!SetInduction
<1> QED
  BY <1>2, <1>7, <1>6 DEF S, n

-----------------------------------------------------------------------------
(* The invariant behind the order of the options: if the forms of the new  *)
(* stems agree, the cache holds what would be computed again, and every    *)
(* option built says what it says alone.                                   *)
SaysAlone ==
  StemsAgree =>
    /\ CacheAgrees(Context, ext)
    /\ \A k \in DOMAIN built : Said(Base, ext, built[k]) = Alone(Context, Options[k])

LEMMA StemsAgreeIs == StemsAgree => FormsAgree(Context)
  BY ContextIs DEF StemsAgree, FormsAgree, Known

LEMMA InstructedCache == asked \in Questions => CacheAgrees(Context, Instructed)
<1> SUFFICES ASSUME asked \in Questions PROVE CacheAgrees(Context, Instructed)
  OBVIOUS
<1>1. Instructed.expansions = <<>>
  BY AskedContext
<1>2. DOMAIN Instructed.expansions = {}
  BY <1>1
<1> QED
  BY <1>2 DEF CacheAgrees

LEMMA SayingStarts == OrderInit => SaysAlone
<1> SUFFICES ASSUME OrderInit PROVE SaysAlone
  OBVIOUS
<1>1. asked \in Questions /\ ext = Instructed /\ built = <<>>
  BY DEF OrderInit
<1>2. DOMAIN built = {}
  BY <1>1
<1> QED
  BY <1>1, <1>2, InstructedCache DEF SaysAlone

LEMMA SayingSteps == ReadingInv /\ SaysAlone /\ [OrderNext]_vars => SaysAlone'
<1> SUFFICES ASSUME ReadingInv, SaysAlone, [OrderNext]_vars PROVE SaysAlone'
  OBVIOUS
<1>1. CASE UNCHANGED vars
  <2>1. /\ ext' = ext /\ built' = built /\ Context' = Context /\ Base' = Base
        /\ Options' = Options /\ StemsAgree' = StemsAgree
    BY <1>1 DEF vars, Context, Base, Instructed, Options, WordsRead, Pushed, StemsAgree, Known
  <2> QED
    BY <2>1 DEF SaysAlone
<1>2. ASSUME NEW k \in left, Build(k) PROVE SaysAlone'
  <2> DEFINE r == BuildCriterion(Base, ext, FALSE, Options[k])
  <2>1. ext' = r.ext /\ built' = Filled(built, k, r.criterion) /\ asked' = asked
    BY <1>2 DEF Build
  <2>2. /\ Context' = Context /\ Base' = Base /\ Options' = Options /\ StemsAgree' = StemsAgree
    BY <2>1 DEF Context, Base, Instructed, Options, WordsRead, Pushed, StemsAgree, Known
  <2> SUFFICES ASSUME StemsAgree
               PROVE  /\ CacheAgrees(Context, ext')
                      /\ \A j \in DOMAIN built' :
                           Said(Base, ext', built'[j]) = Alone(Context, Options[j])
    BY <2>2 DEF SaysAlone
  <2>3. /\ ContextOK(Context) /\ OptionOK(Context, Options[k]) /\ FormsAgree(Context)
        /\ CacheAgrees(Context, Context.from)
        /\ Fits(Context, ext) /\ CacheAgrees(Context, ext)
    BY AskedContext, StemsAgreeIs, InstructedCache, ContextIs DEF ReadingInv, SaysAlone
  <2>4. r = BuildCriterion(Context.base, ext, FALSE, Options[k])
    BY ContextIs
  <2> HIDE DEF r
  <2>5. /\ Fits(Context, r.ext) /\ Grown(ext, r.ext) /\ CacheAgrees(Context, r.ext)
        /\ Said(Context.base, r.ext, r.criterion) = Alone(Context, Options[k])
    BY <2>3, <2>4, BuildAlone
  <2>6. ASSUME NEW j \in DOMAIN built'
        PROVE  Said(Context.base, r.ext, built'[j]) = Alone(Context, Options[j])
    <3>1. CASE j = k
      BY <2>1, <2>5, <3>1 DEF Filled
    <3>2. CASE j # k
      <4>1. j \in DOMAIN built /\ built'[j] = built[j]
        BY <2>1, <2>6, <3>2 DEF Filled
      <4>2. CriterionOK(Context, ext, built[j])
        BY <4>1 DEF ReadingInv
      <4>3. Said(Context.base, r.ext, built[j]) = Said(Context.base, ext, built[j])
        BY <2>3, <2>5, <4>2, SaidGrown
      <4>4. Said(Context.base, ext, built[j]) = Alone(Context, Options[j])
        BY <4>1, ContextIs DEF SaysAlone
      <4> QED
        BY <4>1, <4>3, <4>4
    <3> QED
      BY <3>1, <3>2
  <2> QED
    BY <2>1, <2>5, <2>6, ContextIs
<1> QED
  BY <1>1, <1>2 DEF OrderNext

LEMMA InOrderIsAlone ==
  ASSUME asked \in Questions, StemsAgree, NEW k \in DOMAIN Options
  PROVE  InRequestOrder[k] = Alone(Context, Options[k])
<1> DEFINE base == [ext |-> Instructed, criteria |-> <<>>]
           read == FoldLeft(LAMBDA acc, o : ReadOption(acc, BuildCriterion(Base, acc.ext, FALSE, o)),
                            base, Options)
<1>1. InRequestOrder = [n \in DOMAIN read.criteria |-> Said(Base, read.ext, read.criteria[n])]
  BY DEF InRequestOrder, AllSaid
<1>2. read = RequestLoop!Fold(Base, 0, 0, base, Options)
  BY DEF RequestLoop!Fold, RequestStep, FoldLeft, MapThenFoldSet, Max, RequestLoop!Greatest
<1> HIDE DEF read
<1>3. read = RequestLoop!Fold(Context.base, 0, 0, [ext |-> Context.from, criteria |-> <<>>], Options)
  BY <1>2, ContextIs
<1>4. Listed(Options)
  BY OrderAssumption DEF Options
<1>5. /\ ContextOK(Context) /\ FormsAgree(Context) /\ CacheAgrees(Context, Context.from)
      /\ \A n \in DOMAIN Options : OptionOK(Context, Options[n])
  BY AskedContext, StemsAgreeIs, InstructedCache, ContextIs
<1>6. SoFar(Context, Options, Len(Options), read)
  BY <1>3, <1>4, <1>5, RequestOrder
<1>7. DOMAIN read.criteria = DOMAIN Options
  BY <1>4, <1>6, ListShape DEF SoFar, Listed
<1>8. Said(Base, read.ext, read.criteria[k]) = Alone(Context, Options[k])
  BY <1>6, <1>7, ContextIs DEF SoFar
<1> QED
  BY <1>1, <1>7, <1>8

(* An option says the same in whatever order the options are listed, if    *)
(* the surface forms of each stem that is new to the options agree in      *)
(* flags and rarity: nothing else passes from an option to the next        *)
(* (analysis.rs:361-381, criteria.rs:493-775).                             *)
THEOREM OrderMatters == OrderSpec => []OrderMattersByFormsOnly
<1>1. ReadingInv /\ SaysAlone => OrderMattersByFormsOnly
  <2> SUFFICES ASSUME ReadingInv, SaysAlone, StemsAgree, NEW k \in DOMAIN built
               PROVE  Said(Base, ext, built[k]) = InRequestOrder[k]
    BY DEF OrderMattersByFormsOnly, SameInEveryOrder
  <2>1. k \in DOMAIN Options /\ asked \in Questions
    BY DEF ReadingInv
  <2>2. InRequestOrder[k] = Alone(Context, Options[k])
    BY <2>1, InOrderIsAlone
  <2> QED
    BY <2>2 DEF SaysAlone
<1>2. OrderSpec => []SaysAlone
  BY ReadingInvariant, SayingStarts, SayingSteps, PTL DEF OrderSpec
<1> QED
  BY <1>1, <1>2, ReadingInvariant, PTL
=============================================================================
