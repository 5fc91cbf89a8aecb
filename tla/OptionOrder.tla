---------------------------- MODULE OptionOrder ----------------------------
(***************************************************************************)
(* Does the evidence of an option depend on the order of the options?      *)
(*                                                                         *)
(* QuestionView::build reads the options of a Choice in request order into *)
(* one extension of the vocabulary, where the first surface form of a stem *)
(* decides what is known of it.  Here a question is read after its         *)
(* instructions with its options in every order.                           *)
(***************************************************************************)
EXTENDS Reading

CONSTANTS
  Questions    \* pairs of a state and a Choice question about it

(* Words are known surface forms; a text speaks for or against its option. *)
WordsKnown(tokens) == \A n \in DOMAIN tokens : tokens[n].word \in DOMAIN StemOf
Listed(s) == Len(s) \in Nat /\ DOMAIN s = 1 .. Len(s)

TextsOK(texts) ==
  /\ Listed(texts)
  /\ \A n \in DOMAIN texts :
       /\ Listed(texts[n].tokens) /\ WordsKnown(texts[n].tokens)
       /\ texts[n].polarity \in {1, -1}

ASSUME OrderAssumption ==
  \A a \in Questions :
    /\ a.state \in Seq(DOMAIN StemOf)
    /\ TextsOK(a.question.instructions)
    /\ Listed(a.question.options)
    /\ \A k \in DOMAIN a.question.options :
         LET o == a.question.options[k]
         IN  Listed(o.name) /\ WordsKnown(o.name) /\ TextsOK(o.texts)

VARIABLES
  asked,       \* the pair that is read
  left,        \* the options not read yet
  ext,         \* the extension so far
  built        \* function: option -> its criterion

vars == <<asked, left, ext, built>>

Base == VocabOf(asked.state)
Options == asked.question.options
Instructed == ReadInstructions(Base, EmptyExt, asked.question.instructions).ext

OrderInit ==
  /\ asked \in Questions
  /\ left = DOMAIN Options
  /\ ext = Instructed
  /\ built = <<>>

(* The request lists option k next. *)
Build(k) ==
  /\ k \in left
  /\ left' = left \ {k}
  /\ \E r \in {BuildCriterion(Base, ext, FALSE, Options[k])} :
        /\ ext' = r.ext
        /\ built' = Filled(built, k, r.criterion)
  /\ UNCHANGED asked

OrderNext == \E k \in left : Build(k)
OrderSpec == OrderInit /\ [][OrderNext]_vars

-----------------------------------------------------------------------------
Ids == 1 .. Len(Base.terms) + Len(ext.terms)
Stem(id) == Info(Base, ext, id).stem

(* Types: every id stands for a term. *)
OrderTypeOK ==
  /\ left \cup DOMAIN built = DOMAIN Options
  /\ \A k \in DOMAIN built : LET c == built[k] IN
       /\ \A n \in DOMAIN c.terms : c.terms[n].term \in Ids /\ c.terms[n].polarity \in {1, -1}
       /\ \A n \in DOMAIN c.expanded : {c.expanded[n].term, c.expanded[n].from} \subseteq Ids
       /\ \A n \in DOMAIN c.antonyms : c.antonyms[n].term \in Ids
  /\ \A id \in DOMAIN ext.expansions : id \in Ids

(* One id per stem, whoever interned it, and every surface form resolves   *)
(* to the id of its stem: evidence from the state, the question and the    *)
(* lexical graph meets on the same ids (vocab.rs:127-175).                 *)
OneIdPerStem ==
  /\ \A a, b \in Ids : Stem(a) = Stem(b) => a = b
  /\ \A s \in DOMAIN ext.bySurface : Stem(ext.bySurface[s]) = StemOf[s]
  /\ \A s \in DOMAIN Base.bySurface : Stem(Base.bySurface[s]) = StemOf[s]

(* What a criterion says, with stems for ids. *)
Said(b, x, c) ==
  LET S(id) == Info(b, x, id).stem
  IN  [names |-> [n \in DOMAIN c.names |-> S(c.names[n])],
       terms |-> [n \in DOMAIN c.terms |-> [c.terms[n] EXCEPT !.term = S(@)]],
       expanded |-> [n \in DOMAIN c.expanded |->
                       [c.expanded[n] EXCEPT !.term = S(@), !.from = S(@)]],
       antonyms |-> [n \in DOMAIN c.antonyms |-> [c.antonyms[n] EXCEPT !.term = S(@)]]]

AllSaid(read) == [k \in DOMAIN read.criteria |-> Said(Base, read.ext, read.criteria[k])]

InRequestOrder ==
  AllSaid(FoldLeft(LAMBDA read, o : ReadOption(read, BuildCriterion(Base, read.ext, FALSE, o)),
                   [ext |-> Instructed, criteria |-> <<>>], Options))

(* docs/API.md:89-90 and tests/behavior.rs:280: an option says the same in *)
(* whatever order the options are listed.                                  *)
SameInEveryOrder ==
  left = {} => \A k \in DOMAIN built : Said(Base, ext, built[k]) = InRequestOrder[k]

(* The surface forms, with their stems, that reading the options may push: *)
(* their words, and the stems their expansions bring in.                   *)
WordsRead ==
  LET texts == UNION {Range(o.texts) : o \in Range(Options)}
      tokens == (UNION {Range(o.name) : o \in Range(Options)})
                  \cup (UNION {Range(text.tokens) : text \in texts})
  IN  {tok.word : tok \in tokens}

Pushed ==
  LET read == {<<StemOf[w], w>> : w \in WordsRead}
      related == UNION {Range(SynonymStems[p[1]]) \cup Range(AntonymStems[p[1]]) : p \in read}
  IN  read \cup {<<st, st>> : st \in related}

Known(st) == ExtKnows(Base, Instructed, st)

StemsAgree ==
  \A p, q \in Pushed :
    p[1] = q[1] /\ ~Known(p[1]) =>
      [Term(p[2], p[1]) EXCEPT !.surface = q[2]] = Term(q[2], q[1])

(* It does, if the forms of each stem that is new to the options agree in  *)
(* their flags and rarity: nothing else passes from an option to the next  *)
(* (analysis.rs:361-381, criteria.rs:493-775).                             *)
OrderMattersByFormsOnly == StemsAgree => SameInEveryOrder
=============================================================================
