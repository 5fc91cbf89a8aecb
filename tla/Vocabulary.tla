---------------------------- MODULE Vocabulary ----------------------------
(***************************************************************************)
(* Term interning, crates/core/src/state/vocab.rs.                         *)
(*                                                                         *)
(* A vocabulary is built once per request from the state.  Every question  *)
(* then reads it through a private extension, so that questions can run in *)
(* parallel without locks.  A term is identified by its position: the code *)
(* numbers terms from 0, the model from 1.                                 *)
(*                                                                         *)
(* The map stem -> id of the code is the inverse of the sequence of terms  *)
(* (every push writes both), so it is not kept as a second value; the map  *)
(* surface -> id is a cache of its own and is kept.                        *)
(***************************************************************************)
EXTENDS Naturals, Sequences, SequencesExt, FiniteSets

CONSTANTS
  StemOf,          \* function: every surface form and every stem to its stem
  FunctionWords,   \* the surface forms text/stem.rs lists as function words
  StopWords,       \* the surface forms and stems it lists as stop words
  SynonymStems,    \* function: stem -> sequence of stems (the lexical graph)
  AntonymStems,    \* function: stem -> sequence of stems
  Idf(_, _),       \* rarity of a stem, as introduced by a surface, in percent
  MaxSynonyms,     \* bound on the synonyms looked at (12 in the code)
  MaxAntonyms      \* bound on the antonyms looked at (6 in the code)

(* Every surface form has a stem, and the lexical graph answers for every  *)
(* stem, with an empty list if it has nothing to say.                      *)
Stems == DOMAIN SynonymStems

ASSUME VocabularyAssumption ==
  /\ MaxSynonyms \in Nat
  /\ MaxAntonyms \in Nat
  /\ StemOf \in [DOMAIN StemOf -> Stems]
  /\ SynonymStems \in [Stems -> Seq(Stems)]
  /\ AntonymStems \in [Stems -> Seq(Stems)]

-----------------------------------------------------------------------------
(* What the code stores for a term: flags and rarity come from the surface *)
(* form that introduced the stem, not from the one looked up later.        *)
Term(surface, st) ==
  [stem |-> st,
   surface |-> surface,
   idf |-> Idf(st, surface),
   stop |-> surface \in StopWords \/ st \in StopWords,
   func |-> surface \in FunctionWords]

HasStem(terms, st) == \E id \in DOMAIN terms : terms[id].stem = st
StemId(terms, st) == CHOOSE id \in DOMAIN terms : terms[id].stem = st

(* A map with one more entry, or with another value for a key.             *)
Filled(f, k, v) == [x \in DOMAIN f \cup {k} |-> IF x = k THEN v ELSE f[x]]

EmptyVocab == [terms |-> <<>>, bySurface |-> <<>>]

(* Vocab::intern: the vocabulary after interning, and the id. *)
Intern(v, s) ==
  LET st == StemOf[s]
      id == IF HasStem(v.terms, st) THEN StemId(v.terms, st) ELSE Len(v.terms) + 1
  IN  IF s \in DOMAIN v.bySurface
      THEN [vocab |-> v, id |-> v.bySurface[s]]
      ELSE [vocab |->
              [terms |-> IF HasStem(v.terms, st) THEN v.terms
                         ELSE Append(v.terms, Term(s, st)),
               bySurface |-> Filled(v.bySurface, s, id)],
            id |-> id]

(* The vocabulary of a state: its tokens interned in document order. *)
VocabOf(tokens) == FoldLeft(LAMBDA v, s : Intern(v, s).vocab, EmptyVocab, tokens)

-----------------------------------------------------------------------------
(* A private extension.  Its ids start after those of the base. *)
EmptyExt == [terms |-> <<>>, bySurface |-> <<>>, expansions |-> <<>>]

InState(base, id) == id <= Len(base.terms)

Info(base, x, id) ==
  IF InState(base, id) THEN base.terms[id] ELSE x.terms[id - Len(base.terms)]

(* The id a stem has, or would get by being pushed. *)
ExtStemId(base, x, st) ==
  IF HasStem(base.terms, st) THEN StemId(base.terms, st)
  ELSE IF HasStem(x.terms, st) THEN Len(base.terms) + StemId(x.terms, st)
  ELSE Len(base.terms) + Len(x.terms) + 1

(* Mutant: the base is not asked. *)
ExtKnowsLocal(base, x, st) == HasStem(x.terms, st)

ExtKnows(base, x, st) == HasStem(base.terms, st) \/ HasStem(x.terms, st)

(* VocabExt::intern: base surface, local surface, base stem, local stem,   *)
(* and only then a new local term.                                         *)
ExtIntern(base, x, s) ==
  LET st == StemOf[s]
      id == ExtStemId(base, x, st)
  IN  IF s \in DOMAIN base.bySurface THEN [ext |-> x, id |-> base.bySurface[s]]
      ELSE IF s \in DOMAIN x.bySurface THEN [ext |-> x, id |-> x.bySurface[s]]
      ELSE [ext |-> [x EXCEPT
              !.terms = IF ExtKnows(base, x, st) THEN @ ELSE Append(@, Term(s, st)),
              !.bySurface = Filled(@, s, id)],
            id |-> id]

(* Mutant: a new stem gets an id and no entry. *)
ExtInternStemUnpushed(base, x, st) == [ext |-> x, id |-> ExtStemId(base, x, st)]

(* VocabExt::intern_stem: the argument is already a stem. *)
ExtInternStem(base, x, st) ==
  [ext |-> IF ExtKnows(base, x, st) THEN x
           ELSE [x EXCEPT !.terms = Append(@, Term(st, st))],
   id |-> ExtStemId(base, x, st)]

(* One related stem of a term: interned, and kept when it is another term  *)
(* that is not in the list yet.                                            *)
Relate(id, acc, interned) ==
  [ext |-> interned.ext,
   ids |-> IF interned.id = id \/ Contains(acc.ids, interned.id) THEN acc.ids
           ELSE Append(acc.ids, interned.id)]

RelateAll(base, x, id, stems) ==
  FoldLeft(LAMBDA acc, st : Relate(id, acc, ExtInternStem(base, acc.ext, st)),
           [ext |-> x, ids |-> <<>>], stems)

Take(s, n) == SubSeq(s, 1, IF Len(s) < n THEN Len(s) ELSE n)

(* VocabExt::expansion: synonyms, then antonyms, computed once per term. *)
Synonyms(base, x, id) ==
  RelateAll(base, x, id, Take(SynonymStems[Info(base, x, id).stem], MaxSynonyms))
Antonyms(base, x, id) ==
  RelateAll(base, x, id, Take(AntonymStems[Info(base, x, id).stem], MaxAntonyms))

Remember(id, synonyms, antonyms) ==
  LET e == [synonyms |-> synonyms, antonyms |-> antonyms.ids]
  IN  [ext |-> [antonyms.ext EXCEPT !.expansions = Filled(@, id, e)], expansion |-> e]

Expand(base, id, syn) == Remember(id, syn.ids, Antonyms(base, syn.ext, id))

Expansion(base, x, id) ==
  IF id \in DOMAIN x.expansions THEN [ext |-> x, expansion |-> x.expansions[id]]
  ELSE Expand(base, id, Synonyms(base, x, id))
=============================================================================
