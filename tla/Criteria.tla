------------------------------ MODULE Criteria ------------------------------
(***************************************************************************)
(* The terms of a question: QuestionView::build and Criterion::build of    *)
(* crates/core/src/question.  Instructions and options come as tokens with *)
(* the flags annotate gave them; building interns them, weighs them, and   *)
(* expands the positive ones, all in the one extension of the question.    *)
(*                                                                         *)
(* Weights are exact: rarities are in percent, factors in thousandths.     *)
(* Phrases, literals, ranges and character grams are left out.             *)
(***************************************************************************)
EXTENDS Vocabulary, Integers

Scopes == {"NEGATED", "HYPOTHETICAL", "REQUEST"}

(* A token is [word, flags], a text [tokens, polarity, factor], an option  *)
(* [name, texts]; only the options of a Choice have a name.                *)
QueryTerm(id, info, tok, polarity, isName, weight) ==
  [term |-> id, weight |-> weight, idf |-> info.idf, polarity |-> polarity,
   isName |-> isName, negated |-> "NEGATED" \in tok.flags,
   modality |-> tok.flags \cap {"HYPOTHETICAL", "REQUEST"}]

IsEvidence(info, tok) == ~info.func /\ "CUE" \notin tok.flags

First(S) == CHOOSE k \in S : \A j \in S : k <= j

-----------------------------------------------------------------------------
(* The terms of the question itself: a term met again keeps its first      *)
(* flags and its largest weight.                                           *)
AddToQuestion(terms, t) ==
  LET same == {k \in DOMAIN terms : terms[k].term = t.term}
  IN  IF same = {} THEN Append(terms, t)
      ELSE [terms EXCEPT ![First(same)].weight = Max({@, t.weight})]

ReadToken(b, text, acc, tok, interned) ==
  LET info == Info(b, interned.ext, interned.id)
      t == QueryTerm(interned.id, info, tok, 1, FALSE, Max({info.idf, 10}) * text.factor)
  IN  [ext |-> interned.ext,
       terms |-> IF IsEvidence(info, tok) /\ ~info.stop THEN AddToQuestion(acc.terms, t)
                 ELSE acc.terms]

ReadInstruction(b, acc, text) ==
  FoldLeft(LAMBDA a, tok : ReadToken(b, text, a, tok, ExtIntern(b, a.ext, tok.word)),
           acc, text.tokens)

ReadInstructions(b, x, texts) ==
  FoldLeft(LAMBDA acc, text : ReadInstruction(b, acc, text), [ext |-> x, terms |-> <<>>], texts)

-----------------------------------------------------------------------------
(* The terms of an option: one met again gains half the new weight, up to  *)
(* twice its rarity.                                                       *)
SameTerm(terms, t) ==
  {k \in DOMAIN terms :
     /\ terms[k].term = t.term
     /\ terms[k].polarity = t.polarity
     /\ terms[k].negated = t.negated}

Gained(old, t) ==
  [old EXCEPT
     !.weight = Min({@ + t.weight \div 2, 2000 * old.idf}),
     !.modality = @ \cup t.modality,
     !.isName = @ \/ t.isName]

PushTerm(terms, t) ==
  LET same == SameTerm(terms, t)
  IN  IF same = {} THEN Append(terms, t)
      ELSE [terms EXCEPT ![First(same)] = Gained(@, t)]

NameToken(b, acc, tok, interned) ==
  LET info == Info(b, interned.ext, interned.id)
      factor == IF info.stop THEN 275 ELSE 1100
      t == QueryTerm(interned.id, info, tok, 1, TRUE, Max({info.idf, 15}) * factor)
  IN  IF ~IsEvidence(info, tok) THEN [acc EXCEPT !.ext = interned.ext]
      ELSE [ext |-> interned.ext, terms |-> PushTerm(acc.terms, t),
            names |-> Append(acc.names, interned.id)]

(* The two hypotheses of a Noul have no use for stop words. *)
TextToken(b, hypothesis, text, acc, tok, interned) ==
  LET info == Info(b, interned.ext, interned.id)
      factor == IF info.stop THEN (text.factor * 3) \div 10 ELSE text.factor
      t == QueryTerm(interned.id, info, tok, text.polarity, FALSE, Max({info.idf, 10}) * factor)
  IN  IF ~IsEvidence(info, tok) \/ (info.stop /\ hypothesis)
      THEN [acc EXCEPT !.ext = interned.ext]
      ELSE [acc EXCEPT !.ext = interned.ext, !.terms = PushTerm(@, t)]

(* Synonyms and antonyms of the terms that count for the option, unless    *)
(* they are its own terms.                                                 *)
PushRelated(own, list, entry) ==
  IF \E k \in DOMAIN own : own[k].term = entry.term THEN list ELSE Append(list, entry)

PushSynonyms(own, list, t, ids) ==
  FoldLeft(LAMBDA l, id : PushRelated(own, l, [term |-> id, weight |-> (t.weight * 6) \div 10,
                                               from |-> t.term]),
           list, ids)

PushAntonyms(own, list, t, ids) ==
  FoldLeft(LAMBDA l, id : PushRelated(own, l, [term |-> id, weight |-> t.weight]), list, ids)

(* Mutant: a term expanded for an earlier option is not expanded again. *)
ExpandTermOnce(own, acc, t, e) ==
  IF t.term \in DOMAIN acc.ext.expansions THEN acc
  ELSE [acc EXCEPT !.ext = e.ext,
                   !.expanded = PushSynonyms(own, @, t, e.expansion.synonyms)]

ExpandTerm(own, acc, t, e) ==
  [ext |-> e.ext,
   expanded |-> PushSynonyms(own, acc.expanded, t, e.expansion.synonyms),
   antonyms |-> PushAntonyms(own, acc.antonyms, t, e.expansion.antonyms)]

Expandable(b, x, t) == t.polarity > 0 /\ ~t.negated /\ ~Info(b, x, t.term).stop

(* Criterion::build: the name, the texts, then the expansion. *)
ReadName(b, x, name) ==
  FoldLeft(LAMBDA acc, tok : NameToken(b, acc, tok, ExtIntern(b, acc.ext, tok.word)),
           [ext |-> x, terms |-> <<>>, names |-> <<>>], name)

ReadText(b, hypothesis, acc, text) ==
  FoldLeft(LAMBDA a, tok : TextToken(b, hypothesis, text, a, tok, ExtIntern(b, a.ext, tok.word)),
           acc, text.tokens)

ReadTexts(b, named, hypothesis, texts) ==
  FoldLeft(LAMBDA acc, text : ReadText(b, hypothesis, acc, text), named, texts)

WidenBy(b, read, acc, t) ==
  IF Expandable(b, read.ext, t)
  THEN ExpandTerm(read.terms, acc, t, Expansion(b, acc.ext, t.term))
  ELSE acc

Widen(b, read) ==
  FoldLeft(LAMBDA acc, t : WidenBy(b, read, acc, t),
           [ext |-> read.ext, expanded |-> <<>>, antonyms |-> <<>>], read.terms)

Built(read, wide) ==
  [ext |-> wide.ext,
   criterion |-> [names |-> read.names, terms |-> read.terms,
                  expanded |-> wide.expanded, antonyms |-> wide.antonyms]]

Widened(b, read) == Built(read, Widen(b, read))

BuildCriterion(b, x, hypothesis, option) ==
  Widened(b, ReadTexts(b, ReadName(b, x, option.name), hypothesis, option.texts))

(* The terms of a Noul question are evidence for both hypotheses, negated  *)
(* for the second one.                                                     *)
Proposed(criterion, terms, flip) ==
  LET new == SelectSeq(terms, LAMBDA t : \A k \in DOMAIN criterion.terms :
                                           criterion.terms[k].term # t.term)
  IN  [criterion EXCEPT !.terms = @ \o
         [k \in DOMAIN new |-> [new[k] EXCEPT !.negated = (flip # @)]]]
=============================================================================
