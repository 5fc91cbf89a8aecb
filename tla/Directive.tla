----------------------------- MODULE Directive -----------------------------
(***************************************************************************)
(* Tokens of a segment, and is_directive of                                *)
(* crates/core/src/text/negation.rs: is the segment addressed to whoever   *)
(* reads it, rather than describing a situation?                           *)
(*                                                                         *)
(* The word lists are constants; the words the code spells out are spelled *)
(* out here.                                                               *)
(***************************************************************************)
EXTENDS Naturals, Sequences, FiniteSets

CONSTANTS
  Words,            \* tokens of kind Word
  Values,           \* the other tokens with content: numbers, amounts, dates
  ClauseMarks,      \* punctuation that ends a clause
  Marks,            \* every other token without content
  MetaImperatives,  \* META_IMPERATIVES
  MetaNouns         \* META_NOUNS

Tokens == Words \cup Values \cup ClauseMarks \cup Marks

WordsOf(ts) == LET IsWord(t) == t \in Words IN SelectSeq(ts, IsWord)
WordAt(ws, k) == IF k \in DOMAIN ws THEN ws[k] ELSE ""
MentionsIn(ws, range, S) == \E k \in DOMAIN ws \cap range : ws[k] \in S
Mentions(ws, S) == MentionsIn(ws, DOMAIN ws, S)
Follow(ws, A, B) == \E k \in DOMAIN ws : ws[k] \in A /\ WordAt(ws, k + 1) \in B

(* How many words a label before a colon takes, "note to the grader:", if  *)
(* the colon is among the first six tokens and the label names the reader. *)
LabelLength(ts) ==
  LET colons == {k \in DOMAIN ts : k <= 6 /\ ts[k] = ":"}
      colon == CHOOSE k \in colons : \A j \in colons : k <= j
      label == WordsOf(SubSeq(ts, 1, colon - 1))
  IN  IF colons # {} /\ Mentions(label, MetaNouns \cup {"note"}) THEN Len(label) ELSE 0

(* Imperative mood, in the vocabulary of evaluations. *)
MetaImperative(ts) ==
  LET ws == WordsOf(ts)
      n == LabelLength(ts)
      opener == WordAt(ws, n + 1)
      verb == IF opener \in {"please", "now", "just"} THEN WordAt(ws, n + 2) ELSE opener
  IN  \/ verb \in MetaImperatives
      \/ /\ MentionsIn(ws, n + 1 .. n + 3, MetaImperatives)
         /\ MentionsIn(ws, 1 .. n + 3, MetaNouns)

IsDirective(ts) ==
  LET ws == WordsOf(ts)
      imperative == MetaImperative(ts)
      meta == Mentions(ws, MetaNouns)
      previous == Follow(ws, {"previous", "above", "prior"},
                         {"question", "instructions", "instruction", "prompt"})
      regardless == Follow(ws, {"regardless"}, {"of"})
      correctIs == \E k \in DOMAIN ws :
        /\ ws[k] = "correct"
        /\ WordAt(ws, k + 1) \in
             {"answer", "option", "department", "label", "category", "choice", "team"}
        /\ WordAt(ws, k + 2) = "is"
      firstPerson == Mentions(ws, {"i", "my", "me", "we", "our", "us"})
  IN  \/ imperative /\ (meta \/ previous \/ regardless \/ ~firstPerson)
      \/ meta /\ (regardless \/ previous)
      \/ correctIs
=============================================================================
