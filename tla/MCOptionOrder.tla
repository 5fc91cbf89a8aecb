--------------------------- MODULE MCOptionOrder ---------------------------
(***************************************************************************)
(* Choices of three options out of a pool that shares stems, synonyms and  *)
(* antonyms, names and stop words, after three instructions, over three    *)
(* states.  "owning", a content word, and the function word "own" share a  *)
(* stem, and so do the rare "lately" and the stop word "late".             *)
(***************************************************************************)
EXTENDS OptionOrder

MCStems == {"own", "refund", "repay", "late", "keep", "bill", "other"}
MCStemOf == [w \in MCStems \cup {"owning", "lately", "bills"} |->
  CASE w = "owning" -> "own" [] w = "lately" -> "late" [] w = "bills" -> "bill" [] OTHER -> w]
MCFunctionWords == {"own"}
MCStopWords == {"late"}
MCIdf(st, surface) == CASE st = "bill" -> 3 [] surface = "lately" -> 100 [] OTHER -> 60
MCSynonymStems ==
  [s \in MCStems |-> CASE s = "refund" -> <<"repay", "refund", "keep">>
                       [] s = "repay"  -> <<"refund">>
                       [] s = "keep"   -> <<"own">>
                       [] OTHER        -> <<>>]
MCAntonymStems ==
  [s \in MCStems |-> CASE s = "refund" -> <<"keep", "bill">> [] s = "bill" -> <<"repay">>
                       [] OTHER -> <<>>]

Plain(w) == [word |-> w, flags |-> {}]
Negated(w) == [word |-> w, flags |-> {"NEGATED"}]
Text(tokens, polarity, factor) == [tokens |-> tokens, polarity |-> polarity, factor |-> factor]
Option(name, texts) == [name |-> name, texts |-> texts]

Pool ==
  {Option(<<Plain("refund")>>, <<Text(<<Plain("bills"), Plain("refund")>>, 1, 1000)>>),
   Option(<<Plain("bill"), Plain("bills")>>, <<Text(<<Plain("repay")>>, -1, 600)>>),
   Option(<<Plain("keep")>>, <<Text(<<Negated("refund"), Plain("repay")>>, 1, 1000)>>),
   Option(<<Plain("other")>>, <<Text(<<Plain("repay"), Plain("keep")>>, 1, 800)>>),
   Option(<<Plain("owning")>>, <<Text(<<Plain("lately")>>, 1, 1000)>>),
   Option(<<Plain("late")>>, <<Text(<<[word |-> "refund", flags |-> {"CUE"}]>>, 1, 1000)>>)}

Instructions == {<<>>, <<Text(<<Plain("lately"), Plain("owning")>>, 1, 1000)>>}

MCQuestions ==
  {[state |-> state,
    question |-> [kind |-> "choice", instructions |-> ins, options |-> <<a, b, c>>]] :
   state \in {<<>>, <<"bills">>, <<"late", "keep">>}, ins \in Instructions,
   <<a, b, c>> \in {p \in Pool \X Pool \X Pool : Cardinality({p[1], p[2], p[3]}) = 3}}

Done == left = {} /\ UNCHANGED vars
MCSpec == OrderInit /\ [][OrderNext \/ Done]_vars
=============================================================================
