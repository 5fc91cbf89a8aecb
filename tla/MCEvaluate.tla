---------------------------- MODULE MCEvaluate ----------------------------
(***************************************************************************)
(* A small instance of Evaluate.  Words and stems are strings; "owned" and *)
(* the function word "own" share a stem, "refund" has a synonym that only  *)
(* questions bring in, so that two questions that are read at once push    *)
(* the same new terms to their extensions in different orders.             *)
(***************************************************************************)
EXTENDS Evaluate

MCStems == {"own", "refund", "repay", "late"}
MCStemOf == [w \in MCStems \cup {"owned"} |-> IF w = "owned" THEN "own" ELSE w]
MCFunctionWords == {"own"}
MCStopWords == {"late"}
MCIdf(st, surface) == IF st = "late" THEN 20 ELSE 60
MCSynonymStems ==
  [s \in MCStems |-> IF s = "refund" THEN <<"repay", "refund">>
                     ELSE IF s = "repay" THEN <<"refund", "own">> ELSE <<>>]
MCAntonymStems == [s \in MCStems |-> IF s = "refund" THEN <<"late">> ELSE <<>>]

Text(words) == [tokens |-> [k \in DOMAIN words |-> [word |-> words[k], flags |-> {}]],
                polarity |-> 1, factor |-> 1000]
Option(name, words) == [name |-> Text(name).tokens, texts |-> <<Text(words)>>]
Question_(id, kind, options) ==
  [id |-> id, kind |-> kind, panics |-> FALSE, instructions |-> <<Text(<<"late">>)>>,
   options |-> options]
Q(id, options) == Question_(id, "choice", options)
Noul(id, yes, no) == Question_(id, "noul", <<Option(<<>>, yes), Option(<<>>, no)>>)
Bad(id) == [Q(id, <<Option(<<"late">>, <<>>)>>) EXCEPT !.panics = TRUE]
Request(state, questions) == [verdict |-> 200, state |-> state, questions |-> questions]

MCRequests ==
  {Request(<<"late">>, <<Q("q1", <<Option(<<"refund">>, <<"owned">>), Option(<<"own">>, <<"repay">>)>>),
                         Q("q2", <<Option(<<"own">>, <<>>), Option(<<"owned">>, <<"refund">>)>>)>>),
   Request(<<"own">>, <<Noul("q1", <<"owned">>, <<"late">>), Bad("q2"),
                        Noul("q3", <<"refund">>, <<>>)>>),
   Request(<<"refund">>, <<Noul("q1", <<"repay">>, <<"refund">>)>>),
   [verdict |-> 404, state |-> <<>>, questions |-> <<Bad("q1")>>]}

Done == \A c \in Calls : stage[c] = "done"
Terminating == Done /\ UNCHANGED engineVars

MCNext == EvalNext \/ Terminating
MCSpec == EvalInit /\ [][MCNext]_engineVars /\ EngineFairness
=============================================================================
