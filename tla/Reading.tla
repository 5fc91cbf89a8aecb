------------------------------ MODULE Reading ------------------------------
(***************************************************************************)
(* What the engine reads out of a question, part by part: the instructions *)
(* first, then its options (the levels of a Score, the two hypotheses of a *)
(* Noul) in request order, all in the question's own extension of the      *)
(* vocabulary of the state.  Everything that follows in answer_question    *)
(* (features, fusion, calibration) is a function of this evidence and of   *)
(* the state's index, so the evidence stands for the answer.               *)
(***************************************************************************)
EXTENDS Criteria

NothingRead == [ext |-> EmptyExt, terms |-> <<>>, criteria |-> <<>>]

Parts(question) == 1 + Len(question.options)

ReadOption(read, built) ==
  [read EXCEPT !.ext = built.ext, !.criteria = Append(@, built.criterion)]

ReadTerms(read, r) == [read EXCEPT !.ext = r.ext, !.terms = r.terms]

ReadPart(b, question, read, n) ==
  IF n = 1 THEN ReadTerms(read, ReadInstructions(b, read.ext, question.instructions))
  ELSE ReadOption(read, BuildCriterion(b, read.ext, question.kind = "noul",
                                       question.options[n - 1]))

Evidence(question, read) ==
  [terms |-> read.terms,
   criteria |-> IF question.kind = "noul"
                THEN [k \in DOMAIN read.criteria |->
                        Proposed(read.criteria[k], read.terms, k = 2)]
                ELSE read.criteria]

(* The answer of a question asked alone about a state. *)
AnswerAlone(state, question) ==
  Evidence(question,
           FoldLeft(LAMBDA read, n : ReadPart(VocabOf(state), question, read, n),
                    NothingRead, [n \in 1 .. Parts(question) |-> n]))
=============================================================================
