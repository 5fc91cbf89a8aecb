------------------------------ MODULE Validate ------------------------------
(***************************************************************************)
(* validate_request of crates/core/src/api/validate.rs: the first problem  *)
(* of a request, in the order the code looks for them.                     *)
(*                                                                         *)
(* A request is [model, state, questions]; a question [id, kind,           *)
(* instructions, criteria]: entries of JSON values for a Choice, JSON      *)
(* values for a Score, and at most two for a Noul.                         *)
(***************************************************************************)
EXTENDS Json

CONSTANTS
  KnownModels,
  Limit        \* the Limits, by name

ASSUME ValidateAssumption ==
  /\ DOMAIN Limit = {"questions", "minOptions", "maxOptions", "minLevels", "maxLevels",
                     "stateBytes", "questionBytes", "depth", "keyBytes", "leaves"}
  /\ \A l \in DOMAIN Limit : Limit[l] \in Nat
  /\ Limit.depth < DepthLimit

Problem(status, field) == [status |-> status, field |-> field]
Invalid(field) == Problem(422, field)
TooLarge == Problem(413, <<>>)
NoProblem == Problem(0, <<>>)

(* Checks are pairs of what is wrong and the problem it makes.             *)
FirstProblem(checks) ==
  LET failed == Chosen(checks, {k \in DOMAIN checks : checks[k][1]})
  IN  IF failed = <<>> THEN NoProblem ELSE failed[1][2]

EntryChecks(v, field) ==
  <<<<Depth(v) > Limit.depth, Invalid(field)>>,
    <<ApproxBytes(v) > Limit.questionBytes, Invalid(field)>>>>

AllEntryChecks(values, field) ==
  FlattenSeq([k \in DOMAIN values |-> EntryChecks(values[k], field)])

CriteriaChecks(q, at) ==
  CASE q.kind = "noul" ->
         AllEntryChecks(q.criteria, at)
         \o <<<<q.instructions = Null /\ q.criteria = <<>>, Invalid(<<"instructions">>)>>>>
    [] q.kind = "choice" ->
         <<<<Len(q.criteria) < Limit.minOptions, Invalid(at)>>,
           <<Len(q.criteria) > Limit.maxOptions, Invalid(at)>>>>
         \o FlattenSeq([k \in DOMAIN q.criteria |->
              <<<<q.criteria[k].key = <<>>, Invalid(at)>>,
                <<Bytes(q.criteria[k].key) > Limit.keyBytes, Invalid(at)>>>>
              \o EntryChecks(q.criteria[k].value, at)])
    [] q.kind = "score" ->
         <<<<Len(q.criteria) < Limit.minLevels, Invalid(at)>>,
           <<Len(q.criteria) > Limit.maxLevels, Invalid(at)>>>>
         \o AllEntryChecks(q.criteria, at)

QuestionChecks(q) ==
  <<<<q.id = <<>>, Invalid(<<"questions">>)>>,
    <<Bytes(q.id) > Limit.keyBytes, Invalid(<<"questions">>)>>>>
  \o EntryChecks(q.instructions, <<"instructions">>)
  \o CriteriaChecks(q, <<"criteria">>)

StateChecks(state) ==
  <<<<state.type \notin {"text", "object", "array"}, Invalid(<<"state">>)>>,
    <<Depth(state) > Limit.depth, Invalid(<<"state">>)>>,
    <<ApproxBytes(state) > Limit.stateBytes, TooLarge>>,
    <<Leaves(state) > Limit.leaves, TooLarge>>>>

Verdict(req) ==
  FirstProblem(
    <<<<req.model = "", Invalid(<<"model">>)>>,
      <<req.model \notin KnownModels, Problem(404, <<"model">>)>>>>
    \o StateChecks(req.state)
    \o <<<<req.questions = <<>>, Invalid(<<"questions">>)>>,
         <<Len(req.questions) > Limit.questions, Invalid(<<"questions">>)>>>>
    \o FlattenSeq([k \in DOMAIN req.questions |-> QuestionChecks(req.questions[k])]))
=============================================================================
