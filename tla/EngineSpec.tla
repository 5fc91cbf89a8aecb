---------------------------- MODULE EngineSpec ----------------------------
(***************************************************************************)
(* What Engine::evaluate promises its callers (docs/API.md, "Answers are   *)
(* deterministic and independent of other questions in the request"): a    *)
(* call returns, in one step and exactly once, the answer of every         *)
(* question as the question would be answered alone, in request order; or  *)
(* the validation error; or it panics, and only if one of its own          *)
(* questions does.                                                         *)
(***************************************************************************)
EXTENDS Naturals

CONSTANTS
  Calls,      \* concurrent calls of evaluate
  Requests,   \* requests a call may be made with: what validation says of them
              \* (200, or the status of the error), their state and questions
  AnswerAlone(_, _)   \* the answer of a question asked alone about a state

VARIABLES
  asked,      \* function: call -> the request it was made with, or NoRequest
  reply       \* function: call -> its outcome, or NoReply

NoRequest == [verdict |-> 0]
NoReply == [kind |-> "none"]
Invalid(status) == [kind |-> "invalid", status |-> status]
Panicked == [kind |-> "panicked"]
Answered(seq) == [kind |-> "answered", answers |-> seq]

(* The answers of each request, every question asked alone. *)
AnswersAlone ==
  [r \in Requests |-> [k \in DOMAIN r.questions |-> AnswerAlone(r.state, r.questions[k])]]

Outcome(r) ==
  IF r.verdict # 200 THEN {Invalid(r.verdict)}
  ELSE IF \E k \in DOMAIN r.questions : r.questions[k].panics THEN {Panicked}
  ELSE {Answered([k \in DOMAIN r.questions |->
                   <<r.questions[k].id, AnswersAlone[r][k]>>])}

-----------------------------------------------------------------------------
Init ==
  /\ asked = [c \in Calls |-> NoRequest]
  /\ reply = [c \in Calls |-> NoReply]

Ask(c, r) ==
  /\ asked[c] = NoRequest
  /\ asked' = [asked EXCEPT ![c] = r]
  /\ UNCHANGED reply

Return(c) ==
  /\ asked[c] # NoRequest
  /\ reply[c] = NoReply
  /\ \E o \in Outcome(asked[c]) : reply' = [reply EXCEPT ![c] = o]
  /\ UNCHANGED asked

Next == \E c \in Calls : Return(c) \/ \E r \in Requests : Ask(c, r)

vars == <<asked, reply>>
EveryCallReturns == \A c \in Calls : (asked[c] # NoRequest) ~> (reply[c] # NoReply)
Spec == Init /\ [][Next]_vars /\ EveryCallReturns
=============================================================================
