----------------------------- MODULE Evaluate -----------------------------
(***************************************************************************)
(* Engine::evaluate, crates/core/src/engine.rs: validate the request,      *)
(* index the state once, answer the questions in parallel on the engine's  *)
(* rayon pool, assemble the answers in request order.                      *)
(*                                                                         *)
(* Several calls run at once (the server makes each on a blocking thread   *)
(* of its own) and share the one pool.  A call with at most one question   *)
(* answers it on the calling thread.  A question is read part by part, one *)
(* step each, so that questions of one request and of different requests   *)
(* interleave between the options they read.                               *)
(***************************************************************************)
EXTENDS Reading

CONSTANTS
  Calls,      \* concurrent calls of evaluate
  Requests,   \* requests a call may be made with (see EngineSpec)
  Workers     \* the threads of the engine's pool (config.threads)

(* No thread is both a pool's and a caller's; validation finds a request   *)
(* good, its model unknown, its size too large, or something invalid       *)
(* (api/error.rs); the options of a question are a list.                   *)
ASSUME EvaluateAssumption ==
  /\ Workers # {}
  /\ Workers \cap Calls = {}
  /\ \A r \in Requests : r.verdict \in {200, 404, 413, 422}
  /\ \A r \in Requests : \A k \in DOMAIN r.questions : Len(r.questions[k].options) \in Nat

VARIABLES
  request,   \* function: call -> the request it was made with, or NoRequest
  result,    \* function: call -> what the call returned, or NoReply
  stage,     \* function: call -> where its caller is
  base,      \* function: call -> the vocabulary of its state
  todo,      \* function: call -> questions nobody has taken
  slot,      \* function: call -> answers computed so far, by question
  thread     \* function: thread -> the question it is on, or Idle

Engine == INSTANCE EngineSpec WITH asked <- request, reply <- result
NoRequest == Engine!NoRequest

Threads == Workers \cup Calls
Stages == {"idle", "validate", "index", "inline", "pool", "unwind", "done"}

Idle == [call |-> "none"]
Task(c, k, n, r) == [call |-> c, question |-> k, next |-> n, read |-> r]
Busy(t) == thread[t] # Idle
Question(c, k) == request[c].questions[k]
Answered(c) == DOMAIN slot[c]
Working(c) == {t \in Threads : Busy(t) /\ thread[t].call = c}

engineVars == <<request, result, stage, base, todo, slot, thread>>

-----------------------------------------------------------------------------
EvalInit ==
  /\ request = [c \in Calls |-> NoRequest]
  /\ result = [c \in Calls |-> Engine!NoReply]
  /\ stage = [c \in Calls |-> "idle"]
  /\ base = [c \in Calls |-> EmptyVocab]
  /\ todo = [c \in Calls |-> {}]
  /\ slot = [c \in Calls |-> <<>>]
  /\ thread = [t \in Threads |-> Idle]

Goto(c, s) == stage' = [stage EXCEPT ![c] = s]

(* The call is made. *)
Call(c, r) ==
  /\ stage[c] = "idle"
  /\ request' = [request EXCEPT ![c] = r]
  /\ Goto(c, "validate")
  /\ UNCHANGED <<result, base, todo, slot, thread>>

(* validate_request: the first problem found ends the call. *)
Validate(c) ==
  /\ stage[c] = "validate"
  /\ \/ /\ request[c].verdict = 200
        /\ Goto(c, "index")
        /\ UNCHANGED result
     \/ /\ request[c].verdict # 200
        /\ Goto(c, "done")
        /\ result' = [result EXCEPT ![c] = Engine!Invalid(request[c].verdict)]
  /\ UNCHANGED <<request, base, todo, slot, thread>>

(* Mutant: question numbers from zero. *)
BuildIndexFromZero(c) ==
  /\ stage[c] = "index"
  /\ base' = [base EXCEPT ![c] = VocabOf(request[c].state)]
  /\ todo' = [todo EXCEPT ![c] = 0 .. Len(request[c].questions)]
  /\ Goto(c, IF Len(request[c].questions) <= 1 THEN "inline" ELSE "pool")
  /\ UNCHANGED <<request, result, slot, thread>>

(* StateIndex::build, once per call.  At most one question is answered on  *)
(* the calling thread; more are handed to the pool, and the caller blocks  *)
(* until the last one is answered.                                         *)
BuildIndex(c) ==
  /\ stage[c] = "index"
  /\ base' = [base EXCEPT ![c] = VocabOf(request[c].state)]
  /\ todo' = [todo EXCEPT ![c] = DOMAIN request[c].questions]
  /\ Goto(c, IF Len(request[c].questions) <= 1 THEN "inline" ELSE "pool")
  /\ UNCHANGED <<request, result, slot, thread>>

-----------------------------------------------------------------------------
(* Which thread may answer questions of which call. *)
Serves(t, c) ==
  \/ t = c /\ stage[c] = "inline"
  \/ t \in Workers /\ stage[c] \in {"pool", "unwind"}

(* Mutant: the question stays in the queue. *)
TakeQuestionKeepingIt(t, c, k) ==
  /\ ~Busy(t)
  /\ Serves(t, c)
  /\ k \in todo[c]
  /\ thread' = [thread EXCEPT ![t] = Task(c, k, 1, NothingRead)]
  /\ UNCHANGED <<request, result, stage, base, todo, slot>>

(* Mutant: one extension for all the questions of a call. *)
TakeQuestionSharedExt(t, c, k) ==
  /\ ~Busy(t)
  /\ Serves(t, c)
  /\ k \in todo[c]
  /\ todo' = [todo EXCEPT ![c] = @ \ {k}]
  /\ \E x \in {EmptyExt} \cup {thread[u].read.ext : u \in Working(c)} :
       thread' = [thread EXCEPT ![t] = Task(c, k, 1, [NothingRead EXCEPT !.ext = x])]
  /\ UNCHANGED <<request, result, stage, base, slot>>

(* A thread takes a question: QuestionView::build starts with an extension *)
(* of its own.                                                             *)
TakeQuestion(t, c, k) ==
  /\ ~Busy(t)
  /\ Serves(t, c)
  /\ k \in todo[c]
  /\ todo' = [todo EXCEPT ![c] = @ \ {k}]
  /\ thread' = [thread EXCEPT ![t] = Task(c, k, 1, NothingRead)]
  /\ UNCHANGED <<request, result, stage, base, slot>>

(* It reads the next part of the question. *)
Read(t) ==
  /\ Busy(t)
  /\ LET j == thread[t]
         q == Question(j.call, j.question)
     IN  /\ j.next <= Parts(q)
         /\ thread' = [thread EXCEPT ![t] =
              Task(j.call, j.question, j.next + 1,
                   ReadPart(base[j.call], q, j.read, j.next))]
  /\ UNCHANGED <<request, result, stage, base, todo, slot>>

AllRead(t) ==
  Busy(t) /\ thread[t].next > Parts(Question(thread[t].call, thread[t].question))

(* All read: the answer goes to the question's place in the result. *)
Finish(t) ==
  /\ AllRead(t)
  /\ LET j == thread[t]
         q == Question(j.call, j.question)
     IN  /\ ~q.panics
         /\ slot' = [slot EXCEPT ![j.call] = Filled(@, j.question, Evidence(q, j.read))]
  /\ thread' = [thread EXCEPT ![t] = Idle]
  /\ UNCHANGED <<request, result, stage, base, todo>>

(* A panic while answering unwinds the task; rayon keeps it for the thread *)
(* that waits in install, and its worker goes on.                          *)
Panic(t) ==
  /\ AllRead(t)
  /\ Question(thread[t].call, thread[t].question).panics
  /\ Goto(thread[t].call, "unwind")
  /\ thread' = [thread EXCEPT ![t] = Idle]
  /\ UNCHANGED <<request, result, base, todo, slot>>

(* While a panic unwinds, questions not yet taken may be given up. *)
GiveUp(c, k) ==
  /\ stage[c] = "unwind"
  /\ k \in todo[c]
  /\ todo' = [todo EXCEPT ![c] = @ \ {k}]
  /\ UNCHANGED <<request, result, stage, base, slot, thread>>

-----------------------------------------------------------------------------
(* The caller resumes when no question of the call is waiting or running.  *)
Settled(c) == todo[c] = {} /\ Working(c) = {}

(* Mutant: the answers are paired with the ids from the other end. *)
AssembleReversed(c) ==
  /\ stage[c] \in {"inline", "pool"}
  /\ Settled(c)
  /\ LET n == Len(request[c].questions)
     IN  result' = [result EXCEPT ![c] =
           Engine!Answered([k \in 1 .. n |-> <<Question(c, k).id, slot[c][n + 1 - k]>>])]
  /\ Goto(c, "done")
  /\ UNCHANGED <<request, base, todo, slot, thread>>

(* The answers are paired with the question ids in request order. *)
Assemble(c) ==
  /\ stage[c] \in {"inline", "pool"}
  /\ Settled(c)
  /\ result' = [result EXCEPT ![c] =
       Engine!Answered([k \in DOMAIN request[c].questions |-> <<Question(c, k).id, slot[c][k]>>])]
  /\ Goto(c, "done")
  /\ UNCHANGED <<request, base, todo, slot, thread>>

(* The panic resumes on the calling thread. *)
Resume(c) ==
  /\ stage[c] = "unwind"
  /\ Settled(c)
  /\ result' = [result EXCEPT ![c] = Engine!Panicked]
  /\ Goto(c, "done")
  /\ UNCHANGED <<request, base, todo, slot, thread>>

-----------------------------------------------------------------------------
CallerStep(c) ==
  \/ Validate(c)
  \/ BuildIndex(c)
  \/ Assemble(c)
  \/ Resume(c)

TakeAny(t) == \E c \in Calls : \E k \in todo[c] : TakeQuestion(t, c, k)
ThreadStep(t) == TakeAny(t) \/ Read(t) \/ Finish(t) \/ Panic(t)
GiveUpAny(c) == \E k \in todo[c] : GiveUp(c, k)

EngineStep ==
  \/ \E c \in Calls : CallerStep(c) \/ GiveUpAny(c)
  \/ \E t \in Threads : ThreadStep(t)

EvalNext == EngineStep \/ \E c \in Calls, r \in Requests : Call(c, r)

(* When a caller, or a thread, has something to do. *)
CallerReady(c) ==
  \/ stage[c] \in {"validate", "index"}
  \/ stage[c] \in {"inline", "pool", "unwind"} /\ Settled(c)

ThreadReady(t) ==
  \/ Busy(t)
  \/ \E c \in Calls : Serves(t, c) /\ todo[c] # {}

(* Threads run: a caller goes on with its own work, and a pool thread that *)
(* stays able to take or continue a question does.  This is weak fairness  *)
(* with ENABLED spelled out (TLC evaluates ENABLED of Read very slowly).   *)
EngineFairness ==
  /\ \A c \in Calls :
       []<>~CallerReady(c) \/ []<><<CallerStep(c)>>_engineVars
  /\ \A t \in Threads :
       []<>~ThreadReady(t) \/ []<><<ThreadStep(t)>>_engineVars

EvalSpec == EvalInit /\ [][EvalNext]_engineVars /\ EngineFairness

-----------------------------------------------------------------------------
(* Types. *)
EvalTypeOK ==
  /\ request \in [Calls -> Requests \cup {NoRequest}]
  /\ \A c \in Calls : result[c].kind \in {"none", "invalid", "panicked", "answered"}
  /\ stage \in [Calls -> Stages]
  /\ \A c \in Calls : request[c] # NoRequest =>
        /\ todo[c] \subseteq DOMAIN request[c].questions
        /\ Answered(c) \subseteq DOMAIN request[c].questions
  /\ \A t \in Threads : Busy(t) =>
        /\ thread[t].call \in Calls
        /\ thread[t].question \in DOMAIN request[thread[t].call].questions

(* A thread works only for a call whose caller waits for it. *)
OnWaitingCall == \A t \in Threads : Busy(t) => Serves(t, thread[t].call)

OneThreadEach ==
  \A t, u \in Threads :
    /\ Busy(t) /\ Busy(u)
    /\ thread[t].call = thread[u].call
    /\ thread[t].question = thread[u].question
    => t = u

DoneOnce ==
  /\ \A c \in Calls : todo[c] \cap Answered(c) = {}
  /\ \A t \in Threads : Busy(t) =>
        thread[t].question \notin todo[thread[t].call] \cup Answered(thread[t].call)

NothingLost ==
  \A c \in Calls : stage[c] \in {"inline", "pool"} =>
    \A k \in DOMAIN request[c].questions :
      \/ k \in todo[c] \cup Answered(c)
      \/ \E t \in Threads : Busy(t) /\ thread[t].call = c /\ thread[t].question = k

(* The work of a call is never lost and never done twice: while its caller *)
(* waits for answers, every question of the request is waiting, on exactly *)
(* one thread, or answered, and only one of these; no thread goes on with  *)
(* a call that has returned (engine.rs, par_iter and collect).             *)
QuestionsPartitioned == OnWaitingCall /\ OneThreadEach /\ DoneOnce /\ NothingLost

(* docs/API.md:95: whatever else runs, in this request or in others, an    *)
(* answer already computed is the one the question gets alone.             *)
AnswersIndependent ==
  \A c \in Calls : \A k \in Answered(c) :
    slot[c][k] = Engine!AnswersAlone[request[c]][k]

(* The engine implements its promise: every call returns, once, as if it   *)
(* had run alone and in one step, however the threads are shared.          *)
ImplementsEngineSpec == Engine!Spec
=============================================================================
