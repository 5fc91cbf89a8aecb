-------------------------- MODULE HttpServerProofs --------------------------
(***************************************************************************)
(* The server and its engine, for every number of requests, pool threads   *)
(* and blocking threads.  The engine: no question is lost, answered twice, *)
(* or worked on after its call returned; every answer is the one its       *)
(* question gets alone, and every step is one of the engine's promise, or  *)
(* none.  The server: the engine works only under a job the runtime waits  *)
(* for, so the process never ends under work; and what is sent on a        *)
(* connection is permitted by its own body.                                *)
(***************************************************************************)
EXTENDS HttpServer, TLAPS

-----------------------------------------------------------------------------
(* The engine.                                                             *)

(* The strengthening.  A call that has no index yet has no work; the       *)
(* question numbers of its work are those of its request.                  *)
NoWork(c) == todo[c] = {} /\ Answered(c) = {}

Functions == 
  /\ request = [c \in Calls |-> request[c]]
  /\ result = [c \in Calls |-> result[c]]
  /\ stage = [c \in Calls |-> stage[c]]
  /\ base = [c \in Calls |-> base[c]]
  /\ todo = [c \in Calls |-> todo[c]]
  /\ slot = [c \in Calls |-> slot[c]]
  /\ thread = [t \in Threads |-> thread[t]]

OwnQuestions ==
  /\ \A c \in Calls : stage[c] \in {"idle", "validate", "index"} => NoWork(c)
  /\ \A c \in Calls : stage[c] \notin {"idle", "validate", "index"} =>
        todo[c] \cup Answered(c) \subseteq DOMAIN request[c].questions
  /\ \A t \in Threads : Busy(t) =>
        /\ thread[t].call \in Calls
        /\ thread[t].question \in DOMAIN request[thread[t].call].questions

Typed ==
  /\ \A c \in Calls : request[c] \in Requests \cup {NoRequest}
  /\ \A c \in Calls : result[c].kind \in {"none", "invalid", "panicked", "answered"}
  /\ \A c \in Calls : stage[c] \in Stages

IInv == Functions /\ Typed /\ OwnQuestions /\ QuestionsPartitioned

LEMMA InitInv == EvalInit => IInv
<1> SUFFICES ASSUME EvalInit PROVE IInv
  OBVIOUS
<1> USE DEF EvalInit, Busy, NoWork, Answered
<1>1. Functions
  BY DEF Functions
<1>2. Typed
  BY DEF Typed, Stages, Engine!NoReply
<1>3. OwnQuestions
  BY DEF OwnQuestions, EmptyVocab
<1>4. QuestionsPartitioned
  BY DEF QuestionsPartitioned, OnWaitingCall, OneThreadEach, DoneOnce, NothingLost
<1> QED
  BY <1>1, <1>2, <1>3, <1>4 DEF IInv

LEMMA ValidateInv == ASSUME IInv, NEW c \in Calls, Validate(c) PROVE IInv'
<1> USE DEF IInv, Validate, Goto, Busy, NoWork, Answered
<1>1. Functions'
  BY DEF Functions
<1>2. Typed'
  BY DEF Typed, Functions, Stages, Engine!Invalid
<1>3. OwnQuestions'
  BY DEF OwnQuestions, Functions
<1>4. QuestionsPartitioned'
  BY DEF Functions, QuestionsPartitioned, OnWaitingCall, OneThreadEach, DoneOnce, NothingLost, Serves, OwnQuestions
<1> QED
  BY <1>1, <1>2, <1>3, <1>4

LEMMA TaskNotIdle == \A c, k, n, r : Task(c, k, n, r) # Idle
  BY DEF Task, Idle

LEMMA CallInv == ASSUME IInv, NEW c \in Calls, NEW r \in Requests, Call(c, r) PROVE IInv'
<1> USE DEF IInv, Call, Goto, Busy, NoWork, Answered
<1>1. Functions'
  BY DEF Functions
<1>2. Typed'
  BY DEF Typed, Functions, Stages
<1>3. OwnQuestions'
  BY DEF OwnQuestions, Functions, QuestionsPartitioned, OnWaitingCall, Serves
<1>4. QuestionsPartitioned'
  BY DEF Functions, QuestionsPartitioned, OnWaitingCall, OneThreadEach, DoneOnce,
         NothingLost, Serves, OwnQuestions
<1> QED
  BY <1>1, <1>2, <1>3, <1>4

LEMMA BuildIndexInv == ASSUME IInv, NEW c \in Calls, BuildIndex(c) PROVE IInv'
<1> USE DEF IInv, BuildIndex, Goto, Busy, NoWork, Answered
<1>1. Functions'
  BY DEF Functions
<1>2. Typed'
  BY DEF Typed, Functions, Stages
<1>3. OwnQuestions'
  BY DEF OwnQuestions, Functions
<1>4. QuestionsPartitioned'
  BY DEF Functions, QuestionsPartitioned, OnWaitingCall, OneThreadEach, DoneOnce,
         NothingLost, Serves, OwnQuestions
<1> QED
  BY <1>1, <1>2, <1>3, <1>4

LEMMA TakeInv == ASSUME IInv, NEW t \in Threads, NEW c \in Calls, NEW k \in todo[c],
                          TakeQuestion(t, c, k) PROVE IInv'
<1> USE DEF IInv, Busy, Answered
<1>1. Functions'
  BY DEF Functions, TakeQuestion, Goto
<1>2. Typed'
  BY DEF Typed, Functions, Stages, TakeQuestion, Goto
<1>3. /\ request' = request
      /\ stage' = stage
      /\ Serves(t, c) /\ ~Busy(t)
      /\ todo'[c] = todo[c] \ {k} /\ \A d \in Calls \ {c} : todo'[d] = todo[d]
      /\ \A d \in Calls : Answered(d)' = Answered(d)
      /\ Busy(t)' /\ thread'[t].call = c /\ thread'[t].question = k
      /\ \A u \in Threads \ {t} : thread'[u] = thread[u] /\ (Busy(u)' <=> Busy(u))
  BY TaskNotIdle DEF Functions, TakeQuestion, Goto, Busy, Answered, OwnQuestions, Task
<1>4. OwnQuestions'
  BY <1>3 DEF OwnQuestions, NoWork, QuestionsPartitioned, OnWaitingCall, Serves
<1>5. OnWaitingCall'
  BY <1>3 DEF OwnQuestions, QuestionsPartitioned, OnWaitingCall, Serves
<1>6. OneThreadEach'
  BY <1>3 DEF OwnQuestions, QuestionsPartitioned, OneThreadEach, DoneOnce
<1>7. DoneOnce'
  BY <1>3 DEF OwnQuestions, QuestionsPartitioned, OneThreadEach, DoneOnce
<1>8. NothingLost'
  BY <1>3 DEF OwnQuestions, QuestionsPartitioned, OneThreadEach, NothingLost, OnWaitingCall, Serves
<1> QED
  BY <1>1, <1>2, <1>4, <1>5, <1>6, <1>7, <1>8 DEF QuestionsPartitioned

LEMMA ReadInv == ASSUME IInv, NEW t \in Threads, Read(t) PROVE IInv'
<1> USE DEF IInv, Busy, Answered
<1>1. Functions'
  BY DEF Functions, Read, Goto
<1>2. Typed'
  BY DEF Typed, Functions, Stages, Read, Goto
<1>3. /\ request' = request
      /\ stage' = stage
      /\ todo' = todo
      /\ \A d \in Calls : Answered(d)' = Answered(d)
      /\ Busy(t) /\ Busy(t)'
      /\ thread'[t].call = thread[t].call /\ thread'[t].question = thread[t].question
      /\ \A u \in Threads \ {t} : thread'[u] = thread[u] /\ (Busy(u)' <=> Busy(u))
  BY TaskNotIdle DEF Functions, Read, Goto, Busy, Answered, OwnQuestions, Task
<1>4. OwnQuestions'
  BY <1>3 DEF OwnQuestions, NoWork, QuestionsPartitioned, OnWaitingCall, Serves
<1>5. OnWaitingCall'
  BY <1>3 DEF OwnQuestions, QuestionsPartitioned, OnWaitingCall, Serves
<1>6. OneThreadEach'
  BY <1>3 DEF OwnQuestions, QuestionsPartitioned, OneThreadEach, DoneOnce
<1>7. DoneOnce'
  BY <1>3 DEF OwnQuestions, QuestionsPartitioned, OneThreadEach, DoneOnce
<1>8. NothingLost'
  BY <1>3 DEF OwnQuestions, QuestionsPartitioned, OneThreadEach, NothingLost, OnWaitingCall, Serves
<1> QED
  BY <1>1, <1>2, <1>4, <1>5, <1>6, <1>7, <1>8 DEF QuestionsPartitioned

LEMMA FinishInv == ASSUME IInv, NEW t \in Threads, Finish(t) PROVE IInv'
<1> USE DEF IInv, Busy, Answered
<1>1. Functions'
  BY DEF Functions, Finish
<1>2. Typed'
  BY DEF Typed, Functions, Finish
<1> PICK d \in Calls : d = thread[t].call
  BY DEF Finish, AllRead, OwnQuestions
<1> PICK k : k = thread[t].question
  OBVIOUS
<1>3. /\ Busy(t) /\ ~Busy(t)'
      /\ thread[t].call = d /\ thread[t].question = k
      /\ k \in DOMAIN request[d].questions
      /\ request' = request /\ stage' = stage /\ todo' = todo
      /\ slot' = [slot EXCEPT ![d] = Filled(slot[d], k, Evidence(Question(d, k), thread[t].read))]
      /\ \A u \in Threads \ {t} : thread'[u] = thread[u]
  BY DEF Finish, AllRead, OwnQuestions, Functions
<1>4. /\ Answered(d)' = Answered(d) \cup {k}
      /\ \A e \in Calls \ {d} : Answered(e)' = Answered(e)
  BY <1>3 DEF Filled, Functions
<1>5. OwnQuestions'
  BY <1>3, <1>4 DEF OwnQuestions, NoWork, QuestionsPartitioned, OnWaitingCall, Serves
<1>6. OnWaitingCall'
  BY <1>3 DEF QuestionsPartitioned, OnWaitingCall, Serves
<1>7. OneThreadEach'
  BY <1>3 DEF QuestionsPartitioned, OneThreadEach
<1>8. DoneOnce'
  BY <1>3, <1>4 DEF OwnQuestions, QuestionsPartitioned, OneThreadEach, DoneOnce
<1>9. NothingLost'
  BY <1>3, <1>4 DEF OwnQuestions, QuestionsPartitioned, NothingLost
<1> QED
  BY <1>1, <1>2, <1>5, <1>6, <1>7, <1>8, <1>9 DEF QuestionsPartitioned

LEMMA PanicInv == ASSUME IInv, NEW t \in Threads, Panic(t) PROVE IInv'
<1> USE DEF IInv, Busy, Answered
<1>1. Functions'
  BY DEF Functions, Panic, Goto
<1>2. Typed'
  BY DEF Typed, Functions, Stages, Panic, Goto
<1>3. /\ request' = request
      /\ todo' = todo
      /\ \A d \in Calls : Answered(d)' = Answered(d)
      /\ Busy(t) /\ ~Busy(t)' /\ thread[t].call \in Calls
      /\ stage'[thread[t].call] = "unwind"
      /\ \A d \in Calls \ {thread[t].call} : stage'[d] = stage[d]
      /\ \A u \in Threads \ {t} : thread'[u] = thread[u] /\ (Busy(u)' <=> Busy(u))
  BY TaskNotIdle DEF Functions, Panic, Goto, Busy, Answered, OwnQuestions, AllRead
<1>4. OwnQuestions'
  BY <1>3 DEF OwnQuestions, NoWork, QuestionsPartitioned, OnWaitingCall, Serves
<1>5. OnWaitingCall'
  BY <1>3 DEF OwnQuestions, QuestionsPartitioned, OnWaitingCall, Serves
<1>6. OneThreadEach'
  BY <1>3 DEF OwnQuestions, QuestionsPartitioned, OneThreadEach, DoneOnce
<1>7. DoneOnce'
  BY <1>3 DEF OwnQuestions, QuestionsPartitioned, OneThreadEach, DoneOnce
<1>8. NothingLost'
  BY <1>3 DEF OwnQuestions, QuestionsPartitioned, OneThreadEach, NothingLost, OnWaitingCall, Serves
<1> QED
  BY <1>1, <1>2, <1>4, <1>5, <1>6, <1>7, <1>8 DEF QuestionsPartitioned

LEMMA GiveUpInv == ASSUME IInv, NEW c \in Calls, NEW k \in todo[c], GiveUp(c, k) PROVE IInv'
<1> USE DEF IInv, GiveUp, Busy, Answered
<1>1. Functions'
  BY DEF Functions
<1>2. Typed'
  BY DEF Typed
<1>3. OwnQuestions'
  BY DEF OwnQuestions, Functions, NoWork
<1>4. QuestionsPartitioned'
  BY DEF Functions, QuestionsPartitioned, OnWaitingCall, OneThreadEach, DoneOnce,
         NothingLost, Serves, OwnQuestions
<1> QED
  BY <1>1, <1>2, <1>3, <1>4

LEMMA AssembleInv == ASSUME IInv, NEW c \in Calls, Assemble(c) PROVE IInv'
<1> USE DEF IInv, Goto, Busy, Answered
<1>1. Functions'
  BY DEF Functions, Assemble
<1>2. Typed'
  BY DEF Typed, Functions, Stages, Assemble, Engine!Answered
<1>3. /\ request' = request /\ todo' = todo /\ slot' = slot /\ thread' = thread
      /\ stage[c] \notin {"idle", "validate", "index"} /\ stage'[c] = "done"
      /\ \A d \in Calls \ {c} : stage'[d] = stage[d]
  BY DEF Functions, Assemble
<1>4. \A t \in Threads : Busy(t) => thread[t].call # c
  BY DEF Assemble, Settled, Working
<1>5. OwnQuestions'
  BY <1>3 DEF OwnQuestions, NoWork
<1>6. OnWaitingCall'
  BY <1>3, <1>4 DEF OwnQuestions, QuestionsPartitioned, OnWaitingCall, Serves
<1>7. OneThreadEach' /\ DoneOnce'
  BY <1>3 DEF QuestionsPartitioned, OneThreadEach, DoneOnce
<1>8. NothingLost'
  BY <1>3 DEF QuestionsPartitioned, NothingLost
<1> QED
  BY <1>1, <1>2, <1>5, <1>6, <1>7, <1>8 DEF QuestionsPartitioned

LEMMA ResumeInv == ASSUME IInv, NEW c \in Calls, Resume(c) PROVE IInv'
<1> USE DEF IInv, Goto, Busy, Answered
<1>1. Functions'
  BY DEF Functions, Resume
<1>2. Typed'
  BY DEF Typed, Functions, Stages, Resume, Engine!Panicked
<1>3. /\ request' = request /\ todo' = todo /\ slot' = slot /\ thread' = thread
      /\ stage[c] \notin {"idle", "validate", "index"} /\ stage'[c] = "done"
      /\ \A d \in Calls \ {c} : stage'[d] = stage[d]
  BY DEF Functions, Resume
<1>4. \A t \in Threads : Busy(t) => thread[t].call # c
  BY DEF Resume, Settled, Working
<1>5. OwnQuestions'
  BY <1>3 DEF OwnQuestions, NoWork
<1>6. OnWaitingCall'
  BY <1>3, <1>4 DEF OwnQuestions, QuestionsPartitioned, OnWaitingCall, Serves
<1>7. OneThreadEach' /\ DoneOnce'
  BY <1>3 DEF QuestionsPartitioned, OneThreadEach, DoneOnce
<1>8. NothingLost'
  BY <1>3 DEF QuestionsPartitioned, NothingLost
<1> QED
  BY <1>1, <1>2, <1>5, <1>6, <1>7, <1>8 DEF QuestionsPartitioned

LEMMA StutterInv == ASSUME IInv, UNCHANGED engineVars PROVE IInv'
  BY DEF IInv, engineVars, Functions, Typed, OwnQuestions, NoWork, QuestionsPartitioned,
         OnWaitingCall, OneThreadEach, DoneOnce, NothingLost, Serves, Busy, Answered

LEMMA StepInv == IInv /\ [EvalNext]_engineVars => IInv'
<1> SUFFICES ASSUME IInv, [EvalNext]_engineVars PROVE IInv'
  OBVIOUS
<1>1. CASE UNCHANGED engineVars
  BY <1>1, StutterInv
<1>2. ASSUME NEW c \in Calls, CallerStep(c) PROVE IInv'
  BY <1>2, ValidateInv, BuildIndexInv, AssembleInv, ResumeInv DEF CallerStep
<1>3. ASSUME NEW c \in Calls, GiveUpAny(c) PROVE IInv'
  BY <1>3, GiveUpInv DEF GiveUpAny
<1>4. ASSUME NEW t \in Threads, ThreadStep(t) PROVE IInv'
  BY <1>4, TakeInv, ReadInv, FinishInv, PanicInv DEF ThreadStep, TakeAny
<1>5. ASSUME NEW c \in Calls, NEW r \in Requests, Call(c, r) PROVE IInv'
  BY <1>5, CallInv
<1> QED
  BY <1>1, <1>2, <1>3, <1>4, <1>5 DEF EvalNext, EngineStep

(* The invariant of the engine, from which the two theorems follow. *)
THEOREM EngineInvariant == EvalSpec => []IInv
  BY InitInv, StepInv, PTL DEF EvalSpec

LEMMA InvTypes == IInv => EvalTypeOK
  BY DEF IInv, Functions, Typed, OwnQuestions, EvalTypeOK, NoWork

(* Types, for all values of the constants. *)
THEOREM EngineTypes == EvalSpec => []EvalTypeOK
  BY InvTypes, EngineInvariant, PTL

(* No question is lost, answered twice or worked on after its call         *)
(* returned, however many calls, questions and pool threads there are.     *)
THEOREM EngineKeepsItsWork == EvalSpec => []QuestionsPartitioned
<1>1. IInv => QuestionsPartitioned
  BY DEF IInv
<1> QED
  BY <1>1, EngineInvariant, PTL

-----------------------------------------------------------------------------
(* A question read part by part by any thread is read as it would be read  *)
(* alone: the accumulators of that reading, in order.                      *)
ReadStep(state, q, r, read, n) == ReadPart(VocabOf(state), q, read, n)
NoClaim(state, q, r, read) == TRUE
Loop == INSTANCE Folding WITH Step <- ReadStep, Good <- NoClaim

IsReading(acc, state, q) ==
  /\ acc[0] = NothingRead
  /\ \A n \in 1 .. Parts(q) : acc[n] = ReadPart(VocabOf(state), q, acc[n - 1], n)
  /\ AnswerAlone(state, q) = Evidence(q, acc[Parts(q)])

Reading(state, q) == CHOOSE acc : IsReading(acc, state, q)

LEMMA ReadingExists ==
  ASSUME NEW state, NEW q, Parts(q) \in Nat
  PROVE  IsReading(Reading(state, q), state, q)
<1> DEFINE parts == [n \in 1 .. Parts(q) |-> n]
<1>1. DOMAIN parts = 1 .. Parts(q)
  OBVIOUS
<1>2. AnswerAlone(state, q) = Evidence(q, Loop!Fold(state, q, 0, NothingRead, parts))
  BY DEF AnswerAlone, Loop!Fold, ReadStep, FoldLeft, MapThenFoldSet, Max, Loop!Greatest
<1> HIDE DEF parts
<1>3. PICK acc :
        /\ acc[0] = NothingRead
        /\ \A n \in 1 .. Parts(q) : acc[n] = ReadStep(state, q, 0, acc[n - 1], parts[n])
        /\ Loop!Fold(state, q, 0, NothingRead, parts) = acc[Parts(q)]
  BY <1>1, Loop!FoldIsLoop
<1>4. IsReading(acc, state, q)
  BY <1>2, <1>3 DEF IsReading, ReadStep, parts
<1> QED
  BY <1>4 DEF Reading

(* The second strengthening: what a call has, given where it is.           *)
Asked ==
  \A c \in Calls :
    /\ stage[c] = "idle" <=> request[c] = NoRequest
    /\ stage[c] \in {"index", "inline", "pool", "unwind"} => request[c].verdict = 200

Indexed ==
  \A c \in Calls :
    stage[c] \in {"inline", "pool", "unwind"} => base[c] = VocabOf(request[c].state)

Aligned(task, r) ==
  /\ task.next \in 1 .. Parts(r.questions[task.question]) + 1
  /\ task.read = Reading(r.state, r.questions[task.question])[task.next - 1]

OnCourse == \A t \in Threads : Busy(t) => Aligned(thread[t], request[thread[t].call])

AsAlone ==
  \A c \in Calls : \A k \in Answered(c) :
    /\ ~Question(c, k).panics
    /\ slot[c][k] = AnswerAlone(request[c].state, Question(c, k))

Unwound ==
  \A c \in Calls :
    stage[c] = "unwind" => \E k \in DOMAIN request[c].questions : Question(c, k).panics

Returned ==
  \A c \in Calls :
    IF stage[c] = "done" THEN result[c] \in Engine!Outcome(request[c])
    ELSE result[c] = Engine!NoReply

AInv == Asked /\ Indexed /\ OnCourse /\ AsAlone /\ Unwound /\ Returned
Inv == IInv /\ AInv

LEMMA RequestsAreAsked ==
  ASSUME Inv, NEW c \in Calls
  PROVE  /\ stage[c] # "idle" => request[c] \in Requests /\ request[c].verdict # 0
         /\ stage[c] # "idle" =>
              \A k \in DOMAIN request[c].questions : Parts(Question(c, k)) \in Nat
  BY EvaluateAssumption DEF Inv, AInv, IInv, Typed, Asked, Parts, Question

LEMMA BusyOnCall ==
  ASSUME Inv, NEW t \in Threads, Busy(t)
  PROVE  /\ thread[t].call \in Calls
         /\ stage[thread[t].call] \in {"inline", "pool", "unwind"}
         /\ thread[t].question \in DOMAIN request[thread[t].call].questions
  BY DEF Inv, IInv, OwnQuestions, QuestionsPartitioned, OnWaitingCall, Serves

LEMMA InitAlone == EvalInit => AInv
  BY DEF EvalInit, AInv, Asked, Indexed, OnCourse, AsAlone, Unwound, Returned, Busy,
         Answered, EmptyVocab

-----------------------------------------------------------------------------
(* The caller's steps.  A thread's work is disturbed by none of them.      *)
LEMMA CallAlone ==
  ASSUME Inv, NEW c \in Calls, NEW r \in Requests, Call(c, r) PROVE AInv'
<1> USE DEF Inv, AInv
<1>1. r # NoRequest
  BY EvaluateAssumption DEF NoRequest, Engine!NoRequest
<1>2. /\ \A d \in Calls \ {c} : request'[d] = request[d] /\ stage'[d] = stage[d]
      /\ request'[c] = r /\ stage'[c] = "validate" /\ stage[c] = "idle"
      /\ UNCHANGED <<result, base, todo, slot, thread>>
  BY DEF IInv, Functions, Call, Goto
<1>3. Asked' /\ Indexed'
  BY <1>1, <1>2 DEF Asked, Indexed
<1>4. Unwound' /\ Returned'
  BY <1>2 DEF Unwound, Returned, Question
<1>5. Answered(c) = {}
  BY <1>2 DEF IInv, OwnQuestions, NoWork
<1>6. AsAlone'
  BY <1>2, <1>5 DEF AsAlone, Answered, Question
<1>7. \A t \in Threads : Busy(t) => thread[t].call \in Calls \ {c}
  BY <1>2, BusyOnCall
<1>8. OnCourse'
  BY <1>2, <1>7 DEF OnCourse, Busy, Question
<1> QED
  BY <1>3, <1>4, <1>6, <1>8

LEMMA ErrorIsOutcome ==
  ASSUME NEW r, r.verdict # 200 PROVE Engine!Invalid(r.verdict) \in Engine!Outcome(r)
  BY DEF Engine!Outcome

LEMMA ValidateAlone == ASSUME Inv, NEW c \in Calls, Validate(c) PROVE AInv'
<1> USE DEF Inv, AInv
<1>1. /\ \A d \in Calls \ {c} : stage'[d] = stage[d] /\ result'[d] = result[d]
      /\ UNCHANGED <<request, base, todo, slot, thread>>
      /\ \/ stage'[c] = "index" /\ request[c].verdict = 200 /\ result'[c] = result[c]
         \/ /\ stage'[c] = "done" /\ request[c].verdict # 200
            /\ result'[c] = Engine!Invalid(request[c].verdict)
      /\ stage[c] = "validate"
  BY DEF IInv, Functions, Validate, Goto
<1>2. Asked' /\ Indexed' /\ Unwound'
  BY <1>1 DEF Asked, Indexed, Unwound, Question
<1>3. Returned'
  BY <1>1, ErrorIsOutcome DEF Returned
<1>4. AsAlone' /\ OnCourse'
  BY <1>1 DEF AsAlone, OnCourse, Answered, Question, Busy
<1> QED
  BY <1>2, <1>3, <1>4

LEMMA BuildIndexAlone == ASSUME Inv, NEW c \in Calls, BuildIndex(c) PROVE AInv'
<1> USE DEF Inv, AInv
<1>1. /\ \A d \in Calls \ {c} : stage'[d] = stage[d] /\ base'[d] = base[d]
      /\ UNCHANGED <<request, result, slot, thread>>
      /\ stage[c] = "index" /\ stage'[c] \in {"inline", "pool"}
      /\ base'[c] = VocabOf(request[c].state)
  BY DEF IInv, Functions, BuildIndex, Goto
<1>2. Asked' /\ Indexed' /\ Unwound' /\ Returned'
  BY <1>1 DEF Asked, Indexed, Unwound, Returned, Question
<1>3. AsAlone' /\ OnCourse'
  BY <1>1 DEF AsAlone, OnCourse, Answered, Question, Busy
<1> QED
  BY <1>2, <1>3

(* When the caller resumes, every question has been answered or given up.  *)
LEMMA AnswersAreOutcome ==
  ASSUME NEW r \in Requests, r.verdict = 200,
         \A k \in DOMAIN r.questions : ~r.questions[k].panics
  PROVE  Engine!Answered([k \in DOMAIN r.questions |->
           <<r.questions[k].id, AnswerAlone(r.state, r.questions[k])>>]) \in Engine!Outcome(r)
<1>1. \A k \in DOMAIN r.questions :
        Engine!AnswersAlone[r][k] = AnswerAlone(r.state, r.questions[k])
  BY DEF Engine!AnswersAlone
<1>2. [k \in DOMAIN r.questions |-> <<r.questions[k].id, Engine!AnswersAlone[r][k]>>]
        = [k \in DOMAIN r.questions |->
             <<r.questions[k].id, AnswerAlone(r.state, r.questions[k])>>]
  BY <1>1
<1> QED
  BY <1>2 DEF Engine!Outcome

LEMMA PanicIsOutcome ==
  ASSUME NEW r, r.verdict = 200, \E k \in DOMAIN r.questions : r.questions[k].panics
  PROVE  Engine!Panicked \in Engine!Outcome(r)
  BY DEF Engine!Outcome

LEMMA AssembleAlone == ASSUME Inv, NEW c \in Calls, Assemble(c) PROVE AInv'
<1> USE DEF Inv, AInv
<1> DEFINE r == request[c]
<1>1. /\ \A d \in Calls \ {c} : stage'[d] = stage[d] /\ result'[d] = result[d]
      /\ UNCHANGED <<request, base, todo, slot, thread>>
      /\ stage[c] \in {"inline", "pool"} /\ stage'[c] = "done"
      /\ result'[c] = Engine!Answered([k \in DOMAIN r.questions |->
                                         <<Question(c, k).id, slot[c][k]>>])
      /\ Settled(c)
  BY DEF IInv, Functions, Assemble, Goto
<1>2. \A k \in DOMAIN r.questions : k \in Answered(c)
  BY <1>1 DEF IInv, QuestionsPartitioned, NothingLost, Settled, Working
<1>3. \A k \in DOMAIN r.questions :
        ~r.questions[k].panics /\ slot[c][k] = AnswerAlone(r.state, r.questions[k])
  BY <1>2 DEF AsAlone, Question
<1>4. r \in Requests /\ r.verdict = 200
  BY <1>1, RequestsAreAsked DEF Asked
<1>5. result'[c] = Engine!Answered([k \in DOMAIN r.questions |->
                     <<r.questions[k].id, AnswerAlone(r.state, r.questions[k])>>])
  <2>1. [k \in DOMAIN r.questions |-> <<Question(c, k).id, slot[c][k]>>]
          = [k \in DOMAIN r.questions |->
               <<r.questions[k].id, AnswerAlone(r.state, r.questions[k])>>]
    BY <1>3 DEF Question
  <2> QED
    BY <1>1, <2>1
<1>6. result'[c] \in Engine!Outcome(request'[c])
  BY <1>1, <1>3, <1>4, <1>5, AnswersAreOutcome
<1>7. Returned'
  BY <1>1, <1>6 DEF Returned
<1>8. Asked' /\ Indexed' /\ Unwound' /\ AsAlone' /\ OnCourse'
  BY <1>1 DEF Asked, Indexed, Unwound, AsAlone, OnCourse, Answered, Question, Busy
<1> QED
  BY <1>7, <1>8

LEMMA ResumeAlone == ASSUME Inv, NEW c \in Calls, Resume(c) PROVE AInv'
<1> USE DEF Inv, AInv
<1>1. /\ \A d \in Calls \ {c} : stage'[d] = stage[d] /\ result'[d] = result[d]
      /\ UNCHANGED <<request, base, todo, slot, thread>>
      /\ stage[c] = "unwind" /\ stage'[c] = "done" /\ result'[c] = Engine!Panicked
  BY DEF IInv, Functions, Resume, Goto
<1>2. result'[c] \in Engine!Outcome(request'[c])
  BY <1>1, PanicIsOutcome DEF Unwound, Asked, Question
<1>3. Returned'
  BY <1>1, <1>2 DEF Returned
<1>4. Asked' /\ Indexed' /\ Unwound' /\ AsAlone' /\ OnCourse'
  BY <1>1 DEF Asked, Indexed, Unwound, AsAlone, OnCourse, Answered, Question, Busy
<1> QED
  BY <1>3, <1>4

LEMMA GiveUpAlone ==
  ASSUME Inv, NEW c \in Calls, NEW k \in todo[c], GiveUp(c, k) PROVE AInv'
  BY DEF Inv, AInv, GiveUp, Asked, Indexed, Unwound, AsAlone, OnCourse, Returned,
         Answered, Question, Busy

-----------------------------------------------------------------------------
(* The threads' steps.                                                     *)
LEMMA TakeAlone ==
  ASSUME Inv, NEW t \in Threads, NEW c \in Calls, NEW k \in todo[c], TakeQuestion(t, c, k)
  PROVE  AInv'
<1> USE DEF Inv, AInv
<1>1. /\ UNCHANGED <<request, result, stage, base, slot>>
      /\ \A u \in Threads \ {t} : thread'[u] = thread[u]
      /\ thread'[t] = Task(c, k, 1, NothingRead)
      /\ stage[c] \in {"inline", "pool", "unwind"}
  BY DEF IInv, Functions, TakeQuestion, Serves
<1>2. /\ thread'[t].call = c /\ thread'[t].question = k
      /\ thread'[t].next = 1 /\ thread'[t].read = NothingRead
  BY <1>1 DEF Task
<1>3. k \in DOMAIN request[c].questions
  BY <1>1 DEF IInv, OwnQuestions
<1>4. Parts(Question(c, k)) \in Nat
  BY <1>1, <1>3, RequestsAreAsked
<1>5. Reading(request[c].state, Question(c, k))[0] = NothingRead
  BY <1>4, ReadingExists DEF IsReading
<1>6. Aligned(thread'[t], request[c])
  BY <1>2, <1>4, <1>5 DEF Aligned, Question
<1>7. OnCourse'
  BY <1>1, <1>2, <1>6 DEF OnCourse, Busy
<1>8. Asked' /\ Indexed' /\ Unwound' /\ AsAlone' /\ Returned'
  BY <1>1 DEF Asked, Indexed, Unwound, AsAlone, Returned, Answered, Question
<1> QED
  BY <1>7, <1>8

LEMMA ReadAlone == ASSUME Inv, NEW t \in Threads, Read(t) PROVE AInv'
<1> USE DEF Inv, AInv
<1> DEFINE c == thread[t].call
           q == Question(c, thread[t].question)
           n == thread[t].next
           whole == Reading(request[c].state, q)
<1>1. /\ UNCHANGED <<request, result, stage, base, todo, slot>>
      /\ Busy(t) /\ n <= Parts(q)
      /\ \A u \in Threads \ {t} : thread'[u] = thread[u]
      /\ thread'[t] = Task(c, thread[t].question, n + 1,
                           ReadPart(base[c], q, thread[t].read, n))
  BY DEF IInv, Functions, Read
<1>2. /\ thread'[t].call = c /\ thread'[t].question = thread[t].question
      /\ thread'[t].next = n + 1
      /\ thread'[t].read = ReadPart(base[c], q, thread[t].read, n)
  BY <1>1 DEF Task
<1>3. /\ c \in Calls /\ base[c] = VocabOf(request[c].state) /\ Parts(q) \in Nat
      /\ n \in 1 .. Parts(q) + 1 /\ thread[t].read = whole[n - 1]
  BY <1>1, BusyOnCall, RequestsAreAsked DEF Indexed, OnCourse, Aligned, Question
<1>4. n \in 1 .. Parts(q)
  BY <1>1, <1>3
<1>5. whole[n] = ReadPart(VocabOf(request[c].state), q, whole[n - 1], n)
  BY <1>3, <1>4, ReadingExists DEF IsReading
<1>6. thread'[t].read = whole[n] /\ (n + 1) - 1 = n /\ n + 1 \in 1 .. Parts(q) + 1
  BY <1>2, <1>3, <1>4, <1>5
<1>7. Aligned(thread'[t], request[c])
  BY <1>2, <1>6 DEF Aligned, Question
<1>8. OnCourse'
  BY <1>1, <1>2, <1>7 DEF OnCourse, Busy
<1>9. Asked' /\ Indexed' /\ Unwound' /\ AsAlone' /\ Returned'
  BY <1>1 DEF Asked, Indexed, Unwound, AsAlone, Returned, Answered, Question
<1> QED
  BY <1>8, <1>9

LEMMA FinishAlone == ASSUME Inv, NEW t \in Threads, Finish(t) PROVE AInv'
<1> USE DEF Inv, AInv
<1> DEFINE c == thread[t].call
           k == thread[t].question
           q == request[c].questions[k]
<1>1. /\ UNCHANGED <<request, result, stage, base, todo>>
      /\ Busy(t) /\ ~Busy(t)' /\ thread[t].next > Parts(q) /\ ~q.panics
      /\ \A u \in Threads \ {t} : thread'[u] = thread[u]
      /\ slot' = [slot EXCEPT ![c] = Filled(slot[c], k, Evidence(q, thread[t].read))]
  BY DEF IInv, Functions, Finish, AllRead, Question, Busy
<1>2. /\ c \in Calls /\ Parts(q) \in Nat /\ Aligned(thread[t], request[c])
  BY <1>1, BusyOnCall, RequestsAreAsked DEF OnCourse, Question
<1>3. thread[t].next = Parts(q) + 1 /\ (Parts(q) + 1) - 1 = Parts(q)
  BY <1>1, <1>2 DEF Aligned
<1>4. Evidence(q, thread[t].read) = AnswerAlone(request[c].state, q)
  BY <1>2, <1>3, ReadingExists DEF Aligned, IsReading
<1>5. /\ DOMAIN slot'[c] = Answered(c) \cup {k}
      /\ slot'[c][k] = AnswerAlone(request[c].state, q)
      /\ \A i \in Answered(c) \ {k} : slot'[c][i] = slot[c][i]
      /\ \A d \in Calls \ {c} : slot'[d] = slot[d]
  BY <1>1, <1>2, <1>4 DEF Filled, Answered, IInv, Functions
<1>6. ASSUME NEW d \in Calls, NEW i \in DOMAIN slot'[d]
      PROVE  /\ ~request[d].questions[i].panics
             /\ slot'[d][i] = AnswerAlone(request[d].state, request[d].questions[i])
  <2>1. CASE d = c /\ i = k
    BY <1>1, <1>5, <2>1
  <2>2. CASE d # c \/ i # k
    <3>1. i \in Answered(d) /\ slot'[d][i] = slot[d][i]
      BY <1>5, <1>6, <2>2 DEF Answered
    <3> QED
      BY <3>1 DEF AsAlone, Question
  <2> QED
    BY <2>1, <2>2
<1>7. AsAlone' /\ OnCourse'
  <2>1. OnCourse'
    BY <1>1 DEF OnCourse, Busy
  <2>2. request' = request
    BY <1>1
  <2> QED
    BY <1>6, <2>1, <2>2 DEF AsAlone, Answered, Question
<1>8. Asked' /\ Indexed' /\ Unwound' /\ Returned'
  BY <1>1 DEF Asked, Indexed, Unwound, Returned, Question
<1> QED
  BY <1>7, <1>8

LEMMA PanicAlone == ASSUME Inv, NEW t \in Threads, Panic(t) PROVE AInv'
<1> USE DEF Inv, AInv
<1> DEFINE c == thread[t].call
<1>1. /\ UNCHANGED <<request, result, base, todo, slot>>
      /\ Busy(t) /\ ~Busy(t)' /\ Question(c, thread[t].question).panics
      /\ \A u \in Threads \ {t} : thread'[u] = thread[u]
      /\ c \in Calls /\ stage[c] \in {"inline", "pool", "unwind"} /\ stage'[c] = "unwind"
      /\ \A d \in Calls \ {c} : stage'[d] = stage[d]
      /\ thread[t].question \in DOMAIN request[c].questions
  BY BusyOnCall DEF IInv, Functions, Panic, AllRead, Busy, Goto
<1>2. Unwound'
  BY <1>1 DEF Unwound, Question
<1>3. Asked' /\ Indexed' /\ Returned'
  BY <1>1 DEF Asked, Indexed, Returned
<1>4. AsAlone' /\ OnCourse'
  BY <1>1 DEF AsAlone, OnCourse, Answered, Question, Busy
<1> QED
  BY <1>2, <1>3, <1>4

LEMMA StepAlone == Inv /\ [EvalNext]_engineVars => Inv'
<1> SUFFICES ASSUME Inv, [EvalNext]_engineVars PROVE AInv'
  BY StepInv DEF Inv
<1>1. CASE UNCHANGED engineVars
  BY <1>1 DEF engineVars, Inv, AInv, Asked, Indexed, Unwound, AsAlone, OnCourse, Returned,
              Answered, Question, Busy
<1>2. ASSUME NEW c \in Calls, CallerStep(c) PROVE AInv'
  BY <1>2, ValidateAlone, BuildIndexAlone, AssembleAlone, ResumeAlone DEF CallerStep
<1>3. ASSUME NEW c \in Calls, GiveUpAny(c) PROVE AInv'
  BY <1>3, GiveUpAlone DEF GiveUpAny
<1>4. ASSUME NEW t \in Threads, ThreadStep(t) PROVE AInv'
  BY <1>4, TakeAlone, ReadAlone, FinishAlone, PanicAlone DEF ThreadStep, TakeAny
<1>5. ASSUME NEW c \in Calls, NEW r \in Requests, Call(c, r) PROVE AInv'
  BY <1>5, CallAlone
<1> QED
  BY <1>1, <1>2, <1>3, <1>4, <1>5 DEF EvalNext, EngineStep

LEMMA InitBoth == EvalInit => Inv
  BY InitInv, InitAlone DEF Inv

THEOREM EngineReadsAlone == EvalSpec => []Inv
  BY InitBoth, StepAlone, PTL DEF EvalSpec

(* The answer of a question is what it would be alone, whatever is read at *)
(* the same time by however many threads (docs/API.md:95).                 *)
THEOREM EngineAnswersIndependent == EvalSpec => []AnswersIndependent
<1>1. Inv => AnswersIndependent
  <2> SUFFICES ASSUME Inv, NEW c \in Calls, NEW k \in Answered(c)
               PROVE  slot[c][k] = Engine!AnswersAlone[request[c]][k]
    BY DEF AnswersIndependent
  <2>1. stage[c] # "idle" /\ k \in DOMAIN request[c].questions
    BY DEF Inv, IInv, OwnQuestions, NoWork
  <2>2. request[c] \in Requests
    BY <2>1, RequestsAreAsked
  <2>3. slot[c][k] = AnswerAlone(request[c].state, request[c].questions[k])
    BY DEF Inv, AInv, AsAlone, Question
  <2> QED
    BY <2>1, <2>2, <2>3 DEF Engine!AnswersAlone
<1> QED
  BY <1>1, EngineReadsAlone, PTL

-----------------------------------------------------------------------------
(* Every step of the engine is a step of its promise, or none at all.      *)
LEMMA CallIsAsk ==
  ASSUME Inv, NEW c \in Calls, NEW r \in Requests, Call(c, r) PROVE Engine!Ask(c, r)
  BY DEF Inv, AInv, Asked, Call, Engine!Ask, NoRequest

LEMMA EndIsReturn ==
  ASSUME Inv, Inv', NEW c \in Calls, stage[c] \notin {"idle", "done"}, stage'[c] = "done",
         UNCHANGED request, NEW o, result' = [result EXCEPT ![c] = o]
  PROVE  Engine!Return(c)
<1>1. request[c] # Engine!NoRequest /\ result[c] = Engine!NoReply
  BY DEF Inv, AInv, Asked, Returned, NoRequest
<1>2. result'[c] \in Engine!Outcome(request[c]) /\ result'[c] = o
  BY DEF Inv, AInv, Returned, IInv, Functions
<1> QED
  BY <1>1, <1>2 DEF Engine!Return

LEMMA StepIsPromised ==
  Inv /\ Inv' /\ [EvalNext]_engineVars => [Engine!Next]_(Engine!vars)
<1> SUFFICES ASSUME Inv, Inv', [EvalNext]_engineVars PROVE [Engine!Next]_(Engine!vars)
  OBVIOUS
<1> USE DEF Engine!vars
<1>1. CASE UNCHANGED engineVars
  BY <1>1 DEF engineVars
<1>2. ASSUME NEW c \in Calls, CallerStep(c) PROVE [Engine!Next]_(Engine!vars)
  <2>1. CASE Validate(c)
    <3>1. CASE request[c].verdict = 200
      BY <2>1, <3>1 DEF Validate
    <3>2. CASE request[c].verdict # 200
      <4>1. Engine!Return(c)
        BY <2>1, <3>2, EndIsReturn DEF Validate, Goto, Inv, IInv, Functions
      <4> QED
        BY <4>1 DEF Engine!Next
    <3> QED
      BY <3>1, <3>2
  <2>2. CASE BuildIndex(c)
    BY <2>2 DEF BuildIndex
  <2>3. CASE Assemble(c)
    <3>1. Engine!Return(c)
      BY <2>3, EndIsReturn DEF Assemble, Goto, Inv, IInv, Functions
    <3> QED
      BY <3>1 DEF Engine!Next
  <2>4. CASE Resume(c)
    <3>1. Engine!Return(c)
      BY <2>4, EndIsReturn DEF Resume, Goto, Inv, IInv, Functions
    <3> QED
      BY <3>1 DEF Engine!Next
  <2> QED
    BY <1>2, <2>1, <2>2, <2>3, <2>4 DEF CallerStep
<1>3. ASSUME NEW c \in Calls, GiveUpAny(c) PROVE [Engine!Next]_(Engine!vars)
  BY <1>3 DEF GiveUpAny, GiveUp
<1>4. ASSUME NEW t \in Threads, ThreadStep(t) PROVE [Engine!Next]_(Engine!vars)
  BY <1>4 DEF ThreadStep, TakeAny, TakeQuestion, Read, Finish, Panic
<1>5. ASSUME NEW c \in Calls, NEW r \in Requests, Call(c, r) PROVE [Engine!Next]_(Engine!vars)
  BY <1>5, CallIsAsk DEF Engine!Next
<1> QED
  BY <1>1, <1>2, <1>3, <1>4, <1>5 DEF EvalNext, EngineStep

(* The refinement, but for liveness: a call returns at most once, and what *)
(* it returns is the outcome its own request has alone.                    *)
THEOREM EngineImplementsPromise ==
  EvalSpec => Engine!Init /\ [][Engine!Next]_(Engine!vars)
<1>1. EvalInit => Engine!Init
  BY DEF EvalInit, Engine!Init, NoRequest
<1> QED
  BY <1>1, StepIsPromised, EngineReadsAlone, PTL DEF EvalSpec

-----------------------------------------------------------------------------
(* The server.                                                             *)

Shapes ==
  /\ server \in {"up", "draining", "closing", "exited"}
  /\ conn = [c \in Calls |-> conn[c]]
  /\ body = [c \in Calls |-> body[c]]
  /\ job = [c \in Calls |-> job[c]]

(* A call's stage, as its job sees it. *)
StageOfJob ==
  /\ \A c \in Calls : stage[c] \notin {"idle", "done"} => job[c] = "running"
  /\ \A c \in Calls : stage[c] = "idle" <=> job[c] \in {"none", "queued", "cancelled"}

(* A job belongs to a request that was accepted, and carries its body. *)
Carried ==
  /\ \A c \in Calls : conn[c] \in Conns /\ job[c] \in Jobs
  /\ \A c \in Calls : conn[c] # "idle" => body[c] \in Bodies
  /\ \A c \in Calls : conn[c] \in {"idle", "reading"} => job[c] = "none"

(* Once serve has returned nothing is open or queued, and nothing starts.  *)
Closed ==
  /\ server \in {"closing", "exited"} =>
       \A c \in Calls : conn[c] \in {"idle", "answered", "gone"} /\ job[c] # "queued"
  /\ server = "exited" => Running = {}

Own == Shapes /\ StageOfJob /\ Carried /\ Closed
SInv == IInv /\ Own

-----------------------------------------------------------------------------
LEMMA InitSInv == ServerInit => SInv
  BY InitInv DEF ServerInit, EvalInit, SInv, Own, Shapes, StageOfJob, Carried, Closed,
                 Running, Conns, Jobs, Open

(* Steps of the connections alone: the engine and the jobs stay as they    *)
(* are, and no connection opens.                                           *)
LEMMA ConnectionStep ==
  ASSUME SInv, NEW c \in Calls, UNCHANGED <<engineVars, server, body, job>>,
         conn[c] \in Open, NEW s \in {"answered", "gone"},
         conn' = [conn EXCEPT ![c] = s]
  PROVE  Own'
  BY DEF SInv, IInv, engineVars, Own, Shapes, StageOfJob, Carried, Closed, Running,
         Conns, Jobs, Open

LEMMA AcceptInv ==
  ASSUME SInv, NEW c \in Calls, NEW b \in Bodies, Accept(c, b) PROVE Own'
  BY DEF SInv, Accept, engineVars, Own, Shapes, StageOfJob, Carried, Closed, Running,
         Conns, Jobs, Open

LEMMA SpawnInv == ASSUME SInv, NEW c \in Calls, Spawn(c) PROVE Own'
<1> USE DEF SInv, Spawn, engineVars, Own
<1>1. Shapes'
  BY DEF Shapes
<1>2. StageOfJob'
  <2>1. job[c] = "none"
    BY DEF Carried
  <2> QED
    BY <2>1 DEF StageOfJob, Shapes
<1>3. Carried'
  BY DEF Carried, Shapes, Conns, Jobs, Open
<1>4. Closed'
  BY DEF Closed, Carried, Running, Shapes
<1> QED
  BY <1>1, <1>2, <1>3, <1>4

LEMMA StartJobInv == ASSUME SInv, NEW c \in Calls, StartJob(c) PROVE Own'
<1> USE DEF SInv, StartJob, Call, Goto, Own
<1>1. Shapes'
  BY DEF Shapes
<1>2. StageOfJob'
  BY DEF StageOfJob, Shapes, IInv, Functions
<1>3. Carried'
  BY DEF Carried, Shapes, Jobs
<1>4. Closed'
  BY DEF Closed, Running, Shapes
<1> QED
  BY <1>1, <1>2, <1>3, <1>4

LEMMA FinishJobInv == ASSUME SInv, NEW c \in Calls, FinishJob(c) PROVE Own'
  BY DEF SInv, FinishJob, engineVars, Own, Shapes, StageOfJob, Carried, Closed, Running, Jobs

(* Of the engine's steps, the server sees only that no call leaves "idle"  *)
(* or "done" by itself.                                                    *)
LEMMA EngineOnCalls ==
  ASSUME IInv, EngineStep, NEW c \in Calls
  PROVE  /\ stage[c] \in {"idle", "done"} => stage'[c] = stage[c]
         /\ stage[c] # "idle" => stage'[c] # "idle"
<1> USE DEF IInv, Goto, Functions, Typed, Stages
<1>1. ASSUME NEW d \in Calls, CallerStep(d)
      PROVE  /\ stage[c] \in {"idle", "done"} => stage'[c] = stage[c]
             /\ stage[c] # "idle" => stage'[c] # "idle"
  BY <1>1 DEF CallerStep, Validate, BuildIndex, Assemble, Resume
<1>2. ASSUME NEW d \in Calls, GiveUpAny(d) PROVE stage' = stage
  BY <1>2 DEF GiveUpAny, GiveUp
<1>3. ASSUME NEW t \in Threads, TakeAny(t) \/ Read(t) \/ Finish(t) PROVE stage' = stage
  BY <1>3 DEF TakeAny, TakeQuestion, Read, Finish
<1>4. ASSUME NEW t \in Threads, Panic(t)
      PROVE  /\ stage[c] \in {"idle", "done"} => stage'[c] = stage[c]
             /\ stage[c] # "idle" => stage'[c] # "idle"
  <2>1. Busy(t)
    BY <1>4 DEF Panic, AllRead
  <2>2. /\ thread[t].call \in Calls
        /\ stage[thread[t].call] \in {"inline", "pool", "unwind"}
    BY <2>1 DEF QuestionsPartitioned, OnWaitingCall, OwnQuestions, Serves
  <2> QED
    BY <1>4, <2>2 DEF Panic
<1> QED
  BY <1>1, <1>2, <1>3, <1>4 DEF EngineStep, ThreadStep

LEMMA EngineRunsInv == ASSUME SInv, EngineRuns PROVE Own'
<1> USE DEF SInv, EngineRuns, serverVars, Own
<1>1. StageOfJob'
  BY EngineOnCalls DEF StageOfJob
<1>2. Shapes' /\ Carried' /\ Closed'
  BY DEF Shapes, Carried, Closed, Running
<1> QED
  BY <1>1, <1>2

LEMMA ShutdownInv == ASSUME SInv, Interrupt \/ ServeReturns \/ Exit PROVE Own'
<1>1. CASE Interrupt
  BY <1>1 DEF Interrupt, SInv, engineVars, Own, Shapes, StageOfJob, Carried, Closed, Running
<1>2. CASE ServeReturns
  BY <1>2 DEF ServeReturns, SInv, engineVars, Own, Shapes, StageOfJob, Carried, Closed,
              Running, Conns, Open, Jobs
<1>3. CASE Exit
  BY <1>3 DEF Exit, SInv, engineVars, Own, Shapes, StageOfJob, Carried, Closed, Running
<1> QED
  BY <1>1, <1>2, <1>3

-----------------------------------------------------------------------------
(* Every step of the server is, for the engine, a step of its own, a call  *)
(* made, or nothing.                                                       *)
LEMMA EngineUnderServer == SInv /\ [ServerNext]_vars => [EvalNext]_engineVars
<1> SUFFICES ASSUME SInv, [ServerNext]_vars PROVE [EvalNext]_engineVars
  OBVIOUS
<1>1. ASSUME NEW c \in Calls, StartJob(c) PROVE EvalNext
  <2>1. body[c] \in Bodies
    BY <1>1 DEF StartJob, SInv, Own, Carried
  <2>2. body[c].request \in Requests
    BY <2>1, ServerAssumption
  <2> QED
    BY <1>1, <2>2 DEF StartJob, EvalNext
<1>2. CASE EngineRuns
  BY <1>2 DEF EngineRuns, EvalNext
<1>3. CASE UNCHANGED engineVars
  BY <1>3
<1>4. CASE UNCHANGED vars
  BY <1>4 DEF vars
<1> QED
  BY <1>1, <1>2, <1>3, <1>4
     DEF ServerNext, Accept, HandlerStep, Refuse, Static, BadBody, Spawn, Respond, FinishJob,
         Timeout, Disconnect, Interrupt, ServeReturns, Exit

LEMMA StepSInv == SInv /\ [ServerNext]_vars => SInv'
<1> SUFFICES ASSUME SInv, [ServerNext]_vars PROVE SInv'
  OBVIOUS
<1>1. IInv'
  BY EngineUnderServer, StepInv DEF SInv
<1>2. Own'
  <2>1. ASSUME NEW c \in Calls, NEW b \in Bodies, Accept(c, b) PROVE Own'
    BY <2>1, AcceptInv
  <2>2. ASSUME NEW c \in Calls, HandlerStep(c) PROVE Own'
    <3>1. CASE Spawn(c)
      BY <3>1, SpawnInv
    <3>2. CASE Refuse(c) \/ Static(c) \/ BadBody(c) \/ Respond(c)
      BY <3>2, ConnectionStep DEF Refuse, Static, BadBody, Respond, Send, Open
    <3> QED
      BY <2>2, <3>1, <3>2 DEF HandlerStep
  <2>3. ASSUME NEW c \in Calls, StartJob(c) \/ FinishJob(c) PROVE Own'
    BY <2>3, StartJobInv, FinishJobInv
  <2>4. ASSUME NEW c \in Calls, Timeout(c) \/ Disconnect(c) PROVE Own'
    BY <2>4, ConnectionStep DEF Timeout, Disconnect, Send
  <2>5. CASE Interrupt \/ ServeReturns \/ Exit
    BY <2>5, ShutdownInv
  <2>6. CASE EngineRuns
    BY <2>6, EngineRunsInv
  <2>7. CASE UNCHANGED vars
    BY <2>7 DEF vars, engineVars, serverVars, SInv, Own, Shapes, StageOfJob, Carried, Closed,
                Running
  <2> QED
    BY <2>1, <2>2, <2>3, <2>4, <2>5, <2>6, <2>7 DEF ServerNext
<1> QED
  BY <1>1, <1>2 DEF SInv

THEOREM ServerInvariant == ServerSpec => []SInv
  BY InitSInv, StepSInv, PTL DEF ServerSpec

(* A thread of either pool is held only by a job that counts as running,   *)
(* also after its request timed out or its client left.                    *)
THEOREM ServerWorksUnderJobs == ServerSpec => []WorkUnderJob
<1>1. SInv => WorkUnderJob
  <2> SUFFICES ASSUME SInv PROVE WorkUnderJob
    OBVIOUS
  <2>1. ASSUME NEW t \in Threads, Busy(t) PROVE job[thread[t].call] = "running"
    BY <2>1 DEF SInv, Own, StageOfJob, IInv, OwnQuestions, QuestionsPartitioned,
                OnWaitingCall, Serves
  <2> QED
    BY <2>1 DEF WorkUnderJob, SInv, Own, StageOfJob
<1> QED
  BY <1>1, ServerInvariant, PTL

(* A graceful shutdown leaves no accepted request open and ends the        *)
(* process under no evaluation.                                            *)
THEOREM ShutdownIsGraceful == ServerSpec => []GracefulExit
<1>1. SInv => GracefulExit
  <2> SUFFICES ASSUME SInv PROVE GracefulExit
    OBVIOUS
  <2>1. ASSUME server = "exited", NEW t \in Threads PROVE ~Busy(t)
    BY <2>1 DEF SInv, Own, StageOfJob, Closed, Running, IInv, OwnQuestions,
                QuestionsPartitioned, OnWaitingCall, Serves
  <2> QED
    BY <2>1 DEF GracefulExit, SInv, Own, Closed
<1> QED
  BY <1>1, ServerInvariant, PTL

-----------------------------------------------------------------------------
(* What a connection has been told, and what its job works on.             *)
Sent ==
  \A c \in Calls : IF conn[c] = "idle" THEN body[c] = NoBody ELSE body[c] \in Bodies

Told ==
  \A c \in Calls : IF conn[c] = "answered" THEN response[c] \in PermittedFor(body[c])
                   ELSE response[c] = NoAnswer

(* A connection that waits for a job has a body that parses.               *)
Parsed(b) == ~TooLarge(b) /\ b.route = "systemone" /\ b.form = "json"

Awaited == \A c \in Calls : conn[c] = "awaiting" => Parsed(body[c])

OfItsBody ==
  \A c \in Calls : job[c] \in {"running", "finished"} => request[c] = body[c].request

Talk == response = [c \in Calls |-> response[c]] /\ Sent /\ Told /\ Awaited /\ OfItsBody
TInv == SInv /\ Inv /\ Talk

LEMMA BodyIsSent ==
  ASSUME ServerAssumption, NEW b \in Bodies
  PROVE  b # NoBody /\ b.request \in Requests
  BY DEF ServerAssumption, NoBody

LEMMA InitTInv == ServerInit => TInv
  BY InitSInv, InitBoth
     DEF ServerInit, TInv, Talk, Sent, Told, Awaited, OfItsBody

(* The answers of every step that closes a connection are the body's own.  *)
LEMMA TimeoutPermitted == ASSUME NEW b PROVE Reply(408, "empty", <<>>) \in PermittedFor(b)
  BY DEF PermittedFor

LEMMA RefusalPermitted ==
  ASSUME NEW b, TooLarge(b) PROVE Reply(413, "plain", <<>>) \in PermittedFor(b)
  BY DEF PermittedFor

LEMMA StaticPermitted ==
  ASSUME NEW b \in Bodies, ~TooLarge(b), b.route # "systemone"
  PROVE  Structured(IF b.route = "static" THEN 200 ELSE 404) \in PermittedFor(b)
<1>1. b.route \in {"static", "unknown"}
  BY ServerAssumption
<1> QED
  BY <1>1 DEF PermittedFor

LEMMA BadBodyPermitted ==
  ASSUME NEW b, ~TooLarge(b), b.route = "systemone", b.form \in {"empty", "malformed"}
  PROVE  Structured(422) \in PermittedFor(b)
  BY DEF PermittedFor

LEMMA ResultPermitted ==
  ASSUME NEW b, Parsed(b), NEW o \in Engine!Outcome(b.request)
  PROVE  Rendered(o) \in PermittedFor(b)
  BY DEF PermittedFor, Parsed

(* A step that closes a connection.                                        *)
LEMMA ClosingTalk ==
  ASSUME TInv, NEW c \in Calls, conn[c] \in Open, UNCHANGED <<engineVars, server, body, job>>,
         \/ \E a \in PermittedFor(body[c]) : Send(c, a)
         \/ conn' = [conn EXCEPT ![c] = "gone"] /\ response' = response
  PROVE  Talk'
<1> USE DEF TInv, Talk
<1>1. /\ \A d \in Calls \ {c} : conn'[d] = conn[d] /\ response'[d] = response[d]
      /\ \/ conn'[c] = "answered" /\ response'[c] \in PermittedFor(body[c])
         \/ conn'[c] = "gone" /\ response'[c] = response[c]
      /\ conn[c] \in {"reading", "awaiting"}
      /\ response' = [d \in Calls |-> response'[d]]
  BY DEF Send, SInv, Own, Shapes, Open
<1>2. body' = body /\ job' = job /\ request' = request
  BY DEF engineVars
<1>3. Sent' /\ Awaited' /\ OfItsBody'
  BY <1>1, <1>2 DEF Sent, Awaited, OfItsBody
<1>4. Told'
  BY <1>1, <1>2 DEF Told
<1> QED
  BY <1>1, <1>3, <1>4

(* The handler's answers.                                                  *)
Answers(c) == Refuse(c) \/ Static(c) \/ BadBody(c) \/ Respond(c) \/ Timeout(c)

LEMMA AnswersArePermitted ==
  ASSUME TInv, NEW c \in Calls, Answers(c)
  PROVE  /\ conn[c] \in Open
         /\ UNCHANGED <<engineVars, server, body, job>>
         /\ \E a \in PermittedFor(body[c]) : Send(c, a)
<1>1. conn[c] \in Open /\ UNCHANGED <<engineVars, server, body, job>>
  BY DEF Answers, Refuse, Static, BadBody, Respond, Timeout, Open
<1> SUFFICES \E a \in PermittedFor(body[c]) : Send(c, a)
  BY <1>1
<1>2. body[c] \in Bodies
  BY <1>1 DEF TInv, Talk, Sent, Open
<1>3. CASE Refuse(c)
  BY <1>3, RefusalPermitted DEF Refuse
<1>4. CASE Static(c)
  BY <1>2, <1>4, StaticPermitted DEF Static
<1>5. CASE BadBody(c)
  BY <1>5, BadBodyPermitted DEF BadBody
<1>6. CASE Respond(c)
  <2>1. job[c] = "finished" /\ conn[c] = "awaiting" /\ Send(c, Rendered(result[c]))
    BY <1>6 DEF Respond
  <2>2. stage[c] = "done" /\ request[c] = body[c].request /\ Parsed(body[c])
    <3>1. stage[c] = "done"
      BY <2>1 DEF TInv, SInv, Own, StageOfJob
    <3> QED
      BY <2>1, <3>1 DEF TInv, Talk, Awaited, OfItsBody
  <2>3. result[c] \in Engine!Outcome(body[c].request)
    BY <2>2 DEF TInv, Inv, AInv, Returned
  <2> QED
    BY <2>1, <2>2, <2>3, ResultPermitted
<1>7. CASE Timeout(c)
  BY <1>7, TimeoutPermitted DEF Timeout
<1> QED
  BY <1>3, <1>4, <1>5, <1>6, <1>7 DEF Answers

LEMMA AcceptTalk ==
  ASSUME TInv, NEW c \in Calls, NEW b \in Bodies, Accept(c, b) PROVE Talk'
<1>1. /\ conn[c] = "idle" /\ conn'[c] = "reading" /\ body'[c] = b
      /\ \A d \in Calls \ {c} : conn'[d] = conn[d] /\ body'[d] = body[d]
      /\ UNCHANGED <<request, job, response>>
      /\ job[c] = "none"
  BY DEF TInv, SInv, Own, Shapes, Carried, Accept, engineVars
<1>2. response' = [d \in Calls |-> response'[d]]
  BY <1>1 DEF TInv, Talk
<1>3. Sent'
  BY <1>1, BodyIsSent, ServerAssumption DEF TInv, Talk, Sent
<1>4. Told'
  BY <1>1 DEF TInv, Talk, Told
<1>5. Awaited'
  BY <1>1 DEF TInv, Talk, Awaited
<1>6. OfItsBody'
  BY <1>1 DEF TInv, Talk, OfItsBody
<1> QED
  BY <1>2, <1>3, <1>4, <1>5, <1>6 DEF Talk

LEMMA SpawnTalk == ASSUME TInv, NEW c \in Calls, Spawn(c) PROVE Talk'
<1>1. /\ conn[c] = "reading" /\ conn'[c] = "awaiting" /\ job'[c] = "queued"
      /\ \A d \in Calls \ {c} : conn'[d] = conn[d] /\ job'[d] = job[d]
      /\ UNCHANGED <<request, body, response>>
      /\ Parsed(body[c])
  BY DEF TInv, SInv, Own, Shapes, Spawn, engineVars, Parsed
<1>2. response' = [d \in Calls |-> response'[d]]
  BY <1>1 DEF TInv, Talk
<1>3. Sent'
  BY <1>1 DEF TInv, Talk, Sent
<1>4. Told'
  BY <1>1 DEF TInv, Talk, Told
<1>5. Awaited'
  BY <1>1 DEF TInv, Talk, Awaited
<1>6. OfItsBody'
  BY <1>1 DEF TInv, Talk, OfItsBody
<1> QED
  BY <1>2, <1>3, <1>4, <1>5, <1>6 DEF Talk

(* A step that leaves the connections alone keeps what they were told; it  *)
(* remains to see that the jobs still work on their bodies.                *)
LEMMA QuietTalk ==
  ASSUME TInv, UNCHANGED <<conn, body, response>>, OfItsBody' PROVE Talk'
  BY DEF TInv, Talk, Sent, Told, Awaited

LEMMA StartJobTalk == ASSUME TInv, NEW c \in Calls, StartJob(c) PROVE Talk'
<1>1. /\ request'[c] = body[c].request /\ UNCHANGED <<conn, body, response>>
      /\ \A d \in Calls \ {c} : request'[d] = request[d] /\ job'[d] = job[d]
  BY DEF StartJob, Call, TInv, SInv, Own, Shapes, IInv, Functions
<1>2. OfItsBody'
  BY <1>1 DEF TInv, Talk, OfItsBody
<1> QED
  BY <1>1, <1>2, QuietTalk

LEMMA FinishJobTalk == ASSUME TInv, NEW c \in Calls, FinishJob(c) PROVE Talk'
<1>1. /\ job[c] = "running" /\ UNCHANGED <<request, conn, body, response>>
      /\ \A d \in Calls \ {c} : job'[d] = job[d]
  BY DEF FinishJob, TInv, SInv, Own, Shapes, engineVars
<1>2. OfItsBody'
  BY <1>1 DEF TInv, Talk, OfItsBody
<1> QED
  BY <1>1, <1>2, QuietTalk

LEMMA ShutdownTalk == ASSUME TInv, Interrupt \/ ServeReturns \/ Exit PROVE Talk'
<1>1. /\ UNCHANGED <<request, conn, body, response>>
      /\ \A c \in Calls : job'[c] \in {job[c], "cancelled"}
  BY DEF Interrupt, ServeReturns, Exit, engineVars
<1>2. OfItsBody'
  BY <1>1 DEF TInv, Talk, OfItsBody
<1> QED
  BY <1>1, <1>2, QuietTalk

(* The engine never changes what a call was made with.                     *)
LEMMA EngineKeepsRequests == EngineStep => request' = request
  BY DEF EngineStep, CallerStep, Validate, BuildIndex, Assemble, Resume, GiveUpAny, GiveUp,
         ThreadStep, TakeAny, TakeQuestion, Read, Finish, Panic

LEMMA EngineRunsTalk == ASSUME TInv, EngineRuns PROVE Talk'
<1>1. UNCHANGED <<request, conn, body, job, response>>
  BY EngineKeepsRequests DEF EngineRuns, serverVars
<1>2. OfItsBody'
  BY <1>1 DEF TInv, Talk, OfItsBody
<1> QED
  BY <1>1, <1>2, QuietTalk

LEMMA StepTInv == TInv /\ [ServerNext]_vars => TInv'
<1> SUFFICES ASSUME TInv, [ServerNext]_vars PROVE TInv'
  OBVIOUS
<1>1. SInv' /\ Inv'
  BY StepSInv, EngineUnderServer, StepAlone DEF TInv
<1>2. Talk'
  <2>1. ASSUME NEW c \in Calls, NEW b \in Bodies, Accept(c, b) PROVE Talk'
    BY <2>1, AcceptTalk
  <2>2. ASSUME NEW c \in Calls, Answers(c) PROVE Talk'
    BY <2>2, AnswersArePermitted, ClosingTalk
  <2>3. ASSUME NEW c \in Calls, Disconnect(c) PROVE Talk'
    BY <2>3, ClosingTalk DEF Disconnect
  <2>4. ASSUME NEW c \in Calls, Spawn(c) \/ StartJob(c) \/ FinishJob(c) PROVE Talk'
    BY <2>4, SpawnTalk, StartJobTalk, FinishJobTalk
  <2>5. CASE Interrupt \/ ServeReturns \/ Exit
    BY <2>5, ShutdownTalk
  <2>6. CASE EngineRuns
    BY <2>6, EngineRunsTalk
  <2>7. CASE UNCHANGED vars
    BY <2>7 DEF vars, engineVars, serverVars, TInv, Talk, Sent, Told, Awaited, OfItsBody
  <2> QED
    BY <2>1, <2>2, <2>3, <2>4, <2>5, <2>6, <2>7 DEF ServerNext, HandlerStep, Answers
<1> QED
  BY <1>1, <1>2 DEF TInv

(* Every answer sent is one its own body accounts for, and a job's result  *)
(* is the outcome of the request that its connection carried.              *)
THEOREM ServerTalks == ServerSpec => []TInv
  BY InitTInv, StepTInv, PTL DEF ServerSpec

-----------------------------------------------------------------------------
(* The statuses an answer can have.                                        *)
Statuses == {200, 404, 408, 413, 422, 500}

LEMMA OutcomeStatus ==
  ASSUME NEW r \in Requests, NEW o \in Engine!Outcome(r) PROVE Rendered(o).status \in Statuses
<1>1. CASE r.verdict # 200
  <2>1. o = [kind |-> "invalid", status |-> r.verdict] /\ r.verdict \in {404, 413, 422}
    BY <1>1, EvaluateAssumption DEF Engine!Outcome, Engine!Invalid
  <2>2. Rendered(o) = Structured(r.verdict)
    BY <2>1 DEF Rendered
  <2> QED
    BY <2>1, <2>2 DEF Structured, Reply, Statuses
<1>2. CASE r.verdict = 200 /\ o = Engine!Panicked
  <2>1. Rendered(o) = Structured(500)
    BY <1>2 DEF Rendered, Engine!Panicked
  <2> QED
    BY <2>1 DEF Structured, Reply, Statuses
<1>3. CASE r.verdict = 200 /\ o # Engine!Panicked
  <2>1. PICK a : o = [kind |-> "answered", answers |-> a]
    BY <1>3 DEF Engine!Outcome, Engine!Answered
  <2>2. Rendered(o) = Reply(200, "json", a)
    BY <2>1 DEF Rendered
  <2> QED
    BY <2>2 DEF Reply, Statuses
<1> QED
  BY <1>1, <1>2, <1>3

LEMMA PermittedStatus ==
  ASSUME NEW b \in Bodies, NEW a \in PermittedFor(b) PROVE a.status \in Statuses
<1>1. b.request \in Requests
  BY ServerAssumption
<1>2. CASE \E o \in Engine!Outcome(b.request) : a = Rendered(o)
  BY <1>1, <1>2, OutcomeStatus
<1>3. CASE \/ a = Reply(408, "empty", <<>>) \/ a = Reply(413, "plain", <<>>)
           \/ a \in {Structured(200), Structured(404), Structured(422)}
  BY <1>3 DEF Structured, Reply, Statuses
<1> QED
  BY <1>2, <1>3 DEF PermittedFor

(* Every variable keeps its type, and an answer its status: the error      *)
(* statuses are those of api/error.rs, the timer's and the panic's.        *)
THEOREM ServerTypes == ServerSpec => []ServerTypeOK
<1>1. TInv => ServerTypeOK
  <2> SUFFICES ASSUME TInv PROVE ServerTypeOK
    OBVIOUS
  <2>1. EvalTypeOK
    BY InvTypes DEF TInv, SInv
  <2>2. conn \in [Calls -> Conns] /\ job \in [Calls -> Jobs]
    BY DEF TInv, SInv, Own, Shapes, Carried
  <2>3. body \in [Calls -> Bodies \cup {NoBody}]
    BY DEF TInv, SInv, Own, Shapes, Talk, Sent
  <2>4. ASSUME NEW c \in Calls
        PROVE  response[c].status \in {0, 200, 404, 408, 413, 422, 500}
    <3>1. CASE conn[c] = "answered"
      <4>1. response[c] \in PermittedFor(body[c]) /\ body[c] \in Bodies
        BY <3>1 DEF TInv, Talk, Told, Sent
      <4> QED
        BY <4>1, PermittedStatus DEF Statuses
    <3>2. CASE conn[c] # "answered"
      BY <3>2 DEF TInv, Talk, Told, NoAnswer
    <3> QED
      BY <3>1, <3>2
  <2>5. server \in {"up", "draining", "closing", "exited"}
    BY DEF TInv, SInv, Own, Shapes
  <2> QED
    BY <2>1, <2>2, <2>3, <2>4, <2>5 DEF ServerTypeOK
<1> QED
  BY <1>1, ServerTalks, PTL

-----------------------------------------------------------------------------
(* What a client sees is that of Service: a request is received, its       *)
(* connection closed once, and no other step is seen at all.               *)

LEMMA ReceiveIsSeen ==
  ASSUME TInv, NEW c \in Calls, NEW b \in Bodies, Accept(c, b)
  PROVE  ServiceView!Receive(c, b)
<1>1. body[c] = NoBody /\ body' = [body EXCEPT ![c] = b]
  BY DEF Accept, TInv, Talk, Sent
<1>2. \A d \in Calls : AnswerOf(d)' = AnswerOf(d)
  BY DEF Accept, AnswerOf, TInv, SInv, Own, Shapes
<1> QED
  BY <1>1, <1>2 DEF ServiceView!Receive, ServiceView!NoBody, NoBody

LEMMA CloseIsSeen ==
  ASSUME TInv, NEW c \in Calls, conn[c] \in Open, UNCHANGED body,
         \/ \E a \in PermittedFor(body[c]) : Send(c, a)
         \/ conn' = [conn EXCEPT ![c] = "gone"] /\ response' = response
  PROVE  ServiceView!Close(c)
<1>1. body[c] \in Bodies /\ response[c] = NoAnswer /\ conn[c] # "gone"
  BY DEF TInv, Talk, Sent, Told, Open
<1>2. body[c] # ServiceView!NoBody
  BY <1>1, BodyIsSent, ServerAssumption DEF ServiceView!NoBody, NoBody
<1>3. AnswerOf(c) = ServiceView!NoAnswer
  BY <1>1 DEF AnswerOf, ServiceView!NoAnswer, NoAnswer
<1>4. \A d \in Calls \ {c} : AnswerOf(d)' = AnswerOf(d)
  BY DEF AnswerOf, Send, TInv, SInv, Own, Shapes, Talk
<1>5. AnswerOf(c)' \in PermittedFor(body[c]) \cup {ServiceView!Lost}
  BY DEF AnswerOf, ServiceView!Lost, Send, TInv, SInv, Own, Shapes, Talk
<1>6. [d \in Calls |-> AnswerOf(d)]' =
        [[d \in Calls |-> AnswerOf(d)] EXCEPT ![c] = AnswerOf(c)']
  BY <1>4
<1> QED
  BY <1>2, <1>3, <1>5, <1>6 DEF ServiceView!Close

LEMMA NothingIsSeen ==
  ASSUME UNCHANGED <<conn, body, response>> PROVE UNCHANGED ServiceView!vars
  BY DEF ServiceView!vars, AnswerOf

LEMMA StepIsServed == TInv /\ [ServerNext]_vars => [ServiceView!Next]_(ServiceView!vars)
<1> SUFFICES ASSUME TInv, [ServerNext]_vars PROVE [ServiceView!Next]_(ServiceView!vars)
  OBVIOUS
<1>1. ASSUME NEW c \in Calls, NEW b \in Bodies, Accept(c, b) PROVE ServiceView!Next
  BY <1>1, ReceiveIsSeen DEF ServiceView!Next
<1>2. ASSUME NEW c \in Calls, Answers(c) PROVE ServiceView!Next
  <2>1. ServiceView!Close(c)
    BY <1>2, AnswersArePermitted, CloseIsSeen
  <2> QED
    BY <2>1 DEF ServiceView!Next
<1>3. ASSUME NEW c \in Calls, Disconnect(c) PROVE ServiceView!Next
  <2>1. ServiceView!Close(c)
    BY <1>3, CloseIsSeen DEF Disconnect
  <2> QED
    BY <2>1 DEF ServiceView!Next
<1>4. ASSUME NEW c \in Calls, StartJob(c) \/ FinishJob(c) PROVE UNCHANGED ServiceView!vars
  BY <1>4, NothingIsSeen DEF StartJob, FinishJob
<1>5. ASSUME NEW c \in Calls, Spawn(c) PROVE UNCHANGED ServiceView!vars
  <2>1. \A d \in Calls : AnswerOf(d)' = AnswerOf(d)
    BY <1>5 DEF Spawn, AnswerOf, TInv, SInv, Own, Shapes
  <2> QED
    BY <1>5, <2>1 DEF Spawn, ServiceView!vars
<1>6. CASE Interrupt \/ ServeReturns \/ Exit \/ EngineRuns
  BY <1>6, NothingIsSeen DEF Interrupt, ServeReturns, Exit, EngineRuns, serverVars
<1>7. CASE UNCHANGED vars
  BY <1>7, NothingIsSeen DEF vars, serverVars
<1> QED
  BY <1>1, <1>2, <1>3, <1>4, <1>5, <1>6, <1>7 DEF ServerNext, HandlerStep, Answers

(* The refinement, but for liveness: an accepted request is answered at    *)
(* most once, with an answer its own body accounts for or none, whatever   *)
(* the timers, the disconnections, the other requests and the shutdown do. *)
THEOREM ServerImplementsService ==
  ServerSpec => ServiceView!Init /\ [][ServiceView!Next]_(ServiceView!vars)
<1>1. ServerInit => ServiceView!Init
  BY DEF ServerInit, ServiceView!Init, ServiceView!NoBody, ServiceView!NoAnswer, NoBody,
         NoAnswer, AnswerOf
<1> QED
  BY <1>1, StepIsServed, ServerTalks, PTL DEF ServerSpec
=============================================================================
