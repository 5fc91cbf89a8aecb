---------------------------- MODULE HttpServer ----------------------------
(***************************************************************************)
(* The HTTP server, crates/server/src/lib.rs, over the engine of Evaluate. *)
(*                                                                         *)
(* A request is read on the async runtime, its evaluation runs as a job of *)
(* the runtime's blocking pool, and a timer of 60 s covers both: when it   *)
(* fires, the handler's future is dropped, but a job already queued or     *)
(* running is not stopped.  The handler of a client that disconnects is    *)
(* dropped the same way.  Ctrl-C stops accepting; serve returns when no    *)
(* connection is open, and dropping the runtime cancels the jobs still     *)
(* queued and waits for those that run.                                    *)
(***************************************************************************)
EXTENDS Evaluate

CONSTANTS
  Bodies,            \* what a request may carry: route, size, form, request
  MaxBody,           \* --max-body, the limit of RequestBodyLimitLayer
  ExtractorLimit,    \* the limit the Bytes extractor has of its own
  BlockingThreads    \* threads of the runtime's blocking pool

ASSUME ServerAssumption ==
  /\ MaxBody \in Nat
  /\ ExtractorLimit \in Nat
  /\ BlockingThreads \in Nat \ {0}
  /\ \A b \in Bodies :
       /\ b.route \in {"systemone", "static", "unknown"}
       /\ b.size \in Nat
       /\ b.form \in {"empty", "malformed", "json"}
       /\ b.request \in Requests

VARIABLES
  server,      \* the process: up, draining, closing, exited
  conn,        \* function: call -> its connection
  body,        \* function: call -> what it carries, or NoBody
  job,         \* function: call -> its job on the blocking pool
  response     \* function: call -> what was sent, or NoAnswer

Open == {"reading", "awaiting"}
Conns == Open \cup {"idle", "answered", "gone"}
Jobs == {"none", "queued", "running", "finished", "cancelled"}

serverVars == <<server, conn, body, job, response>>
vars == <<engineVars, serverVars>>

NoBody == [route |-> "none"]
NoAnswer == [status |-> 0]
Reply(status, form, content) == [status |-> status, form |-> form, content |-> content]
Structured(status) == Reply(status, "json", <<>>)

ServerInit ==
  /\ EvalInit
  /\ server = "up"
  /\ conn = [c \in Calls |-> "idle"]
  /\ body = [c \in Calls |-> NoBody]
  /\ job = [c \in Calls |-> "none"]
  /\ response = [c \in Calls |-> NoAnswer]

Send(c, r) ==
  /\ conn' = [conn EXCEPT ![c] = "answered"]
  /\ response' = [response EXCEPT ![c] = r]

-----------------------------------------------------------------------------
(* A request arrives on a listening server; its timer starts. *)
Accept(c, b) ==
  /\ server = "up"
  /\ conn[c] = "idle"
  /\ conn' = [conn EXCEPT ![c] = "reading"]
  /\ body' = [body EXCEPT ![c] = b]
  /\ UNCHANGED <<engineVars, server, job, response>>

(* The limit layer refuses an announced length on every route, and the     *)
(* extractor of systemone refuses what is over its own limit.              *)
TooLarge(b) ==
  \/ b.size > MaxBody
  \/ b.route = "systemone" /\ b.size > ExtractorLimit

Refuse(c) ==
  /\ conn[c] = "reading"
  /\ TooLarge(body[c])
  /\ Send(c, Reply(413, "plain", <<>>))
  /\ UNCHANGED <<engineVars, server, body, job>>

(* health, models, openapi and the fallback do not read the body. *)
Static(c) ==
  /\ conn[c] = "reading"
  /\ ~TooLarge(body[c])
  /\ body[c].route # "systemone"
  /\ Send(c, Structured(IF body[c].route = "static" THEN 200 ELSE 404))
  /\ UNCHANGED <<engineVars, server, body, job>>

(* systemone with a body that is empty or does not parse. *)
BadBody(c) ==
  /\ conn[c] = "reading"
  /\ body[c].route = "systemone"
  /\ ~TooLarge(body[c])
  /\ body[c].form \in {"empty", "malformed"}
  /\ Send(c, Structured(422))
  /\ UNCHANGED <<engineVars, server, body, job>>

(* systemone with a body that parses: spawn_blocking, and await the job. *)
Spawn(c) ==
  /\ conn[c] = "reading"
  /\ body[c].route = "systemone"
  /\ ~TooLarge(body[c])
  /\ body[c].form = "json"
  /\ conn' = [conn EXCEPT ![c] = "awaiting"]
  /\ job' = [job EXCEPT ![c] = "queued"]
  /\ UNCHANGED <<engineVars, server, body, response>>

-----------------------------------------------------------------------------
Running == {c \in Calls : job[c] = "running"}

(* A blocking thread takes the job and calls Engine::evaluate. *)
StartJob(c) ==
  /\ job[c] = "queued"
  /\ Cardinality(Running) < BlockingThreads
  /\ job' = [job EXCEPT ![c] = "running"]
  /\ Call(c, body[c].request)
  /\ UNCHANGED <<server, conn, body, response>>

(* evaluate returned or panicked: the join handle is ready, the thread free. *)
FinishJob(c) ==
  /\ job[c] = "running"
  /\ stage[c] = "done"
  /\ job' = [job EXCEPT ![c] = "finished"]
  /\ UNCHANGED <<engineVars, server, conn, body, response>>

Rendered(r) ==
  CASE r.kind = "answered" -> Reply(200, "json", r.answers)
    [] r.kind = "invalid"  -> Structured(r.status)
    [] r.kind = "panicked" -> Structured(500)

(* Mutant: the answer is sent whoever still waits for it. *)
RespondLate(c) ==
  /\ conn[c] # "gone"
  /\ job[c] = "finished"
  /\ Send(c, Rendered(result[c]))
  /\ UNCHANGED <<engineVars, server, body, job>>

(* The handler resumes with the job's result. *)
Respond(c) ==
  /\ conn[c] = "awaiting"
  /\ job[c] = "finished"
  /\ Send(c, Rendered(result[c]))
  /\ UNCHANGED <<engineVars, server, body, job>>

(* Mutant: the timer answers 504. *)
TimeoutAsGateway(c) ==
  /\ conn[c] \in Open
  /\ Send(c, Reply(504, "empty", <<>>))
  /\ UNCHANGED <<engineVars, server, body, job>>

(* Mutant: dropping the handler is taken to stop its job. *)
TimeoutAborting(c) ==
  /\ conn[c] \in Open
  /\ Send(c, Reply(408, "empty", <<>>))
  /\ job' = [job EXCEPT ![c] = IF @ \in {"queued", "running"} THEN "cancelled" ELSE @]
  /\ UNCHANGED <<engineVars, server, body>>

(* The timer fires first: the handler is dropped, its job is not. *)
Timeout(c) ==
  /\ conn[c] \in Open
  /\ Send(c, Reply(408, "empty", <<>>))
  /\ UNCHANGED <<engineVars, server, body, job>>

(* The client goes away: the same, with nobody to answer. *)
Disconnect(c) ==
  /\ conn[c] \in Open
  /\ conn' = [conn EXCEPT ![c] = "gone"]
  /\ UNCHANGED <<engineVars, server, body, job, response>>

-----------------------------------------------------------------------------
Interrupt ==
  /\ server = "up"
  /\ server' = "draining"
  /\ UNCHANGED <<engineVars, conn, body, job, response>>

(* serve returns; the runtime is dropped, and with it the queued jobs. *)
ServeReturns ==
  /\ server = "draining"
  /\ \A c \in Calls : conn[c] \notin Open
  /\ server' = "closing"
  /\ job' = [c \in Calls |-> IF job[c] = "queued" THEN "cancelled" ELSE job[c]]
  /\ UNCHANGED <<engineVars, conn, body, response>>

(* Mutant: the process ends without waiting for the blocking pool. *)
ExitAtOnce ==
  /\ server = "closing"
  /\ server' = "exited"
  /\ UNCHANGED <<engineVars, conn, body, job, response>>

(* Mutant: a cancelled job is waited for. *)
ExitAfterAllJobs ==
  /\ server = "closing"
  /\ \A c \in Calls : job[c] \in {"none", "finished"}
  /\ server' = "exited"
  /\ UNCHANGED <<engineVars, conn, body, job, response>>

(* The runtime's threads are joined: the last running job has ended. *)
Exit ==
  /\ server = "closing"
  /\ Running = {}
  /\ server' = "exited"
  /\ UNCHANGED <<engineVars, conn, body, job, response>>

-----------------------------------------------------------------------------
EngineRuns == EngineStep /\ UNCHANGED serverVars

HandlerStep(c) == Refuse(c) \/ Static(c) \/ BadBody(c) \/ Spawn(c) \/ Respond(c)

ServerNext ==
  \/ \E c \in Calls, b \in Bodies : Accept(c, b)
  \/ \E c \in Calls : \/ HandlerStep(c) \/ StartJob(c) \/ FinishJob(c)
                      \/ Timeout(c) \/ Disconnect(c)
  \/ Interrupt \/ ServeReturns \/ Exit
  \/ EngineRuns

(* The timer of an open request fires unless it is closed before, the      *)
(* blocking pool and the engine's threads run, and shutting down goes on.  *)
(* Nothing obliges a client to finish its body, or a handler to be quick.  *)
ServerFairness ==
  /\ \A c \in Calls : /\ WF_vars(Timeout(c))
                      /\ []<>~(job[c] = "queued" /\ Cardinality(Running) < BlockingThreads)
                           \/ []<><<StartJob(c)>>_vars
                      /\ WF_vars(FinishJob(c))
  /\ WF_vars(ServeReturns)
  /\ WF_vars(Exit)
  /\ EngineFairness

ServerSpec == ServerInit /\ [][ServerNext]_vars /\ ServerFairness

-----------------------------------------------------------------------------
(* Types. *)
ServerTypeOK ==
  /\ EvalTypeOK
  /\ server \in {"up", "draining", "closing", "exited"}
  /\ conn \in [Calls -> Conns]
  /\ body \in [Calls -> Bodies \cup {NoBody}]
  /\ job \in [Calls -> Jobs]
  /\ \A c \in Calls : response[c].status \in {0, 200, 404, 408, 413, 422, 500}

(* The engine works only under a running job, and a job that was timed out *)
(* or abandoned still counts as running: whoever holds a thread of either  *)
(* pool is known to the shutdown (lib.rs:100, serve.rs:20).                *)
WorkUnderJob ==
  /\ \A t \in Threads : Busy(t) => job[thread[t].call] = "running"
  /\ \A c \in Calls : stage[c] \notin {"idle", "done"} => job[c] = "running"
  /\ \A c \in Calls : stage[c] = "idle" <=> job[c] \in {"none", "queued", "cancelled"}

(* The process never ends under work: no evaluation is cut off, and no     *)
(* accepted request is left without an answer by a graceful shutdown       *)
(* (lib.rs:141, with_graceful_shutdown).                                   *)
GracefulExit ==
  /\ server \in {"closing", "exited"} =>
       \A c \in Calls : conn[c] \in {"idle", "answered", "gone"} /\ job[c] # "queued"
  /\ server = "exited" => \A t \in Threads : ~Busy(t)

(* Ctrl-C ends the process, even with work nobody waits for. *)
ShutdownCompletes == (server = "draining") ~> (server = "exited")

(* The server implements the service: one answer each, the body's own. *)
PermittedFor(b) ==
  {Reply(408, "empty", <<>>)} \cup
  (IF TooLarge(b) THEN {Reply(413, "plain", <<>>)}
   ELSE IF b.route = "static" THEN {Structured(200)}
   ELSE IF b.route = "unknown" THEN {Structured(404)}
   ELSE IF b.form # "json" THEN {Structured(422)}
   ELSE {Rendered(o) : o \in Engine!Outcome(b.request)})

AnswerOf(c) == IF conn[c] = "gone" THEN [status |-> 1] ELSE response[c]

ServiceView == INSTANCE Service WITH
  Clients <- Calls,
  Permitted <- PermittedFor,
  sent <- body,
  answer <- [c \in Calls |-> AnswerOf(c)]
ImplementsService == ServiceView!Spec

=============================================================================
