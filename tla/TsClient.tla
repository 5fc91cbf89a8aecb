----------------------------- MODULE TsClient -----------------------------
(***************************************************************************)
(* SextantClient.request, clients/typescript/sextant.ts: one asynchronous  *)
(* request has two awaits, the headers and the body, a timer of its own    *)
(* that runs up to the headers, and listens on the caller's AbortSignal,   *)
(* which several requests may share.                                       *)
(*                                                                         *)
(* fetch is external: it rejects once its signal is aborted, and so does   *)
(* the reading of a body that is not complete yet.                         *)
(***************************************************************************)
EXTENDS Naturals, FiniteSets

CONSTANTS
  Requests,     \* requests of one client and of its callers
  Timed,        \* those made with timeoutMs > 0, where AbortController exists
  Signalled,    \* those made with the shared signal
  Responses     \* what a server may answer: its status and the form of its body

ASSUME TsAssumption ==
  /\ Timed \subseteq Requests
  /\ Signalled \subseteq Requests
  /\ \A r \in Responses : r.status \in 100 .. 599

VARIABLES
  signal,       \* the shared signal: "quiet" or "aborted"
  phase,        \* function: request -> where its code is
  timer,        \* function: request -> its timer
  listening,    \* requests whose abort listener is on the signal
  aborted,      \* requests whose controller is aborted
  response,     \* function: request -> the response whose headers arrived
  outcome       \* function: request -> how its promise settled

vars == <<signal, phase, timer, listening, aborted, response, outcome>>

NoResponse == [status |-> 0, form |-> "none"]
Pending == [kind |-> "pending"]
Resolved == [kind |-> "resolved"]
Failed(status, code) == [kind |-> "SextantError", status |-> status, code |-> code]
Raw == [kind |-> "raw"]

Open == {r \in Requests : phase[r] \in {"fetching", "reading"}}
Ok(resp) == resp.status \in 200 .. 299

(* The signal that fetch was given is aborted: the controller's own, or    *)
(* without a timeout the caller's.                                         *)
Cancelled(r) ==
  IF r \in Timed THEN r \in aborted ELSE r \in Signalled /\ signal = "aborted"

TsInit ==
  /\ signal = "quiet"
  /\ phase = [r \in Requests |-> "idle"]
  /\ timer = [r \in Requests |-> "none"]
  /\ listening = {}
  /\ aborted = {}
  /\ response = [r \in Requests |-> NoResponse]
  /\ outcome = [r \in Requests |-> Pending]

Settle(r, o) ==
  /\ phase' = [phase EXCEPT ![r] = "settled"]
  /\ outcome' = [outcome EXCEPT ![r] = o]

(* The finally block. *)
ClearTimer(r) == timer' = [timer EXCEPT ![r] = IF @ = "armed" THEN "cleared" ELSE @]

-----------------------------------------------------------------------------
(* Mutant: the listener is added whether or not there is a controller. *)
SendListeningAlways(r) ==
  /\ phase[r] = "idle"
  /\ phase' = [phase EXCEPT ![r] = "fetching"]
  /\ timer' = [timer EXCEPT ![r] = IF r \in Timed THEN "armed" ELSE @]
  /\ listening' = listening \cup ({r} \cap Signalled)
  /\ UNCHANGED <<signal, aborted, response, outcome>>

(* Mutant: a request with a timeout forgets the caller's signal. *)
SendDeaf(r) ==
  /\ phase[r] = "idle"
  /\ phase' = [phase EXCEPT ![r] = "fetching"]
  /\ timer' = [timer EXCEPT ![r] = IF r \in Timed THEN "armed" ELSE @]
  /\ UNCHANGED <<signal, listening, aborted, response, outcome>>

(* Up to the first await: the controller, the timer and the listener; a    *)
(* signal that is aborted already never calls a listener.                  *)
Send(r) ==
  /\ phase[r] = "idle"
  /\ phase' = [phase EXCEPT ![r] = "fetching"]
  /\ timer' = [timer EXCEPT ![r] = IF r \in Timed THEN "armed" ELSE @]
  /\ listening' = listening \cup ({r} \cap Timed \cap Signalled)
  /\ UNCHANGED <<signal, aborted, response, outcome>>

(* Mutant: the timer aborts nothing. *)
TimerFiresIdle(r) ==
  /\ timer[r] = "armed"
  /\ timer' = [timer EXCEPT ![r] = "fired"]
  /\ UNCHANGED <<signal, phase, listening, aborted, response, outcome>>

(* The timer fires: it aborts the controller. *)
TimerFires(r) ==
  /\ timer[r] = "armed"
  /\ timer' = [timer EXCEPT ![r] = "fired"]
  /\ aborted' = aborted \cup {r}
  /\ UNCHANGED <<signal, phase, listening, response, outcome>>

(* The caller aborts: every listener runs, once, also those of requests    *)
(* that have settled since.                                                *)
Abort ==
  /\ signal = "quiet"
  /\ signal' = "aborted"
  /\ aborted' = aborted \cup listening
  /\ listening' = {}
  /\ UNCHANGED <<phase, timer, response, outcome>>

(* Mutant: the timer is cleared only when fetch fails. *)
HeadersKeepTimer(r, resp) ==
  /\ phase[r] = "fetching"
  /\ ~Cancelled(r)
  /\ phase' = [phase EXCEPT ![r] = "reading"]
  /\ response' = [response EXCEPT ![r] = resp]
  /\ UNCHANGED <<signal, timer, listening, aborted, outcome>>

(* fetch resolves with the headers; the timer is cleared. *)
HeadersArrive(r, resp) ==
  /\ phase[r] = "fetching"
  /\ ~Cancelled(r)
  /\ phase' = [phase EXCEPT ![r] = "reading"]
  /\ response' = [response EXCEPT ![r] = resp]
  /\ ClearTimer(r)
  /\ UNCHANGED <<signal, listening, aborted, outcome>>

(* Mutant: every failure of a timed request is called a timeout. *)
FetchRejectsAsTimeout(r) ==
  /\ phase[r] = "fetching"
  /\ Settle(r, Failed(0, IF r \in Timed THEN "timeout" ELSE "connection_error"))
  /\ ClearTimer(r)
  /\ UNCHANGED <<signal, listening, aborted, response>>

(* fetch rejects: the network failed, or its signal is aborted. *)
FetchRejects(r) ==
  /\ phase[r] = "fetching"
  /\ Settle(r, Failed(0, IF r \in aborted THEN "timeout" ELSE "connection_error"))
  /\ ClearTimer(r)
  /\ UNCHANGED <<signal, listening, aborted, response>>

(* The whole body has arrived. *)
BodyArrives(r) ==
  /\ phase[r] = "reading"
  /\ ~Cancelled(r)
  /\ LET resp == response[r]
     IN  \/ /\ ~Ok(resp)
            /\ Settle(r, Failed(resp.status,
                 IF resp.form = "structured" THEN "of the body" ELSE "http_error"))
         \/ /\ Ok(resp)
            /\ Settle(r, IF resp.form = "plain" THEN Failed(0, "malformed_response")
                         ELSE Resolved)
  /\ UNCHANGED <<signal, timer, listening, aborted, response>>

(* Reading the body rejects: outside the try, the rejection is the caller's. *)
BodyRejects(r) ==
  /\ phase[r] = "reading"
  /\ Settle(r, Raw)
  /\ UNCHANGED <<signal, timer, listening, aborted, response>>

-----------------------------------------------------------------------------
RequestStep(r) ==
  \/ Send(r) \/ TimerFires(r)
  \/ FetchRejects(r) \/ BodyArrives(r) \/ BodyRejects(r)
  \/ \E resp \in Responses : HeadersArrive(r, resp)

TsNext == Abort \/ \E r \in Requests : RequestStep(r)

(* Timers fire, and what an abort was passed to rejects.  Nothing obliges  *)
(* a server to answer, a network to fail, or a caller to abort.            *)
TsFairness == \A r \in Requests :
  /\ WF_vars(TimerFires(r))
  /\ WF_vars(Cancelled(r) /\ (FetchRejects(r) \/ BodyRejects(r)))

TsSpec == TsInit /\ [][TsNext]_vars /\ TsFairness

-----------------------------------------------------------------------------
(* Types. *)
TsTypeOK ==
  /\ signal \in {"quiet", "aborted"}
  /\ phase \in [Requests -> {"idle", "fetching", "reading", "settled"}]
  /\ timer \in [Requests -> {"none", "armed", "cleared", "fired"}]
  /\ listening \subseteq Timed \cap Signalled
  /\ aborted \subseteq Timed
  /\ response \in [Requests -> Responses \cup {NoResponse}]
  /\ \A r \in Requests :
       outcome[r].kind \in {"pending", "resolved", "SextantError", "raw"}

(* A promise tells what happened: it resolves only on a 2xx response, "of  *)
(* the body" and http_error carry the status that arrived, timeout and     *)
(* connection_error mean that no response did, and timeout that the timer  *)
(* of this request, or its caller, aborted it (sextant.ts:301-315).        *)
HasCode(o, c) == o.kind = "SextantError" /\ o.code = c

AccountedFor(r) ==
  LET o == outcome[r] resp == response[r] IN
    /\ o.kind = "resolved" => Ok(resp)
    /\ HasCode(o, "malformed_response") => Ok(resp)
    /\ HasCode(o, "of the body") \/ HasCode(o, "http_error") =>
         resp # NoResponse /\ ~Ok(resp) /\ o.status = resp.status
    /\ HasCode(o, "connection_error") => resp = NoResponse
    /\ HasCode(o, "timeout") =>
         /\ resp = NoResponse
         /\ r \in Timed
         /\ timer[r] = "fired" \/ (r \in Signalled /\ signal = "aborted")

OutcomeAccounted == \A r \in Requests : AccountedFor(r)

(* A timer lives no longer than its fetch, so it never aborts a request    *)
(* that has its headers, nor keeps the process alive after the request     *)
(* settled (sextant.ts:289, 305).                                          *)
TimerWithinFetch ==
  \A r \in Requests :
    /\ timer[r] = "armed" => phase[r] = "fetching"
    /\ timer[r] = "fired" => response[r] = NoResponse

(* Without headers, a timed request fails by itself. *)
HeadersInTime == \A r \in Timed : (phase[r] = "fetching") ~> (phase[r] # "fetching")

(* The caller's abort ends every request that was sent before it with the  *)
(* signal, whichever await it is in, timed or not (sextant.ts:290, 299).   *)
AbortEndsRequests ==
  \A r \in Signalled :
    (r \in Open /\ signal = "quiet") ~> (phase[r] = "settled" \/ [](signal = "quiet"))

-----------------------------------------------------------------------------
(* sextant.ts:224 and README: a timed request does not outlast its timeout. *)
TimeoutEndsRequest == \A r \in Timed : (phase[r] = "fetching") ~> (phase[r] = "settled")
=============================================================================
