-------------------------- MODULE TsClientProofs --------------------------
(***************************************************************************)
(* What the TypeScript client guarantees for any number of requests and    *)
(* any responses: promises settle with an outcome the exchange accounts    *)
(* for, and no timer outlives the wait for the headers.                    *)
(***************************************************************************)
EXTENDS TsClient, TLAPS

Codes == {"timeout", "connection_error", "malformed_response", "of the body", "http_error"}
Errors == [kind : {"SextantError"}, status : 0 .. 599, code : Codes]
Outcomes == {Pending, Resolved, Raw} \cup Errors

(* Outcomes are those that Settle is given, on the requests that settled.  *)
OutcomesFit ==
  /\ outcome \in [Requests -> Outcomes]
  /\ \A r \in Requests : phase[r] # "settled" => outcome[r] = Pending

(* A response is there once the headers are.                               *)
ResponsesFit ==
  \A r \in Requests :
    /\ phase[r] \in {"idle", "fetching"} => response[r] = NoResponse
    /\ phase[r] = "reading" => response[r] \in Responses

(* Why a controller is aborted: nothing else calls abort.                  *)
AbortsFit ==
  /\ \A r \in Requests : phase[r] = "idle" => timer[r] = "none"
  /\ \A r \in Requests : timer[r] # "none" => r \in Timed
  /\ \A r \in Requests : timer[r] = "fired" => r \in aborted
  /\ \A r \in aborted : timer[r] = "fired" \/ (r \in Signalled /\ signal = "aborted")

TsInv ==
  /\ TsTypeOK
  /\ OutcomesFit
  /\ ResponsesFit
  /\ AbortsFit
  /\ OutcomeAccounted
  /\ TimerWithinFetch

-----------------------------------------------------------------------------
LEMMA ErrorsAreOutcomes ==
  ASSUME NEW s \in 0 .. 599, NEW c \in Codes
  PROVE  /\ Failed(s, c) \in Errors
         /\ Failed(s, c).kind = "SextantError"
         /\ Failed(s, c).status = s
         /\ Failed(s, c).code = c
BY DEF Failed, Errors

LEMMA ClientErrors ==
  ASSUME NEW c \in Codes
  PROVE  /\ Failed(0, c) \in Errors
         /\ Failed(0, c).kind = "SextantError"
         /\ Failed(0, c).status = 0
         /\ Failed(0, c).code = c
<1>1. 0 \in 0 .. 599
  OBVIOUS
<1> QED
  BY <1>1 DEF Failed, Errors

LEMMA ResponsesAreAnswers ==
  ASSUME NEW resp \in Responses
  PROVE  resp # NoResponse /\ resp.status \in 0 .. 599
BY TsAssumption DEF NoResponse

LEMMA OutcomeKinds ==
  /\ Pending \in Outcomes /\ Resolved \in Outcomes /\ Raw \in Outcomes
  /\ Errors \subseteq Outcomes
  /\ \A o \in Outcomes : o.kind \in {"pending", "resolved", "SextantError", "raw"}
BY DEF Outcomes, Errors, Pending, Resolved, Raw

(* Settling touches one request.                                           *)
LEMMA SettleOne ==
  ASSUME TsTypeOK, OutcomesFit, NEW r \in Requests, NEW o \in Outcomes, Settle(r, o)
  PROVE  /\ OutcomesFit'
         /\ outcome'[r] = o
         /\ \A s \in Requests : outcome'[s].kind \in {"pending", "resolved", "SextantError", "raw"}
         /\ \A s \in Requests \ {r} : outcome'[s] = outcome[s] /\ phase'[s] = phase[s]
         /\ phase' \in [Requests -> {"idle", "fetching", "reading", "settled"}]
         /\ phase'[r] = "settled"
<1>1. outcome' \in [Requests -> Outcomes] /\ outcome'[r] = o
  BY DEF OutcomesFit, Settle
<1>2. phase' \in [Requests -> {"idle", "fetching", "reading", "settled"}] /\ phase'[r] = "settled"
  BY DEF TsTypeOK, Settle
<1>3. \A s \in Requests \ {r} : outcome'[s] = outcome[s] /\ phase'[s] = phase[s]
  BY DEF TsTypeOK, OutcomesFit, Settle
<1>4. OutcomesFit'
  BY <1>1, <1>2, <1>3 DEF OutcomesFit
<1> QED
  BY <1>1, <1>2, <1>3, <1>4, OutcomeKinds

LEMMA CodesOfSettle ==
  {"timeout", "connection_error", "malformed_response", "of the body", "http_error"} \subseteq Codes
  /\ 0 \in 0 .. 599
BY DEF Codes

(* A promise that has not settled has nothing to account for, and one that *)
(* has is accounted for by what does not change any more.                  *)
LEMMA PendingAccounted ==
  ASSUME NEW r, outcome[r] = Pending
  PROVE  AccountedFor(r)
BY DEF AccountedFor, HasCode, Pending

LEMMA StaysAccounted ==
  ASSUME NEW r, AccountedFor(r), outcome'[r] = outcome[r], response'[r] = response[r],
         timer[r] = "fired" => timer'[r] = "fired",
         signal = "aborted" => signal' = "aborted"
  PROVE  AccountedFor(r)'
BY DEF AccountedFor, HasCode

LEMMA TsInitInv == TsInit => TsInv
<1> SUFFICES ASSUME TsInit PROVE TsInv
  OBVIOUS
<1>1. TsTypeOK
  BY DEF TsInit, TsTypeOK, Pending
<1>2. OutcomesFit /\ ResponsesFit /\ AbortsFit
  BY OutcomeKinds DEF TsInit, OutcomesFit, ResponsesFit, AbortsFit
<1>3. OutcomeAccounted
  BY PendingAccounted DEF TsInit, OutcomeAccounted
<1>4. TimerWithinFetch
  BY DEF TsInit, TimerWithinFetch
<1> QED
  BY <1>1, <1>2, <1>3, <1>4 DEF TsInv

LEMMA SendInv ==
  ASSUME TsInv, NEW r \in Requests, Send(r)
  PROVE  TsInv'
<1>1. TsTypeOK'
  BY DEF TsInv, TsTypeOK, Send
<1>2. OutcomesFit' /\ ResponsesFit'
  <2>1. OutcomesFit'
    BY DEF TsInv, TsTypeOK, OutcomesFit, Send
  <2>2. ResponsesFit'
    BY DEF TsInv, TsTypeOK, ResponsesFit, Send
  <2> QED
    BY <2>1, <2>2
<1>3. AbortsFit'
  BY TsAssumption DEF TsInv, TsTypeOK, AbortsFit, TimerWithinFetch, Send
<1>4. OutcomeAccounted'
  <2>1. UNCHANGED <<outcome, response, signal>> /\ timer[r] # "fired"
    BY DEF TsInv, AbortsFit, TimerWithinFetch, Send
  <2>2. \A s \in Requests \ {r} : timer'[s] = timer[s]
    BY DEF TsInv, TsTypeOK, Send
  <2>3. ASSUME NEW s \in Requests
        PROVE  AccountedFor(s)'
    BY <2>1, <2>2, StaysAccounted DEF TsInv, OutcomeAccounted
  <2> QED
    BY <2>3 DEF OutcomeAccounted
<1>5. TimerWithinFetch'
  BY DEF TsInv, TsTypeOK, ResponsesFit, TimerWithinFetch, Send
<1> QED
  BY <1>1, <1>2, <1>3, <1>4, <1>5 DEF TsInv

LEMMA TimerFiresInv ==
  ASSUME TsInv, NEW r \in Requests, TimerFires(r)
  PROVE  TsInv'
<1>1. r \in Timed /\ phase[r] = "fetching"
  BY DEF TsInv, AbortsFit, TimerWithinFetch, TimerFires
<1>2. TsTypeOK'
  BY <1>1 DEF TsInv, TsTypeOK, TimerFires
<1>3. OutcomesFit' /\ ResponsesFit' /\ AbortsFit'
  BY <1>1 DEF TsInv, TsTypeOK, OutcomesFit, ResponsesFit, AbortsFit, TimerFires
<1>4. OutcomeAccounted'
  <2>1. UNCHANGED <<outcome, response, signal>>
    BY DEF TimerFires
  <2>2. \A s \in Requests : timer[s] = "fired" => timer'[s] = "fired"
    BY DEF TsInv, TsTypeOK, TimerFires
  <2>3. ASSUME NEW s \in Requests
        PROVE  AccountedFor(s)'
    BY <2>1, <2>2, StaysAccounted DEF TsInv, OutcomeAccounted
  <2> QED
    BY <2>3 DEF OutcomeAccounted
<1>5. TimerWithinFetch'
  BY <1>1 DEF TsInv, TsTypeOK, ResponsesFit, TimerWithinFetch, TimerFires
<1> QED
  BY <1>2, <1>3, <1>4, <1>5 DEF TsInv

LEMMA AbortInv ==
  ASSUME TsInv, Abort
  PROVE  TsInv'
<1>1. TsTypeOK'
  BY DEF TsInv, TsTypeOK, Abort
<1>2. OutcomesFit' /\ ResponsesFit' /\ AbortsFit'
  BY TsAssumption DEF TsInv, TsTypeOK, OutcomesFit, ResponsesFit, AbortsFit, Abort
<1>3. OutcomeAccounted'
  <2>1. signal' = "aborted" /\ UNCHANGED <<outcome, response, timer>>
    BY DEF Abort
  <2>2. ASSUME NEW s \in Requests
        PROVE  AccountedFor(s)'
    BY <2>1, StaysAccounted DEF TsInv, OutcomeAccounted
  <2> QED
    BY <2>2 DEF OutcomeAccounted
<1>4. TimerWithinFetch'
  BY DEF TsInv, TimerWithinFetch, Abort
<1> QED
  BY <1>1, <1>2, <1>3, <1>4 DEF TsInv

LEMMA HeadersInv ==
  ASSUME TsInv, NEW r \in Requests, NEW resp \in Responses, HeadersArrive(r, resp)
  PROVE  TsInv'
<1>1. timer[r] # "fired" /\ outcome[r] = Pending
  BY DEF TsInv, AbortsFit, OutcomesFit, HeadersArrive, Cancelled
<1>2. TsTypeOK'
  BY DEF TsInv, TsTypeOK, HeadersArrive, ClearTimer
<1>3. OutcomesFit' /\ ResponsesFit' /\ AbortsFit'
  BY DEF TsInv, TsTypeOK, OutcomesFit, ResponsesFit, AbortsFit, HeadersArrive, ClearTimer
<1>4. OutcomeAccounted'
  <2>1. UNCHANGED <<outcome, signal>>
    BY DEF HeadersArrive
  <2>2. \A s \in Requests \ {r} : response'[s] = response[s] /\ timer'[s] = timer[s]
    BY DEF TsInv, TsTypeOK, HeadersArrive, ClearTimer
  <2>3. ASSUME NEW s \in Requests \ {r}
        PROVE  AccountedFor(s)'
    BY <2>1, <2>2, StaysAccounted DEF TsInv, OutcomeAccounted
  <2>4. AccountedFor(r)'
    <3>1. outcome'[r].kind = "pending"
      BY <1>1, <2>1 DEF Pending
    <3> QED
      BY <3>1 DEF AccountedFor, HasCode
  <2> QED
    BY <2>3, <2>4 DEF OutcomeAccounted
<1>5. TimerWithinFetch'
  BY <1>1 DEF TsInv, TsTypeOK, TimerWithinFetch, HeadersArrive, ClearTimer
<1> QED
  BY <1>2, <1>3, <1>4, <1>5 DEF TsInv

(* What the code decides from the controller is what happened.             *)
LEMMA FetchRejectsInv ==
  ASSUME TsInv, NEW r \in Requests, FetchRejects(r)
  PROVE  TsInv'
<1> DEFINE code == IF r \in aborted THEN "timeout" ELSE "connection_error"
           o == Failed(0, code)
<1>1. code \in Codes
  BY DEF Codes
<1>2. o \in Errors /\ o.kind = "SextantError" /\ o.code = code
  <2> HIDE DEF code
  <2> QED
    BY <1>1, ClientErrors
<1>3. Settle(r, o) /\ o \in Outcomes
  BY <1>2, OutcomeKinds DEF FetchRejects
<1>4. response[r] = NoResponse
  BY DEF TsInv, ResponsesFit, FetchRejects
<1> HIDE DEF o
<1>5. /\ OutcomesFit'
      /\ outcome'[r] = o
      /\ \A s \in Requests : outcome'[s].kind \in {"pending", "resolved", "SextantError", "raw"}
      /\ \A s \in Requests \ {r} : outcome'[s] = outcome[s] /\ phase'[s] = phase[s]
      /\ phase' \in [Requests -> {"idle", "fetching", "reading", "settled"}]
      /\ phase'[r] = "settled"
  BY <1>3, SettleOne DEF TsInv
<1>6. /\ timer' \in [Requests -> {"none", "armed", "cleared", "fired"}]
      /\ timer'[r] # "armed" /\ (timer'[r] = "fired" <=> timer[r] = "fired")
      /\ \A s \in Requests \ {r} : timer'[s] = timer[s]
      /\ timer[r] = "none" => timer'[r] = "none"
      /\ UNCHANGED <<signal, listening, aborted, response>>
  BY DEF TsInv, TsTypeOK, FetchRejects, ClearTimer
<1>7. TsTypeOK'
  BY <1>5, <1>6 DEF TsInv, TsTypeOK
<1>8. ResponsesFit' /\ AbortsFit'
  <2>1. ResponsesFit'
    BY <1>5, <1>6 DEF TsInv, ResponsesFit
  <2>2. AbortsFit'
    BY <1>5, <1>6, TsAssumption DEF TsInv, TsTypeOK, AbortsFit
  <2> QED
    BY <2>1, <2>2
<1>9. OutcomeAccounted'
  <2>1. r \in aborted => r \in Timed /\ (timer'[r] = "fired" \/ (r \in Signalled /\ signal' = "aborted"))
    BY <1>6 DEF TsInv, TsTypeOK, AbortsFit
  <2>2. AccountedFor(r)'
    BY <1>2, <1>4, <1>5, <1>6, <2>1 DEF AccountedFor, HasCode
  <2>3. ASSUME NEW s \in Requests \ {r}
        PROVE  AccountedFor(s)'
    BY <1>5, <1>6, StaysAccounted DEF TsInv, OutcomeAccounted
  <2> QED
    BY <2>2, <2>3 DEF OutcomeAccounted
<1>10. TimerWithinFetch'
  BY <1>4, <1>5, <1>6 DEF TsInv, TimerWithinFetch
<1> QED
  BY <1>5, <1>7, <1>8, <1>9, <1>10 DEF TsInv

LEMMA BodyArrivesInv ==
  ASSUME TsInv, NEW r \in Requests, BodyArrives(r)
  PROVE  TsInv'
<1> DEFINE resp == response[r]
           o == IF ~Ok(resp) THEN Failed(resp.status, IF resp.form = "structured" THEN "of the body" ELSE "http_error")
                ELSE IF resp.form = "plain" THEN Failed(0, "malformed_response") ELSE Resolved
<1>1. resp \in Responses /\ resp # NoResponse /\ resp.status \in 0 .. 599
  BY ResponsesAreAnswers DEF TsInv, ResponsesFit, BodyArrives
<1>2. Settle(r, o)
  BY DEF BodyArrives
<1>3. \/ o = Resolved /\ Ok(resp)
      \/ /\ o \in Errors
         /\ \/ o.code = "malformed_response" /\ Ok(resp)
            \/ o.code \in {"of the body", "http_error"} /\ ~Ok(resp) /\ o.status = resp.status
  <2>1. CASE ~Ok(resp) /\ resp.form = "structured"
    <3>1. o = Failed(resp.status, "of the body")
      BY <2>1
    <3>2. "of the body" \in Codes
      BY CodesOfSettle
    <3>3. /\ Failed(resp.status, "of the body") \in Errors
          /\ Failed(resp.status, "of the body").code = "of the body"
          /\ Failed(resp.status, "of the body").status = resp.status
      BY <1>1, <3>2, ErrorsAreOutcomes, Zenon
    <3> HIDE DEF o
    <3> QED
      BY <2>1, <3>1, <3>3
  <2>2. CASE ~Ok(resp) /\ resp.form # "structured"
    <3>1. o = Failed(resp.status, "http_error")
      BY <2>2
    <3>2. "http_error" \in Codes
      BY CodesOfSettle
    <3>3. /\ Failed(resp.status, "http_error") \in Errors
          /\ Failed(resp.status, "http_error").code = "http_error"
          /\ Failed(resp.status, "http_error").status = resp.status
      BY <1>1, <3>2, ErrorsAreOutcomes, Zenon
    <3> HIDE DEF o
    <3> QED
      BY <2>2, <3>1, <3>3
  <2>3. CASE Ok(resp) /\ resp.form = "plain"
    <3>1. o = Failed(0, "malformed_response")
      BY <2>3
    <3>2. "malformed_response" \in Codes
      BY CodesOfSettle
    <3>3. /\ Failed(0, "malformed_response") \in Errors
          /\ Failed(0, "malformed_response").code = "malformed_response"
          /\ Failed(0, "malformed_response").status = 0
      BY <3>2, ClientErrors, Zenon
    <3> HIDE DEF o
    <3> QED
      BY <2>3, <3>1, <3>3
  <2>4. CASE Ok(resp) /\ resp.form # "plain"
    BY <2>4
  <2> QED
    BY <2>1, <2>2, <2>3, <2>4
<1>4. timer[r] # "armed" /\ UNCHANGED <<signal, timer, listening, aborted, response>>
  BY DEF TsInv, TimerWithinFetch, BodyArrives
<1>5. o \in Outcomes
  BY <1>3, OutcomeKinds
<1> HIDE DEF o
<1>6. /\ OutcomesFit'
      /\ outcome'[r] = o
      /\ \A s \in Requests : outcome'[s].kind \in {"pending", "resolved", "SextantError", "raw"}
      /\ \A s \in Requests \ {r} : outcome'[s] = outcome[s] /\ phase'[s] = phase[s]
      /\ phase' \in [Requests -> {"idle", "fetching", "reading", "settled"}]
      /\ phase'[r] = "settled"
  BY <1>2, <1>5, SettleOne DEF TsInv
<1>7. TsTypeOK'
  BY <1>4, <1>6 DEF TsInv, TsTypeOK
<1>8. ResponsesFit' /\ AbortsFit'
  <2>1. ResponsesFit'
    BY <1>4, <1>6 DEF TsInv, ResponsesFit
  <2>2. AbortsFit'
    BY <1>4, <1>6, TsAssumption DEF TsInv, TsTypeOK, AbortsFit
  <2> QED
    BY <2>1, <2>2
<1>9. OutcomeAccounted'
  <2>1. AccountedFor(r)'
    <3>1. CASE o = Resolved /\ Ok(resp)
      BY <1>4, <1>6, <3>1 DEF AccountedFor, HasCode, Resolved
    <3>2. CASE o \in Errors
      <4>1. o.kind = "SextantError" /\ o # Resolved
        BY <3>2 DEF Errors, Resolved
      <4> QED
        BY <1>1, <1>3, <1>4, <1>6, <4>1 DEF AccountedFor, HasCode
    <3> QED
      BY <1>3, <3>1, <3>2
  <2>2. ASSUME NEW s \in Requests \ {r}
        PROVE  AccountedFor(s)'
    BY <1>4, <1>6, StaysAccounted DEF TsInv, OutcomeAccounted
  <2> QED
    BY <2>1, <2>2 DEF OutcomeAccounted
<1>10. TimerWithinFetch'
  BY <1>4, <1>6 DEF TsInv, TimerWithinFetch
<1> QED
  BY <1>6, <1>7, <1>8, <1>9, <1>10 DEF TsInv

LEMMA BodyRejectsInv ==
  ASSUME TsInv, NEW r \in Requests, BodyRejects(r)
  PROVE  TsInv'
<1>1. Settle(r, Raw) /\ Raw \in Outcomes
  BY OutcomeKinds DEF BodyRejects
<1>2. timer[r] # "armed" /\ UNCHANGED <<signal, timer, listening, aborted, response>>
  BY DEF TsInv, TimerWithinFetch, BodyRejects
<1>3. /\ OutcomesFit'
      /\ outcome'[r] = Raw
      /\ \A s \in Requests : outcome'[s].kind \in {"pending", "resolved", "SextantError", "raw"}
      /\ \A s \in Requests \ {r} : outcome'[s] = outcome[s] /\ phase'[s] = phase[s]
      /\ phase' \in [Requests -> {"idle", "fetching", "reading", "settled"}]
      /\ phase'[r] = "settled"
  BY <1>1, SettleOne DEF TsInv
<1>4. TsTypeOK'
  BY <1>2, <1>3 DEF TsInv, TsTypeOK
<1>5. ResponsesFit'
  BY <1>2, <1>3 DEF TsInv, ResponsesFit
<1>6. AbortsFit'
  BY <1>2, <1>3, TsAssumption DEF TsInv, TsTypeOK, AbortsFit
<1>7. OutcomeAccounted'
  <2>1. AccountedFor(r)'
    BY <1>3 DEF AccountedFor, HasCode, Raw
  <2>2. ASSUME NEW s \in Requests \ {r}
        PROVE  AccountedFor(s)'
    BY <1>2, <1>3, StaysAccounted DEF TsInv, OutcomeAccounted
  <2> QED
    BY <2>1, <2>2 DEF OutcomeAccounted
<1>8. TimerWithinFetch'
  BY <1>2, <1>3 DEF TsInv, TimerWithinFetch
<1> QED
  BY <1>3, <1>4, <1>5, <1>6, <1>7, <1>8 DEF TsInv

LEMMA TsStepInv == TsInv /\ [TsNext]_vars => TsInv'
<1> SUFFICES ASSUME TsInv, [TsNext]_vars PROVE TsInv'
  OBVIOUS
<1>1. CASE Abort
  BY <1>1, AbortInv
<1>2. ASSUME NEW r \in Requests, RequestStep(r)
      PROVE  TsInv'
  BY <1>2, SendInv, TimerFiresInv, FetchRejectsInv, BodyArrivesInv, BodyRejectsInv, HeadersInv
     DEF RequestStep
<1>3. CASE UNCHANGED vars
  BY <1>3 DEF TsInv, TsTypeOK, OutcomesFit, ResponsesFit, AbortsFit, OutcomeAccounted,
              AccountedFor, HasCode, TimerWithinFetch, vars
<1> QED
  BY <1>1, <1>2, <1>3 DEF TsNext

LEMMA TsAlways == TsSpec => []TsInv
BY TsInitInv, TsStepInv, PTL DEF TsSpec

(* Every reachable state is well typed: in particular only requests with a *)
(* controller listen to the caller's signal (sextant.ts:286-296).          *)
THEOREM TsTypes == TsSpec => []TsTypeOK
<1>1. TsInv => TsTypeOK
  BY DEF TsInv
<1> QED
  BY <1>1, TsAlways, PTL

(* Whatever order headers, body, timer, abort and failures come in, the    *)
(* outcome of a request is the one its exchange accounts for               *)
(* (sextant.ts:301-315).                                                   *)
THEOREM OutcomesTold == TsSpec => []OutcomeAccounted
<1>1. TsInv => OutcomeAccounted
  BY DEF TsInv
<1> QED
  BY <1>1, TsAlways, PTL

(* No timer runs after its fetch has ended, nor aborts a request that has  *)
(* its headers (sextant.ts:289, 305).                                      *)
THEOREM TimersEndWithFetch == TsSpec => []TimerWithinFetch
<1>1. TsInv => TimerWithinFetch
  BY DEF TsInv
<1> QED
  BY <1>1, TsAlways, PTL
=============================================================================
