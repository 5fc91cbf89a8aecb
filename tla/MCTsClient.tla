---------------------------- MODULE MCTsClient ----------------------------
(***************************************************************************)
(* Three requests of one client: with a timeout and the shared signal,     *)
(* with a timeout alone, and with the signal alone (timeoutMs: 0).  The    *)
(* responses are those HttpServer may give: 200, 422 with the structured   *)
(* body, 408 with none, and a 200 from something that is not the service.  *)
(***************************************************************************)
EXTENDS TsClient

MCResponses ==
  {[status |-> 200, form |-> "structured"], [status |-> 422, form |-> "structured"],
   [status |-> 408, form |-> "plain"], [status |-> 200, form |-> "plain"]}

AllSettled == \A r \in Requests : phase[r] = "settled"
Done == AllSettled /\ signal = "aborted" /\ UNCHANGED vars
MCSpec == TsInit /\ [][TsNext \/ Done]_vars /\ TsFairness
=============================================================================
