------------------------------ MODULE Service ------------------------------
(***************************************************************************)
(* What the HTTP service promises a client (docs/API.md): an accepted      *)
(* request gets exactly one answer, of a kind its own body accounts for,   *)
(* or its connection is gone.  Shutting down changes nothing of this.      *)
(***************************************************************************)
EXTENDS Naturals

CONSTANTS
  Clients,       \* HTTP requests a client may send
  Bodies,        \* what they may carry
  Permitted(_)   \* the answers a body accounts for

VARIABLES
  sent,          \* function: client -> the body it sent, or NoBody
  answer         \* function: client -> its answer, Lost or NoAnswer

NoBody == [route |-> "none"]
NoAnswer == [status |-> 0]
Lost == [status |-> 1]

Init ==
  /\ sent = [c \in Clients |-> NoBody]
  /\ answer = [c \in Clients |-> NoAnswer]

Receive(c, b) ==
  /\ sent[c] = NoBody
  /\ sent' = [sent EXCEPT ![c] = b]
  /\ UNCHANGED answer

Close(c) ==
  /\ sent[c] # NoBody
  /\ answer[c] = NoAnswer
  /\ \E a \in Permitted(sent[c]) \cup {Lost} : answer' = [answer EXCEPT ![c] = a]
  /\ UNCHANGED sent

Next == \E c \in Clients : Close(c) \/ \E b \in Bodies : Receive(c, b)
vars == <<sent, answer>>

EveryRequestClosed == \A c \in Clients : (sent[c] # NoBody) ~> (answer[c] # NoAnswer)
Spec == Init /\ [][Next]_vars /\ EveryRequestClosed
=============================================================================
