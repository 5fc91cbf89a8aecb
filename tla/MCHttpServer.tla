--------------------------- MODULE MCHttpServer ---------------------------
(***************************************************************************)
(* Two HTTP requests over one pool thread and one blocking thread, so that *)
(* a job nobody waits for any more stands in the way of the other request. *)
(* Sizes are in MiB: the default --max-body of 4 and the 2 of the          *)
(* extractor.  Questions have one word; Evaluate is checked with options.  *)
(***************************************************************************)
EXTENDS HttpServer

MCStemOf == [w \in {"late", "refund"} |-> w]
MCNoStems == [s \in {"late", "refund"} |-> <<>>]

MCIdf(st, surface) == 50

(* A Noul question without criteria: two empty hypotheses. *)
Null == [name |-> <<>>, texts |-> <<>>]
Q(id, w) == [id |-> id, kind |-> "noul", panics |-> FALSE, options |-> <<Null, Null>>,
             instructions |-> <<[tokens |-> <<[word |-> w, flags |-> {}]>>,
                                 polarity |-> 1, factor |-> 1000]>>]
Two == [verdict |-> 200, state |-> <<"late">>,
        questions |-> <<Q("q1", "refund"), Q("q2", "late")>>]
One == [verdict |-> 200, state |-> <<"refund">>, questions |-> <<Q("q1", "late")>>]
Broken == [verdict |-> 200, state |-> <<"late">>,
           questions |-> <<Q("q1", "late"), [Q("q2", "late") EXCEPT !.panics = TRUE]>>]
Rejected == [verdict |-> 413, state |-> <<>>, questions |-> <<>>]
MCRequests == {Two, One, Broken, Rejected}

Post(r) == [route |-> "systemone", size |-> 1, form |-> "json", request |-> r]
MCBodies ==
  {Post(r) : r \in MCRequests} \cup
  {[Post(One) EXCEPT !.form = "empty", !.size = 0],
   [Post(One) EXCEPT !.form = "malformed"],
   [Post(Two) EXCEPT !.size = 3],
   [Post(Two) EXCEPT !.size = 5],
   [Post(One) EXCEPT !.route = "static", !.size = 0],
   [Post(One) EXCEPT !.route = "unknown", !.size = 3]}

Stopped == server = "exited" /\ UNCHANGED vars
MCNext == ServerNext \/ Stopped
MCSpec == ServerInit /\ [][MCNext]_vars /\ ServerFairness
=============================================================================
