--------------------------- MODULE MCConversation ---------------------------
(***************************************************************************)
(* A client and the two servers of its list, in seven scenarios.           *)
(***************************************************************************)
EXTENDS Conversation

Quiet == [up |-> {1}, stops |-> {}, kills |-> {}, tweets |-> 0, requests |-> 0, quiet |-> FALSE]

(* A tweet and a request that cross; two requests.                         *)
Traffic == [Quiet EXCEPT !.tweets = 1, !.requests = 1]
Pipeline == [Quiet EXCEPT !.requests = 2]
(* The server is stopped while a request is on its way.                    *)
Shutdown == [Quiet EXCEPT !.stops = {1}, !.requests = 1]
(* The server ends while a request is on its way; no other is up.          *)
Loss == [Quiet EXCEPT !.kills = {1}, !.requests = 1]
(* The server ends and another is up.                                      *)
Failover == [Quiet EXCEPT !.up = {1, 2}, !.kills = {1}]
(* The first server of the list is not up.                                 *)
SecondChoice == [Quiet EXCEPT !.up = {2}]
(* 1000 seconds pass.                                                      *)
TimeOut == [Quiet EXCEPT !.quiet = TRUE]

AllScenarios == {Traffic, Pipeline, Shutdown, Loss, Failover, SecondChoice, TimeOut}
=============================================================================
