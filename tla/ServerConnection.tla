-------------------------- MODULE ServerConnection --------------------------
(***************************************************************************)
(* The server's side of each connection: the connector, the speaker and    *)
(* the listener of src/src/main_server.cpp, with the two queues of packets *)
(* between them and the flags that stand for "empty".  What a request does *)
(* to the database, and what a listener does to get the tweets, is in      *)
(* TweetServer; here a request is executed in one step, and the tweets of  *)
(* the user are fetched in one step.                                       *)
(*                                                                         *)
(* The mutex of the incoming queue is held while the speaker is at "work". *)
(* The mutex of the outgoing queue is held within single steps only.       *)
(***************************************************************************)
EXTENDS Network

VARIABLES
  peer,      \* the threads and queues of each connection
  posted,    \* how many tweets others have posted for the user, at each server
  fetched    \* how many of them listeners have fetched

serverVars == <<peer, posted, fetched>>

NoPacket == Packet("none", 0)

(***************************************************************************)
(* connector   "none" (not accepted yet), "receive", "send", "handle",     *)
(*             "sign_in", "join", "closed"                                 *)
(* speaker     "top" of its loop, "asleep", "work", "stopped"              *)
(* listener    "pitstop", "forward", "stopped"                             *)
(* next        the incoming packet that the speaker executes               *)
(* executed, forwarded   history: requests executed, tweets fetched        *)
(***************************************************************************)
NewPeer ==
  [connector |-> "none", signedIn |-> FALSE, clientShutdownNotice |-> FALSE,
   incomingPkt |-> NoPacket,
   incomingMessages |-> <<>>, incomingQueueEmpty |-> TRUE,
   outgoingMessages |-> <<>>, outgoingQueueEmpty |-> TRUE,
   speaker |-> "top", next |-> 1, listener |-> "pitstop", outTweets |-> <<>>,
   executed |-> <<>>, forwarded |-> <<>>]

ServerInit ==
  /\ peer = [c \in Connections |-> NewPeer]
  /\ posted = [s \in Servers |-> 0]
  /\ fetched = [s \in Servers |-> 0]

Made(c) == c <= Len(at)
Alive(c) == Made(c) /\ server[at[c]] # "down"
serverShutdownNotice(c) == server[at[c]] # "up"

-----------------------------------------------------------------------------
(* Connector: the loop around recv.                                        *)
Receive(c) ==
  /\ peer[c].connector = "receive"
  /\ toServer[c] # <<>>
  /\ toServer' = [toServer EXCEPT ![c] = Tail(@)]
  /\ peer' = [peer EXCEPT ![c].connector = "send", ![c].incomingPkt = Head(toServer[c])]
  /\ UNCHANGED <<server, at, toClient, closed>>

(* recv finds the connection closed, or nothing to read: then the loop is  *)
(* left for a shutdown or for the outgoing queue, if its flag says so.     *)
ReceiveNothing(c) ==
  /\ peer[c].connector = "receive"
  /\ toServer[c] = <<>>
  /\ \/ /\ "client" \in closed[c]
        /\ peer' = [peer EXCEPT ![c].connector = "send", ![c].clientShutdownNotice = TRUE]
     \/ /\ "client" \notin closed[c]
        /\ serverShutdownNotice(c) \/ ~peer[c].outgoingQueueEmpty
        /\ peer' = [peer EXCEPT ![c].connector = "send"]
  /\ UNCHANGED netVars

(* Mutated form: one packet is written, and the queue cleared.             *)
SendOutgoingOne(c) ==
  /\ peer[c].connector = "send"
  /\ WriteToClient(c, IF peer[c].outgoingMessages = <<>> THEN <<>>
                      ELSE <<Head(peer[c].outgoingMessages)>>)
  /\ peer' = [peer EXCEPT ![c].connector =
                 IF peer[c].incomingPkt # NoPacket \/ serverShutdownNotice(c) THEN "handle"
                 ELSE IF peer[c].clientShutdownNotice THEN "join" ELSE "receive",
                          ![c].outgoingMessages = <<>>,
                          ![c].outgoingQueueEmpty = TRUE]
  /\ UNCHANGED <<server, at, toServer, closed>>

(* Everything in the outgoing queue is written, and the queue cleared; the *)
(* flag is left alone if the queue was empty.                              *)
SendOutgoing(c) ==
  LET more == peer[c].incomingPkt # NoPacket \/ serverShutdownNotice(c)
  IN  /\ peer[c].connector = "send"
      /\ WriteToClient(c, peer[c].outgoingMessages)
      /\ peer' = [peer EXCEPT ![c].connector = IF more THEN "handle"
                                               ELSE IF peer[c].clientShutdownNotice THEN "join"
                                               ELSE "receive",
                              ![c].outgoingMessages = <<>>,
                              ![c].outgoingQueueEmpty = peer[c].outgoingMessages # <<>> \/ @]
      /\ UNCHANGED <<server, at, toServer, closed>>

ConnectionsOf(s) == {c \in Connections : Made(c) /\ at[c] = s}

(* The process ends: its connections are closed by the system.             *)
ServerEnds(s) ==
  /\ server' = [server EXCEPT ![s] = "down"]
  /\ ServerCloses(ConnectionsOf(s))
  /\ peer' = [c \in Connections |->
                IF c \in ConnectionsOf(s) THEN [NewPeer EXCEPT !.connector = "closed"] ELSE peer[c]]

(* Connector: what it has received.                                        *)
Handled(c, place) ==
  [peer[c] EXCEPT !.connector = place, !.incomingPkt = NoPacket,
                  !.clientShutdownNotice = @ \/ place = "join"]

Answers(c, type) ==
  /\ WriteToClient(c, <<Packet(type, 0)>>)
  /\ UNCHANGED <<server, at, toServer, closed>>

HandleShutdown(c) ==
  /\ serverShutdownNotice(c)
  /\ Answers(c, "SHUTDOWN_REQ")
  /\ peer' = [peer EXCEPT ![c] = Handled(c, "join")]

(* The index of the user is set, and the listener sees it, before the      *)
(* answer is known and written: registerConnection refuses a user that is  *)
(* connected twice already.                                                *)
Identify(c) ==
  /\ peer[c].incomingPkt.type = "SIGN_IN"
  /\ \E known \in BOOLEAN :
       peer' = [peer EXCEPT ![c].connector = "sign_in", ![c].signedIn = known]
  /\ UNCHANGED netVars

(* Mutated form: a refusal is answered like a success.                     *)
AnswerSignInAlways(c) ==
  /\ peer[c].connector = "sign_in"
  /\ \E ok \in BOOLEAN :
       /\ ok => peer[c].signedIn
       /\ Answers(c, "ACK")
       /\ peer' = [peer EXCEPT ![c] = Handled(c, IF ok THEN "receive" ELSE "join")]

AnswerSignIn(c) ==
  /\ peer[c].connector = "sign_in"
  /\ \E ok \in BOOLEAN :
       /\ ok => peer[c].signedIn
       /\ Answers(c, IF ok THEN "ACK" ELSE "NACK")
       /\ peer' = [peer EXCEPT ![c] = Handled(c, IF ok THEN "receive" ELSE "join")]

HandleUnauthenticated(c) ==
  /\ peer[c].incomingPkt.type # "SIGN_IN"
  /\ ~peer[c].signedIn
  /\ Answers(c, "NACK")
  /\ peer' = [peer EXCEPT ![c] = Handled(c, "receive")]

(* Mutated form: the flag is forgotten.                                    *)
HandleRequestUnflagged(c) ==
  /\ peer[c].signedIn
  /\ peer[c].incomingPkt.type # "SIGN_IN"
  /\ peer[c].speaker # "work"
  /\ peer' = [peer EXCEPT ![c] = [Handled(c, "receive") EXCEPT
                 !.incomingMessages =
                    IF peer[c].incomingPkt.type = "KEEP_ALIVE" THEN @ ELSE Append(@, peer[c].incomingPkt)]]
  /\ UNCHANGED netVars

(* A request is queued, under the mutex of the incoming queue; any other   *)
(* packet is ignored.                                                      *)
HandleRequest(c) ==
  LET request == peer[c].incomingPkt.type \in {"UPDATE", "FOLLOW"}
  IN  /\ peer[c].signedIn
      /\ peer[c].incomingPkt.type # "SIGN_IN"
      /\ request => peer[c].speaker # "work"
      /\ peer' = [peer EXCEPT
                    ![c] = [Handled(c, "receive") EXCEPT
                              !.incomingMessages =
                                 IF request THEN Append(@, peer[c].incomingPkt) ELSE @,
                              !.incomingQueueEmpty = @ /\ ~request]]
      /\ UNCHANGED netVars

Handle(c) ==
  /\ peer[c].connector = "handle"
  /\ \/ HandleShutdown(c)
     \/ /\ ~serverShutdownNotice(c)
        /\ Identify(c) \/ HandleUnauthenticated(c) \/ HandleRequest(c)

(* The client has closed the connection, and the system knows: a write     *)
(* raises SIGPIPE, which the server does not handle.                       *)
WriteKills(c) ==
  /\ "client" \in closed[c]
  /\ \/ peer[c].connector = "send" /\ peer[c].outgoingMessages # <<>>
     \/ peer[c].connector = "sign_in"
     \/ /\ peer[c].connector = "handle"
        /\ \/ serverShutdownNotice(c)
           \/ ~peer[c].signedIn /\ peer[c].incomingPkt.type # "SIGN_IN"
  /\ ServerEnds(at[c])

(* The connector has joined both other threads.                            *)
CloseConnection(c) ==
  /\ peer[c].connector = "join"
  /\ peer[c].speaker = "stopped"
  /\ peer[c].listener = "stopped"
  /\ peer' = [peer EXCEPT ![c].connector = "closed"]
  /\ ServerCloses({c})
  /\ UNCHANGED server

ConnectorStep(c) ==
  /\ \/ Receive(c) \/ ReceiveNothing(c) \/ SendOutgoing(c) \/ WriteKills(c)
     \/ Handle(c) \/ AnswerSignIn(c) \/ CloseConnection(c)
  /\ UNCHANGED <<posted, fetched>>

-----------------------------------------------------------------------------
(* Speaker.                                                                *)
SpeakerTop(c) ==
  /\ peer[c].speaker = "top"
  /\ peer' = [peer EXCEPT ![c].speaker =
                IF peer[c].clientShutdownNotice THEN "stopped" ELSE "asleep"]

(* Mutated form: the sleep ends for a packet only.                         *)
SpeakerWakesForWork(c) ==
  /\ peer[c].speaker = "asleep"
  /\ ~peer[c].incomingQueueEmpty
  /\ peer' = [peer EXCEPT ![c].speaker = "work", ![c].next = 1]

SpeakerWakes(c) ==
  /\ peer[c].speaker = "asleep"
  /\ ~peer[c].incomingQueueEmpty \/ peer[c].clientShutdownNotice
  /\ peer' = [peer EXCEPT ![c].speaker = "work", ![c].next = 1]

(* postUpdate or postFollow; the answer is an ACK even for a failure, and  *)
(* outgoingQueueEmpty is left alone.                                       *)
Execute(c) ==
  LET request == peer[c].incomingMessages[peer[c].next]
  IN  /\ peer[c].speaker = "work"
      /\ peer[c].next <= Len(peer[c].incomingMessages)
      /\ peer' = [peer EXCEPT ![c].next = @ + 1,
                              ![c].executed = Append(@, request),
                              ![c].outgoingMessages = Append(@, Packet("ACK", request.n))]

(* Mutated form: the queue is not cleared.                                 *)
EndRoundKeeps(c) ==
  /\ peer[c].speaker = "work"
  /\ peer[c].next > Len(peer[c].incomingMessages)
  /\ peer' = [peer EXCEPT ![c].speaker = "top", ![c].next = 1, ![c].incomingQueueEmpty = TRUE]

EndRound(c) ==
  /\ peer[c].speaker = "work"
  /\ peer[c].next > Len(peer[c].incomingMessages)
  /\ peer' = [peer EXCEPT ![c].speaker = "top", ![c].next = 1,
                          ![c].incomingMessages = <<>>,
                          ![c].incomingQueueEmpty = TRUE]

SpeakerStep(c) ==
  /\ SpeakerTop(c) \/ SpeakerWakes(c) \/ Execute(c) \/ EndRound(c)
  /\ UNCHANGED <<netVars, posted, fetched>>

-----------------------------------------------------------------------------
(* Listener: the pitstop, and what it does with the tweets it gets.        *)
ListenerFetches(c) ==
  LET tweets == [i \in 1..(posted[at[c]] - fetched[at[c]]) |->
                   Packet("UPDATE", fetched[at[c]] + i)]
  IN  /\ peer[c].listener = "pitstop"
      /\ peer[c].signedIn
      /\ ~peer[c].clientShutdownNotice
      /\ tweets # <<>>
      /\ fetched' = [fetched EXCEPT ![at[c]] = posted[at[c]]]
      /\ peer' = [peer EXCEPT ![c].listener = "forward", ![c].outTweets = tweets,
                              ![c].forwarded = @ \o tweets]
      /\ UNCHANGED <<netVars, posted>>

(* Mutated form: the listener writes to the socket itself.                 *)
ListenerForwardsAtOnce(c) ==
  /\ peer[c].listener = "forward"
  /\ peer' = [peer EXCEPT ![c].listener = "pitstop", ![c].outTweets = <<>>]
  /\ WriteToClient(c, peer[c].outTweets)
  /\ UNCHANGED <<server, at, toServer, closed, posted, fetched>>

ListenerForwards(c) ==
  /\ peer[c].listener = "forward"
  /\ peer' = [peer EXCEPT ![c].listener = "pitstop", ![c].outTweets = <<>>,
                          ![c].outgoingMessages = @ \o peer[c].outTweets,
                          ![c].outgoingQueueEmpty = FALSE]
  /\ UNCHANGED <<netVars, posted, fetched>>

ListenerStops(c) ==
  /\ peer[c].listener = "pitstop"
  /\ peer[c].clientShutdownNotice
  /\ peer' = [peer EXCEPT ![c].listener = "stopped"]
  /\ UNCHANGED <<netVars, posted, fetched>>

ListenerStep(c) == ListenerFetches(c) \/ ListenerForwards(c) \/ ListenerStops(c)

-----------------------------------------------------------------------------
(* The connection controller and the main thread of each server.           *)
Accept(c) ==
  /\ Listening(at[c])
  /\ peer[c].connector = "none"
  /\ peer' = [peer EXCEPT ![c].connector = "receive"]
  /\ UNCHANGED <<netVars, posted, fetched>>

(* A line on stdin.                                                        *)
Stop(s) ==
  /\ s \in scenario.stops
  /\ server[s] = "up"
  /\ server' = [server EXCEPT ![s] = "stopping"]
  /\ UNCHANGED <<at, toServer, toClient, closed, serverVars>>

(* The listening socket is closed, and with it what it has not accepted.   *)
StopAccepting(s) ==
  LET unaccepted == {c \in ConnectionsOf(s) : peer[c].connector = "none"}
  IN  /\ server[s] = "stopping"
      /\ server' = [server EXCEPT ![s] = "joining"]
      /\ ServerCloses(unaccepted)
      /\ peer' = [c \in Connections |->
                    IF c \in unaccepted THEN [peer[c] EXCEPT !.connector = "closed"] ELSE peer[c]]
      /\ UNCHANGED <<posted, fetched>>

EndOfMain(s) ==
  /\ server[s] = "joining"
  /\ \A c \in ConnectionsOf(s) : peer[c].connector = "closed"
  /\ ServerEnds(s)
  /\ UNCHANGED <<posted, fetched>>

(* The server is killed.                                                   *)
Kill(s) ==
  /\ s \in scenario.kills
  /\ server[s] # "down"
  /\ ServerEnds(s)
  /\ UNCHANGED <<posted, fetched>>

(* Somebody the user follows posts at server s.                            *)
Post(s) ==
  /\ server[s] # "down"
  /\ posted[s] < scenario.tweets
  /\ posted' = [posted EXCEPT ![s] = @ + 1]
  /\ UNCHANGED <<netVars, peer, fetched>>

ConnectionStep(c) ==
  Alive(c) /\ (Accept(c) \/ ConnectorStep(c) \/ SpeakerStep(c) \/ ListenerStep(c))

ControllerStep(s) == StopAccepting(s) \/ EndOfMain(s)

=============================================================================
