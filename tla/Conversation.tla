---------------------------- MODULE Conversation ----------------------------
(***************************************************************************)
(* A client application and the servers of its list.                       *)
(***************************************************************************)
EXTENDS ServerConnection, ClientApplication, Streams
LOCAL INSTANCE SequencesExt

CONSTANTS
  MaxUnread,      \* bounds: no KEEP_ALIVE while a server has that much to read,
  MaxUnreadBack   \* or the client

ASSUME UnreadAssumption == MaxUnread \in Nat /\ MaxUnreadBack \in Nat

vars == <<scenario, netVars, serverVars, clientVars>>

Init == NetworkInit /\ ServerInit /\ ClientInit

KeepAlive ==
  /\ \A c \in Connections : Len(toServer[c]) < MaxUnread /\ Len(toClient[c]) < MaxUnreadBack
  /\ KeepAliveStep

ServerDoes(A) == A /\ UNCHANGED <<clientVars, scenario>>
ClientDoes(A) == A /\ UNCHANGED <<serverVars, scenario>>

Next ==
  \/ \E c \in Connections : ServerDoes(ConnectionStep(c))
  \/ \E s \in Servers : ServerDoes(Stop(s) \/ ControllerStep(s) \/ Kill(s) \/ Post(s))
  \/ ClientDoes(FrontEndStep \/ MainStep \/ UserStep \/ KeepAlive)

Spec == Init /\ [][Next]_vars

(* The threads run.  Every round of the client's main loop polls, and      *)
(* every 7 seconds one of them sends a KEEP_ALIVE, so these two steps come *)
(* again and again whatever else there is to do: strong fairness.  Nothing *)
(* comes from outside by itself, and the 1000 seconds of a front end that  *)
(* nobody needs do not pass.                                               *)
Fairness ==
  /\ \A c \in Connections :
       /\ WF_vars(ServerDoes(Alive(c) /\ Accept(c)))
       /\ WF_vars(ServerDoes(Alive(c) /\ ConnectorStep(c)))
       /\ WF_vars(ServerDoes(Alive(c) /\ SpeakerStep(c)))
       /\ WF_vars(ServerDoes(Alive(c) /\ ListenerStep(c)))
  /\ \A s \in Servers : WF_vars(ServerDoes(ControllerStep(s)))
  /\ SF_vars(ClientDoes((lookForServer \/ frontEnd.place # "blocked") /\ FrontEndStep))
  /\ WF_vars(ClientDoes(MainStep))
  /\ SF_vars(ClientDoes(PollReadable /\ UNCHANGED m_socket_num))
  /\ SF_vars(ClientDoes(KeepAlive))

FairSpec == Spec /\ Fairness

-----------------------------------------------------------------------------
Requests(packets) == Selected(packets, {"UPDATE", "FOLLOW"})
Tweets(packets) == Selected(packets, {"UPDATE"})

(* The requests of connection c that the server has not executed, and the  *)
(* tweets for it that the client has not read, in order.                   *)
RequestsOnTheWay(c) ==
  SubSeq(peer[c].incomingMessages, peer[c].next, Len(peer[c].incomingMessages))
  \o Requests(<<peer[c].incomingPkt>> \o toServer[c])

TweetsOnTheWay(c) == Tweets(toClient[c] \o peer[c].outgoingMessages) \o peer[c].outTweets

Working(c) == /\ Made(c)
              /\ server[at[c]] = "up"
              /\ peer[c].signedIn
              /\ ~peer[c].clientShutdownNotice

(* A server executes what its client has sent, in this order, each once,   *)
(* and loses nothing while the connection lasts: the speaker copies,       *)
(* executes and clears the incoming queue while the connector appends.     *)
RequestStreamIntact ==
  \A c \in Connections :
    /\ IsPrefix(peer[c].executed, history.sent[c])
    /\ Working(c) => peer[c].executed \o RequestsOnTheWay(c) = history.sent[c]

(* The same for the tweets that a listener has fetched, which the database *)
(* does not have any more: listener, outgoing queue, client.               *)
TweetStreamIntact ==
  \A c \in Connections :
    /\ "client" \notin closed[c] /\ Working(c) =>
         history.received[c] \o TweetsOnTheWay(c) = peer[c].forwarded

(* The client that signs in reads the answer first, though the listener    *)
(* may fetch tweets as soon as the user is known: it would put them aside, *)
(* in an inbox that is shown only if poll fails.                           *)
AnswerFirst ==
  frontEnd.place = "answer" /\ toClient[frontEnd.awaited] # <<>> =>
    Head(toClient[frontEnd.awaited]).type \in {"ACK", "NACK", "SHUTDOWN_REQ"}

(* A client that believes to be connected is signed in, unless the server  *)
(* has gone.                                                               *)
ConnectedMeansSignedIn ==
  frontEnd.connected /\ ~lookForServer /\ Current \in Connections /\ frontEnd.place # "answer" =>
    peer[Current].signedIn \/ "server" \in closed[Current]

(* A client that has lost its server and finds one again is not refused.   *)
ConnectionIsReestablished == main = "refused" => frontEnd.firstTime

-----------------------------------------------------------------------------
(* Every request sent is executed, as long as the connection works.        *)
RequestIsExecuted ==
  []<>(\A c \in Connections : Working(c) => peer[c].executed = history.sent[c])

(* The outgoing queue is written, also when it has nothing but ACKs: the   *)
(* speaker leaves outgoingQueueEmpty alone, and it is the client's         *)
(* KEEP_ALIVE that makes the connector leave its loop.                     *)
OutgoingIsSent ==
  []<>(\A c \in Connections : Working(c) => peer[c].outgoingMessages = <<>>)

(* A client shows every tweet, as long as the connection works and its     *)
(* main thread polls the socket in use.                                    *)
TweetIsShown ==
  []<>(\A c \in Connections :
         Working(c) /\ "client" \notin closed[c] /\ pollfd = m_socket_num =>
           history.received[c] = peer[c].forwarded)

(* A server that is told to stop joins all its threads and ends.           *)
ServerStops == []<>(\A s \in Servers : server[s] \in {"up", "down"})

(* A client whose server is gone looks for another, or ends.               *)
LossIsNoticed == []<>(Current \in Connections => "server" \notin closed[Current])

(* A search for a server ends, though it is asked for without the mutex:   *)
(* when the front end misses the notification its time-out helps.          *)
SearchEnds == []<>(~lookForServer)

=============================================================================
