--------------------------- MODULE ClientSessions ---------------------------
(***************************************************************************)
(* The life of client connections on the server: the connector thread      *)
(* (handle_client_connector) signs the client in, notices its departure    *)
(* and unregisters it, while the listener thread of the same connection    *)
(* (handle_client_listener) calls the connection manager with the user     *)
(* index that the connector shares with it.                                *)
(*                                                                         *)
(* A session is a slot for one connection at a time: when it is closed, a  *)
(* new client may be accepted in it.  What the listener does between its   *)
(* calls is left open here; TweetServer fills it in.                       *)
(***************************************************************************)
EXTENDS ConnectionManager

CONSTANTS
  Sessions,     \* connections the server may have at one time
  Login,        \* the user each session's client signs in as
  Tweets,       \* what may be archived for a second connection
  NoCall        \* "the listener holds no index"

ASSUME UsersAssumption == IsFiniteSet(Users)
ASSUME SessionsAssumption == IsFiniteSet(Sessions)
ASSUME LoginAssumption == Login \in [Sessions -> Users \cup {NoUser}]
ASSUME NoCallAssumption == NoCall \notin Nat

VARIABLES
  conn,             \* where the connector of each session is
  clientIndex,      \* the local clientIndex its three threads share
  connectionIndex   \* the listener's local connectionIndex, between two sections

sessionVars == <<conn, clientIndex, connectionIndex>>
csVars == <<cmVars, sessionVars>>

(***************************************************************************)
(*   closed     no connection                                              *)
(*   new        threads started, nothing received yet, clientIndex = -1    *)
(*   found      SIGN_IN received, clientIndex set, not registered yet      *)
(*   online     registered and acknowledged                                *)
(*   leaving    clientShutdownNotice set after registerConnection was true *)
(*   refused    clientShutdownNotice set after registerConnection was      *)
(*              false                                                      *)
(*   anonymous  clientShutdownNotice set without any SIGN_IN               *)
(***************************************************************************)
ConnStates == {"closed", "new", "found", "online", "leaving", "refused", "anonymous"}

ShutdownNotice(s) == conn[s] \in {"leaving", "refused", "anonymous"}

CSInit ==
  /\ CMInit
  /\ conn = [s \in Sessions |-> "closed"]
  /\ clientIndex = [s \in Sessions |-> NoUser]
  /\ connectionIndex = [s \in Sessions |-> NoCall]

-----------------------------------------------------------------------------
(* The connection controller accepts a client and starts its threads.      *)
Accept(s) ==
  /\ conn[s] = "closed"
  /\ conn' = [conn EXCEPT ![s] = "new"]
  /\ clientIndex' = [clientIndex EXCEPT ![s] = NoUser]
  /\ UNCHANGED <<cmVars, connectionIndex>>

(* SIGN_IN: getUserIndex stores the index where the listener sees it ...   *)
SignIn(s) ==
  /\ conn[s] = "new"
  /\ conn' = [conn EXCEPT ![s] = "found"]
  /\ clientIndex' = [clientIndex EXCEPT ![s] = Login[s]]
  /\ UNCHANGED <<cmVars, connectionIndex>>

(* ... and only then is the connection registered and (N)ACKed.            *)
Register(s) ==
  /\ conn[s] = "found"
  /\ \E ok \in BOOLEAN :
       /\ registerConnection(clientIndex[s], ok)
       /\ conn' = [conn EXCEPT ![s] = IF ~ok THEN "refused"
                                      ELSE IF clientIndex[s] = NoUser THEN "leaving"
                                      ELSE "online"]
  /\ UNCHANGED <<clientIndex, connectionIndex>>

(* recv returns 0, or a write fails: the client is gone.                   *)
Disconnect(s) ==
  /\ \/ conn[s] = "online" /\ conn' = [conn EXCEPT ![s] = "leaving"]
     \/ conn[s] = "new" /\ conn' = [conn EXCEPT ![s] = "anonymous"]
  /\ UNCHANGED <<cmVars, clientIndex, connectionIndex>>

(* The tail of the connector, once it has joined its listener: the         *)
(* connection is closed whether or not it was ever registered.             *)
Close(s) ==
  /\ ShutdownNotice(s)
  /\ connectionIndex[s] = NoCall
  /\ closeConnection(clientIndex[s])
  /\ conn' = [conn EXCEPT ![s] = "closed"]
  /\ UNCHANGED <<clientIndex, connectionIndex>>

-----------------------------------------------------------------------------
(* The listener's calls.  First critical section of each of them:          *)
LookUp(s) ==
  /\ conn[s] # "closed"
  /\ clientIndex[s] # NoUser
  /\ connectionIndex[s] = NoCall
  /\ connectionIndex' = [connectionIndex EXCEPT ![s] = getConnectionIndex(clientIndex[s])]
  /\ UNCHANGED <<cmVars, conn, clientIndex>>

EndCall(s) ==
  /\ connectionIndex[s] # NoCall
  /\ connectionIndex' = [connectionIndex EXCEPT ![s] = NoCall]
  /\ UNCHANGED <<conn, clientIndex>>

(* Second critical section of each of them:                                *)
AskTwoConnections(s, answer) ==
  EndCall(s) /\ doesClientHaveTwoConnections(connectionIndex[s], answer)

AskDuplicates(s, answer) ==
  EndCall(s) /\ doesClientHaveDuplicateTweets(connectionIndex[s], answer)

Archive(s, tweet) ==
  EndCall(s) /\ registerDuplicateTweet(connectionIndex[s], tweet)

TakeArchive(s, tweets) ==
  EndCall(s) /\ retrieveDuplicateTweet(connectionIndex[s], tweets)

(* A listener that runs before SIGN_IN reads listOfPendingTweets[-1].      *)
WildRead(s) ==
  /\ conn[s] # "closed"
  /\ clientIndex[s] = NoUser
  /\ Crash
  /\ UNCHANGED sessionVars

(* Undefined behaviour outside the connection manager (the loop over the   *)
(* followers, the copy of a pending list) ends the process as well.        *)
CrashElsewhere == Crash /\ UNCHANGED sessionVars

(* Nothing happens any more in a process that has ended.                   *)
Halted == crashed /\ UNCHANGED csVars

-----------------------------------------------------------------------------
ConnectorStep(s) == SignIn(s) \/ Register(s) \/ Close(s)

ListenerCall(s) ==
  \/ LookUp(s)
  \/ \E answer \in BOOLEAN : AskTwoConnections(s, answer) \/ AskDuplicates(s, answer)
  \/ \E tweet \in Tweets : Archive(s, tweet)
  \/ LET i == connectionIndex[s]
     IN  TakeArchive(s, IF InRange(i) THEN listOfDuplicatedTweets[i] ELSE <<>>)
  \/ WildRead(s)

CSNext ==
  \/ /\ ~crashed
     /\ \/ \E s \in Sessions : Accept(s) \/ Disconnect(s) \/ ConnectorStep(s) \/ ListenerCall(s)
        \/ CrashElsewhere
  \/ Halted

CSSpec == CSInit /\ [][CSNext]_csVars

-----------------------------------------------------------------------------
(***************************************************************************)
(* Properties.                                                             *)
(***************************************************************************)
(* Connections of u that registerConnection accepted and that their        *)
(* connector has not closed yet.                                           *)
Live(u) == {s \in Sessions : clientIndex[s] = u /\ conn[s] \in {"online", "leaving"}}

(* Every variable has its type: in particular the two vectors stay         *)
(* parallel, whatever is erased from them.                                 *)
CSTypeOK ==
  /\ listOfConnectedUsers \in
       Seq([userID : Users \cup {NoUser}, numConnections : 1..MaxConnections])
  /\ listOfDuplicatedTweets \in Seq(Seq(Tweets))
  /\ Len(listOfDuplicatedTweets) = Len(listOfConnectedUsers)
  /\ crashed \in BOOLEAN
  /\ conn \in [Sessions -> ConnStates]
  /\ clientIndex \in [Sessions -> Users \cup {NoUser}]
  /\ connectionIndex \in [Sessions -> Nat \cup {NoCall}]

(* A user has at most one entry in the list of connected users, however    *)
(* registrations and closings interleave.                                  *)
OneEntryPerUser ==
  \A i, j \in DOMAIN listOfConnectedUsers :
    listOfConnectedUsers[i].userID = listOfConnectedUsers[j].userID => i = j

(* The manager never counts more connections for a user than there are:    *)
(* refused and anonymous connections, which are closed without having been *)
(* registered, can only make it count fewer.                               *)
CountNeverExceedsLive ==
  \A i \in DOMAIN listOfConnectedUsers :
    listOfConnectedUsers[i].numConnections
      <= Cardinality(Live(listOfConnectedUsers[i].userID))

(* A user is never locked out: a sign-in is refused only while two         *)
(* connections of that user are really up.                                 *)
NeverLockedOut ==
  [][\A s \in Sessions :
       conn[s] = "found" /\ conn'[s] = "refused"
         => Cardinality(Live(clientIndex[s])) >= MaxConnections]_csVars

=============================================================================
