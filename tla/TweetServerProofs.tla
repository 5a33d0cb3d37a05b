-------------------------- MODULE TweetServerProofs --------------------------
(***************************************************************************)
(* The whole server is type correct, and to the connection manager it is   *)
(* one of the environments ClientSessions allows: what is proved of        *)
(* ClientSessions holds of the server.                                     *)
(***************************************************************************)
EXTENDS TweetServer, ClientSessionsProofs, TLAPS
LOCAL INSTANCE SequencesExt
LOCAL INSTANCE FiniteSetsExt

ReceivedTweets == [tweetID : Nat, numRecipientsRemaining : Nat \ {0}]

-----------------------------------------------------------------------------
(* receivedIndex finds the first entry of the tweet, or there is none.     *)
LEMMA ReceivedIndexFound ==
  ASSUME NEW p, NEW q, q = listOfReceivedTweets[p.userAuthor], NEW S, q \in Seq(S)
  PROVE  \/ /\ receivedIndex(p) \in 1..Len(q)
            /\ q[receivedIndex(p)].tweetID = p.tweetID
            /\ \A j \in 1..Len(q) : q[j].tweetID = p.tweetID => receivedIndex(p) <= j
         \/ /\ receivedIndex(p) = 0
            /\ \A j \in 1..Len(q) : q[j].tweetID # p.tweetID
<1> DEFINE I == {i \in 1..Len(q) : q[i].tweetID = p.tweetID}
<1>1. receivedIndex(p) = IF I # {} THEN Min(I) ELSE 0
  BY DEF receivedIndex, SelectInSeq
<1>2. CASE I = {}
  BY <1>1, <1>2
<1>3. CASE I # {}
  <2>1. I \in SUBSET Nat
    OBVIOUS
  <2>2. \E m \in I : \A n \in I : m <= n
    BY <1>3, <2>1, LeastNumber
  <2>3. Min(I) \in I /\ \A n \in I : Min(I) <= n
    BY <2>2 DEF Min
  <2> QED
    BY <1>1, <1>3, <2>3
<1> QED
  BY <1>2, <1>3

(* The tweets found among the first k; they are pending tweets.            *)
LEMMA LookUpTweetsRuns ==
  ASSUME NEW q \in Seq(PendingTweets)
  PROVE  \E found :
           /\ lookUpTweets(q) = found[Len(q)]
           /\ \A k \in 0..Len(q) :
                /\ found[k] \in Seq(PendingTweets)
                /\ found[k] = IF k = 0 THEN <<>>
                              ELSE IF IsReceived(q[k]) THEN Append(found[k - 1], q[k])
                              ELSE found[k - 1]
<1> DEFINE P == Seq(PendingTweets)
           n == Len(q)
           rule(f, k) == IF k = 0 THEN <<>>
                         ELSE IF IsReceived(q[k]) THEN Append(f[k - 1], q[k])
                         ELSE f[k - 1]
           found == CHOOSE f : f = [k \in 0..n |-> rule(f, k)]
           good(f, m) == f \in [0..m -> P] /\ f = [k \in 0..m |-> rule(f, k)]
<1>1. n \in Nat /\ \A k \in 1..n : q[k] \in PendingTweets
  BY SequenceFacts
<1>2. <<>> \in P /\ \A r \in P, p \in PendingTweets : Append(r, p) \in P
  BY EmptySeq, AppendProperties
<1> HIDE DEF P, n
<1>3. \A m \in 0..n : \E f : good(f, m)
  <2> DEFINE bad == {m \in 0..n : ~\E f : good(f, m)}
  <2> SUFFICES ASSUME bad # {} PROVE FALSE
    OBVIOUS
  <2>1. bad \in SUBSET Nat
    BY <1>1
  <2>2. PICK m \in bad : \A k \in bad : m <= k
    BY <2>1, LeastNumber
  <2>3. m # 0
    <3>1. good([k \in 0..0 |-> <<>>], 0)
      BY <1>2
    <3> QED
      BY <3>1
  <2>4. PICK f : good(f, m - 1)
    <3>1. m - 1 \in 0..n /\ ~(m <= m - 1)
      BY <1>1, <2>3
    <3> HIDE DEF good
    <3> QED
      BY <2>2, <3>1
  <2> DEFINE g == [k \in 0..m |-> IF k < m THEN f[k] ELSE rule(f, m)]
  <2>5. m \in 1..n /\ q[m] \in PendingTweets
    BY <1>1, <2>3
  <2>6. \A k \in 0..(m - 1) : f[k] \in P /\ f[k] = rule(f, k)
    BY <2>4
  <2>7. rule(f, m) \in P
    BY <1>2, <2>5, <2>6
  <2>8. g \in [0..m -> P]
    BY <2>5, <2>6, <2>7
  <2>9. ASSUME NEW k \in 0..m PROVE g[k] = rule(g, k)
    BY <2>5, <2>6
  <2>10. good(g, m)
    BY <2>8, <2>9
  <2> QED
    BY <2>10
<1>4. found = [k \in 0..n |-> rule(found, k)]
  <2>1. PICK f : good(f, n)
    <3>1. n \in 0..n
      BY <1>1
    <3> HIDE DEF good
    <3> QED
      BY <1>3, <3>1
  <2> QED
    BY <2>1
<1>5. lookUpTweets(q) = found[n]
  BY DEF lookUpTweets, n
<1> HIDE DEF found
<1>6. \A k \in 0..n : found[k] \in P
  <2> DEFINE bad == {k \in 0..n : found[k] \notin P}
  <2> SUFFICES ASSUME bad # {} PROVE FALSE
    OBVIOUS
  <2>1. bad \in SUBSET Nat
    BY <1>1
  <2>2. PICK m \in bad : \A k \in bad : m <= k
    BY <2>1, LeastNumber
  <2>3. found[m] = rule(found, m)
    BY <1>4
  <2>4. m = 0 \/ (m \in 1..n /\ found[m - 1] \in P /\ q[m] \in PendingTweets)
    BY <1>1, <2>2
  <2> QED
    BY <1>2, <2>3, <2>4
<1> QED
  BY <1>1, <1>4, <1>5, <1>6 DEF P, n

LEMMA LookUpTweetsType ==
  ASSUME NEW q \in Seq(PendingTweets)
  PROVE  lookUpTweets(q) \in Seq(PendingTweets)
<1>1. Len(q) \in 0..Len(q)
  BY LenProperties
<1> QED
  BY <1>1, LookUpTweetsRuns

-----------------------------------------------------------------------------
(***************************************************************************)
(* The inductive invariant: types, where the threads of a session may be   *)
(* for each state of its connector, and what makes a speaker's count of    *)
(* followers a positive number of followers there are.                     *)
(***************************************************************************)
DBTyped ==
  /\ listOfFollowers \in [Users -> Seq(Users)]
  /\ listOfPendingTweets \in [Users -> Seq(PendingTweets)]
  /\ listOfReceivedTweets \in [Users -> Seq(ReceivedTweets)]
  /\ numTweets \in Nat

GateTyped ==
  /\ query_cnt \in Nat
  /\ saver \in {"idle", "waiting", "saving"}

ListenersTyped ==
  /\ lis \in [Sessions -> ListenerStates]
  /\ pendingTweets \in [Sessions -> Seq(PendingTweets)]
  /\ receivedTweets \in [Sessions -> Seq(PendingTweets)]
  /\ archived \in [Sessions -> Nat]
  /\ outgoing \in [Sessions -> Seq(PendingTweets)]
  /\ \A s \in Sessions : lis[s] \in Counting => pendingTweets[s] # <<>>
  /\ \A s \in Sessions : IF lis[s] = "archive" THEN archived[s] < Len(receivedTweets[s])
                         ELSE archived[s] = 0

SpeakersTyped ==
  /\ spk \in [Sessions -> SpeakerStates]
  /\ request \in [Sessions -> Users \cup {NoUser, UPDATE}]
  /\ tweetID \in [Sessions -> Nat]
  /\ followNum \in [Sessions -> Nat]
  /\ requests \in [Sessions -> Nat]
  /\ accepts \in Nat

ThreadsOK ==
  \A s \in Sessions :
    /\ conn[s] = "closed" => lis[s] = "stopped" /\ spk[s] = "stopped"
    /\ conn[s] = "new" => clientIndex[s] = NoUser
    /\ lis[s] \notin {"stopped", "pitstop"} => clientIndex[s] \in Users
    /\ spk[s] \notin {"stopped", "idle"}
         => conn[s] \in {"online", "leaving"} /\ clientIndex[s] \in Users

PlacesOK ==
  \A s \in Sessions :
    LET followers == Len(listOfFollowers[clientIndex[s]])
    IN  /\ spk[s] \in {"lock", "register", "recount", "forward"} => followers > 0
        /\ spk[s] \in {"register", "recount", "forward"} => followNum[s] \in 1..followers
        /\ spk[s] = "follow" => request[s] \in Users \cup {NoUser}
        /\ spk[s] = "push" => request[s] \in Users

TypeInv ==
  /\ ListsOK(PendingTweets) /\ SessionsOK
  /\ DBTyped /\ GateTyped /\ ListenersTyped /\ SpeakersTyped
  /\ ThreadsOK /\ PlacesOK

LEMMA TypeInvInit ==
  ASSUME Init
  PROVE  TypeInv
<1>1. <<>> \in Seq(PendingTweets) /\ <<>> \in Seq(ReceivedTweets)
  BY EmptySeq
<1>2. ListsOK(PendingTweets) /\ SessionsOK
  <2>1. /\ <<>> \in Seq(Connections) /\ <<>> \in Seq(Seq(PendingTweets)) /\ Len(<<>>) = 0
    BY EmptySeq
  <2>2. Unique(<<>>)
    BY <2>1 DEF Unique
  <2>3. ListsOK(PendingTweets)
    BY <2>1, <2>2 DEF Init, CSInit, CMInit, ListsOK
  <2> QED
    BY <2>3 DEF Init, CSInit, SessionsOK, ConnStates
<1>3. DBTyped /\ GateTyped
  BY <1>1, FollowersAssumption DEF Init, DBInit, GateInit, DBTyped, GateTyped
<1>4. ListenersTyped /\ SpeakersTyped
  BY <1>1 DEF Init, ListenersTyped, SpeakersTyped, ListenerStates, SpeakerStates, Counting
<1>5. ThreadsOK /\ PlacesOK
  BY DEF Init, CSInit, ThreadsOK, PlacesOK
<1> QED
  BY <1>2, <1>3, <1>4, <1>5 DEF TypeInv

-----------------------------------------------------------------------------
(* Connector and connection controller.                                    *)
LEMMA AcceptClientTyped ==
  ASSUME TypeInv, NEW s \in Sessions, AcceptClient(s)
  PROVE  TypeInv'
<1>1. ListsOK(PendingTweets)' /\ SessionsOK'
  BY DEF TypeInv, AcceptClient, Accept, ListsOK, cmVars, SessionsOK, ConnStates
<1>2. DBTyped' /\ GateTyped'
  BY DEF TypeInv, AcceptClient, dbVars, gateVars, DBTyped, GateTyped
<1>3. lis[s] = "stopped" /\ spk[s] = "stopped"
  BY DEF TypeInv, ThreadsOK, AcceptClient, Accept
<1>4. ListenersTyped'
  BY <1>3, EmptySeq DEF TypeInv, ListenersTyped, AcceptClient, ListenerStates, Counting
<1>5. SpeakersTyped'
  BY DEF TypeInv, SpeakersTyped, AcceptClient, SpeakerStates
<1>6. ThreadsOK'
  BY DEF TypeInv, ListenersTyped, SpeakersTyped, SessionsOK, ThreadsOK, AcceptClient, Accept
<1>7. PlacesOK'
  BY DEF TypeInv, SpeakersTyped, SessionsOK, PlacesOK, AcceptClient, Accept, dbVars
<1> QED
  BY <1>1, <1>2, <1>4, <1>5, <1>6, <1>7 DEF TypeInv

(* What the connector's other steps leave alone.                           *)
LEMMA ConnectorFrame ==
  ASSUME TypeInv, UNCHANGED <<dbVars, gateVars, listenerVars, speakerVars, accepts>>
  PROVE  /\ DBTyped' /\ GateTyped' /\ ListenersTyped' /\ SpeakersTyped'
         /\ UNCHANGED clientIndex => PlacesOK'
<1>1. DBTyped' /\ GateTyped'
  BY DEF TypeInv, DBTyped, GateTyped, dbVars, gateVars
<1>2. ListenersTyped'
  BY DEF TypeInv, ListenersTyped, listenerVars
<1>3. SpeakersTyped'
  BY DEF TypeInv, SpeakersTyped, speakerVars
<1>4. UNCHANGED clientIndex => PlacesOK'
  BY DEF TypeInv, PlacesOK, dbVars, speakerVars
<1> QED
  BY <1>1, <1>2, <1>3, <1>4

LEMMA ConnectorTyped ==
  ASSUME TypeInv, NEW s \in Sessions, CloseClient(s) \/ SessionStep(s)
  PROVE  TypeInv'
<1>1. UNCHANGED <<dbVars, gateVars, listenerVars, speakerVars, accepts>>
  BY DEF CloseClient, SessionStep
<1>2. CASE CloseClient(s)
  <2>1. ListsOK(PendingTweets)' /\ UNCHANGED clientIndex
    BY <1>2, CloseCounts DEF TypeInv, SessionsOK, CloseClient, Close
  <2>2. SessionsOK'
    BY <1>2 DEF TypeInv, SessionsOK, CloseClient, Close, ConnStates
  <2>3. ThreadsOK'
    BY <1>1, <1>2 DEF TypeInv, SessionsOK, ThreadsOK, CloseClient, Close, listenerVars, speakerVars
  <2> QED
    BY <1>1, <2>1, <2>2, <2>3, ConnectorFrame DEF TypeInv
<1>3. CASE SignIn(s)
  <2>1. ListsOK(PendingTweets)' /\ SessionsOK'
    BY <1>3, LoginAssumption DEF TypeInv, SignIn, ListsOK, cmVars, SessionsOK, ConnStates
  <2>2. lis[s] \in {"stopped", "pitstop"} /\ spk[s] \in {"stopped", "idle"}
    BY <1>3, NoUserAssumption DEF TypeInv, ThreadsOK, SignIn
  <2>3. ThreadsOK'
    BY <1>1, <1>3, <2>2 DEF TypeInv, SessionsOK, ThreadsOK, SignIn, listenerVars, speakerVars
  <2>4. PlacesOK'
    BY <1>1, <1>3, <2>2 DEF TypeInv, SessionsOK, PlacesOK, SignIn, dbVars, speakerVars
  <2> QED
    BY <1>1, <2>1, <2>3, <2>4, ConnectorFrame DEF TypeInv
<1>4. CASE Register(s)
  <2>1. PICK ok \in BOOLEAN :
          /\ registerConnection(clientIndex[s], ok)
          /\ conn' = [conn EXCEPT ![s] = IF ~ok THEN "refused"
                                         ELSE IF clientIndex[s] = NoUser THEN "leaving"
                                         ELSE "online"]
    BY <1>4 DEF Register
  <2>2. conn[s] = "found" /\ UNCHANGED <<clientIndex, connectionIndex>>
    BY <1>4 DEF Register
  <2>3. ListsOK(PendingTweets)'
    BY <2>1, RegisterCounts DEF TypeInv, SessionsOK
  <2>4. SessionsOK'
    BY <2>1, <2>2 DEF TypeInv, SessionsOK, ConnStates
  <2>5. ThreadsOK'
    BY <1>1, <2>1, <2>2 DEF TypeInv, SessionsOK, ThreadsOK, listenerVars, speakerVars
  <2> QED
    BY <1>1, <2>2, <2>3, <2>4, <2>5, ConnectorFrame DEF TypeInv
<1>5. CASE Disconnect(s)
  <2>1. ListsOK(PendingTweets)' /\ SessionsOK' /\ UNCHANGED clientIndex
    BY <1>5 DEF TypeInv, Disconnect, ListsOK, cmVars, SessionsOK, ConnStates
  <2>2. ThreadsOK'
    BY <1>1, <1>5 DEF TypeInv, SessionsOK, ThreadsOK, Disconnect, listenerVars, speakerVars
  <2> QED
    BY <1>1, <2>1, <2>2, ConnectorFrame DEF TypeInv
<1> QED
  BY <1>2, <1>3, <1>4, <1>5 DEF SessionStep

-----------------------------------------------------------------------------
(* Listener.  What all its steps leave alone.                              *)
LEMMA ListenerFrame ==
  ASSUME TypeInv, UNCHANGED <<speakerVars, accepts>>
  PROVE  /\ SpeakersTyped'
         /\ UNCHANGED dbVars => DBTyped'
         /\ UNCHANGED gateVars => GateTyped'
         /\ UNCHANGED csVars => ListsOK(PendingTweets)' /\ SessionsOK'
         /\ UNCHANGED <<listOfFollowers, clientIndex>> => PlacesOK'
<1>1. SpeakersTyped'
  BY DEF TypeInv, SpeakersTyped, speakerVars
<1>2. UNCHANGED dbVars => DBTyped'
  BY DEF TypeInv, DBTyped, dbVars
<1>3. UNCHANGED gateVars => GateTyped'
  BY DEF TypeInv, GateTyped, gateVars
<1>4. UNCHANGED csVars => ListsOK(PendingTweets)' /\ SessionsOK'
  BY DEF TypeInv, ListsOK, SessionsOK, csVars, cmVars, sessionVars
<1>5. UNCHANGED <<listOfFollowers, clientIndex>> => PlacesOK'
  BY DEF TypeInv, PlacesOK, speakerVars
<1> QED
  BY <1>1, <1>2, <1>3, <1>4, <1>5

(* A listener that runs goes to a place where somebody is signed in.       *)
LEMMA ListenerThreads ==
  ASSUME TypeInv, NEW s \in Sessions, NEW to, lis[s] # "stopped",
         lis' = [lis EXCEPT ![s] = to],
         to \notin {"stopped", "pitstop"} => clientIndex[s] \in Users,
         UNCHANGED <<conn, clientIndex, spk>>
  PROVE  ThreadsOK'
  BY DEF TypeInv, ListenersTyped, ThreadsOK

(* The calls of the connection manager.                                    *)
LEMMA CallTyped ==
  ASSUME TypeInv, NEW s \in Sessions,
         \/ LookUp(s)
         \/ EndCall(s) /\ UNCHANGED cmVars
         \/ EndCall(s) /\ Crash
         \/ WildRead(s)
  PROVE  ListsOK(PendingTweets)' /\ SessionsOK' /\ UNCHANGED <<conn, clientIndex>>
<1>1. CASE LookUp(s)
  <2>1. getConnectionIndex(clientIndex[s]) \in Nat
    <3>1. Len(listOfConnectedUsers) \in Nat
      BY SequenceFacts DEF TypeInv, ListsOK
    <3> QED
      BY <3>1, IndexFound DEF TypeInv, ListsOK
  <2> QED
    BY <1>1, <2>1 DEF LookUp, TypeInv, ListsOK, SessionsOK, cmVars
<1>2. CASE EndCall(s) /\ (UNCHANGED cmVars \/ Crash)
  BY <1>2 DEF EndCall, TypeInv, ListsOK, SessionsOK, cmVars, Crash
<1>3. CASE WildRead(s)
  BY <1>3 DEF WildRead, TypeInv, ListsOK, SessionsOK, Crash, sessionVars
<1> QED
  BY <1>1, <1>2, <1>3

(* The check at the pitstop.                                               *)
LEMMA CheckTyped ==
  ASSUME TypeInv, NEW s \in Sessions, UNCHANGED <<speakerVars, accepts>>,
         CheckPending(s) \/ CheckDuplicates(s) \/ CheckAnonymous(s)
  PROVE  TypeInv'
<1>1. DBTyped' /\ GateTyped' /\ SpeakersTyped'
  BY ListenerFrame DEF CheckPending, CheckDuplicates, CheckAnonymous
<1>2. ListsOK(PendingTweets)' /\ SessionsOK' /\ UNCHANGED <<conn, clientIndex>>
  <2>1. CASE CheckPending(s)
    BY <2>1, CallTyped DEF CheckPending
  <2>2. CASE CheckDuplicates(s)
    BY <2>2, CallTyped DEF CheckDuplicates, AskDuplicates, doesClientHaveDuplicateTweets
  <2>3. CASE CheckAnonymous(s)
    BY <2>3, CallTyped, ListenerFrame DEF CheckAnonymous, csVars, sessionVars
  <2> QED
    BY <2>1, <2>2, <2>3
<1>3. PlacesOK'
  BY <1>2, ListenerFrame DEF CheckPending, CheckDuplicates, CheckAnonymous, dbVars
<1>4. PICK to \in {"stopped", "pitstop", "retrieve", "checkDuplicates"} :
        /\ lis[s] \in {"pitstop", "checkDuplicates"}
        /\ lis' = [lis EXCEPT ![s] = to]
        /\ to \notin {"stopped", "pitstop"} => clientIndex[s] \in Users
  <2>1. CASE CheckPending(s)
    BY <2>1 DEF CheckPending, ListenerGoes, LookUp, TypeInv, SessionsOK
  <2>2. CASE CheckDuplicates(s)
    BY <2>2 DEF CheckDuplicates, ListenerGoes, AfterCheck, TypeInv, ThreadsOK
  <2>3. CASE CheckAnonymous(s)
    BY <2>3 DEF CheckAnonymous, ListenerGoes, TypeInv, ListenersTyped
  <2> QED
    BY <2>1, <2>2, <2>3
<1>5. UNCHANGED <<pendingTweets, receivedTweets, archived, outgoing>>
  BY DEF CheckPending, CheckDuplicates, CheckAnonymous
<1>6. ListenersTyped'
  BY <1>4, <1>5 DEF TypeInv, ListenersTyped, ListenerStates, Counting
<1>7. ThreadsOK'
  BY <1>2, <1>4, ListenerThreads DEF speakerVars
<1> QED
  BY <1>1, <1>2, <1>3, <1>6, <1>7 DEF TypeInv

(* _updateReceivedTweet keeps the counts positive.                         *)
LEMMA UpdateReceivedTyped ==
  ASSUME DBTyped, NEW p \in PendingTweets, updateReceivedTweet(p)
  PROVE  DBTyped'
<1> DEFINE a == p.userAuthor
           i == receivedIndex(p)
           q == listOfReceivedTweets[a]
<1>1. a \in Users /\ q \in Seq(ReceivedTweets)
  BY DEF PendingTweets, DBTyped
<1>2. UNCHANGED <<listOfFollowers, listOfPendingTweets, numTweets>>
  BY DEF updateReceivedTweet
<1>3. i = 0 \/ (i \in 1..Len(q) /\ q[i] \in ReceivedTweets)
  BY <1>1, ReceivedIndexFound, SequenceFacts
<1>4. listOfReceivedTweets' \in [Users -> Seq(ReceivedTweets)]
  <2>1. CASE i # 0 /\ q[i].numRecipientsRemaining = 1
    <3>1. listOfReceivedTweets' = [listOfReceivedTweets EXCEPT ![a] = RemoveAt(q, i)]
      BY <2>1 DEF updateReceivedTweet
    <3>2. RemoveAt(q, i) \in Seq(ReceivedTweets)
      <4>1. Removed(q, i, RemoveAt(q, i))
        BY DEF Removed, RemoveAt
      <4> QED
        BY <1>1, <1>3, <2>1, <4>1, RemoveAtProperties
    <3> QED
      BY <3>1, <3>2 DEF DBTyped
  <2>2. CASE i # 0 /\ q[i].numRecipientsRemaining # 1
    <3> DEFINE e == [q[i] EXCEPT !.numRecipientsRemaining = @ - 1]
    <3>1. listOfReceivedTweets' = [listOfReceivedTweets EXCEPT ![a] = [q EXCEPT ![i] = e]]
      BY <1>1, <1>3, <2>2 DEF updateReceivedTweet, DBTyped
    <3>2. e \in ReceivedTweets
      BY <1>3, <2>2 DEF ReceivedTweets
    <3> HIDE DEF e
    <3>3. [q EXCEPT ![i] = e] \in Seq(ReceivedTweets)
      BY <1>1, <1>3, <2>2, <3>2, ExceptSeq
    <3> QED
      BY <3>1, <3>3 DEF DBTyped
  <2>3. CASE i = 0
    BY <2>3 DEF updateReceivedTweet, DBTyped
  <2> QED
    BY <2>1, <2>2, <2>3
<1> QED
  BY <1>2, <1>4 DEF DBTyped

(* The steps of a retrieval that call the connection manager.              *)
LEMMA RetrieveCallsTyped ==
  ASSUME TypeInv, NEW s \in Sessions, UNCHANGED <<speakerVars, accepts>>,
         FindConnection(s) \/ TakeDuplicates(s) \/ CheckTwoConnections(s) \/ ArchiveTweet(s)
  PROVE  TypeInv'
<1>1. DBTyped' /\ GateTyped' /\ SpeakersTyped'
  BY ListenerFrame DEF FindConnection, TakeDuplicates, CheckTwoConnections, ArchiveTweet
<1>2. PICK to \in ListenerStates \ {"stopped", "pitstop"} :
        /\ lis[s] \in {"awaitDuplicates", "twoConnections", "archive"}
        /\ lis' = [lis EXCEPT ![s] = to]
  BY DEF FindConnection, TakeDuplicates, CheckTwoConnections, ArchiveTweet, ListenerGoes,
         listenerVars, ListenerStates, TypeInv, ListenersTyped
<1>3. clientIndex[s] \in Users
  BY <1>2 DEF TypeInv, ThreadsOK
<1>4. CASE FindConnection(s)
  <2>1. ListsOK(PendingTweets)' /\ SessionsOK' /\ UNCHANGED <<conn, clientIndex>>
    BY <1>4, CallTyped DEF FindConnection
  <2>2. ListenersTyped' /\ ThreadsOK'
    BY <1>4, <2>1 DEF FindConnection, listenerVars, speakerVars, TypeInv, ListenersTyped, ThreadsOK
  <2> QED
    BY <1>1, <1>4, <2>1, <2>2, ListenerFrame DEF TypeInv, FindConnection, dbVars
<1>5. CASE TakeDuplicates(s)
  <2>1. PICK tweets : /\ TakeArchive(s, tweets)
                      /\ receivedTweets' = [receivedTweets EXCEPT ![s] = tweets]
    BY <1>5 DEF TakeDuplicates
  <2>2. ListsOK(PendingTweets)' /\ tweets \in Seq(PendingTweets)
    BY <2>1, TakeKeepsLists DEF TakeArchive, TypeInv
  <2>3. SessionsOK' /\ UNCHANGED <<conn, clientIndex>>
    BY <2>1 DEF TakeArchive, EndCall, TypeInv, SessionsOK
  <2>4. ListenersTyped'
    BY <1>5, <2>1, <2>2 DEF TakeDuplicates, ListenerGoes, TypeInv, ListenersTyped, Counting,
                            ListenerStates
  <2>5. ThreadsOK'
    BY <1>2, <1>3, <2>3, ListenerThreads DEF speakerVars
  <2> QED
    BY <1>1, <1>5, <2>2, <2>3, <2>4, <2>5, ListenerFrame DEF TypeInv, TakeDuplicates, dbVars
<1>6. CASE CheckTwoConnections(s)
  <2>1. ListsOK(PendingTweets)' /\ SessionsOK' /\ UNCHANGED <<conn, clientIndex>>
    BY <1>6, CallTyped DEF CheckTwoConnections, AskTwoConnections, doesClientHaveTwoConnections
  <2>2. receivedTweets[s] # <<>> => 0 < Len(receivedTweets[s])
    BY EmptySeq, LenProperties DEF TypeInv, ListenersTyped
  <2>3. ListenersTyped'
    BY <1>6, <2>2 DEF CheckTwoConnections, ListenerGoes, TypeInv, ListenersTyped, Counting,
                      ListenerStates
  <2>4. ThreadsOK'
    BY <1>2, <1>3, <2>1, ListenerThreads DEF speakerVars
  <2> QED
    BY <1>1, <1>6, <2>1, <2>3, <2>4, ListenerFrame DEF TypeInv, CheckTwoConnections, dbVars
<1>7. CASE ArchiveTweet(s)
  <2> DEFINE next == archived[s] + 1
             q == receivedTweets[s]
  <2>1. q \in Seq(PendingTweets) /\ archived[s] \in Nat /\ archived[s] < Len(q)
    BY <1>7 DEF ArchiveTweet, ListenerGoes, TypeInv, ListenersTyped
  <2>2. Len(q) \in Nat /\ next \in 1..Len(q) /\ q[next] \in PendingTweets
    <3>1. Len(q) \in Nat /\ \A k \in 1..Len(q) : q[k] \in PendingTweets
      BY <2>1, SequenceFacts
    <3> QED
      BY <2>1, <3>1
  <2>3. Archive(s, q[next])
    BY <1>7 DEF ArchiveTweet
  <2>4. ListsOK(PendingTweets)'
    BY <2>2, <2>3, ArchiveKeepsLists DEF Archive, TypeInv
  <2>5. SessionsOK' /\ UNCHANGED <<conn, clientIndex>>
    BY <2>3 DEF Archive, EndCall, TypeInv, SessionsOK
  <2>6. /\ lis[s] = "archive" /\ UNCHANGED <<pendingTweets, receivedTweets, outgoing>>
        /\ lis' = [lis EXCEPT ![s] = IF next = Len(q) THEN "update" ELSE "archive"]
        /\ archived' = [archived EXCEPT ![s] = IF next = Len(q) THEN 0 ELSE next]
    BY <1>7 DEF ArchiveTweet, ListenerGoes
  <2> HIDE DEF q, next
  <2>7. next \in Nat /\ (next # Len(q) => next < Len(q))
    BY <2>2
  <2>8. ListenersTyped'
    BY <2>6, <2>7 DEF TypeInv, ListenersTyped, Counting, ListenerStates, q
  <2>9. ThreadsOK'
    BY <1>2, <1>3, <2>5, ListenerThreads DEF speakerVars
  <2> QED
    BY <1>1, <1>7, <2>4, <2>5, <2>8, <2>9, ListenerFrame DEF TypeInv, ArchiveTweet, dbVars
<1> QED
  BY <1>4, <1>5, <1>6, <1>7

(* The steps of a retrieval that do not.                                   *)
LEMMA RetrieveStepsTyped ==
  ASSUME TypeInv, NEW s \in Sessions, UNCHANGED <<speakerVars, accepts>>,
         \/ BeginRetrieve(s) \/ CopyPending(s) \/ ClearPending(s) \/ LookUpTweets(s)
         \/ UpdateTweet(s) \/ EndRetrieve(s)
  PROVE  TypeInv'
<1>1. SpeakersTyped' /\ UNCHANGED <<conn, clientIndex, spk>>
  BY ListenerFrame DEF BeginRetrieve, CopyPending, ClearPending, LookUpTweets, UpdateTweet,
                       EndRetrieve, csVars, sessionVars, speakerVars
<1>2. lis[s] \in {"retrieve", "copy", "clear", "lookUp", "update", "leave"}
  BY DEF BeginRetrieve, CopyPending, ClearPending, LookUpTweets, UpdateTweet, EndRetrieve,
         ListenerGoes
<1>3. clientIndex[s] \in Users
  BY <1>2 DEF TypeInv, ThreadsOK
<1>4. ListsOK(PendingTweets)' /\ SessionsOK'
  <2>1. CASE UNCHANGED csVars
    BY <2>1, ListenerFrame
  <2>2. CASE Crash /\ UNCHANGED sessionVars
    BY <2>2 DEF Crash, TypeInv, ListsOK, SessionsOK, sessionVars
  <2> QED
    BY <2>1, <2>2 DEF BeginRetrieve, CopyPending, ClearPending, LookUpTweets, UpdateTweet,
                      EndRetrieve
<1>5. /\ listOfPendingTweets[clientIndex[s]] \in Seq(PendingTweets)
      /\ pendingTweets[s] \in Seq(PendingTweets)
      /\ receivedTweets[s] \in Seq(PendingTweets)
      /\ outgoing[s] \in Seq(PendingTweets)
  BY <1>3 DEF TypeInv, DBTyped, ListenersTyped
<1>6. CASE BeginRetrieve(s)
  <2>1. GateTyped'
    BY <1>6 DEF BeginRetrieve, EnterQuery, TypeInv, GateTyped
  <2>2. ListenersTyped'
    BY <1>6 DEF BeginRetrieve, ListenerGoes, TypeInv, ListenersTyped, ListenerStates, Counting
  <2>3. ThreadsOK'
    BY <1>1, <1>2, <1>3, <1>6, ListenerThreads DEF BeginRetrieve, ListenerGoes
  <2> QED
    BY <1>1, <1>4, <1>6, <2>1, <2>2, <2>3, ListenerFrame DEF TypeInv, BeginRetrieve, dbVars
<1>7. CASE CopyPending(s)
  <2>1. ListenersTyped'
    BY <1>5, <1>7 DEF CopyPending, ListenerGoes, TypeInv, ListenersTyped, ListenerStates, Counting
  <2>2. ThreadsOK'
    <3>1. CASE lis' = [lis EXCEPT ![s] = "clear"]
      BY <1>1, <1>2, <1>3, <3>1, ListenerThreads
    <3>2. CASE UNCHANGED lis
      BY <1>1, <3>2 DEF TypeInv, ThreadsOK
    <3> QED
      BY <1>7, <3>1, <3>2 DEF CopyPending, ListenerGoes
  <2> QED
    BY <1>1, <1>4, <1>7, <2>1, <2>2, ListenerFrame DEF TypeInv, CopyPending, dbVars
<1>8. CASE ClearPending(s)
  <2>1. DBTyped'
    BY <1>8, EmptySeq DEF ClearPending, clearPendingTweets, TypeInv, DBTyped
  <2>2. ListenersTyped'
    BY <1>8 DEF ClearPending, ListenerGoes, TypeInv, ListenersTyped, ListenerStates, Counting
  <2>3. ThreadsOK'
    BY <1>1, <1>2, <1>3, <1>8, ListenerThreads DEF ClearPending, ListenerGoes
  <2> QED
    BY <1>1, <1>4, <1>8, <2>1, <2>2, <2>3, ListenerFrame
    DEF TypeInv, ClearPending, clearPendingTweets
<1>9. CASE LookUpTweets(s)
  <2>1. lookUpTweets(pendingTweets[s]) \in Seq(PendingTweets)
    BY <1>5, LookUpTweetsType
  <2>2. ListenersTyped'
    BY <1>9, <2>1 DEF LookUpTweets, ListenerGoes, TypeInv, ListenersTyped, ListenerStates, Counting
  <2>3. ThreadsOK'
    BY <1>1, <1>2, <1>3, <1>9, ListenerThreads DEF LookUpTweets, ListenerGoes
  <2> QED
    BY <1>1, <1>4, <1>9, <2>2, <2>3, ListenerFrame DEF TypeInv, LookUpTweets, dbVars
<1>10. CASE UpdateTweet(s)
  <2> DEFINE q == pendingTweets[s]
  <2>1. lis[s] = "update" /\ q # <<>>
    BY <1>10 DEF UpdateTweet, ListenerGoes, TypeInv, ListenersTyped, Counting
  <2>2. /\ Head(q) \in PendingTweets /\ Tail(q) \in Seq(PendingTweets)
        /\ Len(Tail(q)) = Len(q) - 1 /\ Len(q) \in Nat
    BY <1>5, <2>1, HeadTailProperties, LenProperties
  <2>3. Len(q) # 1 => Tail(q) # <<>>
    <3> DEFINE r == Tail(q)
    <3>1. r = <<>> => Len(r) = 0
      BY EmptySeq
    <3>2. Len(r) = Len(q) - 1 /\ Len(q) \in Nat
      BY <2>2
    <3> HIDE DEF r, q
    <3>3. Len(q) # 1 => r # <<>>
      BY <3>1, <3>2
    <3> QED
      BY <3>3 DEF r, q
  <2>4. DBTyped' /\ UNCHANGED listOfFollowers
    BY <1>10, <2>2, UpdateReceivedTyped DEF UpdateTweet, updateReceivedTweet, TypeInv
  <2>5. ListenersTyped'
    BY <1>10, <2>1, <2>2, <2>3
    DEF UpdateTweet, ListenerGoes, TypeInv, ListenersTyped, ListenerStates, Counting
  <2>6. ThreadsOK'
    BY <1>1, <1>2, <1>3, <1>10, ListenerThreads DEF UpdateTweet, ListenerGoes
  <2> QED
    BY <1>1, <1>4, <1>10, <2>4, <2>5, <2>6, ListenerFrame DEF TypeInv, UpdateTweet
<1>11. CASE EndRetrieve(s)
  <2>1. GateTyped'
    BY <1>11 DEF EndRetrieve, LeaveQuery, TypeInv, GateTyped
  <2>2. outgoing[s] \o receivedTweets[s] \in Seq(PendingTweets)
    BY <1>5, ConcatProperties
  <2>3. ListenersTyped'
    BY <1>11, <2>2, EmptySeq
    DEF EndRetrieve, ListenerGoes, TypeInv, ListenersTyped, ListenerStates, Counting
  <2>4. ThreadsOK'
    BY <1>1, <1>2, <1>3, <1>11, ListenerThreads DEF EndRetrieve, ListenerGoes
  <2> QED
    BY <1>1, <1>4, <1>11, <2>1, <2>3, <2>4, ListenerFrame DEF TypeInv, EndRetrieve, dbVars
<1> QED
  BY <1>6, <1>7, <1>8, <1>9, <1>10, <1>11

LEMMA ListenerTyped ==
  ASSUME TypeInv, NEW s \in Sessions, ListenerStep(s)
  PROVE  TypeInv'
  BY CheckTyped, RetrieveCallsTyped, RetrieveStepsTyped DEF ListenerStep, Retrieve

-----------------------------------------------------------------------------
(* Speaker.  What all its steps leave alone.                               *)
LEMMA SpeakerFrame ==
  ASSUME TypeInv, UNCHANGED listenerVars, UNCHANGED sessionVars,
         UNCHANGED cmVars \/ Crash
  PROVE  /\ ListsOK(PendingTweets)' /\ SessionsOK' /\ ListenersTyped'
         /\ UNCHANGED dbVars => DBTyped'
         /\ UNCHANGED gateVars => GateTyped'
         /\ UNCHANGED spk => ThreadsOK'
<1>1. ListsOK(PendingTweets)' /\ SessionsOK'
  BY DEF TypeInv, ListsOK, SessionsOK, cmVars, sessionVars, Crash
<1>2. ListenersTyped'
  BY DEF TypeInv, ListenersTyped, listenerVars
<1>3. UNCHANGED dbVars => DBTyped'
  BY DEF TypeInv, DBTyped, dbVars
<1>4. UNCHANGED gateVars => GateTyped'
  BY DEF TypeInv, GateTyped, gateVars
<1>5. UNCHANGED spk => ThreadsOK'
  BY DEF TypeInv, ThreadsOK, listenerVars, sessionVars
<1> QED
  BY <1>1, <1>2, <1>3, <1>4, <1>5

(* A speaker between two steps of one request, or at its end.              *)
LEMMA SpeakerThreads ==
  ASSUME TypeInv, NEW s \in Sessions, NEW to, spk[s] # "stopped",
         spk' = [spk EXCEPT ![s] = to],
         \/ to \in {"stopped", "idle"}
         \/ conn[s] \in {"online", "leaving"} /\ clientIndex[s] \in Users,
         UNCHANGED listenerVars, UNCHANGED sessionVars
  PROVE  ThreadsOK'
  BY DEF TypeInv, SpeakersTyped, ThreadsOK, listenerVars, sessionVars

(* The steps between requests.                                             *)
LEMMA RequestsTyped ==
  ASSUME TypeInv, NEW s \in Sessions,
         \/ \E r \in Requests[s] : BeginRequest(s, r)
         \/ /\ CheckFollow(s) \/ EndRequest(s) \/ StopSpeaker(s)
            /\ UNCHANGED <<listenerVars, requests, accepts>>
  PROVE  TypeInv'
<1>1. CASE \E r \in Requests[s] : BeginRequest(s, r)
  <2>1. PICK r \in Users \cup {NoUser, UPDATE} : BeginRequest(s, r)
    BY <1>1, RequestsAssumption
  <2>2. conn[s] \in {"online", "leaving"} /\ clientIndex[s] \in Users /\ spk[s] = "idle"
    BY <2>1 DEF BeginRequest, SpeakerGoes, TypeInv, SessionsOK
  <2>3. GateTyped'
    BY <2>1 DEF BeginRequest, EnterQuery, TypeInv, GateTyped
  <2>4. SpeakersTyped'
    BY <2>1 DEF BeginRequest, SpeakerGoes, TypeInv, SpeakersTyped, SpeakerStates
  <2>5. ThreadsOK'
    BY <2>1, <2>2, SpeakerThreads DEF BeginRequest, SpeakerGoes, csVars
  <2>6. PlacesOK'
    BY <2>1, RequestsAssumption
    DEF BeginRequest, SpeakerGoes, TypeInv, SpeakersTyped, PlacesOK, dbVars, csVars, sessionVars
  <2> QED
    BY <2>1, <2>3, <2>4, <2>5, <2>6, SpeakerFrame DEF BeginRequest, TypeInv, csVars
<1>2. CASE CheckFollow(s) /\ UNCHANGED <<listenerVars, requests, accepts>>
  <2>1. spk[s] = "follow" /\ request[s] \in Users \cup {NoUser}
    BY <1>2 DEF CheckFollow, SpeakerGoes, TypeInv, PlacesOK
  <2>2. conn[s] \in {"online", "leaving"} /\ clientIndex[s] \in Users
    BY <2>1 DEF TypeInv, ThreadsOK
  <2>3. SpeakersTyped'
    BY <1>2 DEF CheckFollow, SpeakerGoes, TypeInv, SpeakersTyped, SpeakerStates
  <2>4. ThreadsOK'
    BY <1>2, <2>1, <2>2, SpeakerThreads DEF CheckFollow, SpeakerGoes, csVars
  <2>5. PlacesOK'
    BY <1>2, <2>1
    DEF CheckFollow, SpeakerGoes, TypeInv, SpeakersTyped, PlacesOK, dbVars, csVars, sessionVars
  <2> QED
    BY <1>2, <2>3, <2>4, <2>5, SpeakerFrame DEF CheckFollow, TypeInv, csVars
<1>3. CASE EndRequest(s) /\ UNCHANGED <<listenerVars, requests, accepts>>
  <2>1. GateTyped'
    BY <1>3 DEF EndRequest, LeaveQuery, TypeInv, GateTyped
  <2>2. SpeakersTyped'
    BY <1>3 DEF EndRequest, SpeakerGoes, TypeInv, SpeakersTyped, SpeakerStates
  <2>3. ThreadsOK'
    BY <1>3, SpeakerThreads DEF EndRequest, SpeakerGoes, csVars
  <2>4. PlacesOK'
    BY <1>3
    DEF EndRequest, SpeakerGoes, TypeInv, SpeakersTyped, PlacesOK, dbVars, csVars, sessionVars
  <2> QED
    BY <1>3, <2>1, <2>2, <2>3, <2>4, SpeakerFrame DEF EndRequest, TypeInv, csVars
<1>4. CASE StopSpeaker(s) /\ UNCHANGED <<listenerVars, requests, accepts>>
  <2>1. SpeakersTyped'
    BY <1>4 DEF StopSpeaker, SpeakerGoes, TypeInv, SpeakersTyped, SpeakerStates
  <2>2. ThreadsOK'
    BY <1>4, SpeakerThreads DEF StopSpeaker, SpeakerGoes, csVars
  <2>3. PlacesOK'
    BY <1>4
    DEF StopSpeaker, SpeakerGoes, TypeInv, SpeakersTyped, PlacesOK, dbVars, csVars, sessionVars
  <2> QED
    BY <1>4, <2>1, <2>2, <2>3, SpeakerFrame DEF StopSpeaker, TypeInv, csVars
<1> QED
  BY <1>1, <1>2, <1>3, <1>4

(* _forwardUpdateToFollowers lengthens the pending lists.                  *)
LEMMA ForwardTyped ==
  ASSUME DBTyped, NEW u \in Users, NEW id \in Nat, NEW n \in Nat, forwardUpdate(u, id, n)
  PROVE  DBTyped'
<1> DEFINE times(v) == Cardinality({i \in 1..n : listOfFollowers[u][i] = v})
           new(v) == [k \in 1..times(v) |-> PendingTweet(u, id)]
<1>1. PendingTweet(u, id) \in PendingTweets
  BY DEF PendingTweet, PendingTweets
<1>2. ASSUME NEW v \in Users PROVE times(v) \in Nat
  <2>1. IsFiniteSet(1..n)
    BY FS_Interval
  <2>2. {i \in 1..n : listOfFollowers[u][i] = v} \in SUBSET (1..n)
    OBVIOUS
  <2> QED
    BY <2>1, <2>2, FS_Subset, FS_CardinalityType
<1>3. /\ listOfPendingTweets' = [v \in Users |-> listOfPendingTweets[v] \o new(v)]
      /\ UNCHANGED <<listOfFollowers, listOfReceivedTweets, numTweets>>
  BY DEF forwardUpdate
<1> HIDE DEF times
<1>4. ASSUME NEW v \in Users PROVE new(v) \in Seq(PendingTweets)
  BY <1>1, <1>2, RepeatedProperties
<1> HIDE DEF new
<1>5. \A v \in Users : listOfPendingTweets[v] \o new(v) \in Seq(PendingTweets)
  BY <1>4, ConcatProperties DEF DBTyped
<1> QED
  BY <1>3, <1>5 DEF DBTyped

(* The steps of a request to post or to follow.                            *)
LEMMA PostingTyped ==
  ASSUME TypeInv, NEW s \in Sessions, UNCHANGED <<listenerVars, requests, accepts>>,
         \/ TakeNumber(s) \/ CountFollowers(s) \/ LockAndCount(s) \/ RegisterUpdate(s)
         \/ Recount(s) \/ ForwardUpdate(s) \/ PushFollow(s)
  PROVE  TypeInv'
<1> DEFINE u == clientIndex[s]
           followers == Len(listOfFollowers[u])
<1>1. /\ UNCHANGED sessionVars /\ UNCHANGED gateVars
      /\ UNCHANGED cmVars \/ Crash
  BY DEF TakeNumber, CountFollowers, LockAndCount, RegisterUpdate, Recount, ForwardUpdate,
         PushFollow, csVars
<1>2. spk[s] \in {"number", "count", "lock", "register", "recount", "forward", "push"}
  BY DEF TakeNumber, CountFollowers, LockAndCount, RegisterUpdate, Recount, ForwardUpdate,
         PushFollow, SpeakerGoes
<1>3. conn[s] \in {"online", "leaving"} /\ u \in Users
  BY <1>2 DEF TypeInv, ThreadsOK
<1>4. listOfFollowers[u] \in Seq(Users) /\ followers \in Nat
  BY <1>3, LenProperties DEF TypeInv, DBTyped
<1>5. /\ tweetID[s] \in Nat /\ followNum[s] \in Nat
      /\ spk[s] \in {"register", "recount", "forward"} => followNum[s] \in 1..followers
      /\ spk[s] \in {"lock", "recount"} => followers > 0
      /\ spk[s] = "push" => request[s] \in Users
  BY DEF TypeInv, SpeakersTyped, PlacesOK
<1>6. ThreadsOK'
  <2>1. \/ UNCHANGED spk
        \/ \E to : spk' = [spk EXCEPT ![s] = to]
    BY DEF TakeNumber, CountFollowers, LockAndCount, RegisterUpdate, Recount, ForwardUpdate,
           PushFollow, SpeakerGoes
  <2> QED
    BY <1>1, <1>2, <1>3, <2>1, SpeakerFrame, SpeakerThreads
<1>7. SpeakersTyped'
  <2>1. UNCHANGED <<request, requests, accepts>>
    BY DEF TakeNumber, CountFollowers, LockAndCount, RegisterUpdate, Recount, ForwardUpdate,
           PushFollow
  <2>2. tweetID' \in [Sessions -> Nat]
    BY DEF TakeNumber, CountFollowers, LockAndCount, RegisterUpdate, Recount, ForwardUpdate,
           PushFollow, TypeInv, DBTyped, SpeakersTyped
  <2>3. followNum' \in [Sessions -> Nat]
    BY <1>4 DEF TakeNumber, CountFollowers, LockAndCount, RegisterUpdate, Recount,
                ForwardUpdate, PushFollow, getNumFollowers, TypeInv, SpeakersTyped
  <2>4. spk' \in [Sessions -> SpeakerStates]
    BY DEF TakeNumber, CountFollowers, LockAndCount, RegisterUpdate, Recount, ForwardUpdate,
           PushFollow, SpeakerGoes, TypeInv, SpeakersTyped, SpeakerStates
  <2> QED
    BY <2>1, <2>2, <2>3, <2>4 DEF TypeInv, SpeakersTyped
<1>8. DBTyped'
  <2>1. CASE UNCHANGED dbVars
    BY <1>1, <2>1, SpeakerFrame
  <2>2. CASE TakeNumber(s)
    BY <2>2 DEF TakeNumber, takeTweetID, TypeInv, DBTyped
  <2>3. CASE RegisterUpdate(s)
    <3>1. TweetData(tweetID[s], followNum[s]) \in ReceivedTweets
      BY <1>5, <2>3 DEF RegisterUpdate, SpeakerGoes, TweetData, ReceivedTweets
    <3>2. Append(listOfReceivedTweets[u], TweetData(tweetID[s], followNum[s]))
            \in Seq(ReceivedTweets)
      BY <1>3, <3>1, AppendProperties DEF TypeInv, DBTyped
    <3> QED
      BY <2>3, <3>2 DEF RegisterUpdate, registerUpdate, TypeInv, DBTyped
  <2>4. CASE ForwardUpdate(s)
    BY <1>1, <1>3, <1>5, <2>4, ForwardTyped, SpeakerFrame DEF ForwardUpdate, TypeInv
  <2>5. CASE PushFollow(s)
    <3>1. Append(listOfFollowers[request[s]], u) \in Seq(Users)
      BY <1>3, <1>5, <2>5, AppendProperties DEF PushFollow, SpeakerGoes, TypeInv, DBTyped
    <3> QED
      BY <2>5, <3>1 DEF PushFollow, pushFollower, TypeInv, DBTyped
  <2> QED
    BY <2>1, <2>2, <2>3, <2>4, <2>5 DEF CountFollowers, LockAndCount, Recount
<1>9. PlacesOK'
  <2>1. CASE UNCHANGED listOfFollowers
    BY <1>1, <1>4, <1>5, <2>1
    DEF TakeNumber, CountFollowers, LockAndCount, RegisterUpdate, Recount, ForwardUpdate,
        PushFollow, SpeakerGoes, getNumFollowers, TypeInv, SpeakersTyped, PlacesOK, sessionVars
  <2>2. CASE PushFollow(s)
    <3>1. request[s] \in Users /\ listOfFollowers[request[s]] \in Seq(Users)
      BY <1>5, <2>2 DEF PushFollow, SpeakerGoes, TypeInv, DBTyped
    <3>2. /\ Len(Append(listOfFollowers[request[s]], u)) = Len(listOfFollowers[request[s]]) + 1
          /\ Len(listOfFollowers[request[s]]) \in Nat
      BY <1>3, <3>1, AppendProperties, LenProperties
    <3>3. \A v \in Users : Len(listOfFollowers[v]) \in Nat
      BY LenProperties DEF TypeInv, DBTyped
    <3>4. \A v \in Users : Len(listOfFollowers'[v]) >= Len(listOfFollowers[v])
                           /\ Len(listOfFollowers'[v]) \in Nat
      BY <2>2, <3>1, <3>2, <3>3 DEF PushFollow, pushFollower, TypeInv, DBTyped
    <3>5. /\ spk' = [spk EXCEPT ![s] = "leave"]
          /\ UNCHANGED <<clientIndex, followNum, request>>
      BY <1>1, <2>2 DEF PushFollow, SpeakerGoes, sessionVars
    <3>6. \A t \in Sessions : spk[t] \notin {"stopped", "idle"} => clientIndex[t] \in Users
      BY DEF TypeInv, ThreadsOK
    <3>7. SUFFICES ASSUME NEW t \in Sessions
                   PROVE  LET many == Len(listOfFollowers'[clientIndex'[t]])
                          IN  /\ spk'[t] \in {"lock", "register", "recount", "forward"} => many > 0
                              /\ spk'[t] \in {"register", "recount", "forward"}
                                   => followNum'[t] \in 1..many
                              /\ spk'[t] = "follow" => request'[t] \in Users \cup {NoUser}
                              /\ spk'[t] = "push" => request'[t] \in Users
      BY DEF PlacesOK
    <3>8. spk'[t] # spk[t] => spk'[t] = "leave"
      BY <3>5 DEF TypeInv, SpeakersTyped
    <3>9. CASE spk'[t] = spk[t]
      BY <3>3, <3>4, <3>5, <3>6, <3>9 DEF TypeInv, PlacesOK
    <3> QED
      BY <3>8, <3>9
  <2> QED
    BY <2>1, <2>2 DEF TakeNumber, CountFollowers, LockAndCount, RegisterUpdate, Recount,
      ForwardUpdate, takeTweetID, registerUpdate, forwardUpdate, dbVars
<1> QED
  BY <1>1, <1>6, <1>7, <1>8, <1>9, SpeakerFrame DEF TypeInv

-----------------------------------------------------------------------------
LEMMA SpeakerTyped ==
  ASSUME TypeInv, NEW s \in Sessions, SpeakerStep(s)
  PROVE  TypeInv'
  BY RequestsTyped, PostingTyped DEF SpeakerStep

LEMMA SaverTyped ==
  ASSUME TypeInv, SaverStep
  PROVE  TypeInv'
<1>1. UNCHANGED <<csVars, dbVars, listenerVars, speakerVars, accepts>>
  BY DEF SaverStep
<1>2. GateTyped'
  BY DEF SaverStep, BeginSave, Save, EndSave, TypeInv, GateTyped
<1>3. SpeakersTyped' /\ PlacesOK'
  BY <1>1, ListenerFrame DEF csVars, sessionVars, dbVars
<1>4. /\ ListsOK(PendingTweets)' /\ SessionsOK' /\ ListenersTyped' /\ DBTyped' /\ ThreadsOK'
  BY <1>1, SpeakerFrame DEF csVars, speakerVars
<1> QED
  BY <1>2, <1>3, <1>4 DEF TypeInv

LEMMA StutterTyped ==
  ASSUME TypeInv, UNCHANGED vars
  PROVE  TypeInv'
<1>1. UNCHANGED <<csVars, dbVars, gateVars, listenerVars, speakerVars, accepts>>
  BY DEF vars
<1>2. SpeakersTyped' /\ PlacesOK'
  BY <1>1, ListenerFrame DEF csVars, sessionVars, dbVars
<1>3. /\ ListsOK(PendingTweets)' /\ SessionsOK' /\ ListenersTyped' /\ DBTyped' /\ GateTyped'
      /\ ThreadsOK'
  BY <1>1, SpeakerFrame DEF csVars, speakerVars
<1> QED
  BY <1>2, <1>3 DEF TypeInv

LEMMA TypeInvStep ==
  ASSUME TypeInv, [Next]_vars
  PROVE  TypeInv'
<1>1. ASSUME NEW s \in Sessions, SessionNext(s)
      PROVE  TypeInv'
  BY <1>1, AcceptClientTyped, ConnectorTyped, ListenerTyped, SpeakerTyped, RequestsTyped
  DEF SessionNext
<1>2. CASE SaverStep
  BY <1>2, SaverTyped
<1>3. CASE UNCHANGED vars
  BY <1>3, StutterTyped
<1> QED
  BY <1>1, <1>2, <1>3 DEF Next

(* TypeInv holds in every reachable state.                                 *)
THEOREM ServerInvariant == Spec => []TypeInv
<1>1. Init => TypeInv
  BY TypeInvInit
<1>2. TypeInv /\ [Next]_vars => TypeInv'
  BY TypeInvStep
<1> QED
  BY <1>1, <1>2, PTL DEF Spec

(* The variables of the server keep their types: no step of any thread     *)
(* takes a follower, an entry of a list or a tweet from where there is     *)
(* none, a received tweet always waits for somebody, and a listener counts *)
(* itself off only while it still holds tweets it has copied.              *)
THEOREM ServerTypeCorrect == Spec => []TypeOK
<1>1. TypeInv => TypeOK
  BY DEF TypeInv, DBTyped, GateTyped, ListenersTyped, SpeakersTyped, ReceivedTweets, TypeOK
<1> QED
  BY <1>1, ServerInvariant, PTL

-----------------------------------------------------------------------------
(***************************************************************************)
(* Every step of the server is, for the connection manager and the         *)
(* sessions, a step of ClientSessions or no step at all.                   *)
(***************************************************************************)
LEMMA ConnectorIsCSStep ==
  ASSUME ~crashed, NEW s \in Sessions, AcceptClient(s) \/ CloseClient(s) \/ SessionStep(s)
  PROVE  CSNext
  BY DEF AcceptClient, CloseClient, SessionStep, CSNext, ConnectorStep

LEMMA ListenerIsCSStep ==
  ASSUME PendingTweets \subseteq Tweets, TypeInv, ~crashed, NEW s \in Sessions, ListenerStep(s)
  PROVE  [CSNext]_csVars
<1>1. CASE UNCHANGED csVars
  BY <1>1
<1>2. CASE CheckPending(s) \/ FindConnection(s)
  BY <1>2 DEF CheckPending, FindConnection, CSNext, ListenerCall
<1>3. CASE CheckDuplicates(s)
  BY <1>3 DEF CheckDuplicates, CSNext, ListenerCall
<1>4. CASE CheckAnonymous(s)
  BY <1>4 DEF CheckAnonymous, CSNext, ListenerCall
<1>5. CASE CopyPending(s)
  BY <1>5 DEF CopyPending, CSNext, CrashElsewhere
<1>6. CASE TakeDuplicates(s)
  <2> DEFINE i == connectionIndex[s]
  <2>1. PICK tweets : TakeArchive(s, tweets)
    BY <1>6 DEF TakeDuplicates
  <2>2. tweets = IF InRange(i) THEN listOfDuplicatedTweets[i] ELSE <<>>
    BY <2>1 DEF TakeArchive, retrieveDuplicateTweet
  <2>3. ListenerCall(s)
    BY <2>1, <2>2 DEF ListenerCall
  <2> QED
    BY <2>3 DEF CSNext
<1>7. CASE CheckTwoConnections(s)
  BY <1>7 DEF CheckTwoConnections, CSNext, ListenerCall
<1>8. CASE ArchiveTweet(s)
  <2> DEFINE q == receivedTweets[s]
             next == archived[s] + 1
  <2>1. Archive(s, q[next])
    BY <1>8 DEF ArchiveTweet
  <2>2. q \in Seq(PendingTweets) /\ archived[s] \in Nat /\ archived[s] < Len(q)
    BY <1>8 DEF ArchiveTweet, ListenerGoes, TypeInv, ListenersTyped
  <2>3. Len(q) \in Nat /\ \A k \in 1..Len(q) : q[k] \in PendingTweets
    BY <2>2, SequenceFacts
  <2>4. q[next] \in Tweets
    BY <2>2, <2>3
  <2>5. ListenerCall(s)
    BY <2>1, <2>4 DEF ListenerCall
  <2> QED
    BY <2>5 DEF CSNext
<1> QED
  BY <1>1, <1>2, <1>3, <1>4, <1>5, <1>6, <1>7, <1>8
  DEF ListenerStep, Retrieve, BeginRetrieve, ClearPending, LookUpTweets, UpdateTweet, EndRetrieve

LEMMA SpeakerIsCSStep ==
  ASSUME ~crashed, NEW s \in Sessions,
         SpeakerStep(s) \/ \E r \in Requests[s] : BeginRequest(s, r)
  PROVE  [CSNext]_csVars
<1>1. CASE UNCHANGED csVars
  BY <1>1
<1>2. CASE ForwardUpdate(s)
  BY <1>2 DEF ForwardUpdate, CSNext, CrashElsewhere
<1> QED
  BY <1>1, <1>2 DEF SpeakerStep, BeginRequest, TakeNumber, CountFollowers, LockAndCount,
    RegisterUpdate, Recount, CheckFollow, PushFollow, EndRequest, StopSpeaker

(* Whatever listeners and speakers do in between, what the server does     *)
(* with its connections is what ClientSessions describes, if that allows   *)
(* any tweet to be archived.                                               *)
THEOREM ServerImplementsSessions ==
  ASSUME PendingTweets \subseteq Tweets
  PROVE  Spec => CSSpec
<1>1. Init => CSInit
  BY DEF Init
<1>2. TypeInv /\ [Next]_vars => [CSNext]_csVars
  <2> SUFFICES ASSUME TypeInv, [Next]_vars PROVE [CSNext]_csVars
    OBVIOUS
  <2>1. ASSUME ~crashed, NEW s \in Sessions, SessionNext(s)
        PROVE  [CSNext]_csVars
    BY <2>1, ConnectorIsCSStep, ListenerIsCSStep, SpeakerIsCSStep DEF SessionNext
  <2>2. CASE SaverStep \/ UNCHANGED vars
    BY <2>2 DEF SaverStep, vars
  <2> QED
    BY <2>1, <2>2 DEF Next
<1> QED
  BY <1>1, <1>2, ServerInvariant, PTL DEF Spec, CSSpec

(* So in the whole server, too, the manager never counts more connections  *)
(* for a user than are up, has one entry for each user, ...                *)
THEOREM ServerCountsConnections ==
  ASSUME PendingTweets \subseteq Tweets
  PROVE  Spec => [](OneEntryPerUser /\ CountNeverExceedsLive)
<1>1. IInv => OneEntryPerUser /\ CountNeverExceedsLive
  BY InvariantsFollow
<1> QED
  BY <1>1, ServerImplementsSessions, SessionsInvariant, PTL

(* ... and refuses a sign-in only while two connections of the user are    *)
(* up.                                                                     *)
THEOREM ServerNeverLocksOut ==
  ASSUME PendingTweets \subseteq Tweets
  PROVE  Spec => NeverLockedOut
  BY ServerImplementsSessions, SessionsNeverLockedOut, PTL

=============================================================================
