------------------------ MODULE TweetAccountingProofs ------------------------
(***************************************************************************)
(* The tweets of the server, for any number of users, sessions, requests   *)
(* and connections: the order in which they are pending, the count of the  *)
(* recipients each of them waits for, and what a connection is sent.       *)
(***************************************************************************)
EXTENDS TweetServerProofs, TLAPS
LOCAL INSTANCE SequencesExt

-----------------------------------------------------------------------------
(***************************************************************************)
(* Most steps of the server do not concern tweets.  Keeps(s) and Holds(s)  *)
(* say that a step leaves alone what the speaker of a session is posting   *)
(* and what its listener is counting itself off.                           *)
(***************************************************************************)
InMutex == {"register", "recount", "forward"}
Posting == {"count", "lock"} \cup InMutex

Keeps(s) ==
  /\ spk'[s] \in Posting <=> spk[s] \in Posting
  /\ spk[s] \in Posting => /\ spk'[s] = spk[s] /\ clientIndex'[s] = clientIndex[s]
                           /\ tweetID'[s] = tweetID[s] /\ followNum'[s] = followNum[s]

Holds(s) ==
  /\ lis'[s] \in Counting <=> lis[s] \in Counting
  /\ lis'[s] = "clear" <=> lis[s] = "clear"
  /\ lis[s] \in Counting \cup {"clear"} => /\ clientIndex'[s] = clientIndex[s]
                                           /\ pendingTweets'[s] = pendingTweets[s]

Quiet ==
  /\ UNCHANGED <<listOfPendingTweets, listOfReceivedTweets, numTweets>>
  /\ \A s \in Sessions : Keeps(s) /\ Holds(s)

(* A step of one speaker, and of one listener, that does concern them.     *)
Posts(s) ==
  /\ \/ TakeNumber(s) \/ CountFollowers(s) \/ LockAndCount(s) \/ RegisterUpdate(s)
     \/ Recount(s) \/ ForwardUpdate(s)
  /\ UNCHANGED clientIndex
  /\ \A t \in Sessions : Holds(t) /\ (t # s => Keeps(t))

Gets(s) ==
  /\ CopyPending(s) \/ ClearPending(s) \/ UpdateTweet(s)
  /\ UNCHANGED clientIndex
  /\ \A t \in Sessions : Keeps(t) /\ (t # s => Holds(t))

LEMMA KeptVars ==
  /\ UNCHANGED <<speakerVars, clientIndex>> => \A s \in Sessions : Keeps(s)
  /\ UNCHANGED <<listenerVars, clientIndex>> => \A s \in Sessions : Holds(s)
  BY DEF Keeps, Holds, speakerVars, listenerVars

(* The steps of the connector are quiet.                                   *)
LEMMA ConnectorQuiet ==
  ASSUME TypeInv, NEW s \in Sessions, AcceptClient(s) \/ CloseClient(s) \/ SessionStep(s)
  PROVE  Quiet
<1>1. CASE AcceptClient(s)
  <2>1. lis[s] = "stopped" /\ spk[s] = "stopped"
    BY <1>1 DEF TypeInv, ThreadsOK, AcceptClient, Accept
  <2>2. \A t \in Sessions : Keeps(t)
    BY <1>1, <2>1 DEF AcceptClient, Accept, Keeps, Posting, InMutex, TypeInv, SpeakersTyped,
                      SessionsOK
  <2>3. \A t \in Sessions : Holds(t)
    BY <1>1, <2>1 DEF AcceptClient, Accept, Holds, Counting, TypeInv, ListenersTyped, SessionsOK
  <2> QED
    BY <1>1, <2>2, <2>3 DEF Quiet, AcceptClient, dbVars
<1>2. CASE UNCHANGED <<dbVars, listenerVars, speakerVars, clientIndex>>
  BY <1>2, KeptVars DEF Quiet, dbVars
<1>3. CASE SignIn(s) /\ SessionStep(s)
  <2>1. lis[s] \in {"stopped", "pitstop"} /\ spk[s] \in {"stopped", "idle"}
    BY <1>3, NoUserAssumption DEF TypeInv, ThreadsOK, SignIn
  <2>2. \A t \in Sessions : Keeps(t)
    BY <1>3, <2>1 DEF SignIn, SessionStep, Keeps, Posting, InMutex, TypeInv, SessionsOK,
                      speakerVars
  <2>3. \A t \in Sessions : Holds(t)
    BY <1>3, <2>1 DEF SignIn, SessionStep, Holds, Counting, TypeInv, SessionsOK, listenerVars
  <2> QED
    BY <1>3, <2>2, <2>3 DEF Quiet, SessionStep, dbVars
<1> QED
  BY <1>1, <1>2, <1>3 DEF CloseClient, Close, SessionStep, Register, Disconnect

(* So are the listener's, except three.                                    *)
LEMMA ListenerQuiet ==
  ASSUME TypeInv, NEW s \in Sessions, ListenerStep(s)
  PROVE  Quiet \/ Gets(s)
<1>1. UNCHANGED clientIndex
  BY DEF ListenerStep, Retrieve, CheckPending, CheckDuplicates, CheckAnonymous, BeginRetrieve,
         CopyPending, ClearPending, FindConnection, TakeDuplicates, LookUpTweets,
         CheckTwoConnections, ArchiveTweet, UpdateTweet, EndRetrieve, LookUp, AskDuplicates,
         AskTwoConnections, Archive, TakeArchive, EndCall, WildRead, csVars, sessionVars
<1>2. \A t \in Sessions : Keeps(t)
  BY <1>1, KeptVars DEF ListenerStep
<1>3. \A t \in Sessions \ {s} : Holds(t)
  <2>1. /\ lis' = lis \/ \E to : lis' = [lis EXCEPT ![s] = to]
        /\ pendingTweets' = pendingTweets \/ \E q : pendingTweets' = [pendingTweets EXCEPT ![s] = q]
    BY DEF ListenerStep, Retrieve, CheckPending, CheckDuplicates, CheckAnonymous, BeginRetrieve,
           CopyPending, ClearPending, FindConnection, TakeDuplicates, LookUpTweets,
           CheckTwoConnections, ArchiveTweet, UpdateTweet, EndRetrieve, ListenerGoes, listenerVars
  <2> QED
    BY <1>1, <2>1 DEF Holds, TypeInv, ListenersTyped
<1>4. CASE CopyPending(s) \/ ClearPending(s) \/ UpdateTweet(s)
  BY <1>1, <1>2, <1>3, <1>4 DEF Gets
<1>5. CASE ~(CopyPending(s) \/ ClearPending(s) \/ UpdateTweet(s))
  <2>1. UNCHANGED <<dbVars, pendingTweets>>
    BY <1>5 DEF ListenerStep, Retrieve, CheckPending, CheckDuplicates, CheckAnonymous,
                BeginRetrieve, FindConnection, TakeDuplicates, LookUpTweets,
                CheckTwoConnections, ArchiveTweet, EndRetrieve, listenerVars
  <2>2. Holds(s)
    BY <1>1, <1>5, <2>1
    DEF ListenerStep, Retrieve, CheckPending, CheckDuplicates, CheckAnonymous, BeginRetrieve,
        FindConnection, TakeDuplicates, LookUpTweets, CheckTwoConnections, ArchiveTweet,
        EndRetrieve, ListenerGoes, AfterCheck, listenerVars, Holds, Counting, TypeInv, ListenersTyped
  <2> QED
    BY <1>2, <1>3, <2>1, <2>2 DEF Quiet, dbVars
<1> QED
  BY <1>4, <1>5

(* And the speaker's, except the six of a posting.                         *)
LEMMA SpeakerQuiet ==
  ASSUME TypeInv, NEW s \in Sessions,
         SpeakerStep(s) \/ \E r \in Requests[s] : BeginRequest(s, r)
  PROVE  Quiet \/ Posts(s)
<1>1. UNCHANGED clientIndex
  BY DEF SpeakerStep, BeginRequest, TakeNumber, CountFollowers, LockAndCount, RegisterUpdate,
         Recount, ForwardUpdate, CheckFollow, PushFollow, EndRequest, StopSpeaker, csVars,
         sessionVars
<1>2. \A t \in Sessions : Holds(t)
  BY <1>1, KeptVars DEF SpeakerStep, BeginRequest
<1>3. \A t \in Sessions \ {s} : Keeps(t)
  <2>1. /\ spk' = spk \/ \E to : spk' = [spk EXCEPT ![s] = to]
        /\ tweetID' = tweetID \/ \E n : tweetID' = [tweetID EXCEPT ![s] = n]
        /\ followNum' = followNum \/ \E n : followNum' = [followNum EXCEPT ![s] = n]
    BY DEF SpeakerStep, BeginRequest, TakeNumber, CountFollowers, LockAndCount, RegisterUpdate,
           Recount, ForwardUpdate, CheckFollow, PushFollow, EndRequest, StopSpeaker, SpeakerGoes
  <2> QED
    BY <1>1, <2>1 DEF Keeps, TypeInv, SpeakersTyped
<1>4. CASE \/ TakeNumber(s) \/ CountFollowers(s) \/ LockAndCount(s) \/ RegisterUpdate(s)
           \/ Recount(s) \/ ForwardUpdate(s)
  BY <1>1, <1>2, <1>3, <1>4 DEF Posts
<1>5. CASE \/ CheckFollow(s) \/ PushFollow(s) \/ EndRequest(s) \/ StopSpeaker(s)
           \/ \E r \in Requests[s] : BeginRequest(s, r)
  <2>1. UNCHANGED <<listOfPendingTweets, listOfReceivedTweets, numTweets>>
    BY <1>5 DEF BeginRequest, CheckFollow, PushFollow, EndRequest, StopSpeaker, pushFollower,
                dbVars
  <2>2. Keeps(s)
    BY <1>1, <1>5 DEF BeginRequest, CheckFollow, PushFollow, EndRequest, StopSpeaker,
                      SpeakerGoes, Keeps, Posting, InMutex, TypeInv, SpeakersTyped
  <2> QED
    BY <1>2, <1>3, <2>1, <2>2 DEF Quiet
<1> QED
  BY <1>4, <1>5 DEF SpeakerStep

LEMMA StepShape ==
  ASSUME TypeInv, [Next]_vars
  PROVE  Quiet \/ \E s \in Sessions : Posts(s) \/ Gets(s)
<1>1. ASSUME NEW s \in Sessions, SessionNext(s)
      PROVE  Quiet \/ Posts(s) \/ Gets(s)
  BY <1>1, ConnectorQuiet, ListenerQuiet, SpeakerQuiet DEF SessionNext
<1>2. CASE SaverStep \/ UNCHANGED vars
  BY <1>2, KeptVars DEF SaverStep, vars, csVars, sessionVars, dbVars, Quiet
<1> QED
  BY <1>1, <1>2 DEF Next

-----------------------------------------------------------------------------
(* What _updateReceivedTweet leaves of an author's list when it has found  *)
(* its tweet at r (nowhere, when r = 0): the entries that were at the      *)
(* places of src, in their order, one recipient less for the one found,    *)
(* which goes when it had but one.                                         *)
CountedOff(old, new, r, src) ==
  /\ src \in [1..Len(new) -> 1..Len(old)]
  /\ \A i, j \in 1..Len(new) : i < j => src[i] < src[j]
  /\ \A i \in 1..Len(new) :
       /\ new[i].tweetID = old[src[i]].tweetID
       /\ new[i].numRecipientsRemaining
            = old[src[i]].numRecipientsRemaining - (IF src[i] = r THEN 1 ELSE 0)
  /\ \A k \in 1..Len(old) :
       (k = r /\ old[k].numRecipientsRemaining = 1) \/ \E i \in 1..Len(new) : src[i] = k

LEMMA CountedOffOnce ==
  ASSUME NEW old \in Seq(ReceivedTweets), NEW r \in 0..Len(old), NEW new,
         \/ r = 0 /\ new = old
         \/ /\ r # 0 /\ old[r].numRecipientsRemaining = 1
            /\ new = RemoveAt(old, r)
         \/ /\ r # 0 /\ old[r].numRecipientsRemaining # 1
            /\ new = [old EXCEPT ![r].numRecipientsRemaining = @ - 1]
  PROVE  \E src : CountedOff(old, new, r, src)
<1> DEFINE n == Len(old)
           same == [i \in 1..n |-> i]
           rest == [i \in 1..(n - 1) |-> IF i < r THEN i ELSE i + 1]
<1>1. n \in Nat /\ \A k \in 1..n : old[k] \in ReceivedTweets
  BY SequenceFacts
<1>2. \A k \in 1..n : old[k].numRecipientsRemaining \in Nat \ {0}
  BY <1>1 DEF ReceivedTweets
<1>3. CASE r = 0 /\ new = old
  <2>1. CountedOff(old, new, r, same)
    BY <1>1, <1>2, <1>3 DEF CountedOff
  <2> QED
    BY <2>1
<1>4. CASE r # 0 /\ old[r].numRecipientsRemaining = 1 /\ new = RemoveAt(old, r)
  <2>1. /\ Len(new) = n - 1
        /\ \A j \in 1..(n - 1) : new[j] = IF j < r THEN old[j] ELSE old[j + 1]
    <3>1. r \in 1..n /\ Removed(old, r, new)
      BY <1>1, <1>4 DEF RemoveAt, Removed
    <3>2. /\ new \in Seq(ReceivedTweets) /\ Len(new) = Len(old) - 1
          /\ \A j \in 1..(Len(old) - 1) : new[j] = IF j < r THEN old[j] ELSE old[j + 1]
      BY <3>1, RemoveAtProperties
    <3> QED
      BY <3>2
  <2>2. /\ rest \in [1..(n - 1) -> 1..n]
        /\ \A i, j \in 1..(n - 1) : i < j => rest[i] < rest[j]
        /\ \A i \in 1..(n - 1) : rest[i] # r /\ new[i] = old[rest[i]]
    BY <1>1, <2>1
  <2>3. ASSUME NEW k \in 1..n, k # r
        PROVE  \E i \in 1..(n - 1) : rest[i] = k
    <3>1. CASE k < r
      BY <1>1, <3>1
    <3>2. CASE k > r
      <4>1. k - 1 \in 1..(n - 1) /\ rest[k - 1] = k
        BY <1>1, <1>4, <3>2
      <4> QED
        BY <4>1
    <3> QED
      BY <1>1, <2>3, <3>1, <3>2
  <2> HIDE DEF rest
  <2>4. \A k \in 1..n : old[k].numRecipientsRemaining - 0 = old[k].numRecipientsRemaining
    BY <1>2
  <2>5. CountedOff(old, new, r, rest)
    BY <1>4, <2>1, <2>2, <2>3, <2>4 DEF CountedOff
  <2> QED
    BY <2>5
<1>5. CASE /\ r # 0 /\ old[r].numRecipientsRemaining # 1
           /\ new = [old EXCEPT ![r].numRecipientsRemaining = @ - 1]
  <2> DEFINE e == [old[r] EXCEPT !.numRecipientsRemaining = @ - 1]
  <2>0. r \in 1..n /\ old[r] \in ReceivedTweets /\ old[r].numRecipientsRemaining # 1
    BY <1>1, <1>5
  <2>1. /\ e \in ReceivedTweets
        /\ e.tweetID = old[r].tweetID
        /\ e.numRecipientsRemaining = old[r].numRecipientsRemaining - 1
    <3> DEFINE t == old[r]
    <3>1. t.numRecipientsRemaining - 1 \in Nat \ {0}
      BY <2>0 DEF ReceivedTweets
    <3>2. t \in ReceivedTweets
      BY <2>0
    <3> HIDE DEF t
    <3>3. [t EXCEPT !.numRecipientsRemaining = @ - 1] \in ReceivedTweets
      BY ONLY <3>1, <3>2 DEF ReceivedTweets
    <3>4. /\ [t EXCEPT !.numRecipientsRemaining = @ - 1].tweetID = t.tweetID
          /\ [t EXCEPT !.numRecipientsRemaining = @ - 1].numRecipientsRemaining
               = t.numRecipientsRemaining - 1
      BY ONLY <3>1, <3>2 DEF ReceivedTweets
    <3> QED
      BY <3>3, <3>4 DEF t
  <2>2. new = [old EXCEPT ![r] = e]
    BY <1>1, <1>5, <2>0
  <2> HIDE DEF e
  <2>3. Len(new) = n /\ \A j \in 1..n : new[j] = IF j = r THEN e ELSE old[j]
    BY <1>1, <1>5, <2>1, <2>2, ExceptSeq
  <2>4. /\ same \in [1..n -> 1..n] /\ \A k \in 1..n : same[k] = k
        /\ \A i \in 1..n : /\ new[i].tweetID = old[i].tweetID
                           /\ new[i].numRecipientsRemaining
                                = old[i].numRecipientsRemaining - (IF i = r THEN 1 ELSE 0)
    BY <1>1, <1>2, <1>5, <2>1, <2>3
  <2> HIDE DEF same
  <2>5. CountedOff(old, new, r, same)
    BY <1>1, <2>3, <2>4 DEF CountedOff
  <2> QED
    BY <2>5
<1> QED
  BY <1>3, <1>4, <1>5

LEMMA UpdateReceivedRemains ==
  ASSUME DBTyped, NEW p \in PendingTweets, updateReceivedTweet(p), NEW u \in Users
  PROVE  \E src : CountedOff(listOfReceivedTweets[u], listOfReceivedTweets'[u],
                             IF u = p.userAuthor THEN receivedIndex(p) ELSE 0, src)
<1> DEFINE a == p.userAuthor
           r == receivedIndex(p)
           q == listOfReceivedTweets[a]
<1>1. a \in Users /\ q \in Seq(ReceivedTweets)
  BY DEF PendingTweets, DBTyped
<1>2. Len(q) \in Nat /\ r \in 0..Len(q)
  BY <1>1, ReceivedIndexFound, SequenceFacts
<1>3. listOfReceivedTweets[u] \in Seq(ReceivedTweets) /\ Len(listOfReceivedTweets[u]) \in Nat
  BY SequenceFacts DEF DBTyped
<1>4. \/ r = 0 /\ listOfReceivedTweets' = listOfReceivedTweets
      \/ /\ r # 0 /\ q[r].numRecipientsRemaining = 1
         /\ listOfReceivedTweets' = [listOfReceivedTweets EXCEPT ![a] = RemoveAt(q, r)]
      \/ /\ r # 0 /\ q[r].numRecipientsRemaining # 1
         /\ listOfReceivedTweets'
              = [listOfReceivedTweets EXCEPT
                   ![a] = [q EXCEPT ![r].numRecipientsRemaining = @ - 1]]
  <2>1. listOfReceivedTweets[a] = q
    OBVIOUS
  <2> QED
    BY <1>1, <1>2 DEF updateReceivedTweet, DBTyped
<1> HIDE DEF r
<1>5. CASE u # a
  <2>1. listOfReceivedTweets'[u] = listOfReceivedTweets[u]
    BY <1>1, <1>4, <1>5 DEF DBTyped
  <2>2. 0 \in 0..Len(listOfReceivedTweets[u])
    BY <1>3
  <2>3. \E src : CountedOff(listOfReceivedTweets[u], listOfReceivedTweets'[u], 0, src)
    BY <1>3, <2>1, <2>2, CountedOffOnce
  <2> QED
    BY <1>5, <2>3
<1>6. CASE u = a
  <2>1. \/ r = 0 /\ listOfReceivedTweets'[u] = q
        \/ /\ r # 0 /\ q[r].numRecipientsRemaining = 1
           /\ listOfReceivedTweets'[u] = RemoveAt(q, r)
        \/ /\ r # 0 /\ q[r].numRecipientsRemaining # 1
           /\ listOfReceivedTweets'[u]
                = [q EXCEPT ![r].numRecipientsRemaining = @ - 1]
    BY <1>1, <1>4, <1>6 DEF DBTyped
  <2> QED
    BY <1>1, <1>2, <1>6, <2>1, CountedOffOnce DEF r
<1> QED
  BY <1>5, <1>6

-----------------------------------------------------------------------------
(***************************************************************************)
(* The order of an author's tweets.  TimelineOrder is not inductive by     *)
(* itself.  It takes that one speaker at a time is between taking the      *)
(* mutex and leaving it; that a number is taken once, and is in no list    *)
(* before its tweet is registered; and that a tweet about to be forwarded  *)
(* is the last its author has registered.                                  *)
(***************************************************************************)
Received(u) == 1..Len(listOfReceivedTweets[u])
Pending(v) == 1..Len(listOfPendingTweets[v])

OnePosts ==
  \A s, t \in Sessions : spk[s] \in InMutex /\ spk[t] \in InMutex => s = t

ReceivedFresh ==
  \A u \in Users : \A i \in Received(u) :
    /\ listOfReceivedTweets[u][i].tweetID < numTweets
    /\ \A j \in Received(u) :
         listOfReceivedTweets[u][i].tweetID = listOfReceivedTweets[u][j].tweetID => i = j

PendingFresh ==
  \A v \in Users : \A i \in Pending(v) : listOfPendingTweets[v][i].tweetID < numTweets

PostingFresh ==
  \A s \in Sessions : spk[s] \in Posting =>
    /\ tweetID[s] < numTweets
    /\ \A t \in Sessions : spk[t] \in Posting /\ tweetID[t] = tweetID[s] => t = s

NotYetRegistered ==
  \A s \in Sessions : spk[s] \in {"count", "lock", "register"} =>
    /\ \A u \in Users : \A i \in Received(u) : listOfReceivedTweets[u][i].tweetID # tweetID[s]
    /\ \A v \in Users : \A i \in Pending(v) : listOfPendingTweets[v][i].tweetID # tweetID[s]

LastRegistered ==
  \A s \in Sessions : spk[s] \in {"recount", "forward"} =>
    \A i \in Received(clientIndex[s]) :
      listOfReceivedTweets[clientIndex[s]][i].tweetID = tweetID[s]
        => i = Len(listOfReceivedTweets[clientIndex[s]])

(* TimelineOrder, in terms of all the places a tweet may be registered at. *)
Names(p, u, a) == p = PendingTweet(u, listOfReceivedTweets[u][a].tweetID)

InOrder ==
  \A u, v \in Users : \A i, j \in Pending(v) : \A a, b \in Received(u) :
    i < j /\ Names(listOfPendingTweets[v][i], u, a) /\ Names(listOfPendingTweets[v][j], u, b)
      => a <= b

NumbersOK == ReceivedFresh /\ PendingFresh /\ PostingFresh
OrderInv == OnePosts /\ NumbersOK /\ NotYetRegistered /\ LastRegistered /\ InOrder

LEMMA EmptyAtFirst ==
  ASSUME Init
  PROVE  \A u \in Users : Received(u) = {} /\ Pending(u) = {}
<1>1. Len(<<>>) = 0
  BY EmptySeq
<1>2. \A u \in Users : listOfReceivedTweets[u] = <<>> /\ listOfPendingTweets[u] = <<>>
  BY DEF Init, DBInit
<1>3. \A u \in Users : Len(listOfReceivedTweets[u]) = 0 /\ Len(listOfPendingTweets[u]) = 0
  BY <1>1, <1>2, Zenon
<1>4. 1..0 = {}
  OBVIOUS
<1> QED
  BY <1>3, <1>4, Zenon DEF Received, Pending

LEMMA OrderInit ==
  ASSUME Init
  PROVE  OrderInv
<1>1. \A u \in Users : Received(u) = {} /\ Pending(u) = {}
  BY EmptyAtFirst
<1>2. \A s \in Sessions : spk[s] = "stopped"
  BY DEF Init
<1> QED
  BY <1>1, <1>2 DEF OrderInv, NumbersOK, OnePosts, ReceivedFresh, PendingFresh, PostingFresh,
                    NotYetRegistered, LastRegistered, InOrder, Posting, InMutex

(* The lists and the numbers, as the proofs use them.                      *)
LEMMA ListTypes ==
  ASSUME DBTyped
  PROVE  /\ \A u \in Users : /\ listOfReceivedTweets[u] \in Seq(ReceivedTweets)
                             /\ Len(listOfReceivedTweets[u]) \in Nat
         /\ \A u \in Users : \A i \in Received(u) :
              listOfReceivedTweets[u][i] \in ReceivedTweets
         /\ \A v \in Users : /\ listOfPendingTweets[v] \in Seq(PendingTweets)
                             /\ Len(listOfPendingTweets[v]) \in Nat
         /\ \A v \in Users : \A i \in Pending(v) : listOfPendingTweets[v][i] \in PendingTweets
  BY SequenceFacts DEF DBTyped, Received, Pending

(***************************************************************************)
(* Where no speaker's posting moves and the lists only lose elements:      *)
(* whole pending lists, or received tweets, the others staying in order.   *)
(***************************************************************************)
Thins(u, src) ==
  /\ \A i \in Received(u)' :
       /\ src[i] \in Received(u)
       /\ listOfReceivedTweets'[u][i].tweetID = listOfReceivedTweets[u][src[i]].tweetID
  /\ \A i, j \in Received(u)' : i < j => src[i] < src[j]

LEMMA OrderKept ==
  ASSUME TypeInv, OrderInv, UNCHANGED numTweets,
         \A s \in Sessions : Keeps(s),
         \A v \in Users : listOfPendingTweets'[v] \in {listOfPendingTweets[v], <<>>},
         \A u \in Users : \E src : Thins(u, src)
  PROVE  OrderInv'
<1> DEFINE Rec == listOfReceivedTweets
           NewRec == listOfReceivedTweets'
           Pen == listOfPendingTweets
           NewPen == listOfPendingTweets'
           src(u) == CHOOSE m : Thins(u, m)
<1>1. \A v \in Users : \A i \in Pending(v)' : i \in Pending(v) /\ NewPen[v] = Pen[v]
  <2>1. Len(<<>>) = 0
    BY EmptySeq
  <2> QED
    BY <2>1 DEF Pending
<1>2. \A u \in Users : Thins(u, src(u))
  OBVIOUS
<1>3. \A t \in Sessions : spk'[t] \in Posting =>
        /\ spk[t] \in Posting /\ spk'[t] = spk[t]
        /\ clientIndex'[t] = clientIndex[t] /\ tweetID'[t] = tweetID[t]
  BY DEF Keeps
<1> HIDE DEF src
<1>4. \A u \in Users : Received(u) \subseteq Nat /\ Received(u)' \subseteq Nat
  BY DEF Received
<1>5. /\ \A u \in Users : Len(Rec[u]) \in Nat /\ \A i \in Received(u) : i <= Len(Rec[u])
      /\ \A v \in Users : \A i \in Pending(v) : Pen[v][i].userAuthor \in Users
  BY ListTypes DEF TypeInv, PendingTweets, Received
<1>6. OnePosts'
  BY <1>3 DEF OrderInv, OnePosts, Posting
<1>7. ReceivedFresh'
  <2>1. ASSUME NEW u \in Users, NEW i \in Received(u)'
        PROVE  NewRec[u][i].tweetID < numTweets
    BY <1>2, <2>1 DEF OrderInv, NumbersOK, ReceivedFresh, Thins
  <2>2. ASSUME NEW u \in Users, NEW i \in Received(u)', NEW j \in Received(u)',
               NewRec[u][i].tweetID = NewRec[u][j].tweetID
        PROVE  i = j
    <3>1. src(u)[i] = src(u)[j] /\ src(u)[i] \in Nat
      BY <1>2, <1>4, <2>2 DEF OrderInv, NumbersOK, ReceivedFresh, Thins
    <3> QED
      BY <1>2, <1>4, <3>1 DEF Thins
  <2> QED
    BY <2>1, <2>2 DEF ReceivedFresh
<1>8. PendingFresh' /\ PostingFresh'
  BY <1>1, <1>3 DEF OrderInv, NumbersOK, PendingFresh, PostingFresh
<1>9. NotYetRegistered'
  <2>1. ASSUME NEW s \in Sessions, spk'[s] \in {"count", "lock", "register"}
        PROVE  spk[s] \in {"count", "lock", "register"} /\ tweetID'[s] = tweetID[s]
    BY <1>3, <2>1 DEF Posting, InMutex
  <2> QED
    BY <1>1, <1>2, <2>1 DEF OrderInv, NotYetRegistered, Thins
<1>10. LastRegistered'
  <2>1. ASSUME NEW t \in Sessions, spk'[t] \in {"recount", "forward"},
               NEW u, u = clientIndex'[t],
               NEW i \in Received(u)', NewRec[u][i].tweetID = tweetID'[t]
        PROVE  i = Len(NewRec[u])
    <3>1. /\ spk[t] \in {"recount", "forward"}
          /\ u = clientIndex[t] /\ tweetID'[t] = tweetID[t]
      BY <1>3, <2>1 DEF Posting, InMutex
    <3>2. u \in Users
      BY <3>1 DEF TypeInv, ThreadsOK
    <3>3. Rec[u][src(u)[i]].tweetID = tweetID[t] /\ src(u)[i] \in Received(u)
      BY <1>2, <2>1, <3>1, <3>2 DEF Thins
    <3>4. src(u)[i] = Len(Rec[u])
      BY <3>1, <3>3 DEF OrderInv, LastRegistered
    <3>5. \A j \in Received(u)' : ~(i < j)
      BY <1>2, <1>4, <1>5, <3>2, <3>4 DEF Thins
    <3> QED
      BY <2>1, <3>5 DEF Received
  <2> QED
    BY <2>1 DEF LastRegistered
<1>11. InOrder'
  <2>1. ASSUME NEW u \in Users, NEW v \in Users,
               NEW i \in Pending(v)', NEW j \in Pending(v)', i < j,
               NEW a \in Received(u)', NEW b \in Received(u)',
               NewPen[v][i] = PendingTweet(u, NewRec[u][a].tweetID),
               NewPen[v][j] = PendingTweet(u, NewRec[u][b].tweetID)
        PROVE  a <= b
    <3>1. i \in Pending(v) /\ j \in Pending(v) /\ NewPen[v] = Pen[v]
      BY <1>1
    <3>2. /\ src(u)[a] \in Received(u) /\ Names(Pen[v][i], u, src(u)[a])
          /\ src(u)[b] \in Received(u) /\ Names(Pen[v][j], u, src(u)[b])
          /\ b < a => src(u)[b] < src(u)[a]
      BY <1>2, <2>1, <3>1 DEF Thins, Names
    <3>3. src(u)[a] <= src(u)[b]
      BY <2>1, <3>1, <3>2 DEF OrderInv, InOrder
    <3> QED
      BY <1>4, <2>1, <3>1, <3>2, <3>3
  <2> QED
    BY <2>1 DEF InOrder, Names
<1> QED
  BY <1>6, <1>7, <1>8, <1>9, <1>10, <1>11 DEF OrderInv, NumbersOK

(* A list that a step leaves alone thins by nothing.                       *)
LEMMA ThinsByNothing ==
  ASSUME NEW u, listOfReceivedTweets'[u] = listOfReceivedTweets[u]
  PROVE  \E src : Thins(u, src)
<1> DEFINE same == [i \in Received(u) |-> i]
<1>1. Thins(u, same)
  BY DEF Thins, Received
<1> QED
  BY <1>1

LEMMA OrderQuiet ==
  ASSUME TypeInv, OrderInv, Quiet
  PROVE  OrderInv'
<1>1. \A u \in Users : \E src : Thins(u, src)
  BY ThinsByNothing DEF Quiet
<1> QED
  BY <1>1, OrderKept DEF Quiet

LEMMA OrderRetrieve ==
  ASSUME TypeInv, OrderInv, NEW s \in Sessions, Gets(s)
  PROVE  OrderInv'
<1>1. UNCHANGED numTweets /\ \A t \in Sessions : Keeps(t)
  BY DEF Gets, CopyPending, ClearPending, clearPendingTweets, UpdateTweet, updateReceivedTweet,
         dbVars
<1>2. \A v \in Users : listOfPendingTweets'[v] \in {listOfPendingTweets[v], <<>>}
  BY DEF Gets, CopyPending, ClearPending, clearPendingTweets, UpdateTweet, updateReceivedTweet,
         dbVars, TypeInv, DBTyped
<1>3. ASSUME NEW u \in Users
      PROVE  \E src : Thins(u, src)
  <2>1. CASE UNCHANGED listOfReceivedTweets
    BY <2>1, ThinsByNothing
  <2>2. CASE UpdateTweet(s)
    <3>1. Head(pendingTweets[s]) \in PendingTweets
      BY <2>2, HeadTailProperties DEF TypeInv, ListenersTyped, UpdateTweet, ListenerGoes, Counting
    <3>2. updateReceivedTweet(Head(pendingTweets[s]))
      BY <2>2 DEF UpdateTweet
    <3>3. PICK r, src : CountedOff(listOfReceivedTweets[u], listOfReceivedTweets'[u], r, src)
      BY <3>1, <3>2, UpdateReceivedRemains DEF TypeInv
    <3>4. Thins(u, src)
      BY <3>3 DEF CountedOff, Thins, Received
    <3> QED
      BY <3>4
  <2> QED
    BY <2>1, <2>2 DEF Gets, CopyPending, ClearPending, clearPendingTweets, dbVars
<1> QED
  BY <1>1, <1>2, <1>3, OrderKept

-----------------------------------------------------------------------------
(* The steps of a posting.  The other speakers' postings do not move.      *)
OthersPost(s) ==
  \A t \in Sessions \ {s} : spk'[t] \in Posting =>
    /\ spk[t] \in Posting /\ spk'[t] = spk[t] /\ tweetID'[t] = tweetID[t]

LEMMA OthersPostSame ==
  ASSUME NEW s \in Sessions, Posts(s)
  PROVE  OthersPost(s) /\ UNCHANGED clientIndex
  BY DEF Posts, Keeps, OthersPost

LEMMA OrderTakeNumber ==
  ASSUME TypeInv, OrderInv, NEW s \in Sessions, Posts(s), TakeNumber(s)
  PROVE  OrderInv'
<1>1. /\ spk[s] = "number" /\ spk'[s] = "count" /\ tweetID'[s] = numTweets
      /\ numTweets' = numTweets + 1 /\ numTweets \in Nat
      /\ UNCHANGED <<listOfPendingTweets, listOfReceivedTweets>>
  BY DEF TakeNumber, SpeakerGoes, takeTweetID, TypeInv, SpeakersTyped, DBTyped
<1>2. \A u : UNCHANGED <<Received(u), Pending(u)>>
  BY <1>1 DEF Received, Pending
<1>3. /\ \A u \in Users : \A i \in Received(u) : listOfReceivedTweets[u][i].tweetID \in Nat
      /\ \A v \in Users : \A i \in Pending(v) : listOfPendingTweets[v][i].tweetID \in Nat
      /\ \A t \in Sessions : tweetID[t] \in Nat
  BY ListTypes DEF TypeInv, SpeakersTyped, ReceivedTweets, PendingTweets
<1>4. OnePosts'
  BY <1>1, OthersPostSame DEF OthersPost, OrderInv, OnePosts, Posting, InMutex
<1>5. ReceivedFresh' /\ PendingFresh'
  BY <1>1, <1>2, <1>3 DEF OrderInv, NumbersOK, ReceivedFresh, PendingFresh
<1>6. PostingFresh'
  BY <1>1, <1>3, OthersPostSame DEF OthersPost, OrderInv, NumbersOK, PostingFresh
<1>7. NotYetRegistered'
  <2>1. ASSUME NEW t \in Sessions, spk'[t] \in {"count", "lock", "register"}
        PROVE  \/ t = s
               \/ spk[t] \in {"count", "lock", "register"} /\ tweetID'[t] = tweetID[t]
    BY <2>1, OthersPostSame DEF OthersPost, Posting, InMutex
  <2>2. /\ \A u \in Users : \A i \in Received(u) :
             listOfReceivedTweets[u][i].tweetID # tweetID'[s]
        /\ \A v \in Users : \A i \in Pending(v) : listOfPendingTweets[v][i].tweetID # tweetID'[s]
    BY <1>1, <1>3 DEF OrderInv, NumbersOK, ReceivedFresh, PendingFresh
  <2> QED
    BY <1>1, <1>2, <2>1, <2>2 DEF OrderInv, NotYetRegistered
<1>8. LastRegistered'
  BY <1>1, <1>2, OthersPostSame DEF OthersPost, OrderInv, LastRegistered, Posting, InMutex
<1>9. InOrder'
  BY <1>1, <1>2 DEF OrderInv, InOrder, Names
<1> QED
  BY <1>4, <1>5, <1>6, <1>7, <1>8, <1>9 DEF OrderInv, NumbersOK

(* A speaker moves to another place of a posting, or out of it.            *)
LEMMA OrderMove ==
  ASSUME TypeInv, OrderInv, NEW s \in Sessions, Posts(s),
         UNCHANGED <<listOfPendingTweets, listOfReceivedTweets, numTweets, tweetID>>,
         spk[s] \in Posting,
         spk'[s] \in InMutex => ProceedFree \/ spk[s] \in InMutex,
         spk'[s] \in {"count", "lock", "register"} => spk[s] \in {"count", "lock", "register"},
         spk'[s] \in {"recount", "forward"} => spk[s] \in {"recount", "forward"}
  PROVE  OrderInv'
<1>1. \A u : UNCHANGED <<Received(u), Pending(u)>>
  BY DEF Received, Pending
<1>2. OnePosts'
  BY OthersPostSame DEF OthersPost, OrderInv, OnePosts, ProceedFree, ProceedHolders, Posting, InMutex
<1>3. NumbersOK'
  BY <1>1, OthersPostSame DEF OthersPost, OrderInv, NumbersOK, ReceivedFresh, PendingFresh,
                              PostingFresh
<1>4. NotYetRegistered'
  <2>1. ASSUME NEW t \in Sessions, spk'[t] \in {"count", "lock", "register"}
        PROVE  spk[t] \in {"count", "lock", "register"} /\ tweetID'[t] = tweetID[t]
    BY <2>1, OthersPostSame DEF OthersPost, Posting, InMutex
  <2> QED
    BY <1>1, <2>1 DEF OrderInv, NotYetRegistered
<1>5. LastRegistered'
  <2>1. ASSUME NEW t \in Sessions, spk'[t] \in {"recount", "forward"}
        PROVE  /\ spk[t] \in {"recount", "forward"}
               /\ tweetID'[t] = tweetID[t] /\ clientIndex'[t] = clientIndex[t]
    BY <2>1, OthersPostSame DEF OthersPost, Posting, InMutex
  <2> QED
    BY <1>1, <2>1 DEF OrderInv, LastRegistered
<1>6. InOrder'
  BY <1>1 DEF OrderInv, InOrder, Names
<1> QED
  BY <1>2, <1>3, <1>4, <1>5, <1>6 DEF OrderInv

(* _registerUpdate: a new number, at the end.                              *)
LEMMA OrderRegister ==
  ASSUME TypeInv, OrderInv, NEW s \in Sessions, Posts(s), RegisterUpdate(s)
  PROVE  OrderInv'
<1> DEFINE u0 == clientIndex[s]
           Rec == listOfReceivedTweets
           NewRec == listOfReceivedTweets'
           n == Len(Rec[u0]) + 1
           t0 == TweetData(tweetID[s], followNum[s])
<1>1. /\ spk[s] = "register" /\ spk'[s] = "recount" /\ u0 \in Users
      /\ UNCHANGED <<tweetID, clientIndex, numTweets, listOfPendingTweets>>
      /\ NewRec = [Rec EXCEPT ![u0] = Append(@, t0)]
  BY OthersPostSame
  DEF RegisterUpdate, SpeakerGoes, registerUpdate, TypeInv, SpeakersTyped, ThreadsOK
<1>2. /\ t0 \in ReceivedTweets /\ t0.tweetID = tweetID[s]
  BY <1>1 DEF TweetData, ReceivedTweets, TypeInv, SpeakersTyped, PlacesOK
<1> HIDE DEF t0
<1>3. /\ n \in Nat \ {0} /\ Len(NewRec[u0]) = n
      /\ \A u \in Users : \A i \in Received(u)' :
           \/ i \in Received(u) /\ NewRec[u][i].tweetID = Rec[u][i].tweetID
           \/ u = u0 /\ i = n /\ NewRec[u][i].tweetID = tweetID[s]
      /\ \A i \in Received(u0) : i < n
  <2>1. Rec[u0] \in Seq(ReceivedTweets) /\ Len(Rec[u0]) \in Nat
    BY <1>1, ListTypes DEF TypeInv
  <2>2. /\ NewRec[u0] = Append(Rec[u0], t0)
        /\ \A u \in Users : u # u0 => NewRec[u] = Rec[u]
    BY <1>1 DEF TypeInv, DBTyped
  <2>3. /\ Len(NewRec[u0]) = n /\ NewRec[u0][n] = t0
        /\ \A i \in 1..Len(Rec[u0]) : NewRec[u0][i] = Rec[u0][i]
    BY <1>2, <2>1, <2>2, AppendProperties
  <2> QED
    BY <1>1, <1>2, <2>1, <2>2, <2>3 DEF Received
<1> HIDE DEF n
<1>4. \A v : UNCHANGED Pending(v)
  BY <1>1 DEF Pending
<1>5. /\ \A u \in Users : \A i \in Received(u) : Rec[u][i].tweetID # tweetID[s]
      /\ \A v \in Users : \A i \in Pending(v) : listOfPendingTweets[v][i].tweetID # tweetID[s]
      /\ tweetID[s] < numTweets
  BY <1>1 DEF OrderInv, NotYetRegistered, NumbersOK, PostingFresh, Posting, InMutex
<1>6. \A t \in Sessions \ {s} :
        /\ spk'[t] \notin InMutex
        /\ spk'[t] \in Posting => /\ spk[t] = spk'[t] /\ tweetID'[t] = tweetID[t]
                                  /\ tweetID[t] # tweetID[s]
  BY <1>1, OthersPostSame DEF OthersPost, OrderInv, OnePosts, NumbersOK, PostingFresh, Posting,
                              InMutex
<1>7. OnePosts'
  BY <1>6 DEF OnePosts
<1>8. ReceivedFresh'
  <2>1. ASSUME NEW u \in Users, NEW i \in Received(u)'
        PROVE  /\ NewRec[u][i].tweetID < numTweets
               /\ \A j \in Received(u)' : NewRec[u][i].tweetID = NewRec[u][j].tweetID => i = j
    BY <1>3, <1>5, <2>1 DEF OrderInv, NumbersOK, ReceivedFresh
  <2> QED
    BY <1>1, <2>1 DEF ReceivedFresh
<1>9. PendingFresh' /\ PostingFresh'
  BY <1>1, <1>4, <1>6 DEF OrderInv, NumbersOK, PendingFresh, PostingFresh, Posting, InMutex
<1>10. NotYetRegistered'
  <2>1. ASSUME NEW t \in Sessions, spk'[t] \in {"count", "lock", "register"}
        PROVE  /\ \A u \in Users : \A i \in Received(u)' : NewRec[u][i].tweetID # tweetID'[t]
               /\ \A v \in Users : \A i \in Pending(v)' :
                    listOfPendingTweets'[v][i].tweetID # tweetID'[t]
    <3>1. /\ spk[t] \in {"count", "lock", "register"}
          /\ tweetID'[t] = tweetID[t] /\ tweetID[t] # tweetID[s]
      BY <1>1, <1>6, <2>1 DEF Posting, InMutex
    <3>2. /\ \A u \in Users : \A i \in Received(u) : Rec[u][i].tweetID # tweetID[t]
          /\ \A v \in Users : \A i \in Pending(v) : listOfPendingTweets[v][i].tweetID # tweetID[t]
      BY <3>1 DEF OrderInv, NotYetRegistered
    <3> QED
      BY <1>1, <1>3, <1>4, <3>1, <3>2
  <2> QED
    BY <2>1 DEF NotYetRegistered
<1>11. LastRegistered'
  <2>1. ASSUME NEW t \in Sessions, spk'[t] \in {"recount", "forward"},
               NEW u, u = clientIndex'[t],
               NEW i \in Received(u)', NewRec[u][i].tweetID = tweetID'[t]
        PROVE  i = Len(NewRec[u])
    <3>1. t = s
      BY <1>6, <2>1 DEF InMutex
    <3>2. u = u0 /\ u \in Users /\ tweetID'[t] = tweetID[s]
      BY <1>1, <2>1, <3>1
    <3>3. i \notin Received(u) \/ NewRec[u][i].tweetID # Rec[u][i].tweetID
      BY <1>5, <2>1, <3>2
    <3> QED
      BY <1>3, <2>1, <3>2, <3>3
  <2> QED
    BY <2>1 DEF LastRegistered
<1>12. InOrder'
  <2>1. ASSUME NEW u \in Users, NEW v \in Users, NEW i \in Pending(v), NEW a \in Received(u)',
               listOfPendingTweets[v][i] = PendingTweet(u, NewRec[u][a].tweetID)
        PROVE  a \in Received(u) /\ Names(listOfPendingTweets[v][i], u, a)
    <3>1. listOfPendingTweets[v][i].tweetID = NewRec[u][a].tweetID
      BY <2>1 DEF PendingTweet
    <3>2. a \in Received(u) /\ NewRec[u][a].tweetID = Rec[u][a].tweetID
      BY <1>3, <1>5, <3>1
    <3> QED
      BY <2>1, <3>2 DEF Names
  <2>2. ASSUME NEW u \in Users, NEW v \in Users,
               NEW i \in Pending(v), NEW j \in Pending(v), i < j,
               NEW a \in Received(u)', NEW b \in Received(u)',
               listOfPendingTweets'[v][i] = PendingTweet(u, NewRec[u][a].tweetID),
               listOfPendingTweets'[v][j] = PendingTweet(u, NewRec[u][b].tweetID)
        PROVE  a <= b
    <3>1. /\ a \in Received(u) /\ Names(listOfPendingTweets[v][i], u, a)
          /\ b \in Received(u) /\ Names(listOfPendingTweets[v][j], u, b)
      BY <1>1, <2>1, <2>2
    <3> QED
      BY <2>2, <3>1 DEF OrderInv, InOrder
  <2> QED
    BY <1>4, <2>2 DEF InOrder, Names
<1> QED
  BY <1>7, <1>8, <1>9, <1>10, <1>11, <1>12 DEF OrderInv, NumbersOK

(* _forwardUpdateToFollowers: entries for the author's last tweet, at the  *)
(* end of the pending lists.                                               *)
LEMMA OrderForward ==
  ASSUME TypeInv, OrderInv, NEW s \in Sessions, Posts(s),
         SpeakerGoes(s, "forward", "leave"), UNCHANGED tweetID,
         forwardUpdate(clientIndex[s], tweetID[s], followNum[s])
  PROVE  OrderInv'
<1> DEFINE u0 == clientIndex[s]
           p0 == PendingTweet(u0, tweetID[s])
           Rec == listOfReceivedTweets
           Pen == listOfPendingTweets
           NewPen == listOfPendingTweets'
           times(v) == Cardinality({i \in 1..followNum[s] : listOfFollowers[u0][i] = v})
           more(v) == [k \in 1..times(v) |-> p0]
<1>1. /\ spk[s] = "forward" /\ spk'[s] = "leave" /\ u0 \in Users
      /\ UNCHANGED <<tweetID, clientIndex, numTweets, listOfReceivedTweets>>
      /\ NewPen = [v \in Users |-> Pen[v] \o more(v)]
  BY OthersPostSame DEF SpeakerGoes, forwardUpdate, TypeInv, SpeakersTyped, ThreadsOK
<1>2. p0 \in PendingTweets /\ p0.tweetID = tweetID[s]
  BY <1>1 DEF PendingTweet, PendingTweets, TypeInv, SpeakersTyped
<1> HIDE DEF p0
<1>3. \A v \in Users : \A i \in Pending(v)' :
        i \in Nat /\ (i \in Pending(v) \/ \A j \in Pending(v) : j < i)
        /\ NewPen[v][i] = IF i \in Pending(v) THEN Pen[v][i] ELSE p0
  <2> SUFFICES ASSUME NEW v \in Users, NEW i \in Pending(v)'
               PROVE  i \in Nat /\ (i \in Pending(v) \/ \A j \in Pending(v) : j < i)
                      /\ NewPen[v][i] = IF i \in Pending(v) THEN Pen[v][i] ELSE p0
    OBVIOUS
  <2>1. Pen[v] \in Seq(PendingTweets) /\ Len(Pen[v]) \in Nat /\ NewPen[v] = Pen[v] \o more(v)
    BY <1>1, ListTypes DEF TypeInv
  <2>2. IsFiniteSet(1..followNum[s])
    BY FS_Interval DEF TypeInv, SpeakersTyped
  <2>3. times(v) \in Nat
    BY <2>2, FS_Subset, FS_CardinalityType
  <2> HIDE DEF times
  <2>4. more(v) \in Seq(PendingTweets) /\ Len(more(v)) = times(v)
    BY <1>2, <2>3, RepeatedProperties
  <2>5. \A k \in 1..times(v) : more(v)[k] = p0
    OBVIOUS
  <2> HIDE DEF more
  <2>6. /\ Len(NewPen[v]) = Len(Pen[v]) + times(v)
        /\ \A k \in 1..(Len(Pen[v]) + times(v)) :
             NewPen[v][k] = IF k <= Len(Pen[v]) THEN Pen[v][k] ELSE more(v)[k - Len(Pen[v])]
    <3> DEFINE q == Pen[v]
               r == more(v)
    <3> HIDE DEF q, r
    <3>1. q \in Seq(PendingTweets) /\ r \in Seq(PendingTweets)
      BY <2>1, <2>4 DEF q, r
    <3>2. /\ Len(q \o r) = Len(q) + Len(r)
          /\ \A k \in 1..(Len(q) + Len(r)) :
               (q \o r)[k] = IF k <= Len(q) THEN q[k] ELSE r[k - Len(q)]
      BY <3>1, ConcatProperties
    <3>3. NewPen[v] = q \o r
      BY <2>1 DEF q, r
    <3>4. Len(r) = times(v)
      BY <2>4 DEF r
    <3>5. /\ Len(NewPen[v]) = Len(q) + times(v)
          /\ \A k \in 1..(Len(q) + times(v)) :
               NewPen[v][k] = IF k <= Len(q) THEN q[k] ELSE r[k - Len(q)]
      BY <3>2, <3>3, <3>4
    <3> QED
      BY <3>5 DEF q, r
  <2>7. i \in 1..(Len(Pen[v]) + times(v))
    BY <2>6 DEF Pending
  <2>8. NewPen[v][i] = IF i <= Len(Pen[v]) THEN Pen[v][i] ELSE more(v)[i - Len(Pen[v])]
    BY <2>6, <2>7
  <2>9. i \in Pending(v) <=> i <= Len(Pen[v])
    BY <2>1, <2>3, <2>7 DEF Pending
  <2>10. CASE i <= Len(Pen[v])
    BY <2>1, <2>3, <2>7, <2>8, <2>9, <2>10
  <2>11. CASE ~(i <= Len(Pen[v]))
    <3>1. i - Len(Pen[v]) \in 1..times(v) /\ i \in Nat
      BY <2>1, <2>3, <2>7, <2>11
    <3>2. NewPen[v][i] = p0
      BY <2>5, <2>8, <2>11, <3>1
    <3>3. \A j \in Pending(v) : j < i
      BY <2>1, <2>11, <3>1 DEF Pending
    <3> QED
      BY <2>9, <2>11, <3>1, <3>2, <3>3
  <2> QED
    BY <2>10, <2>11
<1> HIDE DEF times, more
<1>4. \A u : UNCHANGED Received(u)
  BY <1>1 DEF Received
<1>5. /\ tweetID[s] < numTweets
      /\ \A i \in Received(u0) : Rec[u0][i].tweetID = tweetID[s] => i = Len(Rec[u0])
      /\ \A u \in Users : \A i \in Received(u) : i \in Nat /\ i <= Len(Rec[u]) /\ Len(Rec[u]) \in Nat
  <2>1. /\ tweetID[s] < numTweets
        /\ \A i \in Received(u0) : Rec[u0][i].tweetID = tweetID[s] => i = Len(Rec[u0])
    BY <1>1 DEF OrderInv, LastRegistered, NumbersOK, PostingFresh, Posting, InMutex
  <2>2. \A u \in Users : Len(Rec[u]) \in Nat
    BY ListTypes DEF TypeInv
  <2> QED
    BY <2>1, <2>2 DEF Received
<1>6. \A t \in Sessions : spk'[t] \in Posting =>
        /\ t # s /\ spk[t] = spk'[t] /\ tweetID'[t] = tweetID[t]
        /\ tweetID[t] # tweetID[s] /\ spk'[t] \notin InMutex
  BY <1>1, OthersPostSame DEF OthersPost, OrderInv, OnePosts, NumbersOK, PostingFresh, Posting,
                              InMutex
<1>7. OnePosts' /\ LastRegistered'
  BY <1>6 DEF OnePosts, LastRegistered, Posting, InMutex
<1>8. ReceivedFresh' /\ PostingFresh'
  BY <1>1, <1>4, <1>6 DEF OrderInv, NumbersOK, ReceivedFresh, PostingFresh
<1>9. PendingFresh'
  BY <1>1, <1>2, <1>3, <1>5 DEF OrderInv, NumbersOK, PendingFresh
<1>10. NotYetRegistered'
  <2>1. ASSUME NEW t \in Sessions, spk'[t] \in {"count", "lock", "register"}
        PROVE  /\ \A u \in Users : \A i \in Received(u)' : Rec'[u][i].tweetID # tweetID'[t]
               /\ \A v \in Users : \A i \in Pending(v)' : NewPen[v][i].tweetID # tweetID'[t]
    <3>1. /\ spk[t] \in {"count", "lock", "register"}
          /\ tweetID'[t] = tweetID[t] /\ tweetID[t] # tweetID[s]
      BY <1>6, <2>1 DEF Posting, InMutex
    <3>2. /\ \A u \in Users : \A i \in Received(u) : Rec[u][i].tweetID # tweetID[t]
          /\ \A v \in Users : \A i \in Pending(v) : Pen[v][i].tweetID # tweetID[t]
      BY <3>1 DEF OrderInv, NotYetRegistered
    <3> QED
      BY <1>1, <1>2, <1>3, <1>4, <3>1, <3>2
  <2> QED
    BY <2>1 DEF NotYetRegistered
<1>11. InOrder'
  <2>1. ASSUME NEW u \in Users, NEW v \in Users,
               NEW i \in Pending(v)', NEW j \in Pending(v)', i < j,
               NEW a \in Received(u)', NEW b \in Received(u)',
               NewPen[v][i] = PendingTweet(u, Rec'[u][a].tweetID),
               NewPen[v][j] = PendingTweet(u, Rec'[u][b].tweetID)
        PROVE  a <= b
    <3>0. /\ a \in Received(u) /\ NewPen[v][i] = PendingTweet(u, Rec[u][a].tweetID)
          /\ b \in Received(u) /\ NewPen[v][j] = PendingTweet(u, Rec[u][b].tweetID)
      BY <1>1, <1>4, <2>1
    <3>1. CASE j \in Pending(v)
      <4>1. i \in Pending(v) /\ NewPen[v][i] = Pen[v][i] /\ NewPen[v][j] = Pen[v][j]
        BY <1>3, <2>1, <3>1
      <4> QED
        BY <2>1, <3>0, <3>1, <4>1 DEF OrderInv, InOrder, Names
    <3>2. CASE j \notin Pending(v)
      <4>1. u = u0 /\ Rec[u][b].tweetID = tweetID[s]
        BY <1>3, <2>1, <3>0, <3>2 DEF PendingTweet, p0
      <4> QED
        BY <1>5, <3>0, <4>1
    <3> QED
      BY <3>1, <3>2
  <2> QED
    BY <2>1 DEF InOrder, Names
<1> QED
  BY <1>7, <1>8, <1>9, <1>10, <1>11 DEF OrderInv, NumbersOK

LEMMA OrderPosts ==
  ASSUME TypeInv, OrderInv, NEW s \in Sessions, Posts(s)
  PROVE  OrderInv'
<1>1. CASE TakeNumber(s)
  BY <1>1, OrderTakeNumber
<1>2. CASE CountFollowers(s) \/ LockAndCount(s) \/ Recount(s)
  <2>1. /\ UNCHANGED <<listOfPendingTweets, listOfReceivedTweets, numTweets, tweetID>>
        /\ \E to : /\ spk' = [spk EXCEPT ![s] = to]
                   /\ \/ spk[s] = "count" /\ to \in {"lock", "leave"}
                      \/ spk[s] = "lock" /\ to = "register" /\ ProceedFree
                      \/ spk[s] = "recount" /\ to = "forward"
    BY <1>2 DEF CountFollowers, LockAndCount, Recount, SpeakerGoes, dbVars
  <2>2. \/ spk[s] = "count" /\ spk'[s] \in {"lock", "leave"}
        \/ spk[s] = "lock" /\ spk'[s] = "register" /\ ProceedFree
        \/ spk[s] = "recount" /\ spk'[s] = "forward"
    BY <2>1 DEF TypeInv, SpeakersTyped
  <2> QED
    BY <2>1, <2>2, OrderMove DEF Posting, InMutex
<1>3. CASE RegisterUpdate(s)
  BY <1>3, OrderRegister
<1>4. CASE ForwardUpdate(s)
  <2>1. CASE UNCHANGED <<dbVars, spk>>
    <3>1. Quiet
      <4>1. spk'[s] = spk[s] /\ clientIndex'[s] = clientIndex[s]
            /\ tweetID'[s] = tweetID[s] /\ followNum'[s] = followNum[s]
        BY <1>4, <2>1, OthersPostSame DEF ForwardUpdate
      <4>2. Keeps(s)
        BY <4>1 DEF Keeps
      <4> QED
        BY <2>1, <4>2 DEF Quiet, Posts, dbVars
    <3> QED
      BY <3>1, OrderQuiet
  <2>2. CASE /\ SpeakerGoes(s, "forward", "leave")
             /\ forwardUpdate(clientIndex[s], tweetID[s], followNum[s])
    BY <1>4, <2>2, OrderForward DEF ForwardUpdate
  <2> QED
    BY <1>4, <2>1, <2>2 DEF ForwardUpdate
<1> QED
  BY <1>1, <1>2, <1>3, <1>4 DEF Posts

LEMMA OrderStep ==
  ASSUME TypeInv, OrderInv, [Next]_vars
  PROVE  OrderInv'
  BY StepShape, OrderQuiet, OrderRetrieve, OrderPosts

LEMMA OrderGivesTimeline ==
  ASSUME TypeInv, OrderInv
  PROVE  TimelineOrder
<1> SUFFICES ASSUME NEW v \in Users,
                    NEW i \in DOMAIN listOfPendingTweets[v],
                    NEW j \in DOMAIN listOfPendingTweets[v],
                    NEW p, p = listOfPendingTweets[v][i],
                    NEW q, q = listOfPendingTweets[v][j],
                    i < j, p.userAuthor = q.userAuthor, IsReceived(p), IsReceived(q)
             PROVE  receivedIndex(p) <= receivedIndex(q)
  BY DEF TimelineOrder
<1> DEFINE u == p.userAuthor
<1>1. i \in Pending(v) /\ j \in Pending(v)
  BY SequenceFacts DEF TypeInv, DBTyped, Pending
<1>2. p \in PendingTweets /\ q \in PendingTweets /\ u \in Users
  BY <1>1, ListTypes DEF TypeInv, PendingTweets
<1>3. listOfReceivedTweets[u] \in Seq(ReceivedTweets)
  BY <1>2, ListTypes DEF TypeInv
<1>4. /\ receivedIndex(p) \in Received(u) /\ Names(p, u, receivedIndex(p))
      /\ receivedIndex(q) \in Received(u) /\ Names(q, u, receivedIndex(q))
  BY <1>2, <1>3, ReceivedIndexFound
  DEF IsReceived, Received, Names, PendingTweet, PendingTweets
<1> QED
  BY <1>1, <1>2, <1>4 DEF OrderInv, InOrder

(* A tweet registered before another one of the same author is pending     *)
(* before it, for everyone for whom both are, whoever posts, follows,      *)
(* retrieves, signs in or leaves meanwhile.                                *)
THEOREM TimelineKept == Spec => []TimelineOrder
<1>1. Init => TypeInv /\ OrderInv
  BY TypeInvInit, OrderInit
<1>2. TypeInv /\ OrderInv /\ [Next]_vars => OrderInv'
  BY OrderStep
<1>3. TypeInv /\ OrderInv => TimelineOrder
  BY OrderGivesTimeline
<1> QED
  BY <1>1, <1>2, <1>3, ServerInvariant, PTL DEF Spec

-----------------------------------------------------------------------------
(***************************************************************************)
(* Counting.  Where a sequence holds a tweet, and how often.               *)
(***************************************************************************)
LEMMA PositionsFinite ==
  ASSUME NEW S, NEW q \in Seq(S), NEW p
  PROVE  /\ IsFiniteSet(Positions(p, q)) /\ Occurrences(p, q) \in Nat
         /\ \A k : k \in Positions(p, q) <=> k \in 1..Len(q) /\ q[k] = p
<1>1. Len(q) \in Nat /\ DOMAIN q = 1..Len(q)
  BY SequenceFacts
<1>2. \A k : k \in Positions(p, q) <=> k \in 1..Len(q) /\ q[k] = p
  BY <1>1 DEF Positions
<1>3. IsFiniteSet(1..Len(q)) /\ Positions(p, q) \subseteq 1..Len(q)
  BY <1>1, <1>2, FS_Interval
<1>4. IsFiniteSet(Positions(p, q))
  BY <1>3, FS_Subset
<1> QED
  BY <1>2, <1>4, FS_CardinalityType DEF Occurrences

LEMMA NoPositions ==
  ASSUME NEW p
  PROVE  Positions(p, <<>>) = {} /\ Occurrences(p, <<>>) = 0
<1>1. <<>> \in Seq({p}) /\ Len(<<>>) = 0
  BY EmptySeq
<1>2. \A k : k \notin Positions(p, <<>>)
  <2>1. \A k : k \in Positions(p, <<>>) => k \in 1..Len(<<>>)
    BY <1>1, PositionsFinite, Zenon
  <2> QED
    BY <1>1, <2>1
<1>3. Positions(p, <<>>) = {}
  BY <1>2
<1> QED
  BY <1>3, FS_EmptySet DEF Occurrences

(* A tail holds its head's tweet once less, and any other as often.        *)
LEMMA OccurrencesInTail ==
  ASSUME NEW S, NEW q \in Seq(S), q # <<>>, NEW p
  PROVE  Occurrences(p, Tail(q)) = Occurrences(p, q) - (IF Head(q) = p THEN 1 ELSE 0)
<1> DEFINE P == Positions(p, q)
           T == Positions(p, Tail(q))
           down == [k \in P \ {1} |-> k - 1]
<1>1. /\ Tail(q) \in Seq(S) /\ Len(Tail(q)) = Len(q) - 1
      /\ \A k \in 1..Len(Tail(q)) : Tail(q)[k] = q[k + 1]
      /\ Len(q) \in Nat \ {0} /\ Head(q) = q[1]
  <2>1. Len(q) \in Nat /\ Len(q) # 0
    BY LenProperties, EmptySeq
  <2>2. Head(q) = q[1]
    OBVIOUS
  <2> QED
    BY <2>1, <2>2, HeadTailProperties
<1>2. /\ \A k : k \in P <=> k \in 1..Len(q) /\ q[k] = p
      /\ \A k : k \in T <=> k \in 1..(Len(q) - 1) /\ q[k + 1] = p
      /\ IsFiniteSet(P) /\ IsFiniteSet(T)
  <2>1. IsFiniteSet(P) /\ \A k : k \in P <=> k \in 1..Len(q) /\ q[k] = p
    BY PositionsFinite
  <2>2. IsFiniteSet(T) /\ \A k : k \in T <=> k \in 1..Len(Tail(q)) /\ Tail(q)[k] = p
    <3> DEFINE tail == Tail(q)
    <3>1. tail \in Seq(S)
      BY <1>1
    <3> HIDE DEF tail
    <3>2. /\ IsFiniteSet(Positions(p, tail))
          /\ \A k : k \in Positions(p, tail) <=> k \in 1..Len(tail) /\ tail[k] = p
      BY <3>1, PositionsFinite
    <3> QED
      BY <3>2 DEF tail
  <2> HIDE DEF P, T
  <2> QED
    BY <1>1, <2>1, <2>2
<1> HIDE DEF P, T
<1>3. /\ down \in [P \ {1} -> T]
      /\ \A j, k \in P \ {1} : down[j] = down[k] => j = k
      /\ \A k \in T : \E j \in P \ {1} : down[j] = k
  <2>1. down \in [P \ {1} -> T]
    BY <1>1, <1>2
  <2>2. \A j, k \in P \ {1} : down[j] = down[k] => j = k
    BY <1>1, <1>2
  <2>3. ASSUME NEW k \in T
        PROVE  \E j \in P \ {1} : down[j] = k
    <3>1. k + 1 \in P \ {1} /\ (k + 1) - 1 = k
      BY <1>1, <1>2
    <3> QED
      BY <3>1
  <2> QED
    BY <2>1, <2>2, <2>3
<1>4. Cardinality(T) = Cardinality(P \ {1})
  <2>1. IsFiniteSet(P \ {1})
    BY <1>2, FS_RemoveElement
  <2> DEFINE D == P \ {1}
  <2>2. /\ down \in [D -> T] /\ IsFiniteSet(D)
        /\ \A j, k \in D : down[j] = down[k] => j = k
        /\ \A k \in T : \E j \in D : down[j] = k
    BY <1>3, <2>1
  <2> HIDE DEF down, D
  <2>3. Cardinality(T) = Cardinality(D)
    BY <2>2, SameSize
  <2> QED
    BY <2>3 DEF D
<1>5. Cardinality(P) \in Nat /\ Cardinality(P \ {1}) = Cardinality(P) - (IF 1 \in P THEN 1 ELSE 0)
  <2>1. Cardinality(P) \in Nat
    BY <1>2, FS_CardinalityType
  <2>2. Cardinality(P \ {1}) = IF 1 \in P THEN Cardinality(P) - 1 ELSE Cardinality(P)
    BY <1>2, FS_RemoveElement, Zenon
  <2> QED
    BY <2>1, <2>2
<1>6. 1 \in P <=> Head(q) = p
  BY <1>1, <1>2
<1> QED
  BY <1>4, <1>5, <1>6 DEF Occurrences, P, T

(* The places of a tweet in a sequence and n entries more for another.     *)
Repeats(r, n, p) == r = [k \in 1..n |-> p]

LEMMA PositionsInMore ==
  ASSUME NEW S, NEW q \in Seq(S), NEW p0 \in S, NEW n \in Nat, NEW p,
         NEW more, Repeats(more, n, p0)
  PROVE  /\ q \o more \in Seq(S)
         /\ Positions(p, q \o more)
              = Positions(p, q) \cup (IF p = p0 THEN (Len(q) + 1)..(Len(q) + n) ELSE {})
         /\ Positions(p, q) \cap ((Len(q) + 1)..(Len(q) + n)) = {}
<1> DEFINE all == q \o more
<1>1. more \in Seq(S) /\ Len(more) = n /\ \A k \in 1..n : more[k] = p0
  BY RepeatedProperties DEF Repeats
<1>2. Len(q) \in Nat
  BY LenProperties
<1>3. /\ all \in Seq(S) /\ Len(all) = Len(q) + n
      /\ \A k \in 1..(Len(q) + n) : all[k] = IF k <= Len(q) THEN q[k] ELSE more[k - Len(q)]
  BY <1>1, ConcatProperties
<1> HIDE DEF all
<1>4. \A k : k \in Positions(p, q) <=> k \in 1..Len(q) /\ q[k] = p
  BY PositionsFinite
<1>5. \A k : k \in Positions(p, all) <=> k \in 1..(Len(q) + n) /\ all[k] = p
  BY <1>3, PositionsFinite
<1>6. \A k \in (Len(q) + 1)..(Len(q) + n) : all[k] = p0
  BY <1>1, <1>2, <1>3
<1>7. \A k \in 1..Len(q) : all[k] = q[k]
  BY <1>2, <1>3
<1>8. Positions(p, all) = Positions(p, q) \cup (IF p = p0 THEN (Len(q) + 1)..(Len(q) + n) ELSE {})
  BY <1>2, <1>4, <1>5, <1>6, <1>7
<1>9. Positions(p, q) \cap ((Len(q) + 1)..(Len(q) + n)) = {}
  BY <1>2, <1>4
<1> QED
  BY <1>3, <1>8, <1>9 DEF all

(***************************************************************************)
(* The recipients a tweet waits for are pending entries, entries listeners *)
(* have taken, and entries a speaker is about to make.  What each step     *)
(* does to the three counts:                                               *)
(*                                                                         *)
(*                   pending          taken           about to be made     *)
(*   ClearPending    - list cleared   + list copied                        *)
(*   UpdateTweet                      - 1 for the head                     *)
(*   RegisterUpdate                                   + followers counted  *)
(*   Recount                                          + followers since    *)
(*   ForwardUpdate   + followers                      - followers          *)
(***************************************************************************)
LEMMA CountsAreNumbers ==
  ASSUME TypeInv, NEW p
  PROVE  /\ Finite(PendingEntries(p)) /\ PendingFor(p) \in Nat
         /\ Finite(TakenEntries(p)) /\ TakenFor(p) \in Nat
         /\ Finite(EntriesToMake(p)) /\ AboutToForward(p) \in Nat
         /\ DOMAIN PendingEntries(p) = Users
         /\ DOMAIN TakenEntries(p) = Sessions
         /\ DOMAIN EntriesToMake(p) = Sessions
<1>1. \A v \in Users : IsFiniteSet(Positions(p, listOfPendingTweets[v]))
  BY PositionsFinite DEF TypeInv, DBTyped
<1>2. \A s \in Sessions : IsFiniteSet(Positions(p, pendingTweets[s])) /\ IsFiniteSet({})
  BY PositionsFinite, FS_EmptySet DEF TypeInv, ListenersTyped
<1>3. \A s \in Sessions : IsFiniteSet(1..followNum[s]) /\ IsFiniteSet({})
  BY FS_Interval, FS_EmptySet DEF TypeInv, SpeakersTyped
<1>4. Finite(PendingEntries(p))
  BY <1>1, UsersAssumption DEF Finite, PendingEntries
<1>5. Finite(TakenEntries(p))
  BY <1>2, SessionsAssumption DEF Finite, TakenEntries
<1>6. Finite(EntriesToMake(p))
  BY <1>3, SessionsAssumption DEF Finite, EntriesToMake
<1> QED
  BY <1>4, <1>5, <1>6, TotalIsNumber
  DEF PendingFor, TakenFor, AboutToForward, PendingEntries, TakenEntries, EntriesToMake

(* Where the pending lists, a listener or a speaker are left alone.        *)
LEMMA PendingKept ==
  ASSUME NEW p, listOfPendingTweets' = listOfPendingTweets
  PROVE  PendingFor(p)' = PendingFor(p)
  BY DEF PendingFor, PendingEntries

LEMMA TakenKept ==
  ASSUME NEW p, \A s \in Sessions : Holds(s)
  PROVE  TakenFor(p)' = TakenFor(p)
<1>1. TakenEntries(p)' = TakenEntries(p)
  BY DEF Holds, TakenEntries
<1> QED
  BY <1>1 DEF TakenFor

LEMMA ToMakeKept ==
  ASSUME NEW p, \A s \in Sessions : Keeps(s)
  PROVE  AboutToForward(p)' = AboutToForward(p)
<1>1. EntriesToMake(p)' = EntriesToMake(p)
  BY DEF Keeps, EntriesToMake, Forwards, Posting, InMutex
<1> QED
  BY <1>1 DEF AboutToForward

LEMMA CountsClear ==
  ASSUME TypeInv, TypeInv', NEW s \in Sessions, Gets(s), ClearPending(s), NEW p
  PROVE  /\ PendingFor(p)'
              = PendingFor(p) - Occurrences(p, listOfPendingTweets[clientIndex[s]])
         /\ TakenFor(p)' = TakenFor(p) + Occurrences(p, pendingTweets[s])
         /\ AboutToForward(p)' = AboutToForward(p)
<1> DEFINE v0 == clientIndex[s]
<1>1. /\ lis[s] = "clear" /\ v0 \in Users
      /\ listOfPendingTweets' = [listOfPendingTweets EXCEPT ![v0] = <<>>]
  BY DEF ClearPending, clearPendingTweets, ListenerGoes, TypeInv, ThreadsOK
<1>2. PendingFor(p)' = PendingFor(p) - Occurrences(p, listOfPendingTweets[v0])
  <2> DEFINE f == PendingEntries(p)
             g == PendingEntries(p)'
  <2>1. \A v \in Users : /\ f[v] = Positions(p, listOfPendingTweets[v])
                         /\ g[v] = IF v = v0 THEN {} ELSE f[v]
    BY <1>1, NoPositions DEF PendingEntries, TypeInv, DBTyped
  <2>2. /\ Finite(f) /\ DOMAIN f = Users /\ DOMAIN g = Users
        /\ PendingFor(p) = Total(f) /\ PendingFor(p)' = Total(g) /\ Total(f) \in Nat
    BY CountsAreNumbers DEF PendingFor, PendingEntries
  <2> HIDE DEF f, g
  <2>3. Total(g) = Total(f) - Cardinality(f[v0]) + Cardinality(g[v0])
    <3>1. IsFiniteSet(g[v0]) /\ \A v \in Users : v # v0 => g[v] = f[v]
      BY <1>1, <2>1, FS_EmptySet
    <3> QED
      BY <1>1, <2>2, <3>1, TotalChanges
  <2>4. Cardinality(g[v0]) = 0 /\ Cardinality(f[v0]) \in Nat
    BY <1>1, <2>1, <2>2, FS_EmptySet, PartOfTotal
  <2> QED
    BY <1>1, <2>1, <2>2, <2>3, <2>4 DEF Occurrences
<1>3. TakenFor(p)' = TakenFor(p) + Occurrences(p, pendingTweets[s])
  <2> DEFINE f == TakenEntries(p)
             g == TakenEntries(p)'
  <2>1. f[s] = {} /\ g[s] = Positions(p, pendingTweets[s])
    BY <1>1, NoPositions DEF TakenEntries, Counting, ClearPending, ListenerGoes, TypeInv,
                             ListenersTyped
  <2>2. \A t \in Sessions : t # s => g[t] = f[t]
    BY DEF Gets, Holds, TakenEntries
  <2>3. /\ Finite(f) /\ DOMAIN f = Sessions /\ DOMAIN g = Sessions
        /\ TakenFor(p) = Total(f) /\ TakenFor(p)' = Total(g) /\ Total(f) \in Nat
    BY CountsAreNumbers DEF TakenFor, TakenEntries
  <2> HIDE DEF f, g
  <2>4. IsFiniteSet(g[s]) /\ Occurrences(p, pendingTweets[s]) \in Nat
    BY <2>1, PositionsFinite DEF TypeInv, ListenersTyped
  <2>5. Total(g) = Total(f) - Cardinality(f[s]) + Cardinality(g[s])
    BY <2>2, <2>3, <2>4, TotalChanges
  <2> QED
    BY <2>1, <2>3, <2>4, <2>5, FS_EmptySet DEF Occurrences
<1> QED
  BY <1>2, <1>3, ToMakeKept DEF Gets

LEMMA CountsUpdate ==
  ASSUME TypeInv, TypeInv', NEW s \in Sessions, Gets(s), UpdateTweet(s), NEW p
  PROVE  /\ PendingFor(p)' = PendingFor(p)
         /\ TakenFor(p)' = TakenFor(p) - (IF Head(pendingTweets[s]) = p THEN 1 ELSE 0)
         /\ AboutToForward(p)' = AboutToForward(p)
<1> DEFINE q == pendingTweets[s]
           f == TakenEntries(p)
           g == TakenEntries(p)'
<1>1. /\ lis[s] = "update" /\ q \in Seq(PendingTweets) /\ q # <<>>
      /\ pendingTweets'[s] = Tail(q)
      /\ lis'[s] = IF Len(q) = 1 THEN "leave" ELSE "update"
  BY DEF UpdateTweet, ListenerGoes, TypeInv, ListenersTyped, Counting
<1>2. f[s] = Positions(p, q)
  BY <1>1 DEF TakenEntries, Counting
<1>3. Tail(q) \in Seq(PendingTweets) /\ Len(Tail(q)) = Len(q) - 1 /\ Len(q) \in Nat
  BY <1>1, HeadTailProperties, LenProperties
<1>4. IsFiniteSet(g[s]) /\ Cardinality(g[s]) = Occurrences(p, Tail(q))
  <2> DEFINE tail == Tail(q)
  <2>0. tail \in Seq(PendingTweets) /\ Len(tail) = Len(q) - 1 /\ pendingTweets'[s] = tail
    BY <1>1, <1>3
  <2> HIDE DEF tail
  <2>1. CASE Len(q) = 1
    <3>1. g[s] = {}
      BY <1>1, <2>1 DEF TakenEntries, Counting
    <3>2. tail = <<>>
      BY <2>0, <2>1, EmptySeq
    <3> QED
      BY <3>1, <3>2, NoPositions, FS_EmptySet DEF tail
  <2>2. CASE Len(q) # 1
    <3>1. g[s] = Positions(p, tail)
      BY <1>1, <2>0, <2>2 DEF TakenEntries, Counting
    <3>2. IsFiniteSet(Positions(p, tail))
      BY <2>0, PositionsFinite
    <3> QED
      BY <3>1, <3>2 DEF Occurrences, tail
  <2> QED
    BY <2>1, <2>2
<1>5. \A t \in Sessions : t # s => g[t] = f[t]
  BY DEF Gets, Holds, TakenEntries
<1>6. /\ Finite(f) /\ DOMAIN f = Sessions /\ DOMAIN g = Sessions
      /\ TakenFor(p) = Total(f) /\ TakenFor(p)' = Total(g) /\ Total(f) \in Nat
  BY CountsAreNumbers DEF TakenFor, TakenEntries
<1> HIDE DEF f, g
<1>7. Total(g) = Total(f) - Cardinality(f[s]) + Cardinality(g[s])
  BY <1>4, <1>5, <1>6, TotalChanges
<1>8. /\ Occurrences(p, q) \in Nat /\ Cardinality(f[s]) = Occurrences(p, q)
      /\ Occurrences(p, Tail(q)) = Occurrences(p, q) - (IF Head(q) = p THEN 1 ELSE 0)
  BY <1>1, <1>2, PositionsFinite, OccurrencesInTail DEF Occurrences
<1>9. TakenFor(p)' = TakenFor(p) - (IF Head(q) = p THEN 1 ELSE 0)
  BY <1>4, <1>6, <1>7, <1>8
<1>10. PendingFor(p)' = PendingFor(p) /\ AboutToForward(p)' = AboutToForward(p)
  BY PendingKept, ToMakeKept DEF Gets, UpdateTweet, updateReceivedTweet
<1> QED
  BY <1>9, <1>10

(* A speaker's entries to make, at one place of a posting and the next.    *)
Making(s, p) == IF Forwards(s, p) THEN followNum[s] ELSE 0

LEMMA CountsPosting ==
  ASSUME TypeInv, TypeInv', NEW s \in Sessions, Posts(s), NEW p
  PROVE  /\ AboutToForward(p)' = AboutToForward(p) - Making(s, p) + Making(s, p)'
         /\ TakenFor(p)' = TakenFor(p)
         /\ Making(s, p) \in Nat /\ Making(s, p)' \in Nat
         /\ Making(s, p)' <= AboutToForward(p)'
<1> DEFINE f == EntriesToMake(p)
           g == EntriesToMake(p)'
<1>1. /\ f[s] = IF Forwards(s, p) THEN 1..followNum[s] ELSE {}
      /\ g[s] = IF Forwards(s, p)' THEN 1..followNum'[s] ELSE {}
      /\ followNum[s] \in Nat /\ followNum'[s] \in Nat
  BY DEF EntriesToMake, TypeInv, SpeakersTyped
<1>2. \A n \in Nat : IsFiniteSet(1..n) /\ Cardinality(1..n) = n
  BY FS_Interval
<1>3. /\ IsFiniteSet(g[s])
      /\ Cardinality(f[s]) = Making(s, p) /\ Cardinality(g[s]) = Making(s, p)'
      /\ Making(s, p) \in Nat /\ Making(s, p)' \in Nat
  BY <1>1, <1>2, FS_EmptySet DEF Making
<1>4. \A t \in Sessions : t # s => g[t] = f[t]
  BY DEF Posts, Keeps, EntriesToMake, Forwards, Posting, InMutex
<1>5. /\ Finite(f) /\ DOMAIN f = Sessions /\ DOMAIN g = Sessions
      /\ AboutToForward(p) = Total(f) /\ AboutToForward(p)' = Total(g) /\ Total(f) \in Nat
  BY CountsAreNumbers DEF AboutToForward, EntriesToMake
<1> HIDE DEF f, g
<1>6. Finite(g) /\ Total(g) = Total(f) - Cardinality(f[s]) + Cardinality(g[s])
  BY <1>3, <1>4, <1>5, TotalChanges
<1>7. Cardinality(g[s]) <= Total(g)
  BY <1>5, <1>6, PartOfTotal
<1>8. TakenFor(p)' = TakenFor(p)
  BY TakenKept DEF Posts
<1> QED
  BY <1>3, <1>5, <1>6, <1>7, <1>8

(* The entries _forwardUpdateToFollowers makes are as many as it counted   *)
(* followers, however often a user is among them.                          *)
LEMMA CountsForward ==
  ASSUME TypeInv, TypeInv', NEW s \in Sessions, spk[s] = "forward",
         forwardUpdate(clientIndex[s], tweetID[s], followNum[s]), NEW p
  PROVE  PendingFor(p)' = PendingFor(p) + Making(s, p)
<1> DEFINE u0 == clientIndex[s]
           p0 == PendingTweet(u0, tweetID[s])
           n == followNum[s]
           Pen == listOfPendingTweets
           at == [v \in Users |-> {i \in 1..n : listOfFollowers[u0][i] = v}]
           times(v) == Cardinality(at[v])
           new == [v \in Users |-> (Len(Pen[v]) + 1)..(Len(Pen[v]) + times(v))]
           f == PendingEntries(p)
           h == PendingEntries(p)'
<1>1. u0 \in Users /\ p0 \in PendingTweets /\ n \in 1..Len(listOfFollowers[u0])
  BY DEF TypeInv, ThreadsOK, PlacesOK, SpeakersTyped, PendingTweet, PendingTweets
<1>2. n \in Nat /\ \A i \in 1..n : listOfFollowers[u0][i] \in Users
  <2>1. listOfFollowers[u0] \in Seq(Users)
    BY <1>1 DEF TypeInv, DBTyped
  <2>2. /\ Len(listOfFollowers[u0]) \in Nat
        /\ \A i \in 1..Len(listOfFollowers[u0]) : listOfFollowers[u0][i] \in Users
    BY <2>1, SequenceFacts
  <2> HIDE DEF n
  <2> QED
    BY <1>1, <2>2
<1>3. IsFiniteSet(1..n) /\ Cardinality(1..n) = n
  BY <1>2, FS_Interval
<1>4. Finite(at) /\ Total(at) = n
  <2>1. /\ DOMAIN at = Users
        /\ \A v \in Users : at[v] \subseteq 1..n
        /\ \A i \in 1..n : \E v \in Users : i \in at[v]
        /\ \A v, w \in Users : v # w => at[v] \cap at[w] = {}
    BY <1>2
  <2> HIDE DEF at
  <2> QED
    BY <1>3, <2>1, UsersAssumption, TotalOfPartition
<1>5. \A v \in Users : times(v) \in Nat
  <2>1. DOMAIN at = Users
    OBVIOUS
  <2> HIDE DEF at
  <2> QED
    BY <1>4, <2>1, PartOfTotal
<1>6. \A v \in Users : listOfPendingTweets'[v] = Pen[v] \o [k \in 1..times(v) |-> p0]
  BY DEF forwardUpdate
<1> HIDE DEF p0, n, at
<1>7. \A v \in Users :
        /\ f[v] = Positions(p, Pen[v])
        /\ h[v] = Positions(p, Pen[v]) \cup (IF p = p0 THEN new[v] ELSE {})
        /\ Positions(p, Pen[v]) \cap new[v] = {}
        /\ IsFiniteSet(new[v]) /\ Cardinality(new[v]) = times(v)
  <2> SUFFICES ASSUME NEW v \in Users
               PROVE  /\ h[v] = Positions(p, Pen[v]) \cup (IF p = p0 THEN new[v] ELSE {})
                      /\ Positions(p, Pen[v]) \cap new[v] = {}
                      /\ IsFiniteSet(new[v]) /\ Cardinality(new[v]) = times(v)
    BY DEF PendingEntries
  <2>1. h[v] = Positions(p, Pen[v] \o [k \in 1..times(v) |-> p0])
    BY <1>6 DEF PendingEntries
  <2>2. Pen[v] \in Seq(PendingTweets) /\ Len(Pen[v]) \in Nat
    BY ListTypes DEF TypeInv
  <2>3. times(v) \in Nat
    BY <1>5
  <2> HIDE DEF h, f, times
  <2>4. new[v] = (Len(Pen[v]) + 1)..(Len(Pen[v]) + times(v))
    BY DEF new
  <2>5. IsFiniteSet(new[v]) /\ Cardinality(new[v]) = times(v)
    <3>1. \A k, m \in Nat : /\ IsFiniteSet((k + 1)..(k + m))
                            /\ Cardinality((k + 1)..(k + m)) = m
      <4> TAKE k, m \in Nat
      <4>1. /\ IsFiniteSet((k + 1)..(k + m))
            /\ Cardinality((k + 1)..(k + m))
                 = IF k + 1 > k + m THEN 0 ELSE (k + m) - (k + 1) + 1
        BY FS_Interval
      <4> QED
        BY <4>1
    <3> QED
      BY <2>2, <2>3, <2>4, <3>1
  <2> HIDE DEF new
  <2>6. /\ Positions(p, Pen[v] \o [k \in 1..times(v) |-> p0])
             = Positions(p, Pen[v]) \cup (IF p = p0 THEN new[v] ELSE {})
        /\ Positions(p, Pen[v]) \cap new[v] = {}
    <3> DEFINE q == Pen[v]
               m == times(v)
               more == [k \in 1..m |-> p0]
    <3> HIDE DEF q, m
    <3>1. q \in Seq(PendingTweets) /\ m \in Nat
      BY <2>2, <2>3 DEF q, m
    <3>2. Repeats(more, m, p0)
      BY DEF Repeats
    <3>4. p0 \in PendingTweets
      BY <1>1
    <3> HIDE DEF more
    <3>3. /\ Positions(p, q \o more)
               = Positions(p, q) \cup (IF p = p0 THEN (Len(q) + 1)..(Len(q) + m) ELSE {})
          /\ Positions(p, q) \cap ((Len(q) + 1)..(Len(q) + m)) = {}
      BY ONLY <3>4, <3>1, <3>2, PositionsInMore
    <3> QED
      BY <2>4, <3>3 DEF q, m, more
  <2> QED
    BY <2>1, <2>5, <2>6
<1>8. /\ Finite(f) /\ DOMAIN f = Users /\ DOMAIN h = Users
      /\ PendingFor(p) = Total(f) /\ PendingFor(p)' = Total(h) /\ Total(f) \in Nat
  BY CountsAreNumbers DEF PendingFor, PendingEntries
<1>9. DOMAIN new = Users /\ DOMAIN at = Users
  BY DEF at
<1> HIDE DEF f, h, new
<1>10. CASE p = p0
  <2>1. Finite(new)
    BY <1>7, <1>9, UsersAssumption DEF Finite
  <2>2. Total(h) = Total(f) + Total(new)
    <3>1. \A v \in DOMAIN h : h[v] = f[v] \cup new[v] /\ f[v] \cap new[v] = {}
      BY <1>7, <1>8, <1>10
    <3> QED
      BY <1>8, <1>9, <2>1, <3>1, TotalsAddUp
  <2>3. Total(new) = Total(at)
    BY <1>4, <1>7, <1>9, <2>1, SameTotals
  <2>4. Making(s, p) = n
    BY <1>10 DEF Making, Forwards, p0, n
  <2> QED
    BY <1>4, <1>8, <2>2, <2>3, <2>4
<1>11. CASE p # p0
  <2>1. h = f
    BY <1>7, <1>8, <1>11 DEF PendingEntries, f, h
  <2>2. Making(s, p) = 0
    BY <1>11 DEF Making, Forwards, p0
  <2> QED
    BY <1>8, <2>1, <2>2
<1> QED
  BY <1>10, <1>11

-----------------------------------------------------------------------------
(***************************************************************************)
(* NoOrphanTweet.  It is inductive next to the order, which says that the  *)
(* entry a listener counts itself off is the one of its tweet, and to      *)
(* CopyOK: what a listener is about to clear is what it has copied, unless *)
(* another listener of the same user has cleared it in between.            *)
(***************************************************************************)
Waiting(p) == PendingFor(p) + TakenFor(p) + AboutToForward(p)

Remaining(u, i) == listOfReceivedTweets[u][i].numRecipientsRemaining

Covered ==
  \A u \in Users : \A i \in Received(u) : \A p \in PendingTweets :
    Names(p, u, i) => Remaining(u, i) <= Waiting(p)

CopyOK ==
  \A s \in Sessions : lis[s] = "clear" =>
    listOfPendingTweets[clientIndex[s]] \in {pendingTweets[s], <<>>}

LEMMA WaitingIsNumber ==
  ASSUME TypeInv, NEW p
  PROVE  /\ Waiting(p) \in Nat
         /\ PendingFor(p) \in Nat /\ TakenFor(p) \in Nat /\ AboutToForward(p) \in Nat
  BY CountsAreNumbers DEF Waiting

LEMMA RemainingIsNumber ==
  ASSUME TypeInv, NEW u \in Users, NEW i \in Received(u)
  PROVE  Remaining(u, i) \in Nat \ {0}
  BY ListTypes DEF TypeInv, ReceivedTweets, Remaining

(* No step but a listener's counting itself off lessens what covers a      *)
(* tweet.                                                                  *)
LEMMA WaitingClear ==
  ASSUME TypeInv, TypeInv', CopyOK, NEW s \in Sessions, Gets(s), ClearPending(s), NEW p
  PROVE  Waiting(p)' \in Nat /\ Waiting(p)' >= Waiting(p)
<1> DEFINE list == listOfPendingTweets[clientIndex[s]]
           copy == pendingTweets[s]
<1>1. list \in {copy, <<>>}
  BY DEF CopyOK, ClearPending, ListenerGoes
<1>2. Occurrences(p, copy) \in Nat
  BY PositionsFinite DEF TypeInv, ListenersTyped
<1>3. Occurrences(p, list) \in Nat /\ Occurrences(p, list) <= Occurrences(p, copy)
  BY <1>1, <1>2, NoPositions
<1>4. /\ PendingFor(p)' = PendingFor(p) - Occurrences(p, list)
      /\ TakenFor(p)' = TakenFor(p) + Occurrences(p, copy)
      /\ AboutToForward(p)' = AboutToForward(p)
  BY CountsClear
<1> HIDE DEF list, copy
<1> QED
  BY <1>2, <1>3, <1>4, WaitingIsNumber DEF Waiting

LEMMA MakingByPlace ==
  ASSUME TypeInv, TypeInv', NEW s \in Sessions, Posts(s), NEW p
  PROVE  \/ /\ UNCHANGED listOfPendingTweets
            /\ Making(s, p)' >= Making(s, p)
         \/ /\ PendingFor(p)' = PendingFor(p) + Making(s, p)
            /\ Making(s, p)' = 0
<1>0. spk \in [Sessions -> SpeakerStates] /\ followNum \in [Sessions -> Nat]
  BY DEF TypeInv, SpeakersTyped
<1>5. Making(s, p) \in Nat /\ Making(s, p)' \in Nat
  BY CountsPosting
<1>1. CASE TakeNumber(s) \/ CountFollowers(s) \/ LockAndCount(s) \/ RegisterUpdate(s)
  <2>1. spk[s] \notin {"recount", "forward"} /\ UNCHANGED listOfPendingTweets
    BY <1>1 DEF TakeNumber, takeTweetID, CountFollowers, LockAndCount, RegisterUpdate,
                registerUpdate, SpeakerGoes, dbVars
  <2>2. Making(s, p) = 0
    BY <2>1 DEF Making, Forwards
  <2> QED
    BY <1>5, <2>1, <2>2
<1>2. CASE Recount(s)
  <2>1. /\ spk[s] = "recount" /\ spk'[s] = "forward"
        /\ UNCHANGED <<listOfPendingTweets, clientIndex, tweetID>>
        /\ followNum'[s] = Len(listOfFollowers[clientIndex[s]])
    BY <1>0, <1>2 DEF Recount, SpeakerGoes, getNumFollowers, csVars, sessionVars, dbVars
  <2>2. followNum[s] \in 1..Len(listOfFollowers[clientIndex[s]])
    BY <2>1 DEF TypeInv, PlacesOK
  <2>3. Forwards(s, p)' <=> Forwards(s, p)
    BY <2>1 DEF Forwards
  <2>4. followNum'[s] >= followNum[s]
    BY <2>1, <2>2
  <2> QED
    BY <2>1, <2>3, <2>4 DEF Making
<1>3. CASE ForwardUpdate(s) /\ UNCHANGED <<dbVars, spk>>
  BY <1>3, <1>5 DEF ForwardUpdate, Posts, Making, Forwards, dbVars
<1>4. CASE /\ SpeakerGoes(s, "forward", "leave")
           /\ forwardUpdate(clientIndex[s], tweetID[s], followNum[s])
  <2>1. spk[s] = "forward" /\ spk'[s] = "leave"
    BY <1>0, <1>4 DEF SpeakerGoes
  <2>2. PendingFor(p)' = PendingFor(p) + Making(s, p)
    BY <1>4, <2>1, CountsForward
  <2>3. Making(s, p)' = 0
    BY <2>1 DEF Making, Forwards
  <2> QED
    BY <2>2, <2>3
<1> QED
  BY <1>1, <1>2, <1>3, <1>4 DEF Posts, ForwardUpdate

LEMMA WaitingPosts ==
  ASSUME TypeInv, TypeInv', NEW s \in Sessions, Posts(s), NEW p
  PROVE  Waiting(p)' \in Nat /\ Waiting(p)' >= Waiting(p)
<1>1. /\ AboutToForward(p)' = AboutToForward(p) - Making(s, p) + Making(s, p)'
      /\ TakenFor(p)' = TakenFor(p)
      /\ Making(s, p) \in Nat /\ Making(s, p)' \in Nat
  BY CountsPosting
<1>2. CASE UNCHANGED listOfPendingTweets /\ Making(s, p)' >= Making(s, p)
  BY <1>1, <1>2, PendingKept, WaitingIsNumber DEF Waiting
<1>3. CASE PendingFor(p)' = PendingFor(p) + Making(s, p) /\ Making(s, p)' = 0
  BY <1>1, <1>3, WaitingIsNumber DEF Waiting
<1> QED
  BY <1>2, <1>3, MakingByPlace

LEMMA CoveredWhileListsKept ==
  ASSUME TypeInv, TypeInv', Covered, UNCHANGED listOfReceivedTweets,
         \A p \in PendingTweets : Waiting(p)' \in Nat /\ Waiting(p)' >= Waiting(p)
  PROVE  Covered'
<1> SUFFICES ASSUME NEW u \in Users, NEW i \in Received(u), NEW p \in PendingTweets,
                    Names(p, u, i)
             PROVE  Remaining(u, i) <= Waiting(p)'
  BY DEF Covered, Received, Names, Remaining
<1>1. Remaining(u, i) \in Nat /\ Remaining(u, i) <= Waiting(p)
  BY RemainingIsNumber DEF Covered
<1>2. Waiting(p) \in Nat /\ Waiting(p)' \in Nat /\ Waiting(p)' >= Waiting(p)
  BY WaitingIsNumber
<1> QED
  BY <1>1, <1>2

LEMMA CoveredQuiet ==
  ASSUME TypeInv, TypeInv', Covered, Quiet
  PROVE  Covered'
<1>1. \A p \in PendingTweets : Waiting(p)' \in Nat /\ Waiting(p)' >= Waiting(p)
  BY PendingKept, TakenKept, ToMakeKept, WaitingIsNumber DEF Quiet, Waiting
<1> QED
  BY <1>1, CoveredWhileListsKept DEF Quiet

(* _registerUpdate adds one received tweet and keeps the others; nothing   *)
(* but the entries about to be made for that tweet changes.                *)
RegisteredBy(s) == PendingTweet(clientIndex[s], tweetID[s])

LEMMA RegisterShape ==
  ASSUME TypeInv, TypeInv', NEW s \in Sessions, Posts(s), RegisterUpdate(s)
  PROVE  /\ \A u \in Users : \A i \in Received(u)' :
              \/ i \in Received(u) /\ listOfReceivedTweets'[u][i] = listOfReceivedTweets[u][i]
              \/ /\ u = clientIndex[s]
                 /\ listOfReceivedTweets'[u][i] = TweetData(tweetID[s], followNum[s])
         /\ \A u \in Users : \A i \in Received(u) :
              i \in Received(u)' /\ listOfReceivedTweets'[u][i] = listOfReceivedTweets[u][i]
         /\ \E i \in Received(clientIndex[s])' :
              listOfReceivedTweets'[clientIndex[s]][i] = TweetData(tweetID[s], followNum[s])
         /\ clientIndex[s] \in Users /\ RegisteredBy(s) \in PendingTweets
         /\ \A p : /\ PendingFor(p)' = PendingFor(p) /\ TakenFor(p)' = TakenFor(p)
                   /\ AboutToForward(p)' = AboutToForward(p)
                                             + (IF p = RegisteredBy(s) THEN followNum[s] ELSE 0)
<1> DEFINE u0 == clientIndex[s]
           e == TweetData(tweetID[s], followNum[s])
           Rec == listOfReceivedTweets
           NewRec == listOfReceivedTweets'
<1>1. /\ u0 \in Users /\ e \in ReceivedTweets /\ followNum[s] \in Nat
      /\ spk[s] = "register" /\ spk'[s] = "recount"
      /\ UNCHANGED <<clientIndex, tweetID, followNum, listOfPendingTweets>>
      /\ NewRec = [Rec EXCEPT ![u0] = Append(Rec[u0], e)]
  BY DEF RegisterUpdate, registerUpdate, SpeakerGoes, TypeInv, ThreadsOK, PlacesOK,
         SpeakersTyped, TweetData, ReceivedTweets, csVars, sessionVars
<1>2. \A u \in Users : NewRec[u] = IF u = u0 THEN Append(Rec[u], e) ELSE Rec[u]
  BY <1>1 DEF TypeInv, DBTyped
<1>3. Rec[u0] \in Seq(ReceivedTweets) /\ Len(Rec[u0]) \in Nat
  BY <1>1, ListTypes DEF TypeInv
<1>4. /\ Len(NewRec[u0]) = Len(Rec[u0]) + 1
      /\ \A k \in 1..Len(Rec[u0]) : NewRec[u0][k] = Rec[u0][k]
      /\ NewRec[u0][Len(Rec[u0]) + 1] = e
  <2>1. NewRec[u0] = Append(Rec[u0], e)
    BY <1>1, <1>2
  <2> QED
    BY <1>1, <1>3, <2>1, AppendProperties
<1>5. ASSUME NEW u \in Users, NEW i \in Received(u)'
      PROVE  \/ i \in Received(u) /\ NewRec[u][i] = Rec[u][i]
             \/ u = u0 /\ NewRec[u][i] = e
  <2>1. CASE u # u0
    <3>1. NewRec[u] = Rec[u]
      BY <1>2, <2>1
    <3> QED
      BY <1>5, <3>1 DEF Received
  <2>2. CASE u = u0
    <3>1. /\ Len(NewRec[u]) = Len(Rec[u]) + 1 /\ Len(Rec[u]) \in Nat
          /\ \A k \in 1..Len(Rec[u]) : NewRec[u][k] = Rec[u][k]
          /\ NewRec[u][Len(Rec[u]) + 1] = e
      BY <1>3, <1>4, <2>2
    <3>2. i \in 1..(Len(Rec[u]) + 1)
      BY <1>5, <3>1 DEF Received
    <3> QED
      BY <2>2, <3>1, <3>2 DEF Received
  <2> QED
    BY <2>1, <2>2
<1>6. ASSUME NEW u \in Users, NEW i \in Received(u)
      PROVE  i \in Received(u)' /\ NewRec[u][i] = Rec[u][i]
  BY <1>2, <1>3, <1>4 DEF Received
<1>7. \E i \in Received(u0)' : NewRec[u0][i] = e
  <2>1. Len(Rec[u0]) + 1 \in 1..Len(NewRec[u0])
    BY <1>3, <1>4
  <2>2. \E i \in 1..Len(NewRec[u0]) : NewRec[u0][i] = e
    BY <1>4, <2>1
  <2>3. UNCHANGED u0
    BY <1>1
  <2> QED
    BY <2>2, <2>3 DEF Received
<1>8. ASSUME NEW p
      PROVE  /\ PendingFor(p)' = PendingFor(p) /\ TakenFor(p)' = TakenFor(p)
             /\ AboutToForward(p)' = AboutToForward(p)
                                       + (IF p = RegisteredBy(s) THEN followNum[s] ELSE 0)
  <2>1. Making(s, p) = 0 /\ Making(s, p)' = IF p = RegisteredBy(s) THEN followNum[s] ELSE 0
    BY <1>1 DEF Making, Forwards, RegisteredBy
  <2>2. /\ AboutToForward(p)' = AboutToForward(p) - Making(s, p) + Making(s, p)'
        /\ TakenFor(p)' = TakenFor(p)
    BY CountsPosting
  <2>3. PendingFor(p)' = PendingFor(p)
    BY <1>1, PendingKept
  <2> QED
    BY <1>1, <2>1, <2>2, <2>3, WaitingIsNumber
<1>9. RegisteredBy(s) \in PendingTweets
  BY <1>1 DEF RegisteredBy, PendingTweet, PendingTweets, TypeInv, SpeakersTyped
<1> HIDE DEF u0, e
<1> QED
  BY <1>1, <1>5, <1>6, <1>7, <1>8, <1>9 DEF u0, e

LEMMA CoveredPosts ==
  ASSUME TypeInv, TypeInv', Covered, NEW s \in Sessions, Posts(s)
  PROVE  Covered'
<1>1. CASE UNCHANGED listOfReceivedTweets
  BY <1>1, WaitingPosts, CoveredWhileListsKept
<1>2. CASE RegisterUpdate(s)
  <2> DEFINE Rec == listOfReceivedTweets
             NewRec == listOfReceivedTweets'
  <2>1. ASSUME NEW u \in Users, NEW i \in Received(u)', NEW p \in PendingTweets,
               p = PendingTweet(u, NewRec[u][i].tweetID)
        PROVE  NewRec[u][i].numRecipientsRemaining <= Waiting(p)'
    <3>1. CASE i \in Received(u) /\ NewRec[u][i] = Rec[u][i]
      <4>1. Remaining(u, i) \in Nat /\ Remaining(u, i) <= Waiting(p)
        BY <2>1, <3>1, RemainingIsNumber DEF Covered, Names
      <4>2. Waiting(p)' >= Waiting(p) /\ Waiting(p) \in Nat /\ Waiting(p)' \in Nat
        BY WaitingPosts, WaitingIsNumber
      <4> QED
        BY <3>1, <4>1, <4>2 DEF Remaining
    <3>2. CASE u = clientIndex[s] /\ NewRec[u][i] = TweetData(tweetID[s], followNum[s])
      <4>1. p = RegisteredBy(s) /\ NewRec[u][i].numRecipientsRemaining = followNum[s]
        BY <2>1, <3>2 DEF TweetData, RegisteredBy
      <4>2. followNum[s] \in Nat
        BY DEF TypeInv, SpeakersTyped
      <4>3. Waiting(p)' = Waiting(p) + followNum[s]
        BY <1>2, <4>1, <4>2, RegisterShape, WaitingIsNumber DEF Waiting
      <4> QED
        BY <4>1, <4>2, <4>3, WaitingIsNumber
    <3> QED
      BY <1>2, <2>1, <3>1, <3>2, RegisterShape
  <2> QED
    BY <2>1 DEF Covered, Names, Remaining
<1> QED
  BY <1>1, <1>2 DEF Posts, TakeNumber, takeTweetID, CountFollowers, LockAndCount, Recount,
                    ForwardUpdate, forwardUpdate, dbVars

(* _updateReceivedTweet counts the tweet taken off, and no other: the      *)
(* entry found is the one entry of that tweet.                             *)
TakenOff(s) == Head(pendingTweets[s])

LEMMA UpdateShape ==
  ASSUME TypeInv, TypeInv', OrderInv, NEW s \in Sessions, Gets(s), UpdateTweet(s)
  PROVE  /\ TakenOff(s) \in PendingTweets
         /\ \A p : Waiting(p)' = Waiting(p) - (IF TakenOff(s) = p THEN 1 ELSE 0)
         /\ \A u \in Users : \E r, src :
              /\ CountedOff(listOfReceivedTweets[u], listOfReceivedTweets'[u], r, src)
              /\ \A k \in Received(u) : Names(TakenOff(s), u, k) <=> k = r
<1> DEFINE p0 == TakenOff(s)
           Rec == listOfReceivedTweets
<1>1. p0 \in PendingTweets /\ updateReceivedTweet(p0)
  BY HeadTailProperties DEF TypeInv, ListenersTyped, UpdateTweet, ListenerGoes, Counting, TakenOff
<1>2. \A p : /\ PendingFor(p)' = PendingFor(p)
             /\ TakenFor(p)' = TakenFor(p) - (IF p0 = p THEN 1 ELSE 0)
             /\ AboutToForward(p)' = AboutToForward(p)
  BY CountsUpdate DEF TakenOff
<1> HIDE DEF p0
<1>3. \A p : Waiting(p)' = Waiting(p) - (IF p0 = p THEN 1 ELSE 0)
  BY <1>2, WaitingIsNumber DEF Waiting
<1>4. ASSUME NEW u \in Users
      PROVE  \E r, src : /\ CountedOff(Rec[u], listOfReceivedTweets'[u], r, src)
                         /\ \A k \in Received(u) : Names(p0, u, k) <=> k = r
  <2> DEFINE r == IF u = p0.userAuthor THEN receivedIndex(p0) ELSE 0
  <2>1. PICK src : CountedOff(Rec[u], listOfReceivedTweets'[u], r, src)
    BY <1>1, UpdateReceivedRemains DEF TypeInv
  <2>2. Rec[u] \in Seq(ReceivedTweets)
    BY ListTypes DEF TypeInv
  <2>3. ASSUME NEW k \in Received(u)
        PROVE  Names(p0, u, k) <=> k = r
    <3>1. Names(p0, u, k) <=> p0.userAuthor = u /\ p0.tweetID = Rec[u][k].tweetID
      BY <1>1 DEF Names, PendingTweet, PendingTweets
    <3>2. CASE u # p0.userAuthor
      BY <3>1, <3>2 DEF Received
    <3>3. CASE u = p0.userAuthor
      <4>1. \/ r \in Received(u) /\ Rec[u][r].tweetID = p0.tweetID
            \/ r = 0 /\ \A j \in Received(u) : Rec[u][j].tweetID # p0.tweetID
        BY <2>2, <3>3, ReceivedIndexFound DEF Received
      <4>2. \A i, j \in Received(u) : Rec[u][i].tweetID = Rec[u][j].tweetID => i = j
        BY DEF OrderInv, NumbersOK, ReceivedFresh
      <4>3. k # 0
        BY DEF Received
      <4> HIDE DEF r
      <4> QED
        BY <3>1, <3>3, <4>1, <4>2, <4>3
    <3> QED
      BY <3>2, <3>3
  <2> HIDE DEF r
  <2> QED
    BY <2>1, <2>3
<1> QED
  BY <1>1, <1>3, <1>4 DEF p0

LEMMA CoveredUpdate ==
  ASSUME TypeInv, TypeInv', OrderInv, Covered, NEW s \in Sessions, Gets(s), UpdateTweet(s)
  PROVE  Covered'
<1> DEFINE NewRec == listOfReceivedTweets'
<1>1. ASSUME NEW u \in Users, NEW i \in Received(u)', NEW p \in PendingTweets,
             p = PendingTweet(u, NewRec[u][i].tweetID)
      PROVE  NewRec[u][i].numRecipientsRemaining <= Waiting(p)'
  <2>1. PICK r, src : /\ CountedOff(listOfReceivedTweets[u], NewRec[u], r, src)
                      /\ \A k \in Received(u) : Names(TakenOff(s), u, k) <=> k = r
    BY UpdateShape
  <2> DEFINE k == src[i]
  <2>2. /\ k \in Received(u) /\ Names(p, u, k)
        /\ NewRec[u][i].numRecipientsRemaining = Remaining(u, k) - (IF k = r THEN 1 ELSE 0)
    BY <1>1, <2>1 DEF CountedOff, Received, Names, Remaining
  <2> HIDE DEF k
  <2>3. p = TakenOff(s) => k = r
    BY <2>1, <2>2
  <2>4. Remaining(u, k) \in Nat /\ Remaining(u, k) <= Waiting(p) /\ Waiting(p) \in Nat
    BY <2>2, RemainingIsNumber, WaitingIsNumber DEF Covered
  <2>5. Waiting(p)' = Waiting(p) - (IF TakenOff(s) = p THEN 1 ELSE 0)
    BY UpdateShape
  <2> QED
    BY <2>2, <2>3, <2>4, <2>5
<1> QED
  BY <1>1 DEF Covered, Remaining, Names

(* What a listener copies is nobody's yet.                                 *)
LEMMA TakenByCopy ==
  ASSUME TypeInv, NEW s \in Sessions, Gets(s), CopyPending(s), NEW p
  PROVE  TakenFor(p)' = TakenFor(p)
<1>1. \A t \in Sessions : lis'[t] \in Counting <=> lis[t] \in Counting
  BY DEF Gets, Holds, CopyPending, ListenerGoes, Counting, TypeInv, ListenersTyped
<1>2. \A t \in Sessions : lis[t] \in Counting => pendingTweets'[t] = pendingTweets[t]
  BY DEF Gets, Holds, CopyPending, ListenerGoes, Counting, TypeInv, ListenersTyped
<1>3. TakenEntries(p)' = TakenEntries(p)
  BY <1>1, <1>2 DEF TakenEntries
<1> QED
  BY <1>3 DEF TakenFor

LEMMA CoveredRetrieve ==
  ASSUME TypeInv, TypeInv', OrderInv, CopyOK, Covered, NEW s \in Sessions, Gets(s)
  PROVE  Covered'
<1>1. CASE ClearPending(s)
  BY <1>1, WaitingClear, CoveredWhileListsKept DEF ClearPending, clearPendingTweets
<1>2. CASE UpdateTweet(s)
  BY <1>2, CoveredUpdate
<1>3. CASE CopyPending(s)
  <2>1. \A p \in PendingTweets : TakenFor(p)' = TakenFor(p)
    BY <1>3, TakenByCopy
  <2>2. \A p \in PendingTweets : Waiting(p)' \in Nat /\ Waiting(p)' >= Waiting(p)
    BY <1>3, <2>1, PendingKept, ToMakeKept, WaitingIsNumber DEF Gets, Waiting, CopyPending, dbVars
  <2> QED
    BY <1>3, <2>2, CoveredWhileListsKept DEF CopyPending, dbVars
<1> QED
  BY <1>1, <1>2, <1>3 DEF Gets

LEMMA CopyKept ==
  ASSUME TypeInv, CopyOK, [Next]_vars
  PROVE  CopyOK'
<1>1. ASSUME NEW s \in Sessions, lis[s] = "clear", Holds(s), UNCHANGED clientIndex,
             \A v \in Users : listOfPendingTweets'[v] \in {listOfPendingTweets[v], <<>>}
      PROVE  listOfPendingTweets'[clientIndex'[s]] \in {pendingTweets'[s], <<>>}
  <2>1. clientIndex[s] \in Users
    BY <1>1 DEF TypeInv, ThreadsOK
  <2>2. pendingTweets'[s] = pendingTweets[s]
    BY <1>1 DEF Holds
  <2> QED
    BY <1>1, <2>1, <2>2 DEF CopyOK
<1>2. CASE Quiet
  BY <1>2 DEF Quiet, CopyOK, Holds
<1>3. ASSUME NEW s \in Sessions, Posts(s)
      PROVE  CopyOK'
  <2>1. CASE UNCHANGED listOfPendingTweets
    BY <1>3, <2>1 DEF Posts, CopyOK, Holds
  <2>2. CASE ForwardUpdate(s)
    <3>1. \A t \in Sessions : lis'[t] # "clear"
      BY <1>3, <2>2 DEF ForwardUpdate, Posts, Holds
    <3> QED
      BY <3>1 DEF CopyOK
  <2> QED
    BY <1>3, <2>1, <2>2
    DEF Posts, TakeNumber, takeTweetID, CountFollowers, LockAndCount, RegisterUpdate,
        registerUpdate, Recount, dbVars
<1>4. ASSUME NEW s \in Sessions, Gets(s)
      PROVE  CopyOK'
  <2>1. /\ UNCHANGED clientIndex
        /\ \A v \in Users : listOfPendingTweets'[v] \in {listOfPendingTweets[v], <<>>}
        /\ \A t \in Sessions \ {s} : Holds(t)
    BY <1>4 DEF Gets, CopyPending, ClearPending, clearPendingTweets, UpdateTweet,
                updateReceivedTweet, dbVars, TypeInv, DBTyped
  <2>2. \A t \in Sessions \ {s} : lis'[t] = "clear" =>
          listOfPendingTweets'[clientIndex'[t]] \in {pendingTweets'[t], <<>>}
    BY <1>1, <2>1 DEF Holds
  <2>3. lis'[s] = "clear" => listOfPendingTweets'[clientIndex'[s]] = pendingTweets'[s]
    BY <1>4 DEF Gets, CopyPending, ClearPending, UpdateTweet, ListenerGoes, TypeInv,
                ListenersTyped, dbVars
  <2> QED
    BY <2>2, <2>3 DEF CopyOK
<1> QED
  BY <1>2, <1>3, <1>4, StepShape

LEMMA CoveredStep ==
  ASSUME TypeInv, TypeInv', OrderInv, CopyOK, Covered, [Next]_vars
  PROVE  Covered'
  BY StepShape, CoveredQuiet, CoveredPosts, CoveredRetrieve

LEMMA CoveredGivesNoOrphan ==
  ASSUME TypeInv, Covered
  PROVE  NoOrphanTweet
<1> SUFFICES ASSUME NEW u \in Users, NEW i \in DOMAIN listOfReceivedTweets[u],
                    NEW p, p = PendingTweet(u, listOfReceivedTweets[u][i].tweetID)
             PROVE  Remaining(u, i) <= PendingFor(p) + TakenFor(p) + AboutToForward(p)
  BY DEF NoOrphanTweet, Remaining
<1>1. i \in Received(u)
  BY SequenceFacts DEF TypeInv, DBTyped, Received
<1>2. p \in PendingTweets /\ Names(p, u, i)
  BY <1>1, ListTypes DEF TypeInv, ReceivedTweets, PendingTweets, PendingTweet, Names
<1> QED
  BY <1>1, <1>2 DEF Covered, Waiting

LEMMA AccountsInv ==
  Spec => [](TypeInv /\ OrderInv /\ CopyOK /\ Covered)
<1>1. Init => OrderInv /\ CopyOK /\ Covered
  <2>1. Init => Covered
    BY EmptyAtFirst DEF Covered
  <2>2. Init => CopyOK
    BY DEF Init, CopyOK
  <2> QED
    BY <2>1, <2>2, OrderInit
<1>2. TypeInv /\ TypeInv' /\ OrderInv /\ CopyOK /\ Covered /\ [Next]_vars
        => OrderInv' /\ CopyOK' /\ Covered'
  BY OrderStep, CopyKept, CoveredStep
<1> QED
  BY <1>1, <1>2, ServerInvariant, PTL DEF Spec

(* No received tweet waits for more recipients than are still going to     *)
(* count themselves off, so that it is erased in the end: not when the     *)
(* same user's listeners retrieve at the same time, nor when followers     *)
(* come between a tweet's registration and its forwarding.                 *)
THEOREM EveryTweetIsCountedDown == Spec => []NoOrphanTweet
<1>1. TypeInv /\ OrderInv /\ CopyOK /\ Covered => NoOrphanTweet
  BY CoveredGivesNoOrphan
<1> QED
  BY <1>1, AccountsInv, PTL

-----------------------------------------------------------------------------
(***************************************************************************)
(* SnapshotHasNoOrphan.  Every thread at a place inside a query is counted *)
(* in query_cnt, which may be higher: a refused follow stays counted.      *)
(***************************************************************************)
ListenersInQuery ==
  {s \in Sessions : lis[s] \notin {"stopped", "pitstop", "checkDuplicates", "retrieve"}}
SpeakersInQuery == {s \in Sessions : spk[s] \notin {"stopped", "idle"}}

GateInv ==
  /\ Cardinality(ListenersInQuery) + Cardinality(SpeakersInQuery) <= query_cnt
  /\ saver = "saving" => query_cnt = 0

LEMMA SubsetsOfSessions ==
  ASSUME NEW A \in SUBSET Sessions
  PROVE  /\ IsFiniteSet(A) /\ Cardinality(A) \in Nat
         /\ \A B : B \subseteq A => Cardinality(B) \in Nat /\ Cardinality(B) <= Cardinality(A)
         /\ \A s \in Sessions \ A : Cardinality(A \cup {s}) = Cardinality(A) + 1
         /\ \A s \in A : Cardinality(A \ {s}) = Cardinality(A) - 1
<1>1. IsFiniteSet(A)
  BY SessionsAssumption, FS_Subset
<1> QED
  BY <1>1, FS_CardinalityType, FS_Subset, FS_AddElement, FS_RemoveElement

(* A query entered by a listener or a speaker, and one left.               *)
LEMMA OneMoreQuery ==
  ASSUME TypeInv, GateInv, EnterQuery, NEW s \in Sessions,
         \/ /\ s \notin ListenersInQuery /\ ListenersInQuery' = ListenersInQuery \cup {s}
            /\ SpeakersInQuery' = SpeakersInQuery
         \/ /\ s \notin SpeakersInQuery /\ SpeakersInQuery' = SpeakersInQuery \cup {s}
            /\ ListenersInQuery' = ListenersInQuery
  PROVE  GateInv'
<1>1. ListenersInQuery \in SUBSET Sessions /\ SpeakersInQuery \in SUBSET Sessions
  BY DEF ListenersInQuery, SpeakersInQuery
<1>2. query_cnt \in Nat /\ query_cnt' = query_cnt + 1 /\ saver' # "saving"
  BY DEF EnterQuery, TypeInv, GateTyped
<1>3. Cardinality(ListenersInQuery') + Cardinality(SpeakersInQuery')
        = Cardinality(ListenersInQuery) + Cardinality(SpeakersInQuery) + 1
  BY <1>1, SubsetsOfSessions
<1> QED
  BY <1>1, <1>2, <1>3, SubsetsOfSessions DEF GateInv

LEMMA OneQueryLess ==
  ASSUME TypeInv, GateInv, LeaveQuery, NEW s \in Sessions,
         \/ /\ s \in ListenersInQuery /\ ListenersInQuery' = ListenersInQuery \ {s}
            /\ SpeakersInQuery' = SpeakersInQuery
         \/ /\ s \in SpeakersInQuery /\ SpeakersInQuery' = SpeakersInQuery \ {s}
            /\ ListenersInQuery' = ListenersInQuery
  PROVE  GateInv'
<1>1. ListenersInQuery \in SUBSET Sessions /\ SpeakersInQuery \in SUBSET Sessions
  BY DEF ListenersInQuery, SpeakersInQuery
<1>2. query_cnt \in Nat /\ query_cnt' = query_cnt - 1 /\ saver' # "saving"
  BY DEF LeaveQuery, TypeInv, GateTyped, GateInv
<1>3. Cardinality(ListenersInQuery') + Cardinality(SpeakersInQuery')
        = Cardinality(ListenersInQuery) + Cardinality(SpeakersInQuery) - 1
  BY <1>1, SubsetsOfSessions
<1> QED
  BY <1>1, <1>2, <1>3, SubsetsOfSessions DEF GateInv

LEMMA NoMoreQueries ==
  ASSUME TypeInv, GateInv, UNCHANGED gateVars,
         ListenersInQuery' \subseteq ListenersInQuery, SpeakersInQuery' \subseteq SpeakersInQuery
  PROVE  GateInv'
<1>1. ListenersInQuery \in SUBSET Sessions /\ SpeakersInQuery \in SUBSET Sessions
  BY DEF ListenersInQuery, SpeakersInQuery
<1>2. /\ Cardinality(ListenersInQuery) \in Nat /\ Cardinality(SpeakersInQuery) \in Nat
      /\ Cardinality(ListenersInQuery') \in Nat /\ Cardinality(SpeakersInQuery') \in Nat
      /\ Cardinality(ListenersInQuery') <= Cardinality(ListenersInQuery)
      /\ Cardinality(SpeakersInQuery') <= Cardinality(SpeakersInQuery)
  BY <1>1, SubsetsOfSessions
<1> QED
  BY <1>2 DEF GateInv, gateVars, TypeInv, GateTyped

LEMMA GateStep ==
  ASSUME TypeInv, GateInv, [Next]_vars
  PROVE  GateInv'
<1> USE DEF TypeInv, ListenersTyped, SpeakersTyped
<1>1. ASSUME NEW s \in Sessions, AcceptClient(s) \/ CloseClient(s) \/ SessionStep(s)
      PROVE  GateInv'
  <2>1. UNCHANGED gateVars
    BY <1>1 DEF AcceptClient, CloseClient, SessionStep
  <2>2. ListenersInQuery' \subseteq ListenersInQuery /\ SpeakersInQuery' \subseteq SpeakersInQuery
    BY <1>1 DEF AcceptClient, CloseClient, SessionStep, listenerVars, speakerVars,
                ListenersInQuery, SpeakersInQuery
  <2> QED
    BY <2>1, <2>2, NoMoreQueries
<1>2. ASSUME NEW s \in Sessions, ListenerStep(s)
      PROVE  GateInv'
  <2>1. SpeakersInQuery' = SpeakersInQuery
    BY <1>2 DEF ListenerStep, speakerVars, SpeakersInQuery
  <2>2. CASE BeginRetrieve(s)
    <3>1. s \notin ListenersInQuery /\ ListenersInQuery' = ListenersInQuery \cup {s}
      BY <2>2 DEF BeginRetrieve, ListenerGoes, ListenersInQuery
    <3> QED
      BY <2>1, <2>2, <3>1, OneMoreQuery DEF BeginRetrieve
  <2>3. CASE EndRetrieve(s)
    <3>1. s \in ListenersInQuery /\ ListenersInQuery' = ListenersInQuery \ {s}
      BY <2>3 DEF EndRetrieve, ListenerGoes, ListenersInQuery
    <3> QED
      BY <2>1, <2>3, <3>1, OneQueryLess DEF EndRetrieve
  <2>4. CASE ~(BeginRetrieve(s) \/ EndRetrieve(s))
    <3>1. UNCHANGED gateVars
      BY <1>2, <2>4
      DEF ListenerStep, Retrieve, CheckPending, CheckDuplicates, CheckAnonymous, CopyPending,
          ClearPending, FindConnection, TakeDuplicates, LookUpTweets, CheckTwoConnections,
          ArchiveTweet, UpdateTweet
    <3>2. \A t \in Sessions : t \in ListenersInQuery' => t \in ListenersInQuery
      BY <1>2, <2>4
      DEF ListenerStep, Retrieve, CheckPending, CheckDuplicates, CheckAnonymous, CopyPending,
          ClearPending, FindConnection, TakeDuplicates, LookUpTweets, CheckTwoConnections,
          ArchiveTweet, UpdateTweet, ListenerGoes, AfterCheck, listenerVars, ListenersInQuery
    <3> QED
      BY <2>1, <3>1, <3>2, NoMoreQueries DEF ListenersInQuery
  <2> QED
    BY <2>2, <2>3, <2>4
<1>3. ASSUME NEW s \in Sessions, SpeakerStep(s) \/ \E r \in Requests[s] : BeginRequest(s, r)
      PROVE  GateInv'
  <2>1. ListenersInQuery' = ListenersInQuery
    BY <1>3 DEF SpeakerStep, BeginRequest, listenerVars, ListenersInQuery
  <2>2. CASE \E r \in Requests[s] : BeginRequest(s, r)
    <3>1. s \notin SpeakersInQuery /\ SpeakersInQuery' = SpeakersInQuery \cup {s}
      BY <2>2 DEF BeginRequest, SpeakerGoes, SpeakersInQuery
    <3> QED
      BY <2>1, <2>2, <3>1, OneMoreQuery DEF BeginRequest
  <2>3. CASE EndRequest(s)
    <3>1. s \in SpeakersInQuery /\ SpeakersInQuery' = SpeakersInQuery \ {s}
      BY <2>3 DEF EndRequest, SpeakerGoes, SpeakersInQuery
    <3> QED
      BY <2>1, <2>3, <3>1, OneQueryLess DEF EndRequest
  <2>4. CASE SpeakerStep(s) /\ ~EndRequest(s)
    <3>1. UNCHANGED gateVars
      BY <2>4 DEF SpeakerStep, TakeNumber, CountFollowers, LockAndCount, RegisterUpdate, Recount,
                  ForwardUpdate, CheckFollow, PushFollow, StopSpeaker
    <3>2. \A t \in Sessions : t \in SpeakersInQuery' => t \in SpeakersInQuery
      BY <2>4 DEF SpeakerStep, TakeNumber, CountFollowers, LockAndCount, RegisterUpdate, Recount,
                  ForwardUpdate, CheckFollow, PushFollow, StopSpeaker, SpeakerGoes, SpeakersInQuery
    <3> QED
      BY <2>1, <3>1, <3>2, NoMoreQueries DEF SpeakersInQuery
  <2> QED
    BY <1>3, <2>2, <2>3, <2>4
<1>4. CASE SaverStep
  <2>1. ListenersInQuery' = ListenersInQuery /\ SpeakersInQuery' = SpeakersInQuery
    BY <1>4 DEF SaverStep, listenerVars, speakerVars, ListenersInQuery, SpeakersInQuery
  <2> QED
    BY <1>4, <2>1 DEF SaverStep, BeginSave, Save, EndSave, GateInv
<1>5. CASE UNCHANGED vars
  BY <1>5 DEF vars, gateVars, listenerVars, speakerVars, GateInv, ListenersInQuery, SpeakersInQuery
<1> QED
  BY <1>1, <1>2, <1>3, <1>4, <1>5 DEF Next, SessionNext

LEMMA TotalOfNothing ==
  ASSUME NEW f, \A x \in DOMAIN f : f[x] = {}
  PROVE  Total(f) = 0
<1>1. Members(f) = {}
  BY DEF Members
<1> QED
  BY <1>1, FS_EmptySet DEF Total

LEMMA CoveredInSnapshot ==
  ASSUME TypeInv, Covered, GateInv
  PROVE  SnapshotHasNoOrphan
<1> SUFFICES ASSUME saver = "saving", NEW u \in Users,
                    NEW i \in DOMAIN listOfReceivedTweets[u],
                    NEW p, p = PendingTweet(u, listOfReceivedTweets[u][i].tweetID)
             PROVE  Remaining(u, i) <= PendingFor(p)
  BY DEF SnapshotHasNoOrphan, Remaining
<1>1. i \in Received(u)
  BY SequenceFacts DEF TypeInv, DBTyped, Received
<1>2. p \in PendingTweets /\ Names(p, u, i)
  BY <1>1, ListTypes DEF TypeInv, ReceivedTweets, PendingTweets, PendingTweet, Names
<1>3. Remaining(u, i) <= PendingFor(p) + TakenFor(p) + AboutToForward(p)
  BY <1>1, <1>2 DEF Covered, Waiting
<1>4. ListenersInQuery = {} /\ SpeakersInQuery = {}
  <2>1. ListenersInQuery \in SUBSET Sessions /\ SpeakersInQuery \in SUBSET Sessions
    BY DEF ListenersInQuery, SpeakersInQuery
  <2>2. Cardinality(ListenersInQuery) = 0 /\ Cardinality(SpeakersInQuery) = 0
    BY <2>1, SubsetsOfSessions DEF GateInv
  <2> QED
    BY <2>1, <2>2, SubsetsOfSessions, FS_EmptySet
<1>5. TakenFor(p) = 0
  <2>1. \A s \in Sessions : lis[s] \notin Counting
    BY <1>4 DEF ListenersInQuery, Counting
  <2> QED
    BY <2>1, TotalOfNothing DEF TakenFor, TakenEntries
<1>6. AboutToForward(p) = 0
  <2>1. \A s \in Sessions : ~Forwards(s, p)
    BY <1>4 DEF SpeakersInQuery, Forwards
  <2> QED
    BY <2>1, TotalOfNothing DEF AboutToForward, EntriesToMake
<1> QED
  BY <1>1, <1>3, <1>5, <1>6, WaitingIsNumber, RemainingIsNumber

(* A save never writes a received tweet that waits for a recipient who has *)
(* it only in a thread: after a restart from what it wrote, every received *)
(* tweet can still be counted down to its end.                             *)
THEOREM SnapshotIsClosed == Spec => []SnapshotHasNoOrphan
<1>1. Init => GateInv
  <2> SUFFICES ASSUME Init PROVE GateInv
    OBVIOUS
  <2>1. ListenersInQuery = {} /\ SpeakersInQuery = {}
    BY DEF Init, ListenersInQuery, SpeakersInQuery
  <2>2. Cardinality(ListenersInQuery) = 0 /\ Cardinality(SpeakersInQuery) = 0
    BY <2>1, FS_EmptySet
  <2>3. query_cnt = 0 /\ saver = "idle"
    BY DEF Init, GateInit
  <2> QED
    BY <2>2, <2>3 DEF GateInv
<1>2. TypeInv /\ GateInv /\ [Next]_vars => GateInv'
  BY GateStep
<1>3. TypeInv /\ Covered /\ GateInv => SnapshotHasNoOrphan
  BY CoveredInSnapshot
<1> QED
  BY <1>1, <1>2, <1>3, AccountsInv, PTL DEF Spec

-----------------------------------------------------------------------------
(***************************************************************************)
(* ExactAccounting holds when each user has one connection and nobody      *)
(* starts to follow (a request to follow a user there is not is refused).  *)
(***************************************************************************)
OneConnectionEach == \A s, t \in Sessions : Login[s] = Login[t] /\ Login[s] \in Users => s = t

NobodyStartsToFollow == \A s \in Sessions : Requests[s] \subseteq {UPDATE, NoUser}

CalmInv ==
  /\ \A s \in Sessions : clientIndex[s] \in {Login[s], NoUser}
  /\ \A s \in Sessions : /\ spk[s] # "push"
                         /\ spk[s] = "follow" => request[s] = NoUser
  /\ \A s \in Sessions : spk[s] \in InMutex => followNum[s] = Len(listOfFollowers[clientIndex[s]])

LEMMA FollowersKept ==
  ASSUME CalmInv, [Next]_vars
  PROVE  UNCHANGED listOfFollowers
<1>1. ASSUME NEW s \in Sessions, SessionNext(s)
      PROVE  UNCHANGED listOfFollowers
  <2>1. CASE \/ AcceptClient(s) \/ CloseClient(s) \/ SessionStep(s)
             \/ \E r \in Requests[s] : BeginRequest(s, r)
    BY <2>1 DEF AcceptClient, CloseClient, SessionStep, BeginRequest, dbVars
  <2>2. CASE ListenerStep(s)
    BY <2>2 DEF ListenerStep, Retrieve, CheckPending, CheckDuplicates, CheckAnonymous,
                BeginRetrieve, CopyPending, ClearPending, clearPendingTweets, FindConnection,
                TakeDuplicates, LookUpTweets, CheckTwoConnections, ArchiveTweet, UpdateTweet,
                updateReceivedTweet, EndRetrieve, dbVars
  <2>3. CASE SpeakerStep(s)
    <3>1. ~PushFollow(s)
      BY DEF CalmInv, PushFollow, SpeakerGoes
    <3> QED
      BY <2>3, <3>1 DEF SpeakerStep, TakeNumber, takeTweetID, CountFollowers, LockAndCount,
                        RegisterUpdate, registerUpdate, Recount, ForwardUpdate, forwardUpdate,
                        CheckFollow, EndRequest, StopSpeaker, dbVars
  <2> QED
    BY <1>1, <2>1, <2>2, <2>3 DEF SessionNext
<1>2. CASE SaverStep \/ UNCHANGED vars
  BY <1>2 DEF SaverStep, vars, dbVars
<1> QED
  BY <1>1, <1>2 DEF Next

LEMMA CalmSessions ==
  ASSUME TypeInv, CalmInv, [Next]_vars, NEW t \in Sessions
  PROVE  clientIndex'[t] \in {Login[t], NoUser}
<1>1. CASE UNCHANGED clientIndex
  BY <1>1 DEF CalmInv
<1>2. ASSUME NEW s \in Sessions, AcceptClient(s) \/ (SessionStep(s) /\ SignIn(s))
      PROVE  clientIndex'[t] \in {Login[t], NoUser}
  BY <1>2 DEF AcceptClient, Accept, SignIn, CalmInv, TypeInv, SessionsOK
<1>3. ASSUME NEW s \in Sessions, SessionNext(s)
      PROVE  UNCHANGED clientIndex \/ AcceptClient(s) \/ (SessionStep(s) /\ SignIn(s))
  <2>1. CASE CloseClient(s) \/ SessionStep(s)
    BY <2>1 DEF CloseClient, Close, SessionStep, Register, Disconnect
  <2>2. CASE ListenerStep(s)
    BY <2>2 DEF ListenerStep, Retrieve, CheckPending, CheckDuplicates, CheckAnonymous,
           BeginRetrieve, CopyPending, ClearPending, FindConnection, TakeDuplicates, LookUpTweets,
           CheckTwoConnections, ArchiveTweet, UpdateTweet, EndRetrieve, LookUp, AskDuplicates,
           AskTwoConnections, Archive, TakeArchive, EndCall, WildRead, csVars, sessionVars
  <2>3. CASE SpeakerStep(s) \/ \E r \in Requests[s] : BeginRequest(s, r)
    BY <2>3 DEF SpeakerStep, BeginRequest, TakeNumber, CountFollowers, LockAndCount,
           RegisterUpdate, Recount, ForwardUpdate, CheckFollow, PushFollow, EndRequest,
           StopSpeaker, csVars, sessionVars
  <2> QED
    BY <1>3, <2>1, <2>2, <2>3 DEF SessionNext
<1>4. CASE SaverStep \/ UNCHANGED vars
  BY <1>1, <1>4 DEF SaverStep, vars, csVars, sessionVars
<1> QED
  BY <1>1, <1>2, <1>3, <1>4 DEF Next

LEMMA CalmSpeakers ==
  ASSUME NobodyStartsToFollow, TypeInv, CalmInv, [Next]_vars, NEW t \in Sessions
  PROVE  spk'[t] # "push" /\ (spk'[t] = "follow" => request'[t] = NoUser)
<1> USE DEF TypeInv, SpeakersTyped
<1>1. CASE UNCHANGED <<spk, request>>
  BY <1>1 DEF CalmInv
<1>2. ASSUME NEW s \in Sessions, AcceptClient(s)
      PROVE  spk'[t] # "push" /\ (spk'[t] = "follow" => request'[t] = NoUser)
  BY <1>2 DEF AcceptClient, CalmInv
<1>3. ASSUME NEW s \in Sessions, NEW r \in Requests[s], BeginRequest(s, r)
      PROVE  spk'[t] # "push" /\ (spk'[t] = "follow" => request'[t] = NoUser)
  <2>1. r \in {UPDATE, NoUser}
    BY <1>3 DEF NobodyStartsToFollow
  <2> QED
    BY <1>3, <2>1 DEF BeginRequest, SpeakerGoes, CalmInv
<1>4. ASSUME NEW s \in Sessions, SpeakerStep(s)
      PROVE  spk'[t] # "push" /\ (spk'[t] = "follow" => request'[t] = NoUser)
  <2>1. CASE t # s
    <3>1. spk'[t] = spk[t] /\ request'[t] = request[t]
      BY <1>4, <2>1 DEF SpeakerStep, TakeNumber, CountFollowers, LockAndCount, RegisterUpdate,
             Recount, ForwardUpdate, CheckFollow, PushFollow, EndRequest, StopSpeaker, SpeakerGoes
    <3> QED
      BY <3>1 DEF CalmInv
  <2>2. CASE t = s
    <3>1. CASE CheckFollow(s)
      BY <2>2, <3>1 DEF CheckFollow, SpeakerGoes, CalmInv
    <3>2. CASE ~CheckFollow(s)
      BY <1>4, <2>2, <3>2 DEF SpeakerStep, TakeNumber, CountFollowers, LockAndCount,
             RegisterUpdate, Recount, ForwardUpdate, PushFollow, EndRequest, StopSpeaker,
             SpeakerGoes, CalmInv
    <3> QED
      BY <3>1, <3>2
  <2> QED
    BY <2>1, <2>2
<1>5. ASSUME NEW s \in Sessions, CloseClient(s) \/ SessionStep(s) \/ ListenerStep(s)
      PROVE  UNCHANGED <<spk, request>>
  BY <1>5 DEF CloseClient, SessionStep, ListenerStep, speakerVars
<1>6. CASE SaverStep \/ UNCHANGED vars
  BY <1>1, <1>6 DEF SaverStep, vars, speakerVars
<1> QED
  BY <1>1, <1>2, <1>3, <1>4, <1>5, <1>6 DEF Next, SessionNext

LEMMA CalmStep ==
  ASSUME NobodyStartsToFollow, TypeInv, CalmInv, [Next]_vars
  PROVE  CalmInv'
<1>1. UNCHANGED listOfFollowers
  BY FollowersKept
<1>2. ASSUME NEW t \in Sessions, spk'[t] \in InMutex
      PROVE  followNum'[t] = Len(listOfFollowers'[clientIndex'[t]])
  <2>1. CASE Keeps(t)
    <3>1. /\ spk[t] \in InMutex /\ clientIndex'[t] = clientIndex[t]
          /\ followNum'[t] = followNum[t]
      BY <1>2, <2>1 DEF Keeps, Posting
    <3> QED
      BY <1>1, <3>1 DEF CalmInv
  <2>2. CASE Posts(t)
    <3>1. CASE LockAndCount(t) \/ Recount(t)
      <4>1. followNum'[t] = Len(listOfFollowers[clientIndex[t]]) /\ UNCHANGED clientIndex
        BY <2>2, <3>1 DEF LockAndCount, Recount, getNumFollowers, Posts, TypeInv, SpeakersTyped
      <4> QED
        BY <1>1, <4>1
    <3>2. CASE ~(LockAndCount(t) \/ Recount(t))
      <4>1. spk[t] \in InMutex /\ UNCHANGED <<followNum, clientIndex>>
        BY <1>2, <2>2, <3>2 DEF Posts, TakeNumber, CountFollowers, RegisterUpdate, ForwardUpdate,
                                SpeakerGoes, InMutex, TypeInv, SpeakersTyped
      <4> QED
        BY <1>1, <4>1 DEF CalmInv
    <3> QED
      BY <3>1, <3>2
  <2> QED
    BY <2>1, <2>2, StepShape DEF Quiet, Posts, Gets
<1> QED
  BY <1>2, CalmSessions, CalmSpeakers DEF CalmInv

(***************************************************************************)
(* What ExactAccounting takes: the tweets a listener is about to clear are *)
(* those it has copied; a received tweet waits for just what covers it; a  *)
(* tweet that is not received is nobody's to get; and a tweet about to be  *)
(* forwarded is nobody's to get yet.                                       *)
(***************************************************************************)
CopyExact ==
  \A s \in Sessions : lis[s] = "clear" => listOfPendingTweets[clientIndex[s]] = pendingTweets[s]

Exactly ==
  \A u \in Users : \A i \in Received(u) : \A p \in PendingTweets :
    Names(p, u, i) => Remaining(u, i) = Waiting(p)

OnlyReceived ==
  \A p \in PendingTweets : Waiting(p) # 0 => \E u \in Users : \E i \in Received(u) : Names(p, u, i)

ForwardedOnce ==
  \A p \in PendingTweets : AboutToForward(p) = 0 \/ (PendingFor(p) = 0 /\ TakenFor(p) = 0)

ExactInv == CalmInv /\ CopyExact /\ Exactly /\ OnlyReceived /\ ForwardedOnce

LEMMA CopyExactKept ==
  ASSUME OneConnectionEach, TypeInv, CalmInv, CopyExact, [Next]_vars
  PROVE  CopyExact'
<1>1. CASE Quiet
  BY <1>1 DEF Quiet, CopyExact, Holds
<1>2. ASSUME NEW s \in Sessions, Posts(s)
      PROVE  CopyExact'
  <2>1. CASE UNCHANGED listOfPendingTweets
    BY <1>2, <2>1 DEF Posts, CopyExact, Holds
  <2>2. CASE ForwardUpdate(s)
    <3>1. \A t \in Sessions : lis'[t] # "clear"
      BY <1>2, <2>2 DEF ForwardUpdate, Posts, Holds
    <3> QED
      BY <3>1 DEF CopyExact
  <2> QED
    BY <1>2, <2>1, <2>2
    DEF Posts, TakeNumber, takeTweetID, CountFollowers, LockAndCount, RegisterUpdate,
        registerUpdate, Recount, dbVars
<1>3. ASSUME NEW s \in Sessions, Gets(s)
      PROVE  CopyExact'
  <2>1. UNCHANGED clientIndex /\ \A t \in Sessions \ {s} : Holds(t)
    BY <1>3 DEF Gets
  <2>2. ASSUME NEW t \in Sessions, t # s, lis'[t] = "clear"
        PROVE  listOfPendingTweets'[clientIndex'[t]] = pendingTweets'[t]
    <3>1. lis[t] = "clear" /\ pendingTweets'[t] = pendingTweets[t] /\ clientIndex[t] \in Users
      BY <2>1, <2>2 DEF Holds, TypeInv, ThreadsOK
    <3>2. listOfPendingTweets'[clientIndex[t]] = listOfPendingTweets[clientIndex[t]]
      <4>1. CASE UNCHANGED listOfPendingTweets
        BY <4>1
      <4>2. CASE ClearPending(s)
        <5>1. clientIndex[s] \in Users
          BY <4>2 DEF ClearPending, ListenerGoes, TypeInv, ThreadsOK
        <5>2. clientIndex[s] # clientIndex[t]
          BY <2>2, <3>1, <5>1, NoUserAssumption DEF CalmInv, OneConnectionEach
        <5> QED
          BY <3>1, <4>2, <5>2 DEF ClearPending, clearPendingTweets, TypeInv, DBTyped
      <4> QED
        BY <1>3, <4>1, <4>2 DEF Gets, CopyPending, UpdateTweet, updateReceivedTweet, dbVars
    <3> QED
      BY <2>1, <3>1, <3>2 DEF CopyExact
  <2>3. lis'[s] = "clear" => listOfPendingTweets'[clientIndex'[s]] = pendingTweets'[s]
    BY <1>3 DEF Gets, CopyPending, ClearPending, UpdateTweet, ListenerGoes, TypeInv,
                ListenersTyped, dbVars
  <2> QED
    BY <2>2, <2>3 DEF CopyExact
<1> QED
  BY <1>1, <1>2, <1>3, StepShape

(* Steps that move recipients from one count to the next, or none.         *)
LEMMA ExactWhileListsKept ==
  ASSUME TypeInv, Exactly, OnlyReceived, UNCHANGED listOfReceivedTweets,
         \A p \in PendingTweets : Waiting(p)' = Waiting(p)
  PROVE  Exactly' /\ OnlyReceived'
<1>1. ASSUME NEW u \in Users, NEW i \in Received(u)', NEW p \in PendingTweets, Names(p, u, i)'
      PROVE  Remaining(u, i)' = Waiting(p)'
  <2>1. i \in Received(u) /\ Names(p, u, i) /\ Remaining(u, i)' = Remaining(u, i)
    BY <1>1 DEF Received, Names, Remaining
  <2> QED
    BY <2>1 DEF Exactly
<1>2. ASSUME NEW p \in PendingTweets, Waiting(p)' # 0
      PROVE  \E u \in Users : \E i \in Received(u)' : Names(p, u, i)'
  <2>1. \E u \in Users : \E i \in Received(u) : Names(p, u, i)
    BY <1>2 DEF OnlyReceived
  <2> QED
    BY <2>1 DEF Received, Names
<1> QED
  BY <1>1, <1>2 DEF Exactly, OnlyReceived

LEMMA ExactNoMove ==
  ASSUME TypeInv, ExactInv, UNCHANGED listOfReceivedTweets,
         \A p \in PendingTweets : /\ PendingFor(p)' = PendingFor(p) /\ TakenFor(p)' = TakenFor(p)
                                  /\ AboutToForward(p)' = AboutToForward(p)
  PROVE  Exactly' /\ OnlyReceived' /\ ForwardedOnce'
<1>1. \A p \in PendingTweets : Waiting(p)' = Waiting(p)
  BY DEF Waiting
<1>2. ForwardedOnce'
  BY DEF ExactInv, ForwardedOnce
<1> QED
  BY <1>1, <1>2, ExactWhileListsKept DEF ExactInv

LEMMA ExactClear ==
  ASSUME TypeInv, TypeInv', ExactInv, NEW s \in Sessions, Gets(s), ClearPending(s)
  PROVE  Exactly' /\ OnlyReceived' /\ ForwardedOnce'
<1> DEFINE v0 == clientIndex[s]
           times(p) == Occurrences(p, pendingTweets[s])
<1>1. listOfPendingTweets[v0] = pendingTweets[s] /\ v0 \in Users
  BY DEF ExactInv, CopyExact, ClearPending, ListenerGoes, TypeInv, ThreadsOK
<1>2. ASSUME NEW p
      PROVE  /\ PendingFor(p)' = PendingFor(p) - times(p) /\ TakenFor(p)' = TakenFor(p) + times(p)
             /\ AboutToForward(p)' = AboutToForward(p)
             /\ times(p) \in Nat /\ times(p) <= PendingFor(p)
  <2>1. times(p) = Cardinality(PendingEntries(p)[v0])
    BY <1>1 DEF PendingEntries, Occurrences
  <2>2. times(p) \in Nat /\ times(p) <= PendingFor(p)
    BY <1>1, <2>1, CountsAreNumbers, PartOfTotal DEF PendingFor
  <2> QED
    BY <1>1, <2>2, CountsClear
<1>3. \A p \in PendingTweets : Waiting(p)' = Waiting(p)
  BY <1>2, WaitingIsNumber DEF Waiting
<1>4. ForwardedOnce'
  BY <1>2, WaitingIsNumber DEF ExactInv, ForwardedOnce
<1>5. UNCHANGED listOfReceivedTweets
  BY DEF ClearPending, clearPendingTweets
<1> QED
  BY <1>3, <1>4, <1>5, ExactWhileListsKept DEF ExactInv

LEMMA SomeAreTaken ==
  ASSUME TypeInv, NEW s \in Sessions, UpdateTweet(s)
  PROVE  TakenFor(TakenOff(s)) \in Nat \ {0}
<1> DEFINE q == pendingTweets[s]
<1>0. PICK p : p = TakenOff(s)
  OBVIOUS
<1>1. lis[s] \in Counting /\ q \in Seq(PendingTweets) /\ q # <<>>
  BY DEF UpdateTweet, ListenerGoes, Counting, TypeInv, ListenersTyped
<1>2. 1 \in 1..Len(q) /\ p = q[1]
  <2>1. Len(q) \in Nat \ {0} /\ Head(q) = q[1]
    BY <1>1, LenProperties, EmptySeq
  <2> QED
    BY <1>0, <2>1 DEF TakenOff
<1>3. 1 \in Positions(p, q)
  BY <1>1, <1>2, PositionsFinite
<1>4. TakenEntries(p)[s] # {}
  BY <1>1, <1>3 DEF TakenEntries
<1>5. TakenFor(p) # 0
  BY <1>4, CountsAreNumbers, PartOfTotal DEF TakenFor
<1> QED
  BY <1>0, <1>5, WaitingIsNumber

LEMMA ExactUpdate ==
  ASSUME TypeInv, TypeInv', OrderInv, ExactInv, NEW s \in Sessions, Gets(s), UpdateTweet(s)
  PROVE  Exactly' /\ OnlyReceived' /\ ForwardedOnce'
<1> DEFINE p0 == TakenOff(s)
           NewRec == listOfReceivedTweets'
<1>1. /\ p0 \in PendingTweets
      /\ \A p : Waiting(p)' = Waiting(p) - (IF p0 = p THEN 1 ELSE 0)
  BY UpdateShape
<1> HIDE DEF p0
<1>2. ASSUME NEW u \in Users
      PROVE  \E r, src : /\ CountedOff(listOfReceivedTweets[u], NewRec[u], r, src)
                         /\ \A k \in Received(u) : Names(p0, u, k) <=> k = r
  BY UpdateShape DEF p0
<1>3. ASSUME NEW u \in Users, NEW i \in Received(u)', NEW p \in PendingTweets,
             p = PendingTweet(u, NewRec[u][i].tweetID)
      PROVE  NewRec[u][i].numRecipientsRemaining = Waiting(p)'
  <2>1. PICK r, src : /\ CountedOff(listOfReceivedTweets[u], NewRec[u], r, src)
                      /\ \A k \in Received(u) : Names(p0, u, k) <=> k = r
    BY <1>2
  <2> DEFINE k == src[i]
  <2>2. /\ k \in Received(u) /\ Names(p, u, k)
        /\ NewRec[u][i].numRecipientsRemaining = Remaining(u, k) - (IF k = r THEN 1 ELSE 0)
    BY <1>3, <2>1 DEF CountedOff, Received, Names, Remaining
  <2> HIDE DEF k
  <2>3. p = p0 <=> k = r
    BY <2>1, <2>2 DEF Names
  <2> QED
    BY <1>1, <2>2, <2>3 DEF ExactInv, Exactly
<1>4. ASSUME NEW p \in PendingTweets, Waiting(p)' # 0
      PROVE  \E u \in Users : \E i \in Received(u)' : Names(p, u, i)'
  <2>1. Waiting(p) \in Nat /\ Waiting(p) # 0
    <3>1. p0 = p => Waiting(p) # 0
      BY SomeAreTaken, WaitingIsNumber DEF p0, Waiting
    <3> QED
      BY <1>1, <1>4, <3>1, WaitingIsNumber
  <2>2. PICK u \in Users : \E k \in Received(u) : Names(p, u, k)
    BY <2>1 DEF ExactInv, OnlyReceived
  <2>3. PICK k \in Received(u) : Names(p, u, k)
    BY <2>2
  <2>4. PICK r, src : /\ CountedOff(listOfReceivedTweets[u], NewRec[u], r, src)
                      /\ \A j \in Received(u) : Names(p0, u, j) <=> j = r
    BY <1>2
  <2>5. ~(k = r /\ Remaining(u, k) = 1)
    <3> SUFFICES ASSUME k = r, Remaining(u, k) = 1 PROVE FALSE
      OBVIOUS
    <3>1. p = p0 /\ Waiting(p) = 1
      BY <2>3, <2>4 DEF Names, ExactInv, Exactly
    <3> QED
      BY <1>1, <1>4, <3>1
  <2>6. PICK i \in 1..Len(NewRec[u]) : src[i] = k
    BY <2>4, <2>5 DEF CountedOff, Received, Remaining
  <2>7. i \in Received(u)' /\ Names(p, u, i)'
    BY <2>3, <2>4, <2>6 DEF CountedOff, Received, Names
  <2> QED
    BY <2>7
<1>5. ForwardedOnce'
  <2>1. ASSUME NEW p \in PendingTweets
        PROVE  \/ AboutToForward(p)' = 0
               \/ PendingFor(p)' = 0 /\ TakenFor(p)' = 0
    <3>1. /\ PendingFor(p)' = PendingFor(p)
          /\ TakenFor(p)' = TakenFor(p) - (IF p0 = p THEN 1 ELSE 0)
          /\ AboutToForward(p)' = AboutToForward(p)
      BY CountsUpdate DEF p0, TakenOff
    <3>2. p0 = p => TakenFor(p) # 0
      BY SomeAreTaken DEF p0
    <3> QED
      BY <3>1, <3>2 DEF ExactInv, ForwardedOnce
  <2> QED
    BY <2>1 DEF ForwardedOnce
<1> QED
  BY <1>3, <1>4, <1>5 DEF Exactly, OnlyReceived, Names, Remaining

(* Nobody but the speaker that forwards a tweet was about to.              *)
LEMMA NothingLeftToMake ==
  ASSUME TypeInv, OrderInv, NEW s \in Sessions, Posts(s), spk[s] \in InMutex, spk'[s] = "leave",
         NEW p
  PROVE  AboutToForward(p)' = 0
<1> DEFINE g == EntriesToMake(p)'
<1>1. ASSUME NEW t \in Sessions PROVE spk'[t] \notin {"recount", "forward"}
  BY DEF Posts, Keeps, Posting, InMutex, OrderInv, OnePosts
<1>2. \A t \in DOMAIN g : g[t] = {}
  BY <1>1 DEF EntriesToMake, Forwards
<1>3. AboutToForward(p)' = Total(g)
  BY DEF AboutToForward
<1> HIDE DEF g
<1> QED
  BY <1>2, <1>3, TotalOfNothing

(* Where the count of followers cannot change, it is right both times.     *)
LEMMA MakingExact ==
  ASSUME TypeInv, TypeInv', OrderInv, CalmInv, NEW s \in Sessions, Posts(s), ~RegisterUpdate(s),
         NEW p
  PROVE  \/ UNCHANGED listOfPendingTweets /\ Making(s, p)' = Making(s, p)
         \/ /\ PendingFor(p)' = PendingFor(p) + Making(s, p)
            /\ Making(s, p)' = 0 /\ AboutToForward(p)' = 0
<1>0. spk \in [Sessions -> SpeakerStates] /\ followNum \in [Sessions -> Nat]
  BY DEF TypeInv, SpeakersTyped
<1>1. CASE TakeNumber(s) \/ CountFollowers(s) \/ LockAndCount(s)
  <2>1. /\ spk[s] \notin {"recount", "forward"} /\ spk'[s] \notin {"recount", "forward"}
        /\ UNCHANGED listOfPendingTweets
    BY <1>0, <1>1 DEF TakeNumber, takeTweetID, CountFollowers, LockAndCount, SpeakerGoes, dbVars
  <2> QED
    BY <2>1 DEF Making, Forwards
<1>2. CASE Recount(s)
  <2>1. /\ spk[s] = "recount" /\ spk'[s] = "forward"
        /\ UNCHANGED <<listOfPendingTweets, clientIndex, tweetID>>
        /\ followNum'[s] = Len(listOfFollowers[clientIndex[s]])
    BY <1>0, <1>2 DEF Recount, SpeakerGoes, getNumFollowers, csVars, sessionVars, dbVars
  <2>2. followNum'[s] = followNum[s]
    BY <2>1 DEF CalmInv, InMutex
  <2> QED
    BY <2>1, <2>2 DEF Making, Forwards
<1>3. CASE ForwardUpdate(s) /\ UNCHANGED <<dbVars, spk>>
  BY <1>3 DEF ForwardUpdate, Posts, Making, Forwards, dbVars
<1>4. CASE /\ SpeakerGoes(s, "forward", "leave")
           /\ forwardUpdate(clientIndex[s], tweetID[s], followNum[s])
  <2>1. spk[s] = "forward" /\ spk'[s] = "leave"
    BY <1>0, <1>4 DEF SpeakerGoes
  <2>2. PendingFor(p)' = PendingFor(p) + Making(s, p)
    BY <1>4, <2>1, CountsForward
  <2>3. Making(s, p)' = 0 /\ AboutToForward(p)' = 0
    BY <2>1, NothingLeftToMake DEF Making, Forwards, InMutex
  <2> QED
    BY <2>2, <2>3
<1> QED
  BY <1>1, <1>2, <1>3, <1>4 DEF Posts, ForwardUpdate

LEMMA ExactPosts ==
  ASSUME TypeInv, TypeInv', OrderInv, ExactInv, NEW s \in Sessions, Posts(s), ~RegisterUpdate(s)
  PROVE  Exactly' /\ OnlyReceived' /\ ForwardedOnce'
<1>1. UNCHANGED listOfReceivedTweets
  BY DEF Posts, TakeNumber, takeTweetID, CountFollowers, LockAndCount, Recount, ForwardUpdate,
         forwardUpdate, dbVars
<1>2. ASSUME NEW p
      PROVE  /\ Waiting(p)' = Waiting(p)
             /\ \/ /\ PendingFor(p)' = PendingFor(p) /\ TakenFor(p)' = TakenFor(p)
                   /\ AboutToForward(p)' = AboutToForward(p)
                \/ AboutToForward(p)' = 0
  <2>1. /\ AboutToForward(p)' = AboutToForward(p) - Making(s, p) + Making(s, p)'
        /\ TakenFor(p)' = TakenFor(p)
        /\ Making(s, p) \in Nat
    BY CountsPosting
  <2>2. CASE UNCHANGED listOfPendingTweets /\ Making(s, p)' = Making(s, p)
    BY <2>1, <2>2, PendingKept, WaitingIsNumber DEF Waiting
  <2>3. CASE /\ PendingFor(p)' = PendingFor(p) + Making(s, p)
             /\ Making(s, p)' = 0 /\ AboutToForward(p)' = 0
    BY <2>1, <2>3, WaitingIsNumber DEF Waiting
  <2> QED
    BY <2>2, <2>3, MakingExact DEF ExactInv
<1>3. ForwardedOnce'
  BY <1>2 DEF ExactInv, ForwardedOnce
<1> QED
  BY <1>1, <1>2, <1>3, ExactWhileListsKept DEF ExactInv

LEMMA ExactRegister ==
  ASSUME TypeInv, TypeInv', OrderInv, ExactInv, NEW s \in Sessions, Posts(s), RegisterUpdate(s)
  PROVE  Exactly' /\ OnlyReceived' /\ ForwardedOnce'
<1> DEFINE p0 == RegisteredBy(s)
           u0 == clientIndex[s]
           e == TweetData(tweetID[s], followNum[s])
           n == followNum[s]
           NewRec == listOfReceivedTweets'
<1>1. /\ \A u \in Users : \A i \in Received(u)' :
           \/ i \in Received(u) /\ NewRec[u][i] = listOfReceivedTweets[u][i]
           \/ u = u0 /\ NewRec[u][i] = e
      /\ \A u \in Users : \A i \in Received(u) :
           i \in Received(u)' /\ NewRec[u][i] = listOfReceivedTweets[u][i]
      /\ \E i \in Received(u0)' : NewRec[u0][i] = e
  BY RegisterShape
<1>2. /\ u0 \in Users /\ p0 \in PendingTweets /\ n \in Nat
      /\ p0 = PendingTweet(u0, e.tweetID) /\ e.numRecipientsRemaining = n
  BY RegisterShape DEF RegisteredBy, TweetData, TypeInv, SpeakersTyped
<1>3. \A p : /\ PendingFor(p)' = PendingFor(p) /\ TakenFor(p)' = TakenFor(p)
             /\ AboutToForward(p)' = AboutToForward(p) + (IF p = p0 THEN n ELSE 0)
  BY RegisterShape
<1>4. \A u \in Users : \A i \in Received(u) : ~Names(p0, u, i)
  BY DEF OrderInv, NotYetRegistered, RegisterUpdate, SpeakerGoes, Names, RegisteredBy, PendingTweet
<1>5. UNCHANGED <<clientIndex, tweetID, followNum>>
  BY DEF RegisterUpdate, csVars, sessionVars
<1>6. UNCHANGED u0
  BY <1>5
<1> HIDE DEF p0, e, n
<1>7. PendingFor(p0) = 0 /\ TakenFor(p0) = 0 /\ AboutToForward(p0) = 0
  <2>1. Waiting(p0) = 0
    BY <1>2, <1>4 DEF ExactInv, OnlyReceived
  <2> QED
    BY <2>1, WaitingIsNumber DEF Waiting
<1>8. \A p : Waiting(p)' = Waiting(p) + (IF p = p0 THEN n ELSE 0)
  BY <1>2, <1>3, WaitingIsNumber DEF Waiting
<1>9. ASSUME NEW u \in Users, NEW i \in Received(u)', NEW p \in PendingTweets,
             p = PendingTweet(u, NewRec[u][i].tweetID)
      PROVE  NewRec[u][i].numRecipientsRemaining = Waiting(p)'
  <2>1. CASE i \in Received(u) /\ NewRec[u][i] = listOfReceivedTweets[u][i]
    <3>1. Names(p, u, i) /\ p # p0
      BY <1>4, <1>9, <2>1 DEF Names
    <3>2. Remaining(u, i) = Waiting(p) /\ Waiting(p) \in Nat
      BY <2>1, <3>1, WaitingIsNumber DEF ExactInv, Exactly
    <3> QED
      BY <1>8, <2>1, <3>1, <3>2 DEF Remaining
  <2>2. CASE u = u0 /\ NewRec[u][i] = e
    <3>1. p = p0
      BY <1>2, <1>9, <2>2
    <3> QED
      BY <1>2, <1>7, <1>8, <2>2, <3>1 DEF Waiting
  <2> QED
    BY <1>1, <2>1, <2>2
<1>10. ASSUME NEW p \in PendingTweets, Waiting(p)' # 0
       PROVE  \E u \in Users : \E i \in Received(u)' : p = PendingTweet(u, NewRec[u][i].tweetID)
  <2>1. CASE p = p0
    <3>1. \E i \in 1..Len(NewRec[u0]) : NewRec[u0][i] = e
      BY <1>1, <1>6 DEF Received
    <3>2. PICK i \in 1..Len(NewRec[u0]) : NewRec[u0][i] = e
      BY <3>1
    <3>3. p = PendingTweet(u0, NewRec[u0][i].tweetID)
      BY <1>2, <2>1, <3>2
    <3> HIDE DEF u0
    <3> QED
      BY <1>2, <3>3 DEF Received
  <2>2. CASE p # p0
    <3>1. Waiting(p) # 0
      BY <1>8, <1>10, <2>2, WaitingIsNumber
    <3>2. \E u \in Users : \E i \in Received(u) : Names(p, u, i)
      BY <3>1 DEF ExactInv, OnlyReceived
    <3> QED
      BY <1>1, <3>2 DEF Names
  <2> QED
    BY <2>1, <2>2
<1>11. ForwardedOnce'
  BY <1>3, <1>7, WaitingIsNumber DEF ExactInv, ForwardedOnce
<1> QED
  BY <1>9, <1>10, <1>11 DEF Exactly, OnlyReceived, Names, Remaining

LEMMA ExactStep ==
  ASSUME OneConnectionEach, NobodyStartsToFollow, TypeInv, TypeInv', OrderInv, ExactInv,
         [Next]_vars
  PROVE  ExactInv'
<1>1. CalmInv' /\ CopyExact'
  BY CalmStep, CopyExactKept DEF ExactInv
<1>2. CASE Quiet
  BY <1>1, <1>2, ExactNoMove, PendingKept, TakenKept, ToMakeKept DEF Quiet, ExactInv
<1>3. ASSUME NEW s \in Sessions, Posts(s)
      PROVE  ExactInv'
  BY <1>1, <1>3, ExactPosts, ExactRegister DEF ExactInv
<1>4. ASSUME NEW s \in Sessions, Gets(s)
      PROVE  ExactInv'
  <2>1. CASE ClearPending(s)
    BY <1>1, <1>4, <2>1, ExactClear DEF ExactInv
  <2>2. CASE UpdateTweet(s)
    BY <1>1, <1>4, <2>2, ExactUpdate DEF ExactInv
  <2>3. CASE CopyPending(s)
    <3>1. \A p \in PendingTweets : TakenFor(p)' = TakenFor(p)
      BY <1>4, <2>3, TakenByCopy
    <3>2. \A p \in PendingTweets : PendingFor(p)' = PendingFor(p)
      BY <2>3, PendingKept DEF CopyPending, dbVars
    <3>3. \A p \in PendingTweets : AboutToForward(p)' = AboutToForward(p)
      BY <1>4, ToMakeKept DEF Gets
    <3> QED
      BY <1>1, <2>3, <3>1, <3>2, <3>3, ExactNoMove DEF CopyPending, dbVars, ExactInv
  <2> QED
    BY <1>4, <2>1, <2>2, <2>3 DEF Gets
<1> QED
  BY <1>2, <1>3, <1>4, StepShape

LEMMA ExactInit ==
  ASSUME Init
  PROVE  ExactInv
<1>1. \A s \in Sessions : lis[s] = "stopped" /\ spk[s] = "stopped" /\ clientIndex[s] = NoUser
  BY DEF Init, CSInit
<1>2. CalmInv /\ CopyExact
  BY <1>1 DEF CalmInv, CopyExact, InMutex
<1>3. ASSUME NEW p
      PROVE  PendingFor(p) = 0 /\ TakenFor(p) = 0 /\ AboutToForward(p) = 0
  <2>1. \A v \in Users : Positions(p, listOfPendingTweets[v]) = {}
    BY NoPositions DEF Init, DBInit
  <2>2. PendingFor(p) = 0
    BY <2>1, TotalOfNothing DEF PendingFor, PendingEntries
  <2>3. TakenFor(p) = 0
    BY <1>1, TotalOfNothing DEF TakenFor, TakenEntries, Counting
  <2>4. AboutToForward(p) = 0
    BY <1>1, TotalOfNothing DEF AboutToForward, EntriesToMake, Forwards
  <2> QED
    BY <2>2, <2>3, <2>4
<1>4. Exactly /\ OnlyReceived /\ ForwardedOnce
  BY <1>3, EmptyAtFirst DEF Exactly, OnlyReceived, ForwardedOnce, Waiting
<1> QED
  BY <1>2, <1>4 DEF ExactInv

(* A tweet somebody waits for is there to be looked up.                    *)
LEMMA AwaitedIsReceived ==
  ASSUME TypeInv, ExactInv, NEW p \in PendingTweets, Waiting(p) # 0
  PROVE  /\ receivedIndex(p) \in Received(p.userAuthor) /\ IsReceived(p)
         /\ Names(p, p.userAuthor, receivedIndex(p))
<1>1. \E u \in Users : \E i \in Received(u) : Names(p, u, i)
  BY DEF ExactInv, OnlyReceived
<1>2. \E i \in Received(p.userAuthor) : listOfReceivedTweets[p.userAuthor][i].tweetID = p.tweetID
  BY <1>1 DEF Names, PendingTweet
<1>3. p.userAuthor \in Users /\ listOfReceivedTweets[p.userAuthor] \in Seq(ReceivedTweets)
  BY ListTypes DEF PendingTweets, TypeInv
<1>4. \/ /\ receivedIndex(p) \in Received(p.userAuthor)
         /\ listOfReceivedTweets[p.userAuthor][receivedIndex(p)].tweetID = p.tweetID
      \/ \A j \in Received(p.userAuthor) :
           listOfReceivedTweets[p.userAuthor][j].tweetID # p.tweetID
  BY <1>3, ReceivedIndexFound DEF Received
<1>5. /\ receivedIndex(p) \in Received(p.userAuthor)
      /\ listOfReceivedTweets[p.userAuthor][receivedIndex(p)].tweetID = p.tweetID
  BY <1>2, <1>4
<1>6. receivedIndex(p) # 0
  BY <1>3, <1>5, SequenceFacts DEF Received
<1>7. p = PendingTweet(p.userAuthor, p.tweetID)
  BY DEF PendingTweet, PendingTweets
<1> QED
  BY <1>5, <1>6, <1>7 DEF IsReceived, Names

LEMMA ExactGivesAccounting ==
  ASSUME TypeInv, ExactInv
  PROVE  ExactAccounting
<1> SUFFICES ASSUME NEW v \in Users, NEW k \in DOMAIN listOfPendingTweets[v],
                    NEW p, p = listOfPendingTweets[v][k]
             PROVE  /\ IsReceived(p)
                    /\ Remaining(p.userAuthor, receivedIndex(p)) = PendingFor(p) + TakenFor(p)
  BY DEF ExactAccounting, Remaining
<1>1. listOfPendingTweets[v] \in Seq(PendingTweets) /\ k \in Pending(v)
  BY SequenceFacts DEF TypeInv, DBTyped, Pending
<1>2. p \in PendingTweets
  BY <1>1, ListTypes DEF TypeInv
<1>3. PendingFor(p) # 0
  <2>1. k \in Positions(p, listOfPendingTweets[v])
    BY DEF Positions
  <2>2. PendingEntries(p)[v] # {}
    BY <2>1 DEF PendingEntries
  <2> QED
    BY <2>2, CountsAreNumbers, PartOfTotal DEF PendingFor
<1>4. AboutToForward(p) = 0 /\ Waiting(p) = PendingFor(p) + TakenFor(p) /\ Waiting(p) # 0
  BY <1>2, <1>3, WaitingIsNumber DEF ExactInv, ForwardedOnce, Waiting
<1> QED
  BY <1>2, <1>4, AwaitedIsReceived DEF ExactInv, Exactly, PendingTweets

(* As long as each user has one connection and nobody starts to follow,    *)
(* every pending tweet is there to be looked up and waits for exactly the  *)
(* recipients that still have to count themselves off.                     *)
THEOREM RecipientsCountedExactly ==
  ASSUME OneConnectionEach, NobodyStartsToFollow
  PROVE  Spec => []ExactAccounting
<1>1. Init => ExactInv
  BY ExactInit
<1>2. TypeInv /\ TypeInv' /\ OrderInv /\ ExactInv /\ [Next]_vars => ExactInv'
  BY ExactStep
<1>3. TypeInv /\ ExactInv => ExactAccounting
  BY ExactGivesAccounting
<1> QED
  BY <1>1, <1>2, <1>3, AccountsInv, PTL DEF Spec

-----------------------------------------------------------------------------
(***************************************************************************)
(* NoneSkipped holds when, besides, everybody signs in as a user there is  *)
(* and nobody leaves: then the manager's entries stay where they are, and  *)
(* an index that a listener has found remains its user's.                  *)
(***************************************************************************)
EverybodyIsKnown == \A s \in Sessions : Login[s] \in Users

NobodyLeaves == Leavers = {}

Settled == OneConnectionEach /\ EverybodyIsKnown /\ NobodyLeaves

(* What a connection has been sent and has retrieved, while it is open (a  *)
(* listener has tweets in hand only in these states), that an index found  *)
(* by a listener is its own user's, and that every entry of the manager    *)
(* belongs to somebody who is online.                                      *)
InHand == {"twoConnections", "archive", "update", "leave"}

AtHome(s) ==
  /\ conn[s] \in {"closed", "new", "found", "online"}
  /\ conn[s] \in {"found", "online"} => clientIndex[s] = Login[s]
  /\ conn[s] = "closed" => outgoing[s] = <<>>
  /\ receivedTweets[s] # <<>> => lis[s] \in InHand

OwnIndex(s) ==
  LET i == connectionIndex[s]
  IN  \/ i \in {NoCall, 0}
      \/ i \in 1..Len(listOfConnectedUsers) /\ listOfConnectedUsers[i].userID = Login[s]

EntriesOnline ==
  \A k \in 1..Len(listOfConnectedUsers) :
    \E s \in Sessions : conn[s] = "online" /\ Login[s] = listOfConnectedUsers[k].userID

StayInv == EntriesOnline /\ \A s \in Sessions : AtHome(s) /\ OwnIndex(s)

LEMMA StayInit ==
  ASSUME Init
  PROVE  StayInv
<1>1. Len(<<>>) = 0
  BY EmptySeq
<1> QED
  BY <1>1 DEF Init, CSInit, CMInit, StayInv, EntriesOnline, AtHome, OwnIndex

(* The connector only adds the entry of a user who has none.               *)
LEMMA StayConnector ==
  ASSUME Settled, TypeInv, StayInv, NEW s \in Sessions,
         AcceptClient(s) \/ CloseClient(s) \/ SessionStep(s)
  PROVE  /\ StayInv' /\ UNCHANGED outgoing
         /\ \/ UNCHANGED cmVars
            \/ /\ listOfConnectedUsers' = Append(listOfConnectedUsers, Connection(Login[s], 1))
               /\ listOfDuplicatedTweets' = Append(listOfDuplicatedTweets, <<>>)
<1> USE DEF AtHome, OwnIndex
<1>1. ~CloseClient(s) /\ ~(s \in Leavers /\ Disconnect(s))
  BY DEF Settled, NobodyLeaves, StayInv, CloseClient, Close, ShutdownNotice
<1>2. CASE AcceptClient(s)
  <2>1. /\ conn[s] = "closed" /\ conn' = [conn EXCEPT ![s] = "new"]
        /\ UNCHANGED <<cmVars, connectionIndex, receivedTweets>>
        /\ clientIndex' = [clientIndex EXCEPT ![s] = NoUser]
        /\ outgoing' = [outgoing EXCEPT ![s] = <<>>]
        /\ lis' = [lis EXCEPT ![s] = "pitstop"] /\ lis[s] = "stopped"
    BY <1>2 DEF AcceptClient, Accept, TypeInv, ThreadsOK
  <2>2. UNCHANGED outgoing
    BY <2>1 DEF StayInv, TypeInv, ListenersTyped
  <2>3. \A t \in Sessions : AtHome(t)'
    BY <2>1, <2>2 DEF StayInv, TypeInv, SessionsOK, ListenersTyped, InHand
  <2>4. \A t \in Sessions : OwnIndex(t)'
    BY <2>1 DEF StayInv, cmVars
  <2>5. EntriesOnline'
    BY <2>1 DEF StayInv, EntriesOnline, TypeInv, SessionsOK, cmVars
  <2> QED
    BY <2>1, <2>2, <2>3, <2>4, <2>5 DEF StayInv
<1>3. CASE SignIn(s) /\ SessionStep(s)
  <2>1. /\ conn[s] = "new" /\ conn' = [conn EXCEPT ![s] = "found"]
        /\ UNCHANGED <<cmVars, connectionIndex, receivedTweets, outgoing, lis>>
        /\ clientIndex' = [clientIndex EXCEPT ![s] = Login[s]]
    BY <1>3 DEF SignIn, SessionStep, listenerVars
  <2>2. \A t \in Sessions : AtHome(t)'
    BY <2>1 DEF StayInv, TypeInv, SessionsOK
  <2>3. \A t \in Sessions : OwnIndex(t)'
    BY <2>1 DEF StayInv, cmVars
  <2>4. EntriesOnline'
    BY <2>1 DEF StayInv, EntriesOnline, TypeInv, SessionsOK, cmVars
  <2> QED
    BY <2>1, <2>2, <2>3, <2>4 DEF StayInv
<1>4. CASE Register(s) /\ SessionStep(s)
  <2> DEFINE L == listOfConnectedUsers
             M == listOfConnectedUsers'
             n == Len(L) + 1
  <2>1. /\ conn[s] = "found" /\ clientIndex[s] = Login[s] /\ Login[s] \in Users
        /\ UNCHANGED <<clientIndex, connectionIndex, listenerVars>>
    BY <1>4 DEF Register, StayInv, SessionStep, Settled, EverybodyIsKnown
  <2>2. getConnectionIndex(Login[s]) = 0 /\ \A j \in 1..Len(L) : L[j].userID # Login[s]
    <3>1. ASSUME NEW j \in 1..Len(L), L[j].userID = Login[s]
          PROVE  FALSE
      <4>1. PICK t \in Sessions : conn[t] = "online" /\ Login[t] = Login[s]
        BY <3>1 DEF StayInv, EntriesOnline
      <4> QED
        BY <2>1, <4>1 DEF Settled, OneConnectionEach
    <3> QED
      BY <3>1, IndexFound DEF TypeInv, ListsOK
  <2>3. /\ M = Append(L, Connection(Login[s], 1))
        /\ listOfDuplicatedTweets' = Append(listOfDuplicatedTweets, <<>>)
        /\ conn' = [conn EXCEPT ![s] = "online"]
    BY <1>4, <2>1, <2>2, NoUserAssumption DEF Register, registerConnection
  <2>4. /\ n \in Nat \ {0} /\ Len(M) = n /\ M[n].userID = Login[s]
        /\ \A k \in 1..Len(L) : k \in 1..n /\ M[k] = L[k]
        /\ \A k \in 1..n : k \in 1..Len(L) \/ k = n
    <3>1. Len(L) \in Nat /\ L \in Seq(Connections)
      BY SequenceFacts DEF TypeInv, ListsOK
    <3>2. /\ Len(M) = Len(L) + 1 /\ \A k \in 1..Len(L) : M[k] = L[k]
          /\ M[Len(L) + 1] = Connection(Login[s], 1)
      BY <2>1, <2>2, <2>3, EntryAdded DEF TypeInv, ListsOK
    <3> QED
      BY <3>1, <3>2 DEF Connection
  <2> HIDE DEF n, M
  <2>5. \A t \in Sessions : AtHome(t)'
    BY <2>1, <2>3 DEF StayInv, TypeInv, SessionsOK, listenerVars
  <2>6. \A t \in Sessions : OwnIndex(t)'
    BY <2>1, <2>4 DEF StayInv, M
  <2>7. EntriesOnline'
    <3>1. ASSUME NEW k \in 1..n
          PROVE  \E t \in Sessions : conn'[t] = "online" /\ Login[t] = M[k].userID
      <4>1. CASE k = n
        BY <2>3, <2>4, <4>1 DEF TypeInv, SessionsOK
      <4>2. CASE k \in 1..Len(L)
        <5>1. PICK t \in Sessions : conn[t] = "online" /\ Login[t] = L[k].userID
          BY <4>2 DEF StayInv, EntriesOnline
        <5> QED
          BY <2>3, <2>4, <4>2, <5>1 DEF TypeInv, SessionsOK
      <4> QED
        BY <2>4, <4>1, <4>2
    <3> QED
      BY <2>4, <3>1 DEF EntriesOnline, M
  <2> QED
    BY <2>1, <2>3, <2>5, <2>6, <2>7 DEF StayInv, M, listenerVars
<1> QED
  BY <1>1, <1>2, <1>3, <1>4 DEF SessionStep

(* A listener finds the index of its own user.                             *)
LEMMA StayListener ==
  ASSUME TypeInv, StayInv, NEW s \in Sessions, ListenerStep(s)
  PROVE  StayInv' /\ UNCHANGED listOfConnectedUsers
<1> USE DEF AtHome, OwnIndex
<1>1. /\ UNCHANGED <<conn, clientIndex, listOfConnectedUsers>>
      /\ \/ UNCHANGED connectionIndex
         \/ connectionIndex' = [connectionIndex EXCEPT ![s] = NoCall]
         \/ LookUp(s) /\ lis[s] # "stopped"
  BY DEF ListenerStep, Retrieve, CheckPending, CheckDuplicates, CheckAnonymous, BeginRetrieve,
         CopyPending, ClearPending, FindConnection, TakeDuplicates, LookUpTweets,
         CheckTwoConnections, ArchiveTweet, UpdateTweet, EndRetrieve, LookUp, AskDuplicates,
         AskTwoConnections, Archive, TakeArchive, EndCall, WildRead, Crash, csVars, cmVars,
         sessionVars, ListenerGoes, doesClientHaveTwoConnections, doesClientHaveDuplicateTweets,
         registerDuplicateTweet, retrieveDuplicateTweet
<1>2. EntriesOnline'
  BY <1>1 DEF StayInv, EntriesOnline
<1>3. ASSUME NEW t \in Sessions
      PROVE  OwnIndex(t)'
  <2>1. CASE connectionIndex'[t] = connectionIndex[t]
    BY <1>1, <2>1 DEF StayInv
  <2>2. CASE connectionIndex' = [connectionIndex EXCEPT ![s] = NoCall]
    BY <1>1, <2>2 DEF StayInv, TypeInv, SessionsOK
  <2>3. CASE LookUp(s) /\ lis[s] # "stopped"
    <3>1. clientIndex[s] = Login[s]
      BY <2>3 DEF LookUp, StayInv, TypeInv, ThreadsOK
    <3>2. connectionIndex' = [connectionIndex EXCEPT ![s] = getConnectionIndex(Login[s])]
      BY <2>3, <3>1 DEF LookUp
    <3> QED
      BY <1>1, <3>2, IndexFound DEF StayInv, TypeInv, ListsOK, SessionsOK
  <2> QED
    BY <1>1, <2>1, <2>2, <2>3
<1>4. ASSUME NEW t \in Sessions
      PROVE  /\ conn'[t] = "closed" => outgoing'[t] = <<>>
             /\ receivedTweets'[t] # <<>> => lis'[t] \in InHand
  <2> USE DEF ListenerGoes, TypeInv, ListenersTyped, InHand
  <2>1. CASE /\ UNCHANGED <<outgoing, receivedTweets>>
             /\ lis'[t] = lis[t] \/ lis[t] \notin InHand \/ lis'[t] \in InHand
    BY <1>1, <2>1 DEF StayInv
  <2>2. CASE CheckPending(s) \/ CheckDuplicates(s) \/ CheckAnonymous(s)
    BY <2>1, <2>2 DEF CheckPending, CheckDuplicates, CheckAnonymous
  <2>3. CASE \/ BeginRetrieve(s) \/ CopyPending(s) \/ ClearPending(s) \/ FindConnection(s)
             \/ CheckTwoConnections(s) \/ ArchiveTweet(s) \/ UpdateTweet(s)
    BY <2>1, <2>3 DEF BeginRetrieve, CopyPending, ClearPending, FindConnection,
                      CheckTwoConnections, ArchiveTweet, UpdateTweet, listenerVars
  <2>4. CASE TakeDuplicates(s) \/ LookUpTweets(s)
    BY <1>1, <2>4 DEF TakeDuplicates, LookUpTweets, StayInv
  <2>5. CASE EndRetrieve(s)
    <3>1. conn[s] # "closed"
      BY <2>5 DEF EndRetrieve, ThreadsOK
    <3> QED
      BY <1>1, <2>5, <3>1 DEF EndRetrieve, StayInv
  <2> QED
    BY <2>2, <2>3, <2>4, <2>5 DEF ListenerStep, Retrieve
<1> QED
  BY <1>1, <1>2, <1>3, <1>4 DEF StayInv

LEMMA StaySpeaker ==
  ASSUME StayInv, UNCHANGED <<sessionVars, listenerVars>>, UNCHANGED cmVars \/ Crash
  PROVE  StayInv'
  BY DEF StayInv, EntriesOnline, AtHome, OwnIndex, sessionVars, listenerVars, cmVars, Crash

LEMMA SpeakerKeeps ==
  ASSUME NEW s \in Sessions, SpeakerStep(s) \/ \E r \in Requests[s] : BeginRequest(s, r)
  PROVE  UNCHANGED <<sessionVars, listenerVars>> /\ (UNCHANGED cmVars \/ Crash)
  BY DEF SpeakerStep, BeginRequest, TakeNumber, CountFollowers, LockAndCount, RegisterUpdate,
         Recount, ForwardUpdate, CheckFollow, PushFollow, EndRequest, StopSpeaker, csVars

LEMMA StayStep ==
  ASSUME Settled, TypeInv, StayInv, [Next]_vars
  PROVE  StayInv'
<1>1. ASSUME NEW s \in Sessions, SessionNext(s)
      PROVE  StayInv'
  BY <1>1, StayConnector, StayListener, StaySpeaker, SpeakerKeeps DEF SessionNext
<1>2. CASE SaverStep \/ UNCHANGED vars
  BY <1>2, StaySpeaker DEF SaverStep, vars, csVars
<1> QED
  BY <1>1, <1>2 DEF Next

(* The elements of a sequence, and of two of them one after the other.     *)
In(q) == {q[i] : i \in 1..Len(q)}

LEMMA InConcat ==
  ASSUME NEW S, NEW p \in Seq(S), NEW q \in Seq(S)
  PROVE  p \o q \in Seq(S) /\ In(p \o q) = In(p) \cup In(q)
<1> DEFINE r == p \o q
<1>1. Len(p) \in Nat /\ Len(q) \in Nat
  BY LenProperties
<1>2. /\ r \in Seq(S) /\ Len(r) = Len(p) + Len(q)
      /\ \A k \in 1..(Len(p) + Len(q)) : r[k] = IF k <= Len(p) THEN p[k] ELSE q[k - Len(p)]
  BY ConcatProperties
<1> HIDE DEF r
<1>3. ASSUME NEW k \in 1..Len(q)
      PROVE  Len(p) + k \in 1..Len(r) /\ r[Len(p) + k] = q[k]
  <2>1. /\ Len(p) + k \in 1..(Len(p) + Len(q)) /\ ~(Len(p) + k <= Len(p))
        /\ (Len(p) + k) - Len(p) = k
    BY <1>1
  <2> QED
    BY <1>2, <2>1
<1>4. ASSUME NEW k \in 1..Len(p)
      PROVE  k \in 1..Len(r) /\ r[k] = p[k]
  BY <1>1, <1>2
<1>5. ASSUME NEW k \in 1..Len(r)
      PROVE  r[k] \in In(p) \cup In(q)
  <2>1. CASE k <= Len(p)
    BY <1>1, <1>2, <2>1 DEF In
  <2>2. CASE k > Len(p)
    <3>1. k - Len(p) \in 1..Len(q) /\ r[k] = q[k - Len(p)]
      BY <1>1, <1>2, <2>2
    <3> QED
      BY <3>1 DEF In
  <2> QED
    BY <1>1, <1>2, <2>1, <2>2
<1>6. In(r) \subseteq In(p) \cup In(q)
  BY <1>5 DEF In
<1>7. In(p) \subseteq In(r)
  BY <1>4 DEF In
<1>8. In(q) \subseteq In(r)
  BY <1>3 DEF In
<1>9. r \in Seq(S) /\ In(r) = In(p) \cup In(q)
  BY <1>2, <1>6, <1>7, <1>8
<1> QED
  BY <1>9 DEF r

LEMMA InNothing == In(<<>>) = {}
<1>1. Len(<<>>) = 0
  BY EmptySeq
<1> QED
  BY <1>1 DEF In

(* What a connection has been sent or is about to be, it stays sent.       *)
Sent(s) == In(outgoing[s]) \cup In(receivedTweets[s])

LEMMA SentGrows ==
  ASSUME Settled, TypeInv, StayInv, [Next]_vars, NEW t \in Sessions
  PROVE  Sent(t) \subseteq Sent(t)'
<1>1. CASE UNCHANGED <<outgoing, receivedTweets>>
  BY <1>1 DEF Sent
<1>2. ASSUME NEW s \in Sessions, ListenerStep(s)
      PROVE  Sent(t) \subseteq Sent(t)'
  <2>1. CASE TakeDuplicates(s) \/ LookUpTweets(s)
    <3>1. receivedTweets[s] = <<>> /\ UNCHANGED outgoing
      BY <2>1 DEF TakeDuplicates, LookUpTweets, ListenerGoes, StayInv, AtHome, InHand
    <3>2. t # s => receivedTweets'[t] = receivedTweets[t]
      BY <2>1 DEF TakeDuplicates, LookUpTweets, TypeInv, ListenersTyped
    <3>3. In(receivedTweets[t]) \subseteq In(receivedTweets'[t])
      BY <3>1, <3>2, InNothing
    <3> QED
      BY <3>1, <3>3 DEF Sent
  <2>2. CASE EndRetrieve(s)
    <3>1. CASE t = s
      <4>1. outgoing[s] \in Seq(PendingTweets) /\ receivedTweets[s] \in Seq(PendingTweets)
        BY DEF TypeInv, ListenersTyped
      <4>2. outgoing'[s] = outgoing[s] \o receivedTweets[s]
        BY <2>2 DEF EndRetrieve, TypeInv, ListenersTyped
      <4>3. In(outgoing'[s]) = Sent(s)
        BY <4>1, <4>2, InConcat DEF Sent
      <4> QED
        BY <3>1, <4>3 DEF Sent
    <3>2. CASE t # s
      BY <2>2, <3>2 DEF EndRetrieve, TypeInv, ListenersTyped, Sent
    <3> QED
      BY <3>1, <3>2
  <2>3. CASE ~(TakeDuplicates(s) \/ LookUpTweets(s) \/ EndRetrieve(s))
    BY <1>1, <1>2, <2>3 DEF ListenerStep, Retrieve, CheckPending, CheckDuplicates, CheckAnonymous,
         BeginRetrieve, CopyPending, ClearPending, FindConnection, CheckTwoConnections,
         ArchiveTweet, UpdateTweet, listenerVars
  <2> QED
    BY <2>1, <2>2, <2>3
<1>3. ASSUME NEW s \in Sessions, AcceptClient(s) \/ CloseClient(s) \/ SessionStep(s)
      PROVE  UNCHANGED <<outgoing, receivedTweets>>
  BY <1>3, StayConnector DEF AcceptClient, CloseClient, SessionStep, listenerVars
<1>4. CASE SaverStep \/ UNCHANGED vars
  BY <1>1, <1>4 DEF SaverStep, vars, listenerVars
<1>5. ASSUME NEW s \in Sessions, SessionNext(s)
      PROVE  Sent(t) \subseteq Sent(t)'
  <2>1. CASE SpeakerStep(s) \/ \E r \in Requests[s] : BeginRequest(s, r)
    BY <1>1, <2>1, SpeakerKeeps DEF listenerVars
  <2> QED
    BY <1>1, <1>2, <1>3, <1>5, <2>1 DEF SessionNext
<1> QED
  BY <1>4, <1>5 DEF Next

(* Tweets are archived for a user's second connection when the first has   *)
(* retrieved them, and taken from the archive again by that very one.      *)
ArchiveSent ==
  \A k \in 1..Len(listOfDuplicatedTweets) : \A s \in Sessions :
    Login[s] = listOfConnectedUsers[k].userID => In(listOfDuplicatedTweets[k]) \subseteq Sent(s)

LEMMA ArchiveChanges ==
  ASSUME TypeInv, StayInv, NEW s \in Sessions, ListenerStep(s)
  PROVE  \/ UNCHANGED listOfDuplicatedTweets
         \/ \E i, q :
              /\ i \in 1..Len(listOfDuplicatedTweets)
              /\ listOfConnectedUsers[i].userID = Login[s]
              /\ listOfDuplicatedTweets' = [listOfDuplicatedTweets EXCEPT ![i] = q]
              /\ q \in Seq(PendingTweets)
              /\ In(q) \subseteq In(listOfDuplicatedTweets[i]) \cup In(receivedTweets[s])
<1> DEFINE i == connectionIndex[s]
           old == listOfDuplicatedTweets[i]
<1>1. ASSUME i # NoCall, InRange(i)
      PROVE  /\ i \in 1..Len(listOfDuplicatedTweets) /\ old \in Seq(PendingTweets)
             /\ listOfConnectedUsers[i].userID = Login[s]
  <2>1. /\ listOfConnectedUsers \in Seq(Connections)
        /\ listOfDuplicatedTweets \in Seq(Seq(PendingTweets))
        /\ Len(listOfDuplicatedTweets) = Len(listOfConnectedUsers)
    BY DEF TypeInv, ListsOK
  <2>2. i \in 1..Len(listOfConnectedUsers)
    BY <1>1, <2>1, SequenceFacts DEF InRange
  <2>3. Len(listOfConnectedUsers) \in Nat
    BY <2>1, SequenceFacts
  <2>4. listOfConnectedUsers[i].userID = Login[s]
    BY <1>1, <2>2, <2>3 DEF StayInv, OwnIndex
  <2> QED
    BY <2>1, <2>2, <2>4, SequenceFacts
<1>2. CASE TakeDuplicates(s)
  <2>1. /\ i # NoCall
        /\ \/ UNCHANGED listOfDuplicatedTweets
           \/ InRange(i) /\ listOfDuplicatedTweets' = [listOfDuplicatedTweets EXCEPT ![i] = <<>>]
    BY <1>2 DEF TakeDuplicates, TakeArchive, EndCall, retrieveDuplicateTweet, cmVars, Crash
  <2>2. <<>> \in Seq(PendingTweets)
    BY EmptySeq
  <2> QED
    BY <1>1, <2>1, <2>2, InNothing
<1>3. CASE ArchiveTweet(s)
  <2> DEFINE got == receivedTweets[s]
             next == archived[s] + 1
  <2>1. Len(got) \in Nat /\ next \in 1..Len(got) /\ got[next] \in PendingTweets
    <3>1. got \in Seq(PendingTweets) /\ archived[s] \in Nat /\ archived[s] < Len(got)
      BY <1>3 DEF ArchiveTweet, ListenerGoes, TypeInv, ListenersTyped
    <3>2. Len(got) \in Nat /\ \A k \in 1..Len(got) : got[k] \in PendingTweets
      BY <3>1, SequenceFacts
    <3> QED
      BY <3>1, <3>2
  <2>2. PICK tweet : tweet = got[next]
    OBVIOUS
  <2>3. /\ i # NoCall
        /\ \/ UNCHANGED listOfDuplicatedTweets
           \/ /\ InRange(i)
              /\ listOfDuplicatedTweets' = [listOfDuplicatedTweets EXCEPT ![i] = Append(old, tweet)]
    BY <1>3, <2>2 DEF ArchiveTweet, Archive, EndCall, registerDuplicateTweet, cmVars, Crash
  <2>4. tweet \in PendingTweets /\ tweet \in In(got)
    BY <2>1, <2>2 DEF In
  <2>5. ASSUME old \in Seq(PendingTweets)
        PROVE  /\ Append(old, tweet) \in Seq(PendingTweets)
               /\ In(Append(old, tweet)) \subseteq In(old) \cup {tweet}
    <3> DEFINE q == Append(old, tweet)
    <3>1. /\ q \in Seq(PendingTweets) /\ Len(q) = Len(old) + 1 /\ q[Len(old) + 1] = tweet
          /\ \A k \in 1..Len(old) : q[k] = old[k]
      BY <2>4, <2>5, AppendProperties
    <3>2. Len(old) \in Nat
      BY <2>5, LenProperties
    <3> HIDE DEF q, old
    <3>3. \A k \in 1..Len(q) : k \in 1..Len(old) \/ k = Len(old) + 1
      BY <3>1, <3>2
    <3> QED
      BY <3>1, <3>3 DEF In, q
  <2>6. CASE UNCHANGED listOfDuplicatedTweets
    BY <2>6
  <2>7. CASE /\ InRange(i)
             /\ listOfDuplicatedTweets' = [listOfDuplicatedTweets EXCEPT ![i] = Append(old, tweet)]
    <3>1. /\ i \in 1..Len(listOfDuplicatedTweets) /\ old \in Seq(PendingTweets)
          /\ listOfConnectedUsers[i].userID = Login[s]
      BY <1>1, <2>3, <2>7
    <3>2. /\ Append(old, tweet) \in Seq(PendingTweets)
          /\ In(Append(old, tweet)) \subseteq In(old) \cup In(got)
      BY <2>4, <2>5, <3>1
    <3>3. PICK q : q = Append(old, tweet)
      OBVIOUS
    <3> QED
      BY <2>7, <3>1, <3>2, <3>3
  <2> QED
    BY <2>3, <2>6, <2>7
<1>4. CASE ~(TakeDuplicates(s) \/ ArchiveTweet(s))
  BY <1>4
  DEF ListenerStep, Retrieve, CheckPending, CheckDuplicates, CheckAnonymous, BeginRetrieve,
      CopyPending, ClearPending, FindConnection, LookUpTweets, CheckTwoConnections, UpdateTweet,
      EndRetrieve, LookUp, AskDuplicates, AskTwoConnections, WildRead, Crash, csVars, cmVars,
      doesClientHaveTwoConnections, doesClientHaveDuplicateTweets
<1> QED
  BY <1>2, <1>3, <1>4

LEMMA ArchiveStep ==
  ASSUME Settled, TypeInv, StayInv, ArchiveSent, [Next]_vars
  PROVE  ArchiveSent'
<1> DEFINE L == listOfConnectedUsers
           D == listOfDuplicatedTweets
<1>1. \A t \in Sessions : Sent(t) \subseteq Sent(t)'
  BY SentGrows
<1>2. Len(D) \in Nat /\ Len(L) = Len(D) /\ L \in Seq(Connections) /\ D \in Seq(Seq(PendingTweets))
  BY SequenceFacts DEF TypeInv, ListsOK
<1>3. CASE UNCHANGED <<L, D>>
  BY <1>1, <1>3 DEF ArchiveSent
<1>4. CASE \E u : L' = Append(L, Connection(u, 1)) /\ D' = Append(D, <<>>) /\ u \in Users
  <2>1. PICK u \in Users : L' = Append(L, Connection(u, 1)) /\ D' = Append(D, <<>>)
    BY <1>4
  <2>2. Connection(u, 1) \in Connections /\ <<>> \in Seq(PendingTweets)
    BY EmptySeq DEF Connection, Connections, MaxConnections
  <2>3. /\ Len(D') = Len(D) + 1 /\ D'[Len(D) + 1] = <<>>
        /\ \A k \in 1..Len(D) : D'[k] = D[k] /\ L'[k] = L[k]
    BY <1>2, <2>1, <2>2, AppendProperties
  <2> HIDE DEF L, D
  <2>4. \A k \in 1..Len(D') : k \in 1..Len(D) \/ In(D'[k]) = {}
    BY <1>2, <2>3, InNothing
  <2> QED
    BY <1>1, <2>3, <2>4 DEF ArchiveSent, L, D
<1>5. ASSUME NEW s \in Sessions, ListenerStep(s)
      PROVE  ArchiveSent'
  <2>1. UNCHANGED L
    BY <1>5, StayListener
  <2>2. CASE UNCHANGED D
    BY <1>3, <2>1, <2>2
  <2>3. CASE ~UNCHANGED D
    <3>1. PICK i, q :
            /\ i \in 1..Len(D) /\ L[i].userID = Login[s] /\ D' = [D EXCEPT ![i] = q]
            /\ q \in Seq(PendingTweets) /\ In(q) \subseteq In(D[i]) \cup In(receivedTweets[s])
      BY <1>5, <2>3, ArchiveChanges
    <3>2. Len(D') = Len(D) /\ D'[i] = q /\ \A k \in 1..Len(D) : k # i => D'[k] = D[k]
      BY <1>2, <3>1, ExceptSeq
    <3>3. ASSUME NEW t \in Sessions, Login[t] = L[i].userID
          PROVE  In(q) \subseteq Sent(t)'
      <4>1. t = s
        BY <3>1, <3>3 DEF Settled, OneConnectionEach, EverybodyIsKnown
      <4>2. In(D[i]) \subseteq Sent(t)
        BY <3>1, <3>3 DEF ArchiveSent
      <4> QED
        BY <1>1, <3>1, <4>1, <4>2 DEF Sent
    <3> HIDE DEF L, D
    <3>4. \A k \in 1..Len(D') : \A t \in Sessions :
            Login[t] = L[k].userID => In(D'[k]) \subseteq Sent(t)'
      BY <1>1, <3>2, <3>3 DEF ArchiveSent, L, D
    <3> QED
      BY <2>1, <3>4 DEF ArchiveSent, L, D
  <2> QED
    BY <2>2, <2>3
<1>6. ASSUME NEW s \in Sessions, AcceptClient(s) \/ CloseClient(s) \/ SessionStep(s)
      PROVE  ArchiveSent'
  <2>1. \/ UNCHANGED cmVars
        \/ L' = Append(L, Connection(Login[s], 1)) /\ D' = Append(D, <<>>)
    BY <1>6, StayConnector
  <2> QED
    BY <1>3, <1>4, <2>1 DEF cmVars, Settled, EverybodyIsKnown
<1>7. ASSUME NEW s \in Sessions, SpeakerStep(s) \/ \E r \in Requests[s] : BeginRequest(s, r)
      PROVE  ArchiveSent'
  BY <1>3, <1>7, SpeakerKeeps DEF cmVars, Crash
<1>8. CASE SaverStep \/ UNCHANGED vars
  BY <1>3, <1>8 DEF SaverStep, vars, csVars, cmVars
<1> QED
  BY <1>5, <1>6, <1>7, <1>8 DEF Next, SessionNext

-----------------------------------------------------------------------------
(* In q, before or at an author's tweet there is every earlier one of hers.  *)
Ordered(q) ==
  \A i \in 1..Len(q) : \A x \in In(q) :
    x.userAuthor = q[i].userAuthor /\ x.tweetID <= q[i].tweetID => \E m \in 1..i : q[m] = x

(* It remains so when tweets are put in after where they are already, ...   *)
LEMMA OrderedInserted ==
  ASSUME NEW S, NEW a \in Seq(S), NEW b \in Seq(S), NEW c \in Seq(S),
         Ordered(a \o c), In(b) \subseteq In(a)
  PROVE  Ordered(a \o (b \o c))
<1> DEFINE old == a \o c
           bc == b \o c
           new == a \o bc
           la == Len(a)
           lb == Len(b)
           lc == Len(c)
<1>1. la \in Nat /\ lb \in Nat /\ lc \in Nat
  BY LenProperties
<1>2. Len(old) = la + lc /\ \A k \in 1..(la + lc) : old[k] = IF k <= la THEN a[k] ELSE c[k - la]
  BY ConcatProperties
<1>3. /\ bc \in Seq(S) /\ Len(bc) = lb + lc
      /\ \A k \in 1..(lb + lc) : bc[k] = IF k <= lb THEN b[k] ELSE c[k - lb]
  BY ConcatProperties
<1>4. In(old) = In(a) \cup In(c) /\ In(bc) = In(b) \cup In(c)
  BY InConcat
<1>0. Ordered(old)
  OBVIOUS
<1> HIDE DEF old, bc
<1>5. /\ Len(new) = la + (lb + lc)
      /\ \A k \in 1..(la + (lb + lc)) : new[k] = IF k <= la THEN a[k] ELSE bc[k - la]
  <2>1. /\ Len(new) = Len(a) + Len(bc)
        /\ \A k \in 1..(Len(a) + Len(bc)) : new[k] = IF k <= Len(a) THEN a[k] ELSE bc[k - Len(a)]
    <3>1. a \in Seq(S) /\ bc \in Seq(S)
      BY <1>3
    <3> QED
      BY ONLY <3>1, ConcatProperties
  <2> QED
    BY <1>3, <2>1
<1>6. In(new) = In(old)
  BY <1>3, <1>4, InConcat
<1> HIDE DEF new, la, lb, lc
<1>7. \A k \in 1..la : k \in 1..Len(new) /\ new[k] = a[k] /\ k \in 1..Len(old) /\ old[k] = a[k]
  BY <1>1, <1>2, <1>5
<1>8. ASSUME NEW k \in 1..lc
      PROVE  /\ la + k \in 1..Len(old) /\ old[la + k] = c[k]
             /\ la + lb + k \in 1..Len(new) /\ new[la + lb + k] = c[k]
  <2>1. la + k \in 1..(la + lc) /\ ~(la + k <= la) /\ (la + k) - la = k
    BY <1>1
  <2>2. /\ la + lb + k \in 1..(la + (lb + lc)) /\ ~(la + lb + k <= la)
        /\ (la + lb + k) - la = lb + k
        /\ lb + k \in 1..(lb + lc) /\ ~(lb + k <= lb) /\ (lb + k) - lb = k
    BY <1>1
  <2> QED
    BY <1>2, <1>3, <1>5, <2>1, <2>2
<1>10. ASSUME NEW i \in 1..Len(old), NEW x \in In(new),
              x.userAuthor = old[i].userAuthor, x.tweetID <= old[i].tweetID
       PROVE  \E m \in 1..i : old[m] = x
  BY <1>0, <1>6, <1>10 DEF Ordered
<1>9. ASSUME NEW i \in 1..Len(new), NEW x \in In(new),
             x.userAuthor = new[i].userAuthor, x.tweetID <= new[i].tweetID
      PROVE  \E m \in 1..i : new[m] = x
  <2>1. ASSUME NEW j \in 1..la, j <= i, a[j] = new[i]
        PROVE  \E m \in 1..i : new[m] = x
    <3>1. PICK m \in 1..j : old[m] = x
      BY <1>7, <1>9, <1>10, <2>1
    <3>2. m \in 1..la /\ m \in 1..i
      BY <1>1, <2>1
    <3> QED
      BY <1>7, <3>1, <3>2
  <2>2. CASE i <= la
    <3>1. i \in 1..la /\ i <= i /\ a[i] = new[i]
      BY <1>1, <1>5, <1>7, <2>2
    <3> QED
      BY <2>1, <3>1
  <2>3. CASE la < i /\ i <= la + lb
    <3>1. i - la \in 1..lb /\ new[i] = b[i - la]
      <4>1. i - la \in 1..lb /\ ~(i <= la) /\ i - la \in 1..(lb + lc) /\ i - la <= lb
        BY <1>1, <1>5, <2>3
      <4> QED
        BY <1>3, <1>5, <4>1
    <3>2. new[i] \in In(b)
      BY <3>1 DEF In, lb
    <3>3. PICK j \in 1..la : a[j] = new[i]
      BY <3>2 DEF In, la
    <3>4. j <= i
      BY <1>1, <1>5, <2>3
    <3> QED
      BY <2>1, <3>3, <3>4
  <2>4. CASE la + lb < i
    <3>1. PICK k \in 1..lc : i = la + lb + k
      <4>1. i - (la + lb) \in 1..lc /\ i = la + lb + (i - (la + lb))
        BY <1>1, <1>5, <2>4
      <4> QED
        BY <4>1
    <3>2. old[la + k] = new[i] /\ la + k \in 1..Len(old)
      BY <1>8, <3>1
    <3>3. PICK m \in 1..(la + k) : old[m] = x
      <4>1. x.userAuthor = old[la + k].userAuthor /\ x.tweetID <= old[la + k].tweetID
        BY <1>9, <3>2
      <4> QED
        BY <1>10, <3>2, <4>1
    <3>4. CASE m <= la
      <4>1. m \in 1..la /\ m \in 1..i
        BY <1>1, <1>5, <3>1, <3>4
      <4> QED
        BY <1>7, <3>3, <4>1
    <3>5. CASE m > la
      <4>1. /\ m - la \in 1..lc /\ la + (m - la) = m
            /\ la + lb + (m - la) \in 1..i
        BY <1>1, <1>5, <3>1, <3>5
      <4>2. old[m] = c[m - la] /\ new[la + lb + (m - la)] = c[m - la]
        BY <1>8, <4>1
      <4> QED
        BY <3>3, <4>1, <4>2
    <3> QED
      BY <1>1, <3>4, <3>5
  <2> QED
    BY <1>1, <1>5, <2>2, <2>3, <2>4
<1> QED
  BY <1>9 DEF Ordered, new, bc

(* ... and when a tweet that is the latest of its author follows.           *)
LEMMA OrderedAppended ==
  ASSUME NEW q \in Seq(PendingTweets), Ordered(q), NEW x \in PendingTweets, NEW n \in Nat,
         NEW more, Repeats(more, n, x),
         \A y \in In(q) : y.userAuthor = x.userAuthor => y.tweetID < x.tweetID
  PROVE  /\ q \o more \in Seq(PendingTweets) /\ Ordered(q \o more)
         /\ In(q \o more) = In(q) \cup (IF n = 0 THEN {} ELSE {x})
<1> DEFINE all == q \o more
           lq == Len(q)
<1>1. more \in Seq(PendingTweets) /\ Len(more) = n /\ \A k \in 1..n : more[k] = x
  BY RepeatedProperties DEF Repeats
<1>2. lq \in Nat
  BY LenProperties
<1>3. /\ all \in Seq(PendingTweets) /\ Len(all) = lq + n
      /\ \A k \in 1..(lq + n) : all[k] = IF k <= lq THEN q[k] ELSE more[k - lq]
  BY <1>1, ConcatProperties
<1>4. In(more) = IF n = 0 THEN {} ELSE {x}
  <2>1. n = 0 \/ 1 \in 1..n
    OBVIOUS
  <2> QED
    BY <1>1, <2>1 DEF In
<1>5. In(all) = In(q) \cup In(more)
  BY <1>1, InConcat
<1>6. \A y \in PendingTweets : y.tweetID \in Nat
  BY DEF PendingTweets
<1>7. \A k \in 1..lq : q[k] \in PendingTweets /\ q[k] \in In(q)
  BY SequenceFacts DEF In
<1> HIDE DEF all, lq
<1>8. /\ \A k \in 1..lq : k \in 1..Len(all) /\ all[k] = q[k]
      /\ \A k \in 1..Len(all) : k \in 1..lq \/ (k > lq /\ all[k] = x)
  <2>1. \A k \in (lq + 1)..(lq + n) : k - lq \in 1..n /\ ~(k <= lq)
    BY <1>2
  <2> QED
    BY <1>1, <1>2, <1>3, <2>1
<1>9. ASSUME NEW i \in 1..Len(all), NEW y \in In(all),
             y.userAuthor = all[i].userAuthor, y.tweetID <= all[i].tweetID
      PROVE  \E m \in 1..i : all[m] = y
  <2>1. CASE i \in 1..lq
    <3>1. y \in In(q)
      <4>1. y # x
        BY <1>6, <1>7, <1>8, <1>9, <2>1
      <4> QED
        BY <1>4, <1>5, <4>1
    <3>2. PICK m \in 1..i : q[m] = y
      BY <1>8, <1>9, <2>1, <3>1 DEF Ordered, lq
    <3>3. m \in 1..lq
      BY <1>2, <2>1
    <3> QED
      BY <1>8, <3>2, <3>3
  <2>2. CASE i > lq /\ all[i] = x
    <3>1. CASE y = x
      BY <1>3, <2>2, <3>1
    <3>2. CASE y \in In(q)
      <4>1. PICK m \in 1..lq : q[m] = y
        BY <3>2 DEF In, lq
      <4>2. m \in 1..i
        BY <1>2, <1>3, <2>2
      <4> QED
        BY <1>8, <4>1, <4>2
    <3> QED
      BY <1>4, <1>5, <3>1, <3>2
  <2> QED
    BY <1>8, <2>1, <2>2
<1> QED
  BY <1>3, <1>4, <1>5, <1>9 DEF Ordered, all

(* Tweets that are all there to be looked up are all found, in order.      *)
LEMMA LookUpFindsAll ==
  ASSUME NEW q \in Seq(PendingTweets), \A k \in 1..Len(q) : IsReceived(q[k])
  PROVE  lookUpTweets(q) = q
<1>1. PICK found :
        /\ lookUpTweets(q) = found[Len(q)]
        /\ \A k \in 0..Len(q) :
             /\ found[k] \in Seq(PendingTweets)
             /\ found[k] = IF k = 0 THEN <<>>
                           ELSE IF IsReceived(q[k]) THEN Append(found[k - 1], q[k])
                           ELSE found[k - 1]
  BY LookUpTweetsRuns
<1> DEFINE n == Len(q)
           alike(k) == Len(found[k]) = k /\ \A j \in 1..k : found[k][j] = q[j]
           bad == {k \in 0..n : ~alike(k)}
<1>2. n \in Nat /\ \A k \in 1..n : q[k] \in PendingTweets
  BY SequenceFacts
<1>3. ASSUME bad # {}
      PROVE  FALSE
  <2>1. bad \in SUBSET Nat
    BY <1>2
  <2>2. PICK m \in bad : \A k \in bad : m <= k
    BY <1>3, <2>1, LeastNumber
  <2>3. m # 0
    <3>1. found[0] = <<>>
      BY <1>1, <1>2
    <3>2. Len(found[0]) = 0
      BY <3>1, EmptySeq
    <3>3. alike(0)
      BY <3>2
    <3> QED
      BY <2>2, <3>3
  <2>4. m \in 1..n /\ m - 1 \in 0..n /\ ~(m <= m - 1)
    BY <1>2, <2>2, <2>3
  <2>5. alike(m - 1)
    <3> HIDE DEF alike
    <3> QED
      BY <2>2, <2>4
  <2> DEFINE r == found[m - 1]
  <2>6. found[m] = Append(r, q[m]) /\ r \in Seq(PendingTweets) /\ q[m] \in PendingTweets
    <3>1. m \in 0..Len(q) /\ m - 1 \in 0..Len(q) /\ m # 0 /\ q[m] \in PendingTweets
      BY <1>2, <2>4
    <3>2. IsReceived(q[m])
      BY <2>4
    <3>3. r \in Seq(PendingTweets)
      BY <1>1, <3>1
    <3>4. found[m] = IF m = 0 THEN <<>> ELSE IF IsReceived(q[m]) THEN Append(r, q[m]) ELSE r
      BY <1>1, <3>1
    <3> QED
      BY <3>1, <3>2, <3>3, <3>4
  <2>7. /\ Len(found[m]) = Len(r) + 1 /\ found[m][Len(r) + 1] = q[m]
        /\ \A j \in 1..Len(r) : found[m][j] = r[j]
    BY <2>6, AppendProperties
  <2>8. Len(r) = m - 1 /\ \A j \in 1..(m - 1) : r[j] = q[j]
    BY <2>5
  <2> HIDE DEF r
  <2>9. (m - 1) + 1 = m /\ \A j \in 1..m : j \in 1..(m - 1) \/ j = m
    BY <2>4
  <2>10. alike(m)
    BY <2>7, <2>8, <2>9
  <2> QED
    BY <2>2, <2>10
<1>4. alike(n)
  <2>1. n \in 0..n
    BY <1>2
  <2> HIDE DEF alike, n
  <2> QED
    BY <1>3, <2>1
<1>5. found[n] \in Seq(PendingTweets)
  BY <1>1, <1>2
<1> QED
  BY <1>1, <1>4, <1>5, SeqEqual

LEMMA TakenAreReceived ==
  ASSUME TypeInv, ExactInv, NEW s \in Sessions, lis[s] \in Counting
  PROVE  \A k \in 1..Len(pendingTweets[s]) : IsReceived(pendingTweets[s][k])
<1> SUFFICES ASSUME NEW k \in 1..Len(pendingTweets[s]), NEW p, p = pendingTweets[s][k]
             PROVE  IsReceived(p)
  OBVIOUS
<1>1. pendingTweets[s] \in Seq(PendingTweets) /\ p \in PendingTweets
  BY SequenceFacts DEF TypeInv, ListenersTyped
<1>2. k \in Positions(p, pendingTweets[s])
  BY <1>1, PositionsFinite
<1>3. TakenEntries(p)[s] # {}
  BY <1>2 DEF TakenEntries
<1>4. TakenFor(p) # 0
  BY <1>3, CountsAreNumbers, PartOfTotal DEF TakenFor
<1> QED
  BY <1>1, <1>4, AwaitedIsReceived, WaitingIsNumber DEF Waiting

-----------------------------------------------------------------------------
(* A connection's line: the tweets it has been sent, those its listener    *)
(* has retrieved, those it is looking up, and those pending for its user.  *)
Taken(s) == IF lis[s] = "lookUp" THEN pendingTweets[s] ELSE <<>>
Rest(s) == Taken(s) \o listOfPendingTweets[Login[s]]
Line(s) == outgoing[s] \o (receivedTweets[s] \o Rest(s))

LEMMA LineTyped ==
  ASSUME EverybodyIsKnown, TypeInv, NEW s \in Sessions
  PROVE  /\ outgoing[s] \in Seq(PendingTweets) /\ receivedTweets[s] \in Seq(PendingTweets)
         /\ Taken(s) \in Seq(PendingTweets)
         /\ listOfPendingTweets[Login[s]] \in Seq(PendingTweets)
         /\ Rest(s) \in Seq(PendingTweets)
         /\ receivedTweets[s] \o Rest(s) \in Seq(PendingTweets)
         /\ Line(s) \in Seq(PendingTweets)
<1>1. /\ outgoing[s] \in Seq(PendingTweets) /\ receivedTweets[s] \in Seq(PendingTweets)
      /\ Taken(s) \in Seq(PendingTweets)
      /\ listOfPendingTweets[Login[s]] \in Seq(PendingTweets)
  BY EmptySeq DEF TypeInv, ListenersTyped, DBTyped, Taken, EverybodyIsKnown
<1>2. Rest(s) \in Seq(PendingTweets)
  BY <1>1, ConcatProperties DEF Rest
<1>3. receivedTweets[s] \o Rest(s) \in Seq(PendingTweets)
  BY <1>1, <1>2, ConcatProperties
<1>4. Line(s) \in Seq(PendingTweets)
  BY <1>1, <1>3, ConcatProperties DEF Line
<1> QED
  BY <1>1, <1>2, <1>3, <1>4

(* Where nothing is retrieved or taken, the parts are written apart.       *)
LEMMA LineRegrouped ==
  ASSUME NEW S, NEW a \in Seq(S), NEW b \in Seq(S), NEW c \in Seq(S)
  PROVE  /\ a \o (b \o (<<>> \o c)) = (a \o b) \o (<<>> \o (<<>> \o c))
         /\ a \o (<<>> \o (b \o c)) = a \o (b \o (<<>> \o c))
         /\ a \o (<<>> \o (<<>> \o c)) = a \o (<<>> \o (c \o <<>>))
<1>1. <<>> \o c = c /\ c \o <<>> = c
  BY ConcatEmptySeq
<1>2. b \o c \in Seq(S)
  BY ConcatProperties
<1>3. <<>> \o (b \o c) = b \o c
  BY <1>2, ConcatEmptySeq
<1>4. (a \o b) \o c = a \o (b \o c)
  BY ConcatAssociative
<1> QED
  BY <1>1, <1>3, <1>4

(* A retrieval moves tweets along the line, and takes tweets that have     *)
(* been sent from the archive.                                             *)
FromArchive(s) ==
  /\ receivedTweets[s] = <<>>
  /\ \E q \in Seq(PendingTweets) :
       In(q) \subseteq In(outgoing[s]) /\ Line(s)' = outgoing[s] \o (q \o Rest(s))

LEMMA LineRetrieve ==
  ASSUME Settled, TypeInv, ExactInv, StayInv, ArchiveSent, NEW s \in Sessions, ListenerStep(s)
  PROVE  Line(s)' = Line(s) \/ FromArchive(s)
<1> USE DEF ListenerGoes
<1>0. /\ outgoing[s] \in Seq(PendingTweets) /\ receivedTweets[s] \in Seq(PendingTweets)
      /\ pendingTweets[s] \in Seq(PendingTweets)
      /\ listOfPendingTweets[Login[s]] \in Seq(PendingTweets) /\ Login[s] \in Users
  BY LineTyped DEF Settled, EverybodyIsKnown, TypeInv, ListenersTyped
<1>1. lis \in [Sessions -> ListenerStates] /\ receivedTweets \in [Sessions -> Seq(PendingTweets)]
  BY DEF TypeInv, ListenersTyped
<1>2. lis[s] \in ListenerStates \ InHand => receivedTweets[s] = <<>>
  BY DEF StayInv, AtHome
<1>3. CASE ClearPending(s)
  <2> DEFINE P == listOfPendingTweets[Login[s]]
  <2>1. /\ lis[s] = "clear" /\ clientIndex[s] = Login[s]
        /\ UNCHANGED <<receivedTweets, outgoing, pendingTweets>>
        /\ listOfPendingTweets' = [listOfPendingTweets EXCEPT ![Login[s]] = <<>>]
        /\ lis'[s] = IF pendingTweets[s] = <<>> THEN "awaitDuplicates" ELSE "lookUp"
    BY <1>1, <1>3, NoUserAssumption
    DEF ClearPending, clearPendingTweets, ExactInv, CalmInv, TypeInv, ThreadsOK
  <2>2. P = pendingTweets[s] /\ receivedTweets[s] = <<>>
    BY <1>2, <2>1 DEF ExactInv, CopyExact, InHand, ListenerStates
  <2>3. Taken(s) = <<>> /\ Taken(s)' = P /\ listOfPendingTweets'[Login[s]] = <<>>
    BY <1>0, <2>1, <2>2 DEF Taken, TypeInv, DBTyped
  <2>4. Line(s) = outgoing[s] \o (<<>> \o (<<>> \o P))
    BY <2>2, <2>3 DEF Line, Rest
  <2>5. Line(s)' = outgoing[s] \o (<<>> \o (P \o <<>>))
    BY <2>1, <2>2, <2>3 DEF Line, Rest
  <2> HIDE DEF P
  <2> QED
    BY <1>0, <2>4, <2>5, LineRegrouped DEF P
<1>4. CASE LookUpTweets(s)
  <2>1. /\ lis[s] = "lookUp" /\ lis'[s] = "twoConnections"
        /\ UNCHANGED <<outgoing, listOfPendingTweets>>
        /\ receivedTweets'[s] = pendingTweets[s]
    <3>1. lookUpTweets(pendingTweets[s]) = pendingTweets[s]
      BY <1>0, <1>4, TakenAreReceived, LookUpFindsAll DEF LookUpTweets, Counting
    <3> QED
      BY <1>1, <1>4, <3>1 DEF LookUpTweets, dbVars
  <2>2. receivedTweets[s] = <<>>
    BY <1>2, <2>1 DEF InHand, ListenerStates
  <2>3. Line(s) = outgoing[s] \o (<<>> \o (pendingTweets[s] \o listOfPendingTweets[Login[s]]))
    BY <2>1, <2>2 DEF Line, Rest, Taken
  <2>4. Line(s)' = outgoing[s] \o (pendingTweets[s] \o (<<>> \o listOfPendingTweets[Login[s]]))
    BY <2>1 DEF Line, Rest, Taken
  <2> QED
    BY <1>0, <2>3, <2>4, LineRegrouped
<1>5. CASE EndRetrieve(s)
  <2>1. /\ lis[s] = "leave" /\ lis'[s] = "pitstop" /\ UNCHANGED listOfPendingTweets
        /\ outgoing'[s] = outgoing[s] \o receivedTweets[s] /\ receivedTweets'[s] = <<>>
    BY <1>1, <1>5 DEF EndRetrieve, dbVars, TypeInv, ListenersTyped
  <2>2. Line(s) = outgoing[s] \o (receivedTweets[s] \o (<<>> \o listOfPendingTweets[Login[s]]))
    BY <2>1 DEF Line, Rest, Taken
  <2>3. Line(s)' = (outgoing[s] \o receivedTweets[s])
                     \o (<<>> \o (<<>> \o listOfPendingTweets[Login[s]]))
    BY <2>1 DEF Line, Rest, Taken
  <2>4. PICK a, b, c : a = outgoing[s] /\ b = receivedTweets[s] /\ c = listOfPendingTweets[Login[s]]
    OBVIOUS
  <2>5. a \o (b \o (<<>> \o c)) = (a \o b) \o (<<>> \o (<<>> \o c))
    <3>1. a \in Seq(PendingTweets) /\ b \in Seq(PendingTweets) /\ c \in Seq(PendingTweets)
      BY <1>0, <2>4
    <3> QED
      BY ONLY <3>1, LineRegrouped
  <2> QED
    BY <2>2, <2>3, <2>4, <2>5
<1>6. CASE TakeDuplicates(s)
  <2>1. /\ lis[s] = "awaitDuplicates" /\ lis'[s] = "leave"
        /\ UNCHANGED <<outgoing, listOfPendingTweets>>
    BY <1>1, <1>6 DEF TakeDuplicates, dbVars
  <2>2. receivedTweets[s] = <<>>
    BY <1>2, <2>1 DEF InHand, ListenerStates
  <2>3. Rest(s)' = Rest(s)
    BY <2>1 DEF Rest, Taken
  <2>4. PICK q : TakeArchive(s, q) /\ receivedTweets' = [receivedTweets EXCEPT ![s] = q]
    BY <1>6 DEF TakeDuplicates
  <2>5. q \in Seq(PendingTweets) /\ In(q) \subseteq In(outgoing[s])
    <3> DEFINE i == connectionIndex[s]
    <3>1. q \in Seq(PendingTweets)
      BY <2>4, TakeKeepsLists DEF TakeArchive, TypeInv
    <3>2. CASE q = <<>>
      BY <3>1, <3>2, InNothing
    <3>3. CASE q # <<>>
      <4>1. i # NoCall /\ InRange(i) /\ q = listOfDuplicatedTweets[i]
        BY <2>4, <3>3 DEF TakeArchive, EndCall, retrieveDuplicateTweet
      <4>2. i \in 1..Len(listOfConnectedUsers) /\ Len(listOfConnectedUsers) \in Nat
        BY <4>1, SequenceFacts DEF InRange, TypeInv, ListsOK
      <4>3. i \in 1..Len(listOfDuplicatedTweets) /\ listOfConnectedUsers[i].userID = Login[s]
        BY <4>1, <4>2 DEF TypeInv, ListsOK, StayInv, OwnIndex
      <4>4. In(q) \subseteq Sent(s)
        BY <4>1, <4>3 DEF ArchiveSent
      <4> QED
        BY <2>2, <3>1, <4>4, InNothing DEF Sent
    <3> QED
      BY <3>2, <3>3
  <2>6. Line(s)' = outgoing[s] \o (q \o Rest(s))
    BY <1>1, <2>1, <2>3, <2>4 DEF Line
  <2> QED
    BY <2>2, <2>5, <2>6 DEF FromArchive
<1>7. CASE ~(ClearPending(s) \/ LookUpTweets(s) \/ EndRetrieve(s) \/ TakeDuplicates(s))
  <2>1. /\ UNCHANGED <<outgoing, receivedTweets, listOfPendingTweets>>
        /\ (lis[s] # "lookUp" /\ lis'[s] # "lookUp") \/ UNCHANGED <<lis, pendingTweets>>
    BY <1>1, <1>7
    DEF ListenerStep, Retrieve, CheckPending, CheckDuplicates, CheckAnonymous, BeginRetrieve,
        CopyPending, FindConnection, CheckTwoConnections, ArchiveTweet, UpdateTweet,
        updateReceivedTweet, AfterCheck, listenerVars, dbVars
  <2> QED
    BY <2>1 DEF Line, Rest, Taken
<1> QED
  BY <1>3, <1>4, <1>5, <1>6, <1>7

(* The other connections' lines stay as they are.                          *)
LEMMA LineOther ==
  ASSUME Settled, TypeInv, ExactInv, NEW s \in Sessions, ListenerStep(s),
         NEW t \in Sessions, t # s
  PROVE  Line(t)' = Line(t)
<1>1. /\ lis'[t] = lis[t] /\ pendingTweets'[t] = pendingTweets[t]
      /\ receivedTweets'[t] = receivedTweets[t] /\ outgoing'[t] = outgoing[t]
  <2>1. /\ UNCHANGED lis \/ \E to : lis' = [lis EXCEPT ![s] = to]
        /\ UNCHANGED pendingTweets \/ \E q : pendingTweets' = [pendingTweets EXCEPT ![s] = q]
        /\ UNCHANGED receivedTweets \/ \E q : receivedTweets' = [receivedTweets EXCEPT ![s] = q]
        /\ UNCHANGED outgoing \/ \E q : outgoing' = [outgoing EXCEPT ![s] = q]
    BY DEF ListenerStep, Retrieve, CheckPending, CheckDuplicates, CheckAnonymous, BeginRetrieve,
           CopyPending, ClearPending, FindConnection, TakeDuplicates, LookUpTweets,
           CheckTwoConnections, ArchiveTweet, UpdateTweet, EndRetrieve, ListenerGoes, listenerVars
  <2> QED
    BY <2>1 DEF TypeInv, ListenersTyped
<1>2. listOfPendingTweets'[Login[t]] = listOfPendingTweets[Login[t]]
  <2>1. CASE UNCHANGED listOfPendingTweets
    BY <2>1
  <2>2. CASE ClearPending(s)
    <3>1. clientIndex[s] = Login[s]
      BY <2>2, NoUserAssumption
      DEF ClearPending, ListenerGoes, ExactInv, CalmInv, TypeInv, ThreadsOK
    <3>2. Login[s] # Login[t]
      BY DEF Settled, OneConnectionEach, EverybodyIsKnown
    <3> QED
      BY <2>2, <3>1, <3>2
      DEF ClearPending, clearPendingTweets, TypeInv, DBTyped, Settled, EverybodyIsKnown
  <2> QED
    BY <2>1, <2>2
    DEF ListenerStep, Retrieve, CheckPending, CheckDuplicates, CheckAnonymous, BeginRetrieve,
        CopyPending, FindConnection, TakeDuplicates, LookUpTweets, CheckTwoConnections,
        ArchiveTweet, UpdateTweet, updateReceivedTweet, EndRetrieve, dbVars
<1> QED
  BY <1>1, <1>2 DEF Line, Rest, Taken

(***************************************************************************)
(* The lines of all connections: each has, before a tweet of an author,    *)
(* her earlier ones; the tweets of an author are in the lines of just      *)
(* those who follow her; and what she is about to post is later than all   *)
(* of them.                                                                *)
(***************************************************************************)
LinesOrdered == \A s \in Sessions : Ordered(Line(s))

LinesShared ==
  \A s, t \in Sessions : \A x \in In(Line(t)) :
    /\ alreadyFollowed(x.userAuthor, Login[t])
    /\ alreadyFollowed(x.userAuthor, Login[s]) => x \in In(Line(s))

LinesEarlier ==
  \A s \in Sessions : \A x \in In(Line(s)) :
    /\ x.tweetID < numTweets
    /\ \A w \in Sessions : spk[w] \in Posting /\ clientIndex[w] = x.userAuthor
                             => x.tweetID < tweetID[w]

LineInv == LinesOrdered /\ LinesShared /\ LinesEarlier

LEMMA NumbersGrow ==
  ASSUME TypeInv, [Next]_vars
  PROVE  /\ numTweets \in Nat /\ numTweets' \in Nat /\ numTweets' >= numTweets
         /\ \A w \in Sessions : spk'[w] \in Posting =>
              \/ tweetID'[w] = numTweets
              \/ /\ spk[w] \in Posting
                 /\ tweetID'[w] = tweetID[w] /\ clientIndex'[w] = clientIndex[w]
<1>0. numTweets \in Nat /\ spk \in [Sessions -> SpeakerStates] /\ tweetID \in [Sessions -> Nat]
  BY DEF TypeInv, DBTyped, SpeakersTyped
<1>1. CASE Quiet
  BY <1>0, <1>1 DEF Quiet, Keeps
<1>2. ASSUME NEW s \in Sessions, Gets(s)
      PROVE  UNCHANGED numTweets /\ \A t \in Sessions : Keeps(t)
  BY <1>2 DEF Gets, CopyPending, ClearPending, clearPendingTweets, UpdateTweet,
              updateReceivedTweet, dbVars
<1>3. ASSUME NEW s \in Sessions, Posts(s)
      PROVE  /\ UNCHANGED clientIndex /\ \A t \in Sessions : t # s => Keeps(t)
             /\ \/ numTweets' = numTweets + 1 /\ tweetID'[s] = numTweets
                \/ UNCHANGED <<numTweets, tweetID>> /\ spk[s] \in Posting
  BY <1>0, <1>3
  DEF Posts, TakeNumber, takeTweetID, CountFollowers, LockAndCount, RegisterUpdate,
      registerUpdate, Recount, ForwardUpdate, forwardUpdate, SpeakerGoes, Posting, InMutex, dbVars
<1> QED
  BY <1>0, <1>1, <1>2, <1>3, StepShape DEF Keeps

(* Steps that bring no tweet into a line.                                  *)
LEMMA LinesKept ==
  ASSUME TypeInv, CalmInv, LineInv, [Next]_vars,
         \A t \in Sessions : Ordered(Line(t)') /\ In(Line(t)') = In(Line(t)),
         \A t \in Sessions : In(Line(t)) \subseteq PendingTweets
  PROVE  LineInv'
<1>1. UNCHANGED listOfFollowers
  BY FollowersKept
<1>2. LinesOrdered'
  BY DEF LinesOrdered
<1>3. LinesShared'
  BY <1>1 DEF LineInv, LinesShared, alreadyFollowed
<1>4. ASSUME NEW s \in Sessions, NEW x \in In(Line(s))
      PROVE  /\ x.tweetID < numTweets'
             /\ \A w \in Sessions : spk'[w] \in Posting /\ clientIndex'[w] = x.userAuthor
                                      => x.tweetID < tweetID'[w]
  <2>1. x.tweetID \in Nat /\ x.tweetID < numTweets
    BY <1>4 DEF LineInv, LinesEarlier, PendingTweets
  <2>2. \A w \in Sessions : spk[w] \in Posting /\ clientIndex[w] = x.userAuthor
                              => x.tweetID < tweetID[w]
    BY <1>4 DEF LineInv, LinesEarlier
  <2> QED
    BY <2>1, <2>2, NumbersGrow
<1>5. LinesEarlier'
  BY <1>4 DEF LinesEarlier
<1> QED
  BY <1>2, <1>3, <1>5 DEF LineInv

LEMMA InLine ==
  ASSUME EverybodyIsKnown, TypeInv, NEW s \in Sessions
  PROVE  In(Line(s)) \subseteq PendingTweets
  BY LineTyped, SequenceFacts DEF In

LEMMA LineFromArchive ==
  ASSUME EverybodyIsKnown, TypeInv, LineInv, NEW s \in Sessions, FromArchive(s)
  PROVE  Ordered(Line(s)') /\ In(Line(s)') = In(Line(s))
<1>1. PICK q \in Seq(PendingTweets) :
        In(q) \subseteq In(outgoing[s]) /\ Line(s)' = outgoing[s] \o (q \o Rest(s))
  BY DEF FromArchive
<1>2. PICK a, c : a = outgoing[s] /\ c = Rest(s)
  OBVIOUS
<1>3. a \in Seq(PendingTweets) /\ c \in Seq(PendingTweets)
  BY <1>2, LineTyped
<1>4. <<>> \o c = c
  BY <1>3, ConcatEmptySeq
<1>5. Line(s) = a \o c
  BY <1>2, <1>4 DEF Line, FromArchive
<1>6. Ordered(a \o c)
  BY <1>5 DEF LineInv, LinesOrdered
<1>7. Ordered(a \o (q \o c))
  BY <1>1, <1>2, <1>3, <1>6, OrderedInserted
<1>8. In(a \o (q \o c)) = In(a) \cup (In(q) \cup In(c)) /\ In(a \o c) = In(a) \cup In(c)
  <2>1. q \o c \in Seq(PendingTweets) /\ In(q \o c) = In(q) \cup In(c)
    BY <1>3, InConcat
  <2>2. PICK r : r = q \o c
    OBVIOUS
  <2>3. In(a \o r) = In(a) \cup In(r) /\ In(a \o c) = In(a) \cup In(c)
    <3>1. a \in Seq(PendingTweets) /\ r \in Seq(PendingTweets) /\ c \in Seq(PendingTweets)
      BY <1>3, <2>1, <2>2
    <3>2. In(a \o r) = In(a) \cup In(r)
      BY ONLY <3>1, InConcat
    <3>3. In(a \o c) = In(a) \cup In(c)
      BY ONLY <3>1, InConcat
    <3> QED
      BY <3>2, <3>3
  <2> QED
    BY <2>1, <2>2, <2>3
<1> QED
  BY <1>1, <1>2, <1>5, <1>7, <1>8

LEMMA LinesRetrieve ==
  ASSUME Settled, TypeInv, ExactInv, StayInv, ArchiveSent, LineInv, [Next]_vars,
         NEW s \in Sessions, ListenerStep(s)
  PROVE  LineInv'
<1>1. ASSUME NEW t \in Sessions
      PROVE  Ordered(Line(t)') /\ In(Line(t)') = In(Line(t))
  <2>1. CASE Line(t)' = Line(t)
    BY <2>1 DEF LineInv, LinesOrdered
  <2>2. CASE t = s /\ FromArchive(s)
    BY <2>2, LineFromArchive DEF Settled
  <2> QED
    BY <2>1, <2>2, LineRetrieve, LineOther
<1> QED
  BY <1>1, InLine, LinesKept DEF Settled, ExactInv

LEMMA LinesStay ==
  ASSUME EverybodyIsKnown, TypeInv, CalmInv, LineInv, [Next]_vars,
         \A t \in Sessions : Line(t)' = Line(t)
  PROVE  LineInv'
<1>1. \A t \in Sessions : Ordered(Line(t)') /\ In(Line(t)') = In(Line(t))
  BY DEF LineInv, LinesOrdered
<1> QED
  BY <1>1, InLine, LinesKept

LEMMA LinesConnector ==
  ASSUME Settled, TypeInv, CalmInv, StayInv, LineInv, [Next]_vars, NEW s \in Sessions,
         AcceptClient(s) \/ CloseClient(s) \/ SessionStep(s)
  PROVE  LineInv'
<1>1. UNCHANGED <<outgoing, receivedTweets, pendingTweets, listOfPendingTweets>>
  BY StayConnector DEF AcceptClient, CloseClient, SessionStep, listenerVars, dbVars
<1>2. ASSUME NEW t \in Sessions
      PROVE  lis'[t] = "lookUp" <=> lis[t] = "lookUp"
  <2>1. CASE AcceptClient(s)
    BY <2>1 DEF AcceptClient, Accept, TypeInv, ThreadsOK, ListenersTyped
  <2> QED
    BY <2>1 DEF CloseClient, SessionStep, listenerVars
<1> QED
  BY <1>1, <1>2, LinesStay DEF Line, Rest, Taken, Settled

(* Forwarding appends the tweet to the lines of those who follow.          *)
LEMMA ForwardedTo ==
  ASSUME TypeInv, CalmInv, NEW s \in Sessions, spk[s] = "forward",
         forwardUpdate(clientIndex[s], tweetID[s], followNum[s]), NEW v \in Users
  PROVE  \E n, more :
           /\ n \in Nat /\ Repeats(more, n, PendingTweet(clientIndex[s], tweetID[s]))
           /\ listOfPendingTweets'[v] = listOfPendingTweets[v] \o more
           /\ n = 0 <=> ~alreadyFollowed(clientIndex[s], v)
<1> DEFINE u0 == clientIndex[s]
           N == Len(listOfFollowers[u0])
           at == {i \in 1..N : listOfFollowers[u0][i] = v}
           n == Cardinality(at)
           more == [k \in 1..n |-> PendingTweet(u0, tweetID[s])]
<1>1. followNum[s] = N /\ u0 \in Users
  BY DEF CalmInv, InMutex, TypeInv, ThreadsOK
<1>2. listOfPendingTweets'[v] = listOfPendingTweets[v] \o more
  BY <1>1 DEF forwardUpdate
<1>3. Repeats(more, n, PendingTweet(u0, tweetID[s]))
  BY DEF Repeats
<1>4. N \in Nat /\ DOMAIN listOfFollowers[u0] = 1..N
  BY <1>1, SequenceFacts DEF TypeInv, DBTyped
<1>5. at = {} <=> ~alreadyFollowed(u0, v)
  BY <1>4 DEF alreadyFollowed
<1>6. IsFiniteSet(at)
  <2>1. IsFiniteSet(1..N) /\ at \subseteq 1..N
    BY <1>4, FS_Interval
  <2> QED
    BY <2>1, FS_Subset
<1>7. n \in Nat /\ (n = 0 <=> at = {})
  BY <1>6, FS_CardinalityType, FS_EmptySet
<1> HIDE DEF more, n, at
<1> QED
  BY <1>2, <1>3, <1>5, <1>7

(* What is appended to a sequence is appended to any that ends with it.    *)
Longer(q, r, more) == q \in Seq(PendingTweets) /\ r = q \o more

LEMMA LongerBehind ==
  ASSUME NEW p \in Seq(PendingTweets), NEW more \in Seq(PendingTweets), NEW q, NEW r,
         Longer(q, r, more)
  PROVE  Longer(p \o q, p \o r, more)
<1>1. q \in Seq(PendingTweets) /\ r = q \o more
  BY DEF Longer
<1>2. p \o q \in Seq(PendingTweets)
  BY <1>1, ConcatProperties
<1>3. (p \o q) \o more = p \o (q \o more)
  BY <1>1, ConcatAssociative
<1> QED
  BY <1>1, <1>2, <1>3 DEF Longer

LEMMA LineForward ==
  ASSUME EverybodyIsKnown, TypeInv, CalmInv, LineInv, NEW s \in Sessions, spk[s] = "forward",
         forwardUpdate(clientIndex[s], tweetID[s], followNum[s]), UNCHANGED listenerVars,
         NEW x, x = PendingTweet(clientIndex[s], tweetID[s]), NEW t \in Sessions
  PROVE  /\ Ordered(Line(t)')
         /\ In(Line(t)')
              = In(Line(t)) \cup (IF alreadyFollowed(clientIndex[s], Login[t]) THEN {x} ELSE {})
<1>1. Login[t] \in Users
  BY DEF EverybodyIsKnown
<1>2. PICK n, more :
        /\ n \in Nat /\ Repeats(more, n, x)
        /\ listOfPendingTweets'[Login[t]] = listOfPendingTweets[Login[t]] \o more
        /\ n = 0 <=> ~alreadyFollowed(clientIndex[s], Login[t])
  BY <1>1, ForwardedTo
<1>3. /\ x \in PendingTweets /\ x.userAuthor = clientIndex[s] /\ x.tweetID = tweetID[s]
  BY DEF PendingTweet, PendingTweets, TypeInv, ThreadsOK, SpeakersTyped
<1>4. PICK a, b, c, d : /\ a = outgoing[t] /\ b = receivedTweets[t] /\ c = Taken(t)
                        /\ d = listOfPendingTweets[Login[t]]
  OBVIOUS
<1>5. /\ a \in Seq(PendingTweets) /\ b \in Seq(PendingTweets) /\ c \in Seq(PendingTweets)
      /\ d \in Seq(PendingTweets) /\ more \in Seq(PendingTweets)
  BY <1>2, <1>3, <1>4, LineTyped, RepeatedProperties DEF Repeats
<1>6. PICK e : e = d \o more
  OBVIOUS
<1>7. Longer(Line(t), Line(t)', more)
  <2>1. Longer(d, e, more)
    BY <1>5, <1>6 DEF Longer
  <2>2. Longer(c \o d, c \o e, more)
    BY <1>5, <2>1, LongerBehind
  <2>3. Longer(b \o (c \o d), b \o (c \o e), more)
    BY <1>5, <2>2, LongerBehind
  <2>4. Longer(a \o (b \o (c \o d)), a \o (b \o (c \o e)), more)
    BY <1>5, <2>3, LongerBehind
  <2> QED
    BY <1>2, <1>4, <1>6, <2>4 DEF Line, Rest, Taken, listenerVars
<1>8. PICK q : q = Line(t)
  OBVIOUS
<1>9. Line(t)' = q \o more /\ q \in Seq(PendingTweets) /\ Ordered(q)
  BY <1>7, <1>8, LineTyped DEF LineInv, LinesOrdered, Longer
<1>10. \A y \in In(q) : y.userAuthor = x.userAuthor => y.tweetID < x.tweetID
  BY <1>3, <1>8 DEF LineInv, LinesEarlier, Posting, InMutex
<1>11. /\ Ordered(q \o more)
       /\ In(q \o more) = In(q) \cup (IF n = 0 THEN {} ELSE {x})
  BY <1>2, <1>3, <1>9, <1>10, OrderedAppended
<1> QED
  BY <1>2, <1>8, <1>9, <1>11

LEMMA LinesForward ==
  ASSUME Settled, TypeInv, OrderInv, CalmInv, LineInv, [Next]_vars, NEW s \in Sessions,
         SpeakerGoes(s, "forward", "leave"),
         forwardUpdate(clientIndex[s], tweetID[s], followNum[s]),
         UNCHANGED <<listenerVars, clientIndex>>
  PROVE  LineInv'
<1> DEFINE u0 == clientIndex[s]
           gets(t) == alreadyFollowed(u0, Login[t])
<1>1. PICK x : x = PendingTweet(u0, tweetID[s])
  OBVIOUS
<1>2. /\ spk[s] = "forward" /\ spk'[s] = "leave" /\ u0 \in Users
      /\ x.userAuthor = u0 /\ x.tweetID = tweetID[s] /\ tweetID[s] \in Nat
      /\ UNCHANGED listOfFollowers
  BY <1>1, FollowersKept
  DEF SpeakerGoes, PendingTweet, TypeInv, SpeakersTyped, ThreadsOK
<1>3. \A t \in Sessions : /\ Ordered(Line(t)')
                          /\ In(Line(t)') = In(Line(t)) \cup (IF gets(t) THEN {x} ELSE {})
  BY <1>1, <1>2, LineForward DEF Settled
<1>4. LinesOrdered'
  BY <1>3 DEF LinesOrdered
<1>5. LinesShared'
  <2>1. ASSUME NEW r \in Sessions, NEW t \in Sessions, NEW y \in In(Line(t)')
        PROVE  /\ alreadyFollowed(y.userAuthor, Login[t])
               /\ alreadyFollowed(y.userAuthor, Login[r]) => y \in In(Line(r)')
    <3>1. CASE y \in In(Line(t))
      BY <1>3, <3>1 DEF LineInv, LinesShared
    <3>2. CASE y = x /\ gets(t)
      BY <1>2, <1>3, <3>2
    <3> QED
      BY <1>3, <2>1, <3>1, <3>2
  <2> QED
    BY <1>2, <2>1 DEF LinesShared, alreadyFollowed
<1>6. ASSUME NEW t \in Sessions, NEW y \in In(Line(t)')
      PROVE  /\ y.tweetID < numTweets'
             /\ \A w \in Sessions : spk'[w] \in Posting /\ clientIndex'[w] = y.userAuthor
                                      => y.tweetID < tweetID'[w]
  <2>1. UNCHANGED numTweets
    BY DEF forwardUpdate
  <2>2. \A w \in Sessions : spk'[w] \in Posting =>
          \/ tweetID'[w] = numTweets
          \/ /\ spk[w] \in Posting
             /\ tweetID'[w] = tweetID[w] /\ clientIndex'[w] = clientIndex[w]
    BY NumbersGrow
  <2>3. CASE y \in In(Line(t))
    BY <2>1, <2>2, <2>3 DEF LineInv, LinesEarlier
  <2>4. CASE y = x
    <3>1. x.tweetID < numTweets
      BY <1>2 DEF OrderInv, NumbersOK, PostingFresh, Posting, InMutex
    <3>2. ASSUME NEW w \in Sessions, spk'[w] \in Posting, clientIndex'[w] = u0
          PROVE  FALSE
      <4>1. clientIndex[w] = clientIndex[s]
        BY <3>2
      <4>2. w = s
        BY <1>2, <4>1, NoUserAssumption DEF CalmInv, Settled, OneConnectionEach
      <4> QED
        BY <1>2, <3>2, <4>2 DEF Posting, InMutex
    <3> QED
      BY <1>2, <2>1, <2>4, <3>1, <3>2
  <2> QED
    BY <1>3, <1>6, <2>3, <2>4
<1>7. LinesEarlier'
  BY <1>6 DEF LinesEarlier
<1> QED
  BY <1>4, <1>5, <1>7 DEF LineInv

LEMMA LinesSpeaker ==
  ASSUME Settled, TypeInv, OrderInv, CalmInv, LineInv, [Next]_vars, NEW s \in Sessions,
         SpeakerStep(s) \/ \E r \in Requests[s] : BeginRequest(s, r)
  PROVE  LineInv'
<1>1. UNCHANGED <<listenerVars, clientIndex>>
  BY SpeakerKeeps DEF sessionVars
<1>2. CASE UNCHANGED listOfPendingTweets
  BY <1>1, <1>2, LinesStay DEF Line, Rest, Taken, listenerVars, Settled
<1>3. CASE /\ SpeakerGoes(s, "forward", "leave")
           /\ forwardUpdate(clientIndex[s], tweetID[s], followNum[s])
  BY <1>1, <1>3, LinesForward
<1> QED
  BY <1>2, <1>3
  DEF SpeakerStep, BeginRequest, TakeNumber, takeTweetID, CountFollowers, LockAndCount,
      RegisterUpdate, registerUpdate, Recount, ForwardUpdate, CheckFollow, PushFollow,
      pushFollower, EndRequest, StopSpeaker, dbVars

LEMMA LineStep ==
  ASSUME Settled, TypeInv, OrderInv, ExactInv, StayInv, ArchiveSent, LineInv, [Next]_vars
  PROVE  LineInv'
<1>1. ASSUME NEW s \in Sessions, SessionNext(s)
      PROVE  LineInv'
  BY <1>1, LinesConnector, LinesRetrieve, LinesSpeaker DEF SessionNext, ExactInv
<1>2. CASE SaverStep \/ UNCHANGED vars
  BY <1>2, LinesStay DEF SaverStep, vars, listenerVars, dbVars, Line, Rest, Taken, ExactInv, Settled
<1> QED
  BY <1>1, <1>2 DEF Next

LEMMA LineInit ==
  ASSUME Init, EverybodyIsKnown
  PROVE  ArchiveSent /\ LineInv
<1>1. Len(<<>>) = 0 /\ <<>> \in Seq(PendingTweets)
  BY EmptySeq
<1>2. <<>> \o <<>> = <<>>
  BY <1>1, ConcatEmptySeq
<1>3. \A s \in Sessions : Line(s) = <<>>
  BY <1>2 DEF Init, DBInit, Line, Rest, Taken, EverybodyIsKnown
<1>4. ArchiveSent
  BY <1>1 DEF Init, CSInit, CMInit, ArchiveSent
<1>5. LineInv
  BY <1>1, <1>3, InNothing DEF LineInv, LinesOrdered, LinesShared, LinesEarlier, Ordered
<1> QED
  BY <1>4, <1>5

(* Who follows an author is sent her tweets in order, and none is left     *)
(* out: with a tweet of an author a connection has been sent, before it,   *)
(* every earlier one of hers that any connection has been sent.  What it   *)
(* is sent has gone by the pending lists, the lookup and the archive.      *)
NoneSkipped ==
  \A s, t \in Sessions : \A i \in DOMAIN outgoing[s], j \in DOMAIN outgoing[t] :
    LET later == outgoing[s][i]
        p == outgoing[t][j]
    IN  p.userAuthor = later.userAuthor /\ p.tweetID <= later.tweetID
          => \E k \in 1..i : outgoing[s][k] = p

LEMMA LinesGiveNoneSkipped ==
  ASSUME EverybodyIsKnown, TypeInv, LineInv
  PROVE  NoneSkipped
<1> SUFFICES ASSUME NEW s \in Sessions, NEW t \in Sessions,
                    NEW i \in DOMAIN outgoing[s], NEW j \in DOMAIN outgoing[t],
                    outgoing[t][j].userAuthor = outgoing[s][i].userAuthor,
                    outgoing[t][j].tweetID <= outgoing[s][i].tweetID
             PROVE  \E k \in 1..i : outgoing[s][k] = outgoing[t][j]
  BY DEF NoneSkipped
<1>1. ASSUME NEW r \in Sessions, NEW k \in DOMAIN outgoing[r]
      PROVE  /\ k \in 1..Len(outgoing[r]) /\ k \in 1..Len(Line(r)) /\ Len(outgoing[r]) \in Nat
             /\ \A m \in 1..k : Line(r)[m] = outgoing[r][m]
             /\ outgoing[r][k] \in In(Line(r))
  <2> DEFINE a == outgoing[r]
             b == receivedTweets[r] \o Rest(r)
  <2>1. a \in Seq(PendingTweets) /\ b \in Seq(PendingTweets)
    BY LineTyped
  <2>2. Line(r) = a \o b
    BY DEF Line
  <2> HIDE DEF b
  <2>3. /\ Len(a) \in Nat /\ Len(b) \in Nat /\ DOMAIN a = 1..Len(a)
        /\ Len(a \o b) = Len(a) + Len(b)
        /\ \A m \in 1..(Len(a) + Len(b)) : (a \o b)[m] = IF m <= Len(a) THEN a[m] ELSE b[m - Len(a)]
    BY <2>1, LenProperties, ConcatProperties
  <2>4. /\ k \in 1..Len(a) /\ k \in 1..Len(Line(r))
        /\ \A m \in 1..k : Line(r)[m] = a[m]
    BY <1>1, <2>2, <2>3
  <2>5. k \in 1..k
    BY <2>4
  <2>6. a[k] \in In(Line(r))
    BY <2>4, <2>5 DEF In
  <2> QED
    BY <2>3, <2>4, <2>6
<1>2. PICK p : p = outgoing[t][j]
  OBVIOUS
<1>3. p \in In(Line(t)) /\ outgoing[s][i] \in In(Line(s))
  BY <1>1, <1>2
<1>4. alreadyFollowed(p.userAuthor, Login[s])
  BY <1>2, <1>3 DEF LineInv, LinesShared
<1>5. p \in In(Line(s))
  BY <1>3, <1>4 DEF LineInv, LinesShared
<1>6. i \in 1..i /\ i \in 1..Len(Line(s)) /\ Line(s)[i] = outgoing[s][i]
  BY <1>1
<1>7. PICK k \in 1..i : Line(s)[k] = p
  BY <1>2, <1>5, <1>6 DEF LineInv, LinesOrdered, Ordered
<1> QED
  BY <1>1, <1>2, <1>7

(* As long as each user has one connection, which stays, and nobody starts *)
(* to follow, every connection is sent what it has to get of an author in  *)
(* the order of her tweets, and none of them is skipped: not when          *)
(* listeners clear the pending lists between postings, several speakers    *)
(* post at a time, or a listener archives what it has retrieved and gets   *)
(* it a second time.                                                       *)
THEOREM TweetsInOrder ==
  ASSUME OneConnectionEach, NobodyStartsToFollow, EverybodyIsKnown, NobodyLeaves
  PROVE  Spec => []NoneSkipped
<1>1. Settled
  BY DEF Settled
<1>2. Init => ExactInv /\ StayInv /\ ArchiveSent /\ LineInv
  BY ExactInit, StayInit, LineInit
<1>3. ASSUME TypeInv, TypeInv', OrderInv, ExactInv, StayInv, ArchiveSent, LineInv, [Next]_vars
      PROVE  ExactInv' /\ StayInv' /\ ArchiveSent' /\ LineInv'
  <2>1. ExactInv'
    BY <1>3, ExactStep
  <2>2. StayInv'
    BY <1>1, <1>3, StayStep DEF ExactInv
  <2>3. ArchiveSent'
    BY <1>1, <1>3, ArchiveStep
  <2>4. LineInv'
    BY <1>1, <1>3, LineStep
  <2> QED
    BY <2>1, <2>2, <2>3, <2>4
<1>4. TypeInv /\ LineInv => NoneSkipped
  BY LinesGiveNoneSkipped
<1> QED
  BY <1>2, <1>3, <1>4, AccountsInv, PTL DEF Spec

=============================================================================
