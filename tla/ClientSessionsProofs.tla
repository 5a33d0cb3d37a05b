------------------------ MODULE ClientSessionsProofs ------------------------
(***************************************************************************)
(* What the connection manager guarantees whatever the order of sign-ins,  *)
(* disconnections and the listeners' calls, for any users, any logins and  *)
(* any finite set of sessions.                                             *)
(***************************************************************************)
EXTENDS ClientSessions, DataLemmas, FiniteSetTheorems, SequenceTheorems, TLAPS
LOCAL INSTANCE SequencesExt
LOCAL INSTANCE FiniteSetsExt

Connections == [userID : Users \cup {NoUser}, numConnections : 1..MaxConnections]

Unique(L) == \A i, j \in 1..Len(L) : L[i].userID = L[j].userID => i = j

-----------------------------------------------------------------------------
(* The list of connected users with an entry for a user who has none ...   *)
LEMMA EntryAdded ==
  ASSUME NEW L \in Seq(Connections), Unique(L), NEW u \in Users \cup {NoUser},
         \A j \in 1..Len(L) : L[j].userID # u,
         NEW M, M = Append(L, Connection(u, 1))
  PROVE  /\ M \in Seq(Connections) /\ Len(M) = Len(L) + 1 /\ Unique(M)
         /\ \A k \in 1..Len(L) : M[k] = L[k]
         /\ M[Len(L) + 1] = Connection(u, 1)
<1>1. Connection(u, 1) \in Connections
  BY DEF Connection, Connections, MaxConnections
<1>2. /\ M \in Seq(Connections) /\ Len(M) = Len(L) + 1
      /\ \A k \in 1..Len(L) : M[k] = L[k]
      /\ M[Len(L) + 1] = Connection(u, 1)
  BY <1>1, AppendProperties
<1>3. Len(L) \in Nat
  BY SequenceFacts
<1>4. Unique(M)
  BY <1>2, <1>3 DEF Unique, Connection
<1> QED
  BY <1>2, <1>4

(* ... and without the entry of a user.                                    *)
LEMMA EntryErased ==
  ASSUME NEW L \in Seq(Connections), Unique(L), NEW i \in 1..Len(L),
         NEW M, M = RemoveAt(L, i)
  PROVE  /\ M \in Seq(Connections) /\ Len(M) = Len(L) - 1 /\ Unique(M)
         /\ \A k \in 1..Len(M) : \E j \in 1..Len(L) : j # i /\ M[k] = L[j]
<1> DEFINE at(k) == IF k < i THEN k ELSE k + 1
<1>1. /\ M \in Seq(Connections) /\ Len(M) = Len(L) - 1
      /\ \A k \in 1..(Len(L) - 1) : M[k] = IF k < i THEN L[k] ELSE L[k + 1]
  <2>1. Removed(L, i, M)
    BY DEF Removed, RemoveAt
  <2> QED
    BY <2>1, RemoveAtProperties
<1>2. Len(L) \in Nat
  BY SequenceFacts
<1>3. \A k \in 1..Len(M) : at(k) \in 1..Len(L) /\ at(k) # i /\ M[k] = L[at(k)]
  BY <1>1, <1>2
<1>4. \A j, k \in 1..Len(M) : at(j) = at(k) => j = k
  BY <1>1, <1>2
<1> HIDE DEF at
<1>5. ASSUME NEW j \in 1..Len(M), NEW k \in 1..Len(M), M[j].userID = M[k].userID
      PROVE  j = k
  <2>1. /\ at(j) \in 1..Len(L) /\ at(k) \in 1..Len(L)
        /\ L[at(j)].userID = L[at(k)].userID
    BY <1>3, <1>5
  <2>2. at(j) = at(k)
    BY <2>1 DEF Unique
  <2> QED
    BY <1>4, <2>2
<1>6. Unique(M)
  BY <1>5 DEF Unique
<1> QED
  BY <1>1, <1>3, <1>6

-----------------------------------------------------------------------------
(* getConnectionIndex finds the user's entry, or there is none.            *)
LEMMA IndexFound ==
  ASSUME listOfConnectedUsers \in Seq(Connections), Unique(listOfConnectedUsers), NEW u
  PROVE  \/ /\ getConnectionIndex(u) \in 1..Len(listOfConnectedUsers)
            /\ listOfConnectedUsers[getConnectionIndex(u)].userID = u
         \/ /\ getConnectionIndex(u) = 0
            /\ \A j \in 1..Len(listOfConnectedUsers) : listOfConnectedUsers[j].userID # u
<1> DEFINE I == {i \in 1..Len(listOfConnectedUsers) : listOfConnectedUsers[i].userID = u}
<1>1. getConnectionIndex(u) = IF I # {} THEN Min(I) ELSE 0
  BY DEF getConnectionIndex, SelectInSeq
<1>2. CASE I = {}
  BY <1>1, <1>2
<1>3. CASE I # {}
  <2>1. PICK i \in I : I = {i}
    BY <1>3 DEF Unique
  <2>2. Min(I) = i
    BY <2>1 DEF Min
  <2> QED
    BY <1>1, <1>3, <2>1, <2>2
<1> QED
  BY <1>2, <1>3

(* The two vectors and the users in them; the tweets archived are T's.     *)
ListsOK(T) ==
  /\ listOfConnectedUsers \in Seq(Connections)
  /\ Unique(listOfConnectedUsers)
  /\ listOfDuplicatedTweets \in Seq(Seq(T))
  /\ Len(listOfDuplicatedTweets) = Len(listOfConnectedUsers)
  /\ crashed \in BOOLEAN

(* The entry of a user in the list after a call, against the list before.  *)
Follows(L, M, k) ==
  \E j \in 1..Len(L) : /\ L[j].userID = M[k].userID
                       /\ M[k].numConnections <= L[j].numConnections

(* registerConnection keeps the vectors parallel and users unique.  Only   *)
(* the user's count grows, by one, and only when it accepts.               *)
LEMMA RegisterCounts ==
  ASSUME NEW T, ListsOK(T), NEW u \in Users \cup {NoUser}, NEW ok \in BOOLEAN,
         registerConnection(u, ok)
  PROVE  /\ ListsOK(T)'
         /\ \A k \in 1..Len(listOfConnectedUsers') :
              \/ Follows(listOfConnectedUsers, listOfConnectedUsers', k)
              \/ /\ ok /\ listOfConnectedUsers'[k].userID = u
                 /\ \/ listOfConnectedUsers'[k].numConnections = 1
                    \/ \E j \in 1..Len(listOfConnectedUsers) :
                         /\ listOfConnectedUsers[j].userID = u
                         /\ listOfConnectedUsers'[k].numConnections
                              = listOfConnectedUsers[j].numConnections + 1
<1> DEFINE i == getConnectionIndex(u)
<1>0. /\ listOfConnectedUsers \in Seq(Connections) /\ Unique(listOfConnectedUsers)
      /\ listOfDuplicatedTweets \in Seq(Seq(T))
      /\ Len(listOfDuplicatedTweets) = Len(listOfConnectedUsers)
  BY DEF ListsOK
<1>1. /\ Len(listOfConnectedUsers) \in Nat
      /\ \A k \in 1..Len(listOfConnectedUsers) :
           listOfConnectedUsers[k] \in Connections
  BY SequenceFacts DEF ListsOK
<1>2. \A k \in 1..Len(listOfConnectedUsers) :
        listOfConnectedUsers[k].numConnections \in 1..2
  BY <1>1 DEF Connections, MaxConnections
<1>3. crashed' \in BOOLEAN
  BY DEF ListsOK, registerConnection
<1>4. CASE i = 0
  <2>1. /\ ok
        /\ listOfConnectedUsers' = Append(listOfConnectedUsers, Connection(u, 1))
        /\ listOfDuplicatedTweets' = Append(listOfDuplicatedTweets, <<>>)
    BY <1>4 DEF registerConnection
  <2>2. \A j \in 1..Len(listOfConnectedUsers) : listOfConnectedUsers[j].userID # u
    BY <1>0, <1>1, <1>4, IndexFound
  <2>3. /\ listOfConnectedUsers' \in Seq(Connections)
        /\ Len(listOfConnectedUsers') = Len(listOfConnectedUsers) + 1
        /\ Unique(listOfConnectedUsers')
        /\ \A k \in 1..Len(listOfConnectedUsers) :
             listOfConnectedUsers'[k] = listOfConnectedUsers[k]
        /\ listOfConnectedUsers'[Len(listOfConnectedUsers) + 1] = Connection(u, 1)
    BY <2>1, <2>2, EntryAdded DEF ListsOK
  <2>4. /\ listOfDuplicatedTweets' \in Seq(Seq(T))
        /\ Len(listOfDuplicatedTweets') = Len(listOfDuplicatedTweets) + 1
    BY <2>1, AppendProperties, EmptySeq DEF ListsOK
  <2>5. ListsOK(T)'
    BY <1>3, <2>3, <2>4 DEF ListsOK
  <2>6. Connection(u, 1).userID = u /\ Connection(u, 1).numConnections = 1
    BY DEF Connection
  <2> QED
    BY <1>1, <1>2, <2>1, <2>3, <2>5, <2>6 DEF Follows
<1>5. CASE i # 0 /\ ok
  <2>1. i \in 1..Len(listOfConnectedUsers) /\ listOfConnectedUsers[i].userID = u
    BY <1>5, IndexFound DEF ListsOK
  <2> DEFINE e == [listOfConnectedUsers[i] EXCEPT !.numConnections = @ + 1]
  <2>2. /\ listOfConnectedUsers' = [listOfConnectedUsers EXCEPT ![i] = e]
        /\ listOfConnectedUsers[i].numConnections < 2
        /\ listOfDuplicatedTweets' = listOfDuplicatedTweets
    BY <1>5 DEF registerConnection, MaxConnections
  <2>3. /\ e \in Connections /\ e.userID = u
        /\ e.numConnections = listOfConnectedUsers[i].numConnections + 1
    BY <1>1, <1>2, <2>1, <2>2 DEF Connections, MaxConnections
  <2> HIDE DEF e, i
  <2>4. /\ listOfConnectedUsers' \in Seq(Connections)
        /\ Len(listOfConnectedUsers') = Len(listOfConnectedUsers)
        /\ Unique(listOfConnectedUsers')
        /\ \A k \in 1..Len(listOfConnectedUsers) :
             listOfConnectedUsers'[k] = IF k = i THEN e ELSE listOfConnectedUsers[k]
    <3> DEFINE M == [listOfConnectedUsers EXCEPT ![i] = e]
    <3>1. /\ M \in Seq(Connections) /\ Len(M) = Len(listOfConnectedUsers)
          /\ \A k \in 1..Len(listOfConnectedUsers) :
               M[k] = IF k = i THEN e ELSE listOfConnectedUsers[k]
      BY <1>0, <2>1, <2>3, ExceptSeq
    <3>2. listOfConnectedUsers' = M
      BY <2>2
    <3> HIDE DEF M
    <3>3. Unique(M)
      BY <1>0, <2>1, <2>3, <3>1 DEF Unique
    <3> QED
      BY <3>1, <3>2, <3>3
  <2>5. ListsOK(T)'
    BY <1>3, <2>2, <2>4 DEF ListsOK
  <2> QED
    BY <1>2, <1>5, <2>1, <2>3, <2>4, <2>5 DEF Follows
<1>6. CASE i # 0 /\ ~ok
  <2>1. UNCHANGED <<listOfConnectedUsers, listOfDuplicatedTweets>>
    BY <1>6 DEF registerConnection
  <2>2. ListsOK(T)'
    BY <1>0, <1>3, <2>1 DEF ListsOK
  <2> QED
    BY <1>1, <1>2, <2>1, <2>2 DEF Follows
<1> QED
  BY <1>4, <1>5, <1>6

(* closeConnection keeps the vectors parallel and users unique, counts     *)
(* nobody more, and the user one connection less.                          *)
LEMMA CloseCounts ==
  ASSUME NEW T, ListsOK(T), NEW u \in Users \cup {NoUser}, closeConnection(u)
  PROVE  /\ ListsOK(T)'
         /\ \A k \in 1..Len(listOfConnectedUsers') :
              /\ Follows(listOfConnectedUsers, listOfConnectedUsers', k)
              /\ listOfConnectedUsers'[k].userID = u
                   => \E j \in 1..Len(listOfConnectedUsers) :
                        /\ listOfConnectedUsers[j].userID = u
                        /\ listOfConnectedUsers'[k].numConnections + 1
                             = listOfConnectedUsers[j].numConnections
<1> DEFINE i == getConnectionIndex(u)
<1>0. /\ listOfConnectedUsers \in Seq(Connections) /\ Unique(listOfConnectedUsers)
      /\ listOfDuplicatedTweets \in Seq(Seq(T))
      /\ Len(listOfDuplicatedTweets) = Len(listOfConnectedUsers)
  BY DEF ListsOK
<1>1. /\ Len(listOfConnectedUsers) \in Nat
      /\ \A k \in 1..Len(listOfConnectedUsers) :
           listOfConnectedUsers[k] \in Connections
  BY SequenceFacts DEF ListsOK
<1>2. \A k \in 1..Len(listOfConnectedUsers) :
        listOfConnectedUsers[k].numConnections \in 1..2
  BY <1>1 DEF Connections, MaxConnections
<1>3. crashed' \in BOOLEAN
  BY DEF ListsOK, closeConnection, Crash, cmVars
<1>4. CASE i = 0
  <2>1. UNCHANGED <<listOfConnectedUsers, listOfDuplicatedTweets>>
    BY <1>4 DEF closeConnection, Crash, cmVars
  <2>2. \A j \in 1..Len(listOfConnectedUsers) : listOfConnectedUsers[j].userID # u
    BY <1>0, <1>1, <1>4, IndexFound
  <2>3. ListsOK(T)'
    BY <1>0, <1>3, <2>1 DEF ListsOK
  <2> QED
    BY <1>1, <1>2, <2>1, <2>2, <2>3 DEF Follows
<1>5. CASE i # 0 /\ listOfConnectedUsers[i].numConnections = 2
  <2>1. i \in 1..Len(listOfConnectedUsers) /\ listOfConnectedUsers[i].userID = u
    BY <1>5, IndexFound DEF ListsOK
  <2> DEFINE e == [listOfConnectedUsers[i] EXCEPT !.numConnections = @ - 1]
  <2>2. /\ listOfConnectedUsers' = [listOfConnectedUsers EXCEPT ![i] = e]
        /\ listOfDuplicatedTweets' = [listOfDuplicatedTweets EXCEPT ![i] = <<>>]
    BY <1>5 DEF closeConnection
  <2>9. e \in Connections /\ e.userID = u /\ e.numConnections = 1
    BY <1>1, <1>5, <2>1 DEF Connections, MaxConnections
  <2> HIDE DEF e, i
  <2>3. /\ listOfConnectedUsers' \in Seq(Connections)
        /\ Len(listOfConnectedUsers') = Len(listOfConnectedUsers)
        /\ Unique(listOfConnectedUsers')
        /\ \A k \in 1..Len(listOfConnectedUsers) :
             listOfConnectedUsers'[k] = IF k = i THEN e ELSE listOfConnectedUsers[k]
    <3> DEFINE M == [listOfConnectedUsers EXCEPT ![i] = e]
    <3>1. /\ M \in Seq(Connections) /\ Len(M) = Len(listOfConnectedUsers)
          /\ \A k \in 1..Len(listOfConnectedUsers) :
               M[k] = IF k = i THEN e ELSE listOfConnectedUsers[k]
      BY <1>0, <2>1, <2>9, ExceptSeq
    <3>2. listOfConnectedUsers' = M
      BY <2>2
    <3> HIDE DEF M
    <3>3. Unique(M)
      BY <1>0, <2>1, <2>9, <3>1 DEF Unique
    <3> QED
      BY <3>1, <3>2, <3>3
  <2>4. /\ listOfDuplicatedTweets' \in Seq(Seq(T))
        /\ Len(listOfDuplicatedTweets') = Len(listOfDuplicatedTweets)
    BY <2>1, <2>2, ExceptSeq, EmptySeq DEF ListsOK
  <2>5. ListsOK(T)'
    BY <1>3, <2>3, <2>4 DEF ListsOK
  <2>6. \A k \in 1..Len(listOfConnectedUsers) : k # i => listOfConnectedUsers[k].userID # u
    BY <2>1 DEF ListsOK, Unique
  <2> QED
    BY <1>2, <1>5, <2>1, <2>3, <2>5, <2>6, <2>9 DEF Follows
<1>6. CASE i # 0 /\ listOfConnectedUsers[i].numConnections # 2
  <2>1. i \in 1..Len(listOfConnectedUsers) /\ listOfConnectedUsers[i].userID = u
    BY <1>6, IndexFound DEF ListsOK
  <2>2. /\ listOfConnectedUsers' = RemoveAt(listOfConnectedUsers, i)
        /\ listOfDuplicatedTweets' = RemoveAt(listOfDuplicatedTweets, i)
    BY <1>6 DEF closeConnection
  <2> HIDE DEF i
  <2>3. /\ listOfConnectedUsers' \in Seq(Connections)
        /\ Len(listOfConnectedUsers') = Len(listOfConnectedUsers) - 1
        /\ Unique(listOfConnectedUsers')
        /\ \A k \in 1..Len(listOfConnectedUsers') :
             \E j \in 1..Len(listOfConnectedUsers) :
               j # i /\ listOfConnectedUsers'[k] = listOfConnectedUsers[j]
    <3> DEFINE M == RemoveAt(listOfConnectedUsers, i)
    <3>1. /\ M \in Seq(Connections) /\ Len(M) = Len(listOfConnectedUsers) - 1 /\ Unique(M)
          /\ \A k \in 1..Len(M) :
               \E j \in 1..Len(listOfConnectedUsers) : j # i /\ M[k] = listOfConnectedUsers[j]
      BY <1>0, <2>1, EntryErased
    <3>2. listOfConnectedUsers' = M
      BY <2>2
    <3> HIDE DEF M
    <3> QED
      BY <3>1, <3>2
  <2>4. /\ listOfDuplicatedTweets' \in Seq(Seq(T))
        /\ Len(listOfDuplicatedTweets') = Len(listOfDuplicatedTweets) - 1
    <3>1. Removed(listOfDuplicatedTweets, i, listOfDuplicatedTweets')
      BY <2>2 DEF Removed, RemoveAt
    <3> QED
      BY <2>1, <2>2, <3>1, RemoveAtProperties DEF ListsOK
  <2>5. ListsOK(T)'
    BY <1>3, <2>3, <2>4 DEF ListsOK
  <2>6. \A k \in 1..Len(listOfConnectedUsers) : k # i => listOfConnectedUsers[k].userID # u
    BY <2>1 DEF ListsOK, Unique
  <2> SUFFICES ASSUME NEW k \in 1..Len(listOfConnectedUsers')
               PROVE  /\ Follows(listOfConnectedUsers, listOfConnectedUsers', k)
                      /\ listOfConnectedUsers'[k].userID # u
    BY <2>5
  <2>7. PICK j \in 1..Len(listOfConnectedUsers) :
          j # i /\ listOfConnectedUsers'[k] = listOfConnectedUsers[j]
    BY <2>3
  <2>8. listOfConnectedUsers[j].numConnections <= listOfConnectedUsers[j].numConnections
    BY <1>2
  <2> QED
    BY <2>6, <2>7, <2>8 DEF Follows
<1> QED
  BY <1>4, <1>5, <1>6

(* What the listeners archive and take back.                               *)
LEMMA ArchiveKeepsLists ==
  ASSUME NEW T, ListsOK(T), NEW i, NEW tweet \in T, registerDuplicateTweet(i, tweet)
  PROVE  ListsOK(T)'
<1>1. CASE InRange(i)
  <2> DEFINE q == Append(listOfDuplicatedTweets[i], tweet)
  <2>1. i \in 1..Len(listOfDuplicatedTweets)
    BY <1>1, SequenceFacts DEF InRange, ListsOK
  <2>2. listOfDuplicatedTweets' = [listOfDuplicatedTweets EXCEPT ![i] = q]
    BY <1>1 DEF registerDuplicateTweet
  <2>3. listOfDuplicatedTweets[i] \in Seq(T)
    BY <2>1, SequenceFacts DEF ListsOK
  <2>4. q \in Seq(T)
    BY <2>3, AppendProperties
  <2> HIDE DEF q
  <2>5. /\ listOfDuplicatedTweets' \in Seq(Seq(T))
        /\ Len(listOfDuplicatedTweets') = Len(listOfDuplicatedTweets)
    BY <2>1, <2>2, <2>4, ExceptSeq DEF ListsOK
  <2> QED
    BY <1>1, <2>5 DEF ListsOK, registerDuplicateTweet
<1>2. CASE ~InRange(i)
  BY <1>2 DEF ListsOK, registerDuplicateTweet, Crash, cmVars
<1> QED
  BY <1>1, <1>2

LEMMA TakeKeepsLists ==
  ASSUME NEW T, ListsOK(T), NEW i, NEW tweets, retrieveDuplicateTweet(i, tweets)
  PROVE  ListsOK(T)' /\ tweets \in Seq(T)
<1>1. CASE InRange(i)
  <2>1. i \in 1..Len(listOfDuplicatedTweets)
    BY <1>1, SequenceFacts DEF InRange, ListsOK
  <2>2. /\ listOfDuplicatedTweets' = [listOfDuplicatedTweets EXCEPT ![i] = <<>>]
        /\ tweets = listOfDuplicatedTweets[i]
    BY <1>1 DEF retrieveDuplicateTweet
  <2>3. /\ listOfDuplicatedTweets' \in Seq(Seq(T))
        /\ Len(listOfDuplicatedTweets') = Len(listOfDuplicatedTweets)
    BY <2>1, <2>2, ExceptSeq, EmptySeq DEF ListsOK
  <2>4. tweets \in Seq(T)
    BY <2>1, <2>2, SequenceFacts DEF ListsOK
  <2> QED
    BY <1>1, <2>3, <2>4 DEF ListsOK, retrieveDuplicateTweet
<1>2. CASE ~InRange(i)
  BY <1>2, EmptySeq DEF ListsOK, retrieveDuplicateTweet, Crash, cmVars
<1> QED
  BY <1>1, <1>2

-----------------------------------------------------------------------------
(***************************************************************************)
(* The inductive invariant.  The manager's list can only stay within the   *)
(* live connections because users are unique in it and because it is the   *)
(* registered connection itself that is taken off the count when it leaves.*)
(***************************************************************************)
SessionsOK ==
  /\ conn \in [Sessions -> ConnStates]
  /\ clientIndex \in [Sessions -> Users \cup {NoUser}]
  /\ connectionIndex \in [Sessions -> Nat \cup {NoCall}]

(* Live, of any assignment of users and states to the sessions.            *)
LiveIn(index, state, u) == {s \in Sessions : index[s] = u /\ state[s] \in {"online", "leaving"}}

Counted ==
  \A k \in 1..Len(listOfConnectedUsers) :
    listOfConnectedUsers[k].numConnections
      <= Cardinality(LiveIn(clientIndex, conn, listOfConnectedUsers[k].userID))

IInv == ListsOK(Tweets) /\ SessionsOK /\ Counted

(* There are finitely many live connections.                               *)
LEMMA LiveFinite ==
  ASSUME NEW index, NEW state, NEW u
  PROVE  /\ IsFiniteSet(LiveIn(index, state, u))
         /\ Cardinality(LiveIn(index, state, u)) \in Nat
<1>1. LiveIn(index, state, u) \in SUBSET Sessions
  BY DEF LiveIn
<1> QED
  BY <1>1, SessionsAssumption, FS_Subset, FS_CardinalityType

(* The counts are numbers.                                                 *)
LEMMA CountType ==
  ASSUME NEW L \in Seq(Connections)
  PROVE  \A k \in 1..Len(L) : L[k].numConnections \in 1..2
<1>1. \A k \in 1..Len(L) : L[k] \in Connections
  BY SequenceFacts
<1> QED
  BY <1>1 DEF Connections, MaxConnections

(* A step that changes neither the list nor who is live keeps the counts.  *)
LEMMA CountsKept ==
  ASSUME Counted, listOfConnectedUsers' = listOfConnectedUsers,
         \A u : LiveIn(clientIndex', conn', u) = LiveIn(clientIndex, conn, u)
  PROVE  Counted'
  BY DEF Counted

LEMMA InitEstablishes ==
  ASSUME CSInit
  PROVE  IInv
<1>1. listOfConnectedUsers = <<>> /\ listOfDuplicatedTweets = <<>> /\ crashed = FALSE
  BY DEF CSInit, CMInit
<1>2. Len(<<>>) = 0 /\ <<>> \in Seq(Connections) /\ <<>> \in Seq(Seq(Tweets))
  BY EmptySeq
<1>3. Unique(<<>>)
  BY <1>2 DEF Unique
<1>6. ListsOK(Tweets)
  BY <1>1, <1>2, <1>3 DEF ListsOK
<1>4. SessionsOK
  BY DEF CSInit, SessionsOK, ConnStates
<1>5. Counted
  BY <1>1, <1>2 DEF Counted
<1> QED
  BY <1>4, <1>5, <1>6 DEF IInv

LEMMA AcceptPreserves ==
  ASSUME IInv, NEW s \in Sessions, Accept(s)
  PROVE  IInv'
<1>1. ListsOK(Tweets)'
  BY DEF IInv, Accept, ListsOK, cmVars
<1>2. SessionsOK'
  BY DEF IInv, Accept, SessionsOK, ConnStates
<1>3. \A u : LiveIn(clientIndex', conn', u) = LiveIn(clientIndex, conn, u)
  BY DEF IInv, Accept, SessionsOK, LiveIn
<1>4. Counted'
  BY <1>3, CountsKept DEF IInv, Accept, cmVars
<1> QED
  BY <1>1, <1>2, <1>4 DEF IInv

LEMMA SignInPreserves ==
  ASSUME IInv, NEW s \in Sessions, SignIn(s)
  PROVE  IInv'
<1>1. ListsOK(Tweets)'
  BY DEF IInv, SignIn, ListsOK, cmVars
<1>2. SessionsOK'
  BY LoginAssumption DEF IInv, SignIn, SessionsOK, ConnStates
<1>3. \A u : LiveIn(clientIndex', conn', u) = LiveIn(clientIndex, conn, u)
  BY DEF IInv, SignIn, SessionsOK, LiveIn
<1>4. Counted'
  BY <1>3, CountsKept DEF IInv, SignIn, cmVars
<1> QED
  BY <1>1, <1>2, <1>4 DEF IInv

LEMMA DisconnectPreserves ==
  ASSUME IInv, NEW s \in Sessions, Disconnect(s)
  PROVE  IInv'
<1>1. ListsOK(Tweets)'
  BY DEF IInv, Disconnect, ListsOK, cmVars
<1>2. SessionsOK'
  BY DEF IInv, Disconnect, SessionsOK, ConnStates
<1>3. \A u : LiveIn(clientIndex', conn', u) = LiveIn(clientIndex, conn, u)
  BY DEF IInv, Disconnect, SessionsOK, LiveIn
<1>4. Counted'
  BY <1>3, CountsKept DEF IInv, Disconnect, cmVars
<1> QED
  BY <1>1, <1>2, <1>4 DEF IInv

(* An accepted connection is counted and, from the same step on, live.     *)
LEMMA RegisterPreserves ==
  ASSUME IInv, NEW s \in Sessions, Register(s)
  PROVE  IInv'
<1> DEFINE u == clientIndex[s]
<1>1. PICK ok \in BOOLEAN :
        /\ registerConnection(u, ok)
        /\ conn' = [conn EXCEPT ![s] = IF ~ok THEN "refused"
                                       ELSE IF u = NoUser THEN "leaving" ELSE "online"]
  BY DEF Register
<1>2. u \in Users \cup {NoUser}
  BY DEF IInv, SessionsOK
<1>3. conn[s] = "found" /\ UNCHANGED <<clientIndex, connectionIndex>>
  BY DEF Register
<1>4. SessionsOK'
  BY <1>1, <1>3 DEF IInv, SessionsOK, ConnStates
<1>5. \A v : Cardinality(LiveIn(clientIndex, conn, v)) \in Nat
  BY LiveFinite
<1>6. \A v : Cardinality(LiveIn(clientIndex', conn', v))
              = Cardinality(LiveIn(clientIndex, conn, v)) + (IF ok /\ v = u THEN 1 ELSE 0)
  <2> SUFFICES ASSUME NEW v
               PROVE  Cardinality(LiveIn(clientIndex', conn', v))
                        = Cardinality(LiveIn(clientIndex, conn, v))
                            + (IF ok /\ v = u THEN 1 ELSE 0)
    OBVIOUS
  <2>1. CASE ok /\ v = u
    <3>1. /\ LiveIn(clientIndex', conn', v) = LiveIn(clientIndex, conn, v) \cup {s}
          /\ s \notin LiveIn(clientIndex, conn, v)
      BY <1>1, <1>3, <2>1 DEF LiveIn, IInv, SessionsOK
    <3> QED
      BY <2>1, <3>1, LiveFinite, FS_AddElement
  <2>2. CASE ~(ok /\ v = u)
    <3>1. LiveIn(clientIndex', conn', v) = LiveIn(clientIndex, conn, v)
      BY <1>1, <1>3, <2>2 DEF LiveIn, IInv, SessionsOK
    <3> QED
      BY <1>5, <2>2, <3>1
  <2> QED
    BY <2>1, <2>2
<1>7. ListsOK(Tweets)
  BY DEF IInv
<1>9. ListsOK(Tweets)'
  BY <1>1, <1>2, <1>7, RegisterCounts
<1>10. /\ \A k \in 1..Len(listOfConnectedUsers) :
            listOfConnectedUsers[k].numConnections \in 1..2
       /\ \A k \in 1..Len(listOfConnectedUsers') :
            listOfConnectedUsers'[k].numConnections \in 1..2
  BY <1>7, <1>9, CountType DEF ListsOK
<1>8. Counted'
  <2> SUFFICES ASSUME NEW k \in 1..Len(listOfConnectedUsers')
               PROVE  listOfConnectedUsers'[k].numConnections
                        <= Cardinality(LiveIn(clientIndex', conn',
                                              listOfConnectedUsers'[k].userID))
    BY DEF Counted
  <2>1. listOfConnectedUsers'[k].numConnections \in 1..2
    BY <1>10
  <2>2. CASE Follows(listOfConnectedUsers, listOfConnectedUsers', k)
    <3>1. PICK j \in 1..Len(listOfConnectedUsers) :
            /\ listOfConnectedUsers[j].userID = listOfConnectedUsers'[k].userID
            /\ listOfConnectedUsers'[k].numConnections
                 <= listOfConnectedUsers[j].numConnections
      BY <2>2 DEF Follows
    <3>2. /\ listOfConnectedUsers[j].numConnections \in 1..2
          /\ listOfConnectedUsers[j].numConnections
               <= Cardinality(LiveIn(clientIndex, conn, listOfConnectedUsers'[k].userID))
      BY <1>10, <3>1 DEF IInv, Counted
    <3> QED
      BY <1>5, <1>6, <2>1, <3>1, <3>2
  <2>3. CASE ~Follows(listOfConnectedUsers, listOfConnectedUsers', k)
    <3>1. /\ ok /\ listOfConnectedUsers'[k].userID = u
          /\ \/ listOfConnectedUsers'[k].numConnections = 1
             \/ \E j \in 1..Len(listOfConnectedUsers) :
                  /\ listOfConnectedUsers[j].userID = u
                  /\ listOfConnectedUsers'[k].numConnections
                       = listOfConnectedUsers[j].numConnections + 1
      BY <1>1, <1>2, <1>7, <2>3, RegisterCounts
    <3>2. Cardinality(LiveIn(clientIndex', conn', u))
            = Cardinality(LiveIn(clientIndex, conn, u)) + 1
      BY <1>6, <3>1
    <3>3. \A j \in 1..Len(listOfConnectedUsers) :
            listOfConnectedUsers[j].userID = u
              => listOfConnectedUsers[j].numConnections
                   <= Cardinality(LiveIn(clientIndex, conn, u))
      BY DEF IInv, Counted
    <3>4. \A j \in 1..Len(listOfConnectedUsers) :
            listOfConnectedUsers[j].numConnections \in 1..2
      BY <1>10
    <3> QED
      BY <1>5, <3>1, <3>2, <3>3, <3>4
  <2> QED
    BY <2>2, <2>3
<1> QED
  BY <1>4, <1>8, <1>9 DEF IInv

(* A connection that was counted is taken off the count in the step that   *)
(* ends its life; one that was not counted can only lower the count.       *)
LEMMA ClosePreserves ==
  ASSUME IInv, NEW s \in Sessions, Close(s)
  PROVE  IInv'
<1> DEFINE u == clientIndex[s]
<1>1. /\ closeConnection(u) /\ conn' = [conn EXCEPT ![s] = "closed"]
      /\ UNCHANGED <<clientIndex, connectionIndex>>
      /\ conn[s] \in {"leaving", "refused", "anonymous"}
  BY DEF Close, ShutdownNotice
<1>2. u \in Users \cup {NoUser}
  BY DEF IInv, SessionsOK
<1>3. SessionsOK'
  BY <1>1 DEF IInv, SessionsOK, ConnStates
<1>4. \A v : Cardinality(LiveIn(clientIndex, conn, v)) \in Nat
  BY LiveFinite
<1>5. \A v : v # u => LiveIn(clientIndex', conn', v) = LiveIn(clientIndex, conn, v)
  BY <1>1 DEF LiveIn, IInv, SessionsOK
<1>6. Cardinality(LiveIn(clientIndex', conn', u)) >= Cardinality(LiveIn(clientIndex, conn, u)) - 1
  <2>1. LiveIn(clientIndex', conn', u) = LiveIn(clientIndex, conn, u) \ {s}
    BY <1>1 DEF LiveIn, IInv, SessionsOK
  <2>2. Cardinality(LiveIn(clientIndex', conn', u))
          = IF s \in LiveIn(clientIndex, conn, u)
            THEN Cardinality(LiveIn(clientIndex, conn, u)) - 1
            ELSE Cardinality(LiveIn(clientIndex, conn, u))
    BY <2>1, LiveFinite, FS_RemoveElement
  <2> QED
    BY <1>4, <2>2
<1>7. ListsOK(Tweets)
  BY DEF IInv
<1>8. /\ ListsOK(Tweets)'
      /\ \A k \in 1..Len(listOfConnectedUsers') :
           /\ Follows(listOfConnectedUsers, listOfConnectedUsers', k)
           /\ listOfConnectedUsers'[k].userID = u
                => \E j \in 1..Len(listOfConnectedUsers) :
                     /\ listOfConnectedUsers[j].userID = u
                     /\ listOfConnectedUsers'[k].numConnections + 1
                          = listOfConnectedUsers[j].numConnections
  BY <1>1, <1>2, <1>7, CloseCounts
<1>9. /\ \A k \in 1..Len(listOfConnectedUsers) :
           listOfConnectedUsers[k].numConnections \in 1..2
      /\ \A k \in 1..Len(listOfConnectedUsers') :
           listOfConnectedUsers'[k].numConnections \in 1..2
  BY <1>7, <1>8, CountType DEF ListsOK
<1>10. Counted'
  <2> SUFFICES ASSUME NEW k \in 1..Len(listOfConnectedUsers')
               PROVE  listOfConnectedUsers'[k].numConnections
                        <= Cardinality(LiveIn(clientIndex', conn',
                                              listOfConnectedUsers'[k].userID))
    BY DEF Counted
  <2>1. CASE listOfConnectedUsers'[k].userID = u
    <3>1. PICK j \in 1..Len(listOfConnectedUsers) :
            /\ listOfConnectedUsers[j].userID = u
            /\ listOfConnectedUsers'[k].numConnections + 1
                 = listOfConnectedUsers[j].numConnections
      BY <1>8, <2>1
    <3>2. listOfConnectedUsers[j].numConnections <= Cardinality(LiveIn(clientIndex, conn, u))
      BY <3>1 DEF IInv, Counted
    <3>3. /\ Cardinality(LiveIn(clientIndex, conn, u)) \in Nat
          /\ Cardinality(LiveIn(clientIndex', conn', u)) \in Nat
      BY LiveFinite
    <3>4. /\ listOfConnectedUsers[j].numConnections \in 1..2
          /\ listOfConnectedUsers'[k].numConnections \in 1..2
      BY <1>9
    <3> HIDE DEF u
    <3> QED
      BY <1>6, <2>1, <3>1, <3>2, <3>3, <3>4
  <2>2. CASE listOfConnectedUsers'[k].userID # u
    <3>1. PICK j \in 1..Len(listOfConnectedUsers) :
            /\ listOfConnectedUsers[j].userID = listOfConnectedUsers'[k].userID
            /\ listOfConnectedUsers'[k].numConnections
                 <= listOfConnectedUsers[j].numConnections
      BY <1>8 DEF Follows
    <3>2. listOfConnectedUsers[j].numConnections
            <= Cardinality(LiveIn(clientIndex, conn, listOfConnectedUsers'[k].userID))
      BY <3>1 DEF IInv, Counted
    <3>3. LiveIn(clientIndex', conn', listOfConnectedUsers'[k].userID)
            = LiveIn(clientIndex, conn, listOfConnectedUsers'[k].userID)
      BY <1>5, <2>2
    <3> QED
      BY <1>4, <1>9, <3>1, <3>2, <3>3
  <2> QED
    BY <2>1, <2>2
<1> QED
  BY <1>3, <1>8, <1>10 DEF IInv

(* The listener's calls move tweets and indexes, never connections.        *)
LEMMA ListenerPreserves ==
  ASSUME IInv, NEW s \in Sessions, ListenerCall(s)
  PROVE  IInv'
<1>1. UNCHANGED <<conn, clientIndex, listOfConnectedUsers>>
  BY DEF ListenerCall, LookUp, AskTwoConnections, AskDuplicates, Archive, TakeArchive,
         WildRead, EndCall, Crash, cmVars, sessionVars, doesClientHaveTwoConnections,
         doesClientHaveDuplicateTweets, registerDuplicateTweet, retrieveDuplicateTweet
<1>2. Counted'
  BY <1>1, CountsKept DEF IInv
<1>3. SessionsOK'
  <2>1. CASE LookUp(s)
    <3>1. getConnectionIndex(clientIndex[s]) \in Nat
      <4>1. Len(listOfConnectedUsers) \in Nat
        BY SequenceFacts DEF IInv, ListsOK
      <4> QED
        BY <4>1, IndexFound DEF IInv, ListsOK
    <3> QED
      BY <1>1, <2>1, <3>1 DEF LookUp, IInv, SessionsOK
  <2>2. CASE EndCall(s)
    BY <1>1, <2>2 DEF EndCall, IInv, SessionsOK
  <2>3. CASE WildRead(s)
    BY <1>1, <2>3 DEF WildRead, sessionVars, IInv, SessionsOK
  <2> QED
    BY <2>1, <2>2, <2>3 DEF ListenerCall, AskTwoConnections, AskDuplicates, Archive, TakeArchive
<1>4. ListsOK(Tweets)'
  <2>1. CASE UNCHANGED <<listOfConnectedUsers, listOfDuplicatedTweets>> /\ crashed' \in BOOLEAN
    BY <2>1 DEF IInv, ListsOK
  <2>2. ASSUME NEW tweet \in Tweets, Archive(s, tweet)
        PROVE  ListsOK(Tweets)'
    BY <2>2, ArchiveKeepsLists DEF IInv, Archive
  <2>3. ASSUME NEW tweets, TakeArchive(s, tweets)
        PROVE  ListsOK(Tweets)'
    BY <2>3, TakeKeepsLists DEF IInv, TakeArchive
  <2> QED
    BY <2>1, <2>2, <2>3
    DEF ListenerCall, LookUp, AskTwoConnections, AskDuplicates, WildRead, Crash, cmVars,
        doesClientHaveTwoConnections, doesClientHaveDuplicateTweets, IInv, ListsOK
<1> QED
  BY <1>2, <1>3, <1>4 DEF IInv

LEMMA StutterPreserves ==
  ASSUME IInv, UNCHANGED csVars
  PROVE  IInv'
  BY DEF IInv, ListsOK, SessionsOK, Counted, csVars, cmVars, sessionVars

LEMMA StepPreserves ==
  ASSUME IInv, [CSNext]_csVars
  PROVE  IInv'
<1>1. ASSUME NEW s \in Sessions, Accept(s) PROVE IInv'
  BY <1>1, AcceptPreserves
<1>2. ASSUME NEW s \in Sessions, SignIn(s) PROVE IInv'
  BY <1>2, SignInPreserves
<1>3. ASSUME NEW s \in Sessions, Register(s) PROVE IInv'
  BY <1>3, RegisterPreserves
<1>4. ASSUME NEW s \in Sessions, Disconnect(s) PROVE IInv'
  BY <1>4, DisconnectPreserves
<1>5. ASSUME NEW s \in Sessions, Close(s) PROVE IInv'
  BY <1>5, ClosePreserves
<1>6. ASSUME NEW s \in Sessions, ListenerCall(s) PROVE IInv'
  BY <1>6, ListenerPreserves
<1>7. CASE CrashElsewhere
  BY <1>7 DEF CrashElsewhere, Crash, IInv, ListsOK, SessionsOK, Counted, sessionVars
<1>8. CASE Halted \/ UNCHANGED csVars
  BY <1>8, StutterPreserves DEF Halted
<1> QED
  BY <1>1, <1>2, <1>3, <1>4, <1>5, <1>6, <1>7, <1>8 DEF CSNext, ConnectorStep

-----------------------------------------------------------------------------
(* IInv holds in every reachable state.                                    *)
THEOREM SessionsInvariant == CSSpec => []IInv
<1>1. CSInit => IInv
  BY InitEstablishes
<1>2. IInv /\ [CSNext]_csVars => IInv'
  BY StepPreserves
<1> QED
  BY <1>1, <1>2, PTL DEF CSSpec

(* IInv implies the three invariants.                                      *)
LEMMA InvariantsFollow ==
  ASSUME IInv
  PROVE  CSTypeOK /\ OneEntryPerUser /\ CountNeverExceedsLive
<1>1. DOMAIN listOfConnectedUsers = 1..Len(listOfConnectedUsers)
  BY SequenceFacts DEF IInv, ListsOK
<1>2. CSTypeOK
  BY DEF IInv, ListsOK, SessionsOK, CSTypeOK, Connections
<1>3. OneEntryPerUser
  BY <1>1 DEF IInv, ListsOK, Unique, OneEntryPerUser
<1>4. CountNeverExceedsLive
  BY <1>1 DEF IInv, Counted, CountNeverExceedsLive, Live, LiveIn
<1> QED
  BY <1>2, <1>3, <1>4

(* The variables keep their types: the two vectors of the manager stay     *)
(* parallel whatever registerConnection and closeConnection do to them.    *)
THEOREM SessionsTypeCorrect == CSSpec => []CSTypeOK
<1>1. IInv => CSTypeOK
  BY InvariantsFollow
<1> QED
  BY <1>1, SessionsInvariant, PTL

(* registerConnection never makes a second entry for a user.               *)
THEOREM SessionsOneEntryPerUser == CSSpec => []OneEntryPerUser
<1>1. IInv => OneEntryPerUser
  BY InvariantsFollow
<1> QED
  BY <1>1, SessionsInvariant, PTL

(* The manager never counts more connections for a user than are up.       *)
THEOREM SessionsCountNeverExceedsLive == CSSpec => []CountNeverExceedsLive
<1>1. IInv => CountNeverExceedsLive
  BY InvariantsFollow
<1> QED
  BY <1>1, SessionsInvariant, PTL

(* A sign-in is refused only while two connections of the user are up:     *)
(* registerConnection refuses on a count of two, and the count is never    *)
(* more than there are.                                                    *)
THEOREM SessionsNeverLockedOut == CSSpec => NeverLockedOut
<1> DEFINE Step ==
      \A s \in Sessions :
        conn[s] = "found" /\ conn'[s] = "refused"
          => Cardinality(Live(clientIndex[s])) >= MaxConnections
<1>1. IInv /\ [CSNext]_csVars => [Step]_csVars
  <2> SUFFICES ASSUME IInv, CSNext, NEW s \in Sessions,
                      conn[s] = "found", conn'[s] = "refused"
               PROVE  Cardinality(Live(clientIndex[s])) >= MaxConnections
    OBVIOUS
  <2> DEFINE u == clientIndex[s]
             i == getConnectionIndex(u)
  <2>1. Register(s)
    BY DEF IInv, SessionsOK, CSNext, Accept, Disconnect, ConnectorStep, SignIn, Register,
           Close, ShutdownNotice, ListenerCall, LookUp, AskTwoConnections, AskDuplicates,
           Archive, TakeArchive, EndCall, WildRead, CrashElsewhere, Halted, csVars, sessionVars
  <2>2. registerConnection(u, FALSE)
    BY <2>1 DEF Register, IInv, SessionsOK
  <2>3. i # 0 /\ ~(listOfConnectedUsers[i].numConnections < 2)
    BY <2>2 DEF registerConnection, MaxConnections
  <2>4. Len(listOfConnectedUsers) \in Nat
    BY SequenceFacts DEF IInv, ListsOK
  <2>5. i \in 1..Len(listOfConnectedUsers) /\ listOfConnectedUsers[i].userID = u
    BY <2>3, <2>4, IndexFound DEF IInv, ListsOK
  <2> HIDE DEF i, u
  <2>6. listOfConnectedUsers[i].numConnections \in 1..2
    BY <2>5, CountType DEF IInv, ListsOK
  <2>7. listOfConnectedUsers[i].numConnections <= Cardinality(LiveIn(clientIndex, conn, u))
    BY <2>5 DEF IInv, Counted
  <2>8. Cardinality(LiveIn(clientIndex, conn, u)) \in Nat
    BY LiveFinite
  <2>9. LiveIn(clientIndex, conn, u) = Live(clientIndex[s])
    BY DEF LiveIn, Live, u
  <2> QED
    BY <2>3, <2>6, <2>7, <2>8, <2>9 DEF MaxConnections
<1>2. CSSpec => [][CSNext]_csVars
  BY DEF CSSpec
<1>3. CSSpec => [][Step]_csVars
  BY <1>1, <1>2, SessionsInvariant, PTL
<1> QED
  BY <1>3 DEF NeverLockedOut

=============================================================================
