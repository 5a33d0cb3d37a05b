------------------------- MODULE ConnectionManager -------------------------
(***************************************************************************)
(* The connectionManager object `cm_temp` of src/src/main_server.cpp: the  *)
(* list of connected users with the number of connections of each, and,    *)
(* parallel to it, the list of tweets archived for the second connection   *)
(* of a user.  Every method takes the semaphore accessDB around each of    *)
(* its critical sections; this module has one operator per critical        *)
(* section.  Three methods (doesClientHaveTwoConnections,                  *)
(* registerDuplicateTweet, retrieveDuplicateTweet) and one predicate       *)
(* (doesClientHaveDuplicateTweets) have two critical sections: they look   *)
(* the index of the user up in the first one, release accessDB, and use    *)
(* that index in the second one.                                           *)
(*                                                                         *)
(* Indexes are those of TLA+ sequences: position i stands for the code's   *)
(* i - 1, and 0 for the code's -1, "no such user".                         *)
(***************************************************************************)
EXTENDS Accounts, Integers, Sequences, FiniteSets
LOCAL INSTANCE SequencesExt

VARIABLES
  listOfConnectedUsers,    \* sequence of [userID, numConnections]
  listOfDuplicatedTweets,  \* the tweets archived for each entry of the above
  crashed                  \* TRUE when undefined behaviour ended the process

cmVars == <<listOfConnectedUsers, listOfDuplicatedTweets, crashed>>

MaxConnections == 2

Connection(u, n) == [userID |-> u, numConnections |-> n]

CMInit ==
  /\ listOfConnectedUsers = <<>>
  /\ listOfDuplicatedTweets = <<>>
  /\ crashed = FALSE

(* An access outside the vectors ends the process, or does nothing that    *)
(* the manager can see: the slot before the first or after the last        *)
(* element is not part of it.                                              *)
Crash ==
  /\ crashed' = TRUE
  /\ UNCHANGED <<listOfConnectedUsers, listOfDuplicatedTweets>>

getConnectionIndex(u) ==
  SelectInSeq(listOfConnectedUsers, LAMBDA c : c.userID = u)

(* The index held by a caller may have gone stale.                         *)
InRange(i) == i \in DOMAIN listOfConnectedUsers

(* Mutated form: a connection too many is turned away.                      *)
registerConnectionTooStrict(u, ok) ==
  LET i == getConnectionIndex(u)
  IN  /\ ok = (i = 0)
      /\ listOfConnectedUsers' =
           IF ok THEN Append(listOfConnectedUsers, Connection(u, 1)) ELSE listOfConnectedUsers
      /\ listOfDuplicatedTweets' =
           IF ok THEN Append(listOfDuplicatedTweets, <<>>) ELSE listOfDuplicatedTweets
      /\ UNCHANGED crashed

(* Mutated form: the list is not searched for an entry of the user.         *)
registerConnectionUnsearched(u, ok) ==
  /\ ok = (Len(listOfConnectedUsers) < 4)
  /\ listOfConnectedUsers' =
       IF ok THEN Append(listOfConnectedUsers, Connection(u, 1)) ELSE listOfConnectedUsers
  /\ listOfDuplicatedTweets' =
       IF ok THEN Append(listOfDuplicatedTweets, <<>>) ELSE listOfDuplicatedTweets
  /\ UNCHANGED crashed

(***************************************************************************)
(* registerConnection returns ok.  NoUser is registered like a user: the   *)
(* connector calls the method before it looks at the index.                *)
(***************************************************************************)
registerConnection(u, ok) ==
  LET i == getConnectionIndex(u)
  IN  /\ \/ /\ i = 0
            /\ ok = TRUE
            /\ listOfConnectedUsers' = Append(listOfConnectedUsers, Connection(u, 1))
            /\ listOfDuplicatedTweets' = Append(listOfDuplicatedTweets, <<>>)
         \/ /\ i # 0
            /\ ok = (listOfConnectedUsers[i].numConnections < MaxConnections)
            /\ listOfConnectedUsers' =
                 IF ok THEN [listOfConnectedUsers EXCEPT ![i].numConnections = @ + 1]
                       ELSE listOfConnectedUsers
            /\ UNCHANGED listOfDuplicatedTweets
      /\ UNCHANGED crashed

(* Mutated form: the archive is not erased with the last connection.        *)
closeConnectionKeepsArchive(u) ==
  LET i == getConnectionIndex(u)
  IN  /\ listOfConnectedUsers' =
           IF i = 0 THEN listOfConnectedUsers
           ELSE IF listOfConnectedUsers[i].numConnections = 2
                THEN [listOfConnectedUsers EXCEPT ![i].numConnections = @ - 1]
                ELSE RemoveAt(listOfConnectedUsers, i)
      /\ UNCHANGED <<listOfDuplicatedTweets, crashed>>

(* Mutated form: one of two connections leaves and is still counted.        *)
closeConnectionKeepsCount(u) ==
  LET i == getConnectionIndex(u)
  IN  /\ IF i # 0 /\ listOfConnectedUsers[i].numConnections # 2
            THEN /\ listOfConnectedUsers' = RemoveAt(listOfConnectedUsers, i)
                 /\ listOfDuplicatedTweets' = RemoveAt(listOfDuplicatedTweets, i)
            ELSE UNCHANGED <<listOfConnectedUsers, listOfDuplicatedTweets>>
      /\ UNCHANGED crashed

(***************************************************************************)
(* closeConnection.  On an empty list the loop dereferences end() and then *)
(* runs past it: undefined behaviour.                                      *)
(***************************************************************************)
closeConnection(u) ==
  LET i == getConnectionIndex(u)
  IN  \/ /\ i # 0
         /\ listOfConnectedUsers[i].numConnections = 2
         /\ listOfConnectedUsers' = [listOfConnectedUsers EXCEPT ![i].numConnections = @ - 1]
         /\ listOfDuplicatedTweets' = [listOfDuplicatedTweets EXCEPT ![i] = <<>>]
         /\ UNCHANGED crashed
      \/ /\ i # 0
         /\ listOfConnectedUsers[i].numConnections # 2
         /\ listOfConnectedUsers' = RemoveAt(listOfConnectedUsers, i)
         /\ listOfDuplicatedTweets' = RemoveAt(listOfDuplicatedTweets, i)
         /\ UNCHANGED crashed
      \/ /\ i = 0
         /\ listOfConnectedUsers # <<>>
         /\ UNCHANGED cmVars
      \/ /\ i = 0
         /\ listOfConnectedUsers = <<>>
         /\ Crash

(***************************************************************************)
(* The second critical sections.  i is the index found in the first one.   *)
(***************************************************************************)
doesClientHaveTwoConnections(i, answer) ==
  \/ /\ InRange(i)
     /\ answer = (listOfConnectedUsers[i].numConnections = 2)
     /\ UNCHANGED cmVars
  \/ /\ ~InRange(i)
     /\ UNCHANGED cmVars \/ Crash

doesClientHaveDuplicateTweets(i, answer) ==
  \/ /\ InRange(i)
     /\ answer = (listOfDuplicatedTweets[i] # <<>>)
     /\ UNCHANGED cmVars
  \/ /\ ~InRange(i)
     /\ UNCHANGED cmVars \/ Crash

registerDuplicateTweet(i, tweet) ==
  \/ /\ InRange(i)
     /\ listOfDuplicatedTweets' = [listOfDuplicatedTweets EXCEPT ![i] = Append(@, tweet)]
     /\ UNCHANGED <<listOfConnectedUsers, crashed>>
  \/ /\ ~InRange(i)
     /\ UNCHANGED cmVars \/ Crash

retrieveDuplicateTweet(i, tweets) ==
  \/ /\ InRange(i)
     /\ tweets = listOfDuplicatedTweets[i]
     /\ listOfDuplicatedTweets' = [listOfDuplicatedTweets EXCEPT ![i] = <<>>]
     /\ UNCHANGED <<listOfConnectedUsers, crashed>>
  \/ /\ ~InRange(i)
     /\ tweets = <<>>
     /\ UNCHANGED cmVars \/ Crash

=============================================================================
