--------------------------- MODULE TweetDatabase ---------------------------
(***************************************************************************)
(* The databaseManager object `db_temp` of src/src/main_server.cpp: the    *)
(* followers of each user, the tweets each author has posted that some     *)
(* recipient still has to get (listOfReceivedTweets), and the tweets each  *)
(* user still has to get (listOfPendingTweets), which name the author and  *)
(* the tweet.  One operator per critical section of the methods; which     *)
(* thread runs them, and under which locks, is in TweetServer.             *)
(*                                                                         *)
(* A tweet is its author and number: text and timestamp travel with it     *)
(* unread.                                                                 *)
(***************************************************************************)
EXTENDS Accounts, Integers, Sequences, FiniteSets
LOCAL INSTANCE SequencesExt

CONSTANT InitialFollowers   \* listOfFollowers as loaded from the files

ASSUME FollowersAssumption == InitialFollowers \in [Users -> Seq(Users)]

VARIABLES
  listOfFollowers,       \* the followers of each user, in the order they followed
  listOfPendingTweets,   \* for each user, a sequence of [userAuthor, tweetID]
  listOfReceivedTweets,  \* for each author, of [tweetID, numRecipientsRemaining]
  numTweets              \* the number the next tweet gets

dbVars == <<listOfFollowers, listOfPendingTweets, listOfReceivedTweets, numTweets>>

PendingTweet(u, id) == [userAuthor |-> u, tweetID |-> id]
TweetData(id, n) == [tweetID |-> id, numRecipientsRemaining |-> n]

(* The database after loadDatabase, no tweet being on its way.             *)
DBInit ==
  /\ listOfFollowers = InitialFollowers
  /\ listOfPendingTweets = [u \in Users |-> <<>>]
  /\ listOfReceivedTweets = [u \in Users |-> <<>>]
  /\ numTweets = 0

-----------------------------------------------------------------------------
alreadyFollowed(target, u) ==
  \E i \in DOMAIN listOfFollowers[target] : listOfFollowers[target][i] = u

getNumFollowers(u) == Len(listOfFollowers[u])

(* The section of postFollow under LOF_rw_sem.                             *)
pushFollower(target, u) ==
  /\ listOfFollowers' = [listOfFollowers EXCEPT ![target] = Append(@, u)]
  /\ UNCHANGED <<listOfPendingTweets, listOfReceivedTweets, numTweets>>

(* The section of postUpdate under tweetnum_sem.                           *)
takeTweetID(id) ==
  /\ id = numTweets
  /\ numTweets' = numTweets + 1
  /\ UNCHANGED <<listOfFollowers, listOfPendingTweets, listOfReceivedTweets>>

(* _registerUpdate, once it has counted n followers.                       *)
registerUpdate(u, id, n) ==
  /\ listOfReceivedTweets' =
       [listOfReceivedTweets EXCEPT ![u] = Append(@, TweetData(id, n))]
  /\ UNCHANGED <<listOfFollowers, listOfPendingTweets, numTweets>>

(* _forwardUpdateToFollowers, once it has counted n followers: one entry   *)
(* for each time a user is among the first n.                              *)
forwardUpdate(u, id, n) ==
  /\ LET times(v) == Cardinality({i \in 1..n : listOfFollowers[u][i] = v})
     IN  listOfPendingTweets' =
           [v \in Users |-> listOfPendingTweets[v]
                              \o [k \in 1..times(v) |-> PendingTweet(u, id)]]
  /\ UNCHANGED <<listOfFollowers, listOfReceivedTweets, numTweets>>

(* The second half of _retrievePendingTweets.                              *)
clearPendingTweets(u) ==
  /\ listOfPendingTweets' = [listOfPendingTweets EXCEPT ![u] = <<>>]
  /\ UNCHANGED <<listOfFollowers, listOfReceivedTweets, numTweets>>

(* Where the author's list holds the tweet a pending entry names; 0 if     *)
(* nowhere.                                                                *)
receivedIndex(p) ==
  SelectInSeq(listOfReceivedTweets[p.userAuthor], LAMBDA t : t.tweetID = p.tweetID)

IsReceived(p) == receivedIndex(p) # 0

(* The loop of retrieveTweetsFromFollowed that looks pending tweets up: an *)
(* entry whose tweet is gone is skipped.                                   *)
lookUpTweets(pending) ==
  LET found[k \in 0..Len(pending)] ==
        IF k = 0 THEN <<>>
        ELSE IF IsReceived(pending[k]) THEN Append(found[k - 1], pending[k])
        ELSE found[k - 1]
  IN  found[Len(pending)]

(* Mutated form: the entry is erased when the first recipient has it.      *)
updateReceivedTweetErases(p) ==
  /\ IF IsReceived(p)
        THEN listOfReceivedTweets' =
               [listOfReceivedTweets EXCEPT ![p.userAuthor] = RemoveAt(@, receivedIndex(p))]
        ELSE UNCHANGED listOfReceivedTweets
  /\ UNCHANGED <<listOfFollowers, listOfPendingTweets, numTweets>>

(* Mutated form: the entry is kept when nobody remains.                    *)
updateReceivedTweetKeeps(p) ==
  /\ IF IsReceived(p)
        THEN listOfReceivedTweets' =
               [listOfReceivedTweets EXCEPT
                  ![p.userAuthor][receivedIndex(p)].numRecipientsRemaining = @ - 1]
        ELSE UNCHANGED listOfReceivedTweets
  /\ UNCHANGED <<listOfFollowers, listOfPendingTweets, numTweets>>

(* _updateReceivedTweet.                                                   *)
updateReceivedTweet(p) ==
  LET i == receivedIndex(p)
      author == p.userAuthor
  IN  /\ \/ /\ i # 0
            /\ listOfReceivedTweets[author][i].numRecipientsRemaining = 1
            /\ listOfReceivedTweets' =
                 [listOfReceivedTweets EXCEPT ![author] = RemoveAt(@, i)]
         \/ /\ i # 0
            /\ listOfReceivedTweets[author][i].numRecipientsRemaining # 1
            /\ listOfReceivedTweets' =
                 [listOfReceivedTweets EXCEPT ![author][i].numRecipientsRemaining = @ - 1]
         \/ /\ i = 0
            /\ UNCHANGED listOfReceivedTweets
      /\ UNCHANGED <<listOfFollowers, listOfPendingTweets, numTweets>>

=============================================================================
