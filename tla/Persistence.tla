---------------------------- MODULE Persistence ----------------------------
(***************************************************************************)
(* What survives a restart of the server: main's saves, the four files of  *)
(* the database, and what a start reads from them.  Requests are executed  *)
(* in one step here (TweetDatabase has their parts), and not during a save *)
(* (QueryGate).                                                            *)
(*                                                                         *)
(* Users are numbered from 1, in the order of the file; the ID that the    *)
(* code gives to user i is i - 1.  All numbers that are written have one   *)
(* digit (MaxTweets, NumUsers).                                            *)
(***************************************************************************)
EXTENDS Integers, Sequences
LOCAL INSTANCE SequencesExt

CONSTANTS
  NumUsers,
  MaxStarts,   \* bound: starts of the server
  MaxTweets    \* bound: tweets posted between two starts

ASSUME PersistenceAssumption ==
  NumUsers \in 1..9 /\ MaxStarts \in Nat /\ MaxTweets \in 0..9

VARIABLES
  place,    \* "up", "saving", "ending" (no more saves), "down", "hung"
  progress, \* how much of a save is done: each file is truncated, then written
  last,     \* this save is the last one
  memory,   \* the four lists
  numTweets,
  file,     \* the four files
  starts,
  saved,    \* history: the lists that the last save was to write
  torn      \* history: the server has been killed in the middle of a save

vars == <<place, progress, last, memory, numTweets, file, starts, saved, torn>>

UserIds == 1..NumUsers

(* Mutated form: one of the files is forgotten.                            *)
FilesWithoutPending == <<"users", "followers", "received", "received">>

(* What the order of the writes in saveDatabase is.                        *)
Files == <<"users", "followers", "pending", "received">>

Truncated == <<>>

Nothing == [users |-> <<>>, followers |-> <<>>, pending |-> <<>>, received |-> <<>>]

(* A name is that of a user, or one of two that loadListOfUsers invents.   *)
Empty == 0
Dots == -1
User(name, id) == [name |-> name, userID |-> id]

(* Received tweets say how many recipients still have to get them.         *)
Received(tweet, n) == [tweetID |-> tweet.tweetID, author |-> tweet.author, remaining |-> n]

(* Users who follow nobody, and no tweets.  (Of the six users in the       *)
(* repository's listOfUsers.txt two are ones that a start has invented.)   *)
Shipped ==
  [users |-> [i \in UserIds |-> User(i, i - 1)],
   followers |-> [i \in UserIds |-> <<>>],
   pending |-> [i \in UserIds |-> <<>>],
   received |-> [i \in UserIds |-> <<>>]]

Init ==
  /\ place = "down"
  /\ progress = 0
  /\ last = FALSE
  /\ memory = Nothing
  /\ numTweets = 0
  /\ file = Shipped
  /\ starts = 0
  /\ saved = Shipped
  /\ torn = FALSE

-----------------------------------------------------------------------------
(* What the stream operators and the loaders read from what was written.   *)

(* What a variable holds that has never been given a value.                *)
AnyID == {0, 1}

(* Mutated forms: the last user that is read is not kept; an ID that is    *)
(* not read is 0.                                                          *)
loadListOfUsersShort(users) == {Front(users)}
loadListOfUsersZero(users) ==
  IF users # Truncated /\ Last(users) = User(Empty, 0) THEN {}
  ELSE {Append(users, User(Empty, 0))}

(* After its last user the loop of loadListOfUsers finds that eof is not   *)
(* set yet, and one more user is pushed: no name, and the ID that is left  *)
(* of the one before.  It is written as "0", the ID and a dot; a later     *)
(* start takes "0" and the ID for the length of a name, reads the dot, and *)
(* is at the end of the file then.  With ID 0 it does not get there: the   *)
(* stream fails before its end, and the loop does not end: no result.      *)
loadListOfUsers(users) ==
  IF users = Truncated THEN {<<User(Empty, id)>> : id \in AnyID}
  ELSE IF Last(users).name # Empty THEN {Append(users, User(Empty, Last(users).userID))}
  ELSE IF Last(users).userID = 0 THEN {}
  ELSE LET before == Front(users)
       IN  {Append(before, User(Dots, id)) :
              id \in IF before = <<>> THEN AnyID ELSE {Last(before).userID}}

(* A list of lists from a file that has been truncated: their number is    *)
(* what the stack holds, as many as there were in another file, or none.   *)
NoLists == {<<>>, Shipped.pending}

(* Each tweet is written with a '.' and a line break after it.  The loader *)
(* skips the '.' with the tweet; its next >> skips the line break as white *)
(* space and takes the first character of what follows, so a number of one *)
(* digit is missing and the stream fails.  The number read at that point   *)
(* is 0, and the others keep the values that they have: the tweets that    *)
(* follow look like the first one but for their first field, which is      *)
(* given as field, with the value that 0 stands for; and the lists that    *)
(* follow are as long as the last number of tweets that was read.          *)
Misread(lists, field, value) ==
  IF \A i \in DOMAIN lists : lists[i] = <<>> THEN lists
  ELSE LET f == CHOOSE i \in DOMAIN lists :
                  lists[i] # <<>> /\ \A j \in 1..(i - 1) : lists[j] = <<>>
           tweet == lists[f][1]
           n == Len(lists[f])
           rest == [k \in 1..n |-> [tweet EXCEPT ![field] = value]]
       IN  [i \in DOMAIN lists |->
              IF i < f \/ (n = 1 /\ i > f) THEN <<>>
              ELSE IF i = f THEN [rest EXCEPT ![1] = tweet]
              ELSE rest]

(* Mutated forms: the IDs are written with a line break, as tweets are; an *)
(* ID is taken for the number of a user.                                   *)
loadListOfFollowersBroken(followers) ==
  LET lists == [i \in DOMAIN followers |->
                  [k \in DOMAIN followers[i] |-> [id |-> followers[i][k]]]]
      read == Misread(lists, "id", 1)
  IN  {[i \in DOMAIN read |-> [k \in DOMAIN read[i] |-> read[i][k].id]]}
loadListOfFollowersByNumber(followers) ==
  {[i \in DOMAIN followers |-> [k \in DOMAIN followers[i] |-> followers[i][k] - 1]]}

(* "n.", and each ID with a '/': the loader skips as much as was written.  *)
loadListOfFollowers(followers) == IF followers = Truncated THEN NoLists ELSE {followers}

loadListOfPendingTweets(lists) ==
  IF lists = Truncated THEN NoLists
  ELSE {Misread(lists, "tweetID", 0)}

loadListOfReceivedTweets(lists) ==
  IF lists = Truncated THEN NoLists
  ELSE {Misread(lists, "author", 1)}

-----------------------------------------------------------------------------
(* Requests.                                                               *)
Runs == place \in {"up", "ending"}

(* The lists of lists have a list for each user.  Bound: and nothing is    *)
(* asked of a server that has been started from what a kill left.          *)
Whole == ~torn /\ \A f \in {"followers", "pending", "received"} : Len(memory[f]) = NumUsers

Follow(target, follower) ==
  /\ starts = 1  \* bound: users follow others before the first restart
  /\ Runs
  /\ Whole
  /\ ~Contains(memory.followers[target], follower)
  /\ memory' = [memory EXCEPT !.followers[target] = Append(@, follower)]
  /\ UNCHANGED numTweets

Post(author) ==
  LET tweet == [tweetID |-> numTweets, author |-> author]
      followers == memory.followers[author]
  IN  /\ Runs
      /\ Whole
      /\ numTweets < MaxTweets
      /\ numTweets' = numTweets + 1
      /\ memory' =
           [memory EXCEPT
              !.received[author] = IF followers = <<>> THEN @
                                   ELSE Append(@, Received(tweet, Len(followers))),
              !.pending = [i \in UserIds |->
                 IF Contains(followers, i) THEN Append(@[i], tweet) ELSE @[i]]]

(* _updateReceivedTweet: the author's list has one recipient less for a    *)
(* tweet, and forgets it after the last one.                               *)
OneLess(entries, k) ==
  IF entries[k].remaining = 1 THEN RemoveAt(entries, k)
  ELSE [entries EXCEPT ![k].remaining = @ - 1]

Delivered(received, tweet) ==
  LET entries == received[tweet.author]
      k == SelectInSeq(entries, LAMBDA r : r.tweetID = tweet.tweetID)
  IN  IF k = 0 THEN received ELSE [received EXCEPT ![tweet.author] = OneLess(entries, k)]

DeliveredAll(received, tweets) ==
  LET after[k \in 0..Len(tweets)] ==
        IF k = 0 THEN received ELSE Delivered(after[k - 1], tweets[k])
  IN  after[Len(tweets)]

(* The user gets all that is pending for her.                              *)
Retrieve(user) ==
  /\ Runs
  /\ Whole
  /\ memory.pending[user] # <<>>
  /\ memory' = [memory EXCEPT
                  !.pending[user] = <<>>,
                  !.received = DeliveredAll(@, memory.pending[user])]
  /\ UNCHANGED numTweets

Request ==
  /\ \/ \E target, follower \in UserIds : Follow(target, follower)
     \/ \E author \in UserIds : Post(author)
     \/ \E user \in UserIds : Retrieve(user)
  /\ UNCHANGED <<place, progress, last, file, starts, saved, torn>>

-----------------------------------------------------------------------------
(* main: every 20 seconds, or when there is a line on stdin.               *)
BeginSave ==
  /\ place = "up"
  /\ starts < MaxStarts  \* bound: what the last start saves is not read
  /\ place' = "saving"
  /\ last' \in BOOLEAN
  /\ UNCHANGED <<progress, memory, numTweets, file, starts, saved, torn>>

saveDatabase ==
  LET f == Files[progress \div 2 + 1]
  IN  /\ place = "saving"
      /\ progress < 8
      /\ progress' = progress + 1
      /\ file' = [file EXCEPT ![f] = IF progress % 2 = 0 THEN Truncated ELSE memory[f]]
      /\ saved' = memory
      /\ UNCHANGED <<place, last, memory, numTweets, starts, torn>>

EndSave ==
  /\ place = "saving"
  /\ progress = 8
  /\ progress' = 0
  /\ place' = IF last THEN "ending" ELSE "up"
  /\ last' = FALSE
  /\ UNCHANGED <<memory, numTweets, file, starts, saved, torn>>

(* What the process holds in memory is gone when it ends.                  *)
Gone ==
  /\ place' = "down"
  /\ progress' = 0
  /\ last' = FALSE
  /\ memory' = Nothing
  /\ numTweets' = 0
  /\ UNCHANGED <<file, starts, saved>>

(* The controller has joined all connections.                              *)
EndOfMain == place = "ending" /\ Gone /\ UNCHANGED torn

Kill ==
  /\ place \in {"up", "saving", "ending"}
  /\ Gone
  /\ torn' = (torn \/ progress \in 1..7)

(* loadDatabase.                                                           *)
Start ==
  /\ place = "down"
  /\ starts < MaxStarts
  /\ starts' = starts + 1
  /\ \/ /\ place' = "up"
        /\ \E followers \in loadListOfFollowers(file.followers),
              pending \in loadListOfPendingTweets(file.pending),
              received \in loadListOfReceivedTweets(file.received),
              users \in loadListOfUsers(file.users) :
             memory' = [users |-> users, followers |-> followers,
                        pending |-> pending, received |-> received]
     \/ /\ loadListOfUsers(file.users) = {}
        /\ place' = "hung"
        /\ UNCHANGED memory
  /\ UNCHANGED <<progress, last, numTweets, file, saved, torn>>

Next == Request \/ BeginSave \/ saveDatabase \/ EndSave \/ EndOfMain \/ Kill \/ Start

Spec == Init /\ [][Next]_vars

-----------------------------------------------------------------------------
Names == {Empty, Dots} \cup UserIds
Tweets == [tweetID : 0..MaxTweets, author : UserIds]

(* Types.                                                                  *)
PersistenceTypeOK ==
  /\ place \in {"up", "saving", "ending", "down", "hung"}
  /\ progress \in 0..8
  /\ progress > 0 => place = "saving"
  /\ numTweets \in 0..MaxTweets
  /\ \A lists \in {memory, file, saved} :
       /\ lists.users \in Seq([name : Names, userID : 0..NumUsers])
       /\ lists.followers \in Seq(Seq(UserIds))
       /\ lists.pending \in Seq(Seq(Tweets))
       /\ lists.received \in
            Seq(Seq([tweetID : 0..MaxTweets, author : UserIds, remaining : UserIds]))

(* Users keep their index, by which everything else in the database refers *)
(* to them, though every start reads a file that the start before it has   *)
(* spoiled; unless the server was killed during a save.                    *)
UsersKeepIndex == Runs /\ ~torn => IsPrefix(Shipped.users, memory.users)

(* A start ends.                                                           *)
LoadEnds == ~torn => place # "hung"

Starts == place = "down" /\ place' = "up"

(* A start reads the followers that the last complete save has written.    *)
FollowersSurvive == [][Starts /\ ~torn => memory'.followers = saved.followers]_vars

(* The same for a pending tweet, if no other is pending.                   *)
LoneTweetSurvives ==
  [][Starts /\ ~torn /\ (\A i, j \in UserIds : saved.pending[i] # <<>> /\ saved.pending[j] # <<>> => i = j)
            /\ (\A i \in UserIds : Len(saved.pending[i]) <= 1) =>
       memory'.pending = saved.pending]_vars

(* The same for pending tweets in general.                                 *)
RestartKeepsTweets == [][Starts /\ ~torn => memory'.pending = saved.pending]_vars
=============================================================================
