------------------------- MODULE PersistenceProofs -------------------------
(***************************************************************************)
(* What survives restarts of the server: the index of each user, the       *)
(* followers, and a pending tweet that is the only one.  It is proved for  *)
(* any number of starts, and as many users and tweets between two starts   *)
(* as one digit can number (PersistenceAssumption).  What a start reads of *)
(* several pending tweets is another matter (RestartKeepsTweets).          *)
(***************************************************************************)
EXTENDS Persistence, DataLemmas
LOCAL INSTANCE SequencesExt

UserEntries == [name : Names, userID : 0..NumUsers]

(* The users in their places, and behind them some that starts invent:     *)
(* they have the ID of the last user.                                      *)
GoodUsers(users) ==
  /\ users \in Seq(UserEntries)
  /\ Len(users) >= NumUsers
  /\ \A i \in UserIds : users[i] = User(i, i - 1)
  /\ \A i \in 1..Len(users) : i > NumUsers => users[i].userID = NumUsers - 1

Followers == [UserIds -> Seq(UserIds)]
Pending == [UserIds -> Seq(Tweets)]

Kept(lists) ==
  /\ DOMAIN lists = {"users", "followers", "pending", "received"}
  /\ GoodUsers(lists.users)
  /\ lists.followers \in Followers
  /\ lists.pending \in Pending

InMemory == place \in {"up", "saving", "ending"}

PlaceOK ==
  /\ place \in {"up", "saving", "ending", "down", "hung"}
  /\ progress \in 0..8
  /\ progress > 0 => place = "saving"
  /\ numTweets \in 0..MaxTweets

(* Each file is good except between its truncation and its writing, and is *)
(* what the last save was to write from then on.                           *)
FilesOK ==
  /\ DOMAIN file = {"users", "followers", "pending", "received"}
  /\ progress # 1 => GoodUsers(file.users)
  /\ progress # 3 => file.followers \in Followers
  /\ progress # 5 => file.pending \in Pending
  /\ progress > 0 => saved = memory
  /\ progress = 0 \/ progress > 3 => file.followers = saved.followers
  /\ progress = 0 \/ progress > 5 => file.pending = saved.pending

PersistInv ==
  /\ PlaceOK
  /\ ~torn => /\ InMemory => Kept(memory)
              /\ FilesOK
              /\ NumUsers > 1 => place # "hung"

-----------------------------------------------------------------------------
(* The last entry of a good list: the last user, or one that was invented. *)
LEMMA LastEntry ==
  ASSUME NEW users, GoodUsers(users)
  PROVE  /\ NumUsers \in Nat /\ NumUsers > 0
         /\ Len(users) \in Nat /\ Len(users) >= NumUsers
         /\ users # Truncated
         /\ Last(users) = users[Len(users)]
         /\ Last(users).userID = NumUsers - 1
         /\ Last(users).name = Empty => Len(users) > NumUsers
<1> DEFINE n == Len(users)
<1>1. /\ NumUsers \in Nat /\ NumUsers > 0
      /\ users \in Seq(UserEntries) /\ n \in Nat /\ n >= NumUsers
  BY PersistenceAssumption DEF GoodUsers
<1>2. users # Truncated
  BY <1>1 DEF Truncated
<1>3. Last(users) = users[n]
  BY DEF Last
<1>4. CASE n > NumUsers
  <2>1. n \in 1..n
    BY <1>1
  <2>2. users[n].userID = NumUsers - 1
    BY <2>1, <1>4 DEF GoodUsers
  <2> QED
    BY <1>1, <1>2, <1>3, <1>4, <2>2
<1>5. CASE n = NumUsers
  <2>1. n \in UserIds
    BY <1>1, <1>5 DEF UserIds
  <2>2. users[n] = User(n, n - 1)
    BY <2>1 DEF GoodUsers
  <2>3. users[n].name = n /\ users[n].userID = n - 1
    BY <2>2 DEF User
  <2> QED
    BY <1>1, <1>2, <1>3, <1>5, <2>3 DEF Empty
<1> QED
  BY <1>1, <1>4, <1>5

(* An invented entry at the end keeps a list good.                         *)
LEMMA InventedEntry ==
  ASSUME NEW users, GoodUsers(users), NEW name \in {Empty, Dots}
  PROVE  GoodUsers(Append(users, User(name, NumUsers - 1)))
<1> DEFINE n == Len(users)
           e == User(name, NumUsers - 1)
           read == Append(users, e)
<1>1. /\ NumUsers \in Nat /\ NumUsers > 0
      /\ users \in Seq(UserEntries) /\ n \in Nat /\ n >= NumUsers
  BY PersistenceAssumption DEF GoodUsers
<1>2. e \in UserEntries /\ e.userID = NumUsers - 1
  BY <1>1 DEF User, UserEntries, Names
<1> HIDE DEF e
<1>3. /\ read \in Seq(UserEntries)
      /\ Len(read) = n + 1
      /\ \A i \in 1..n : read[i] = users[i]
      /\ read[n + 1] = e
  BY <1>1, <1>2
<1> HIDE DEF read
<1>4. ASSUME NEW i \in UserIds PROVE read[i] = User(i, i - 1)
  BY <1>1, <1>3 DEF GoodUsers, UserIds
<1>5. ASSUME NEW i \in 1..Len(read), i > NumUsers PROVE read[i].userID = NumUsers - 1
  <2>1. CASE i = n + 1
    BY <2>1, <1>2, <1>3
  <2>2. CASE i # n + 1
    <3>1. i \in 1..n
      BY <2>2, <1>1, <1>3
    <3>2. users[i].userID = NumUsers - 1
      BY <3>1, <1>5 DEF GoodUsers
    <3> QED
      BY <3>1, <3>2, <1>3
  <2> QED
    BY <2>1, <2>2
<1>6. GoodUsers(read)
  BY <1>1, <1>3, <1>4, <1>5 DEF GoodUsers
<1> QED
  BY <1>6 DEF read, e

(* A list that is good without its last entry.                             *)
LEMMA WithoutLast ==
  ASSUME NEW users, GoodUsers(users), Len(users) > NumUsers
  PROVE  GoodUsers(Front(users))
<1> DEFINE n == Len(users)
           before == Front(users)
<1>1. /\ NumUsers \in Nat /\ NumUsers > 0
      /\ users \in Seq(UserEntries) /\ n \in Nat /\ n > NumUsers
  BY PersistenceAssumption DEF GoodUsers
<1>2. /\ before \in Seq(UserEntries)
      /\ Len(before) = n - 1
      /\ \A i \in 1..(n - 1) : before[i] = users[i]
  BY <1>1 DEF Front
<1> HIDE DEF before
<1>3. ASSUME NEW i \in UserIds PROVE before[i] = User(i, i - 1)
  BY <1>1, <1>2 DEF GoodUsers, UserIds
<1>4. ASSUME NEW i \in 1..Len(before), i > NumUsers PROVE before[i].userID = NumUsers - 1
  <2>1. i \in 1..(n - 1) /\ i \in 1..n
    BY <1>1, <1>2
  <2>2. users[i].userID = NumUsers - 1
    BY <2>1, <1>4 DEF GoodUsers
  <2> QED
    BY <2>1, <2>2, <1>2
<1>5. GoodUsers(before)
  BY <1>1, <1>2, <1>3, <1>4 DEF GoodUsers
<1> QED
  BY <1>5 DEF before

(* The list of users that a start reads, if it ends, is good again.        *)
LEMMA LoadKeepsUsers ==
  ASSUME NEW users, GoodUsers(users), NEW read \in loadListOfUsers(users)
  PROVE  GoodUsers(read)
<1>1. CASE Last(users).name # Empty
  <2>1. read = Append(users, User(Empty, NumUsers - 1))
    BY <1>1, LastEntry DEF loadListOfUsers
  <2> QED
    BY <2>1, InventedEntry
<1>2. CASE Last(users).name = Empty
  <2> DEFINE before == Front(users)
  <2>1. GoodUsers(before)
    BY <1>2, LastEntry, WithoutLast
  <2>2. before # <<>> /\ Last(before).userID = NumUsers - 1
    BY <2>1, LastEntry DEF Truncated
  <2>3. Last(users).userID # 0
    BY <1>2, LastEntry DEF loadListOfUsers
  <2>4. read = Append(before, User(Dots, NumUsers - 1))
    BY <1>2, <2>2, <2>3, LastEntry DEF loadListOfUsers
  <2> QED
    BY <2>1, <2>4, InventedEntry
<1> QED
  BY <1>1, <1>2

(* With two users or more there is a result.                               *)
LEMMA LoadUsersEnds ==
  ASSUME NEW users, GoodUsers(users), NumUsers > 1
  PROVE  loadListOfUsers(users) # {}
<1>1. users # Truncated /\ Last(users).userID # 0
  BY LastEntry
<1>2. CASE Last(users).name # Empty
  BY <1>1, <1>2 DEF loadListOfUsers
<1>3. CASE Last(users).name = Empty
  <2> DEFINE before == Front(users)
             ids == IF before = <<>> THEN AnyID ELSE {Last(before).userID}
  <2>1. PICK id : id \in ids
    BY DEF AnyID
  <2>2. loadListOfUsers(users) = {Append(before, User(Dots, x)) : x \in ids}
    BY <1>1, <1>3 DEF loadListOfUsers
  <2> QED
    BY <2>1, <2>2
<1> QED
  BY <1>2, <1>3

(* The index of every user is what it was.                                 *)
LEMMA GoodUsersKeepIndex ==
  ASSUME NEW users, GoodUsers(users) PROVE IsPrefix(Shipped.users, users)
<1>1. /\ Shipped.users = [i \in 1..NumUsers |-> User(i, i - 1)]
      /\ Len(Shipped.users) = NumUsers
  BY PersistenceAssumption DEF Shipped, UserIds
<1>2. SubSeq(Shipped.users, 1, NumUsers) = SubSeq(users, 1, NumUsers)
  BY <1>1, PersistenceAssumption DEF GoodUsers, UserIds
<1> QED
  BY <1>1, <1>2 DEF IsPrefix, GoodUsers

-----------------------------------------------------------------------------
(* The least index of a list that is not empty.                            *)
LEMMA FirstNotEmpty ==
  ASSUME NEW lists \in Pending, \E i \in DOMAIN lists : lists[i] # <<>>
  PROVE  \E i \in DOMAIN lists : lists[i] # <<>> /\ \A j \in 1..(i - 1) : lists[j] = <<>>
<1> DEFINE S == {i \in UserIds : lists[i] # <<>>}
<1>1. DOMAIN lists = UserIds /\ NumUsers \in Nat
  BY PersistenceAssumption DEF Pending
<1>2. S \in SUBSET Nat /\ S # {}
  BY <1>1 DEF UserIds
<1>3. PICK m \in S : \A n \in S : m <= n
  BY <1>2, LeastNumber
<1>4. ASSUME NEW j \in 1..(m - 1) PROVE lists[j] = <<>>
  <2>1. j \in UserIds /\ j < m
    BY <1>1, <1>2, <1>3 DEF UserIds
  <2> QED
    BY <2>1, <1>3, <1>2
<1> QED
  BY <1>1, <1>3, <1>4

(* What is read of n tweets but for the first, and of lists of which f is  *)
(* the first that is not empty.                                            *)
Repeated(tweet, n) == [k \in 1..n |-> [tweet EXCEPT !["tweetID"] = 0]]
ReadFrom(lists, f) ==
  LET tweet == lists[f][1]
      n == Len(lists[f])
  IN  [i \in UserIds |->
         IF i < f \/ (n = 1 /\ i > f) THEN <<>>
         ELSE IF i = f THEN [Repeated(tweet, n) EXCEPT ![1] = tweet]
         ELSE Repeated(tweet, n)]

LEMMA MisreadIs ==
  ASSUME NEW lists \in Pending, \E i \in UserIds : lists[i] # <<>>
  PROVE  \E f \in UserIds : /\ lists[f] # <<>>
                            /\ Misread(lists, "tweetID", 0) = ReadFrom(lists, f)
<1> DEFINE First(i) == lists[i] # <<>> /\ \A j \in 1..(i - 1) : lists[j] = <<>>
           f == CHOOSE i \in DOMAIN lists : First(i)
<1>1. DOMAIN lists = UserIds
  BY DEF Pending
<1>2. Misread(lists, "tweetID", 0) = ReadFrom(lists, f)
  BY <1>1 DEF Misread, ReadFrom, Repeated
<1>3. \E i \in DOMAIN lists : First(i)
  BY <1>1, FirstNotEmpty
<1> HIDE DEF First
<1>4. f \in DOMAIN lists /\ First(f)
  BY <1>3
<1> QED
  BY <1>1, <1>2, <1>4 DEF First

(* Pending tweets that are misread are still pending tweets.               *)
LEMMA MisreadTweets ==
  ASSUME NEW lists \in Pending PROVE Misread(lists, "tweetID", 0) \in Pending
<1>1. CASE \A i \in UserIds : lists[i] = <<>>
  BY <1>1 DEF Misread, Pending
<1>2. CASE \E i \in UserIds : lists[i] # <<>>
  <2>1. PICK f \in UserIds : /\ lists[f] # <<>>
                             /\ Misread(lists, "tweetID", 0) = ReadFrom(lists, f)
    BY <1>2, MisreadIs
  <2> DEFINE tweet == lists[f][1]
             n == Len(lists[f])
             field == [tweet EXCEPT !["tweetID"] = 0]
             rest == Repeated(tweet, n)
             kept == [rest EXCEPT ![1] = tweet]
  <2>2. n \in Nat /\ n > 0 /\ tweet \in Tweets
    BY <2>1 DEF Pending
  <2>3. field \in Tweets
    BY <2>2, PersistenceAssumption DEF Tweets
  <2> HIDE DEF n, tweet, field
  <2>4. rest = [k \in 1..n |-> field]
    BY DEF Repeated, field
  <2>5. rest \in Seq(Tweets) /\ kept \in Seq(Tweets) /\ <<>> \in Seq(Tweets)
    BY <2>2, <2>3, <2>4
  <2> QED
    BY <2>1, <2>5 DEF ReadFrom, Pending, n, tweet
<1> QED
  BY <1>1, <1>2

(* One tweet at most is pending.                                           *)
Lone(lists) ==
  /\ \A i, j \in UserIds : lists[i] # <<>> /\ lists[j] # <<>> => i = j
  /\ \A i \in UserIds : Len(lists[i]) <= 1

(* It is read as it was written.                                           *)
LEMMA LoneTweetIsRead ==
  ASSUME NEW lists \in Pending, Lone(lists)
  PROVE  Misread(lists, "tweetID", 0) = lists
<1>1. CASE \A i \in UserIds : lists[i] = <<>>
  BY <1>1 DEF Misread, Pending
<1>2. CASE \E i \in UserIds : lists[i] # <<>>
  <2>1. PICK f \in UserIds : /\ lists[f] # <<>>
                             /\ Misread(lists, "tweetID", 0) = ReadFrom(lists, f)
    BY <1>2, MisreadIs
  <2> DEFINE tweet == lists[f][1]
             n == Len(lists[f])
             kept == [Repeated(tweet, n) EXCEPT ![1] = tweet]
  <2>2. lists[f] \in Seq(Tweets) /\ lists[f] # <<>>
    BY <2>1 DEF Pending
  <2>3. n = 1
    <3>1. n <= 1
      BY DEF Lone
    <3>2. n \in Nat /\ n # 0
      BY <2>2, EmptySeq
    <3> HIDE DEF n
    <3> QED
      BY <3>1, <3>2
  <2>4. kept = [k \in 1..1 |-> tweet]
    BY <2>3 DEF Repeated
  <2>5. lists[f] = [k \in 1..1 |-> tweet]
    BY <2>2, <2>3
  <2>6. ASSUME NEW i \in UserIds PROVE ReadFrom(lists, f)[i] = lists[i]
    <3>1. CASE i = f
      BY <3>1, <2>4, <2>5, PersistenceAssumption DEF UserIds, ReadFrom
    <3>2. CASE i # f
      <4>1. lists[i] = <<>>
        BY <3>2, <2>1, <1>2 DEF Lone
      <4>2. i < f \/ i > f
        BY <3>2, <2>1, PersistenceAssumption DEF UserIds
      <4> QED
        BY <4>1, <4>2, <2>3 DEF ReadFrom
    <3> QED
      BY <3>1, <3>2
  <2>7. ReadFrom(lists, f) = lists
    BY <2>6 DEF Pending, ReadFrom
  <2> QED
    BY <2>1, <2>7
<1> QED
  BY <1>1, <1>2

(* No good list of lists looks like a file that has been truncated.        *)
LEMMA NotTruncated ==
  ASSUME NEW lists, DOMAIN lists = UserIds PROVE lists # Truncated
<1>1. 1 \in UserIds
  BY PersistenceAssumption DEF UserIds
<1> QED
  BY <1>1 DEF Truncated

-----------------------------------------------------------------------------
Lists == {"users", "followers", "pending", "received"}

(* A server starts from a file that was written before the first start.    *)
LEMMA PersistInit == Init => PersistInv
<1> SUFFICES ASSUME Init PROVE PersistInv
  OBVIOUS
<1>1. NumUsers \in Nat /\ NumUsers > 0
  BY PersistenceAssumption
<1>2. GoodUsers(Shipped.users)
  <2> DEFINE users == [i \in UserIds |-> User(i, i - 1)]
  <2>1. \A i \in UserIds : User(i, i - 1) \in UserEntries
    BY <1>1 DEF User, UserIds, UserEntries, Names
  <2>2. users \in Seq(UserEntries) /\ Len(users) = NumUsers
    BY <1>1, <2>1 DEF UserIds
  <2>3. \A i \in UserIds : users[i] = User(i, i - 1)
    OBVIOUS
  <2> HIDE DEF users
  <2>4. GoodUsers(users)
    BY <1>1, <2>2, <2>3 DEF GoodUsers
  <2> QED
    BY <2>4 DEF Shipped, users
<1>3. Shipped.followers \in Followers /\ Shipped.pending \in Pending
  BY DEF Shipped, Followers, Pending
<1>4. PlaceOK /\ ~InMemory
  BY PersistenceAssumption DEF Init, PlaceOK, InMemory
<1>5. DOMAIN Shipped = Lists
  BY DEF Shipped, Lists
<1>6. FilesOK
  BY <1>2, <1>3, <1>5 DEF Init, FilesOK, Lists
<1> QED
  BY <1>4, <1>6 DEF PersistInv, Init

(* Requests change the followers and the tweets, and no users.             *)
LEMMA FollowKeeps ==
  ASSUME PersistInv, NEW target \in UserIds, NEW follower \in UserIds,
         Follow(target, follower)
  PROVE  ~torn /\ Kept(memory)'
<1>1. ~torn /\ Kept(memory)
  BY DEF PersistInv, Follow, Runs, Whole, InMemory
<1> DEFINE mine == Append(memory.followers[target], follower)
<1>2. mine \in Seq(UserIds)
  BY <1>1 DEF Kept, Followers
<1>3. /\ DOMAIN memory' = DOMAIN memory
      /\ memory'.users = memory.users
      /\ memory'.pending = memory.pending
      /\ memory'.followers = [memory.followers EXCEPT ![target] = mine]
  BY <1>1 DEF Follow, Kept
<1> HIDE DEF mine
<1>4. memory'.followers \in Followers
  BY <1>1, <1>2, <1>3 DEF Kept, Followers
<1> QED
  BY <1>1, <1>3, <1>4 DEF Kept

LEMMA PostKeeps ==
  ASSUME PersistInv, NEW author \in UserIds, Post(author)
  PROVE  ~torn /\ Kept(memory)' /\ numTweets' \in 0..MaxTweets
<1>1. ~torn /\ Kept(memory) /\ numTweets \in 0..MaxTweets /\ MaxTweets \in Nat
  BY PersistenceAssumption DEF PersistInv, PlaceOK, Post, Runs, Whole, InMemory
<1> DEFINE tweet == [tweetID |-> numTweets, author |-> author]
           followers == memory.followers[author]
           pending == [i \in UserIds |-> IF Contains(followers, i)
                                         THEN Append(memory.pending[i], tweet)
                                         ELSE memory.pending[i]]
<1>2. tweet \in Tweets /\ numTweets' \in 0..MaxTweets
  BY <1>1 DEF Post, Tweets
<1>3. /\ DOMAIN memory' = DOMAIN memory
      /\ memory'.users = memory.users
      /\ memory'.followers = memory.followers
      /\ memory'.pending = pending
  BY <1>1 DEF Post, Kept
<1> HIDE DEF tweet
<1>4. pending \in Pending
  BY <1>1, <1>2 DEF Kept, Pending
<1> QED
  BY <1>1, <1>2, <1>3, <1>4 DEF Kept

LEMMA RetrieveKeeps ==
  ASSUME PersistInv, NEW user \in UserIds, Retrieve(user)
  PROVE  ~torn /\ Kept(memory)'
<1>1. ~torn /\ Kept(memory)
  BY DEF PersistInv, Retrieve, Runs, Whole, InMemory
<1>2. /\ DOMAIN memory' = DOMAIN memory
      /\ memory'.users = memory.users
      /\ memory'.followers = memory.followers
      /\ memory'.pending = [memory.pending EXCEPT ![user] = <<>>]
  BY <1>1 DEF Retrieve, Kept
<1>3. memory'.pending \in Pending
  BY <1>1, <1>2 DEF Kept, Pending
<1> QED
  BY <1>1, <1>2, <1>3 DEF Kept

LEMMA RequestKeeps == ASSUME PersistInv, Request PROVE PersistInv'
<1>1. ~torn /\ Kept(memory)' /\ numTweets' \in 0..MaxTweets /\ Runs
  <2>1. ASSUME NEW target \in UserIds, NEW follower \in UserIds, Follow(target, follower)
        PROVE  ~torn /\ Kept(memory)' /\ numTweets' \in 0..MaxTweets /\ Runs
    BY <2>1, FollowKeeps DEF Follow, PersistInv, PlaceOK
  <2>2. ASSUME NEW author \in UserIds, Post(author)
        PROVE  ~torn /\ Kept(memory)' /\ numTweets' \in 0..MaxTweets /\ Runs
    BY <2>2, PostKeeps DEF Post
  <2>3. ASSUME NEW user \in UserIds, Retrieve(user)
        PROVE  ~torn /\ Kept(memory)' /\ numTweets' \in 0..MaxTweets /\ Runs
    BY <2>3, RetrieveKeeps DEF Retrieve, PersistInv, PlaceOK
  <2> QED
    BY <2>1, <2>2, <2>3 DEF Request
<1>2. progress = 0
  BY <1>1 DEF Runs, PersistInv, PlaceOK
<1>3. UNCHANGED <<place, progress, last, file, starts, saved, torn>>
  BY DEF Request
<1>4. PlaceOK'
  BY <1>1, <1>3 DEF PersistInv, PlaceOK
<1>5. FilesOK'
  BY <1>1, <1>2, <1>3 DEF PersistInv, FilesOK
<1> QED
  BY <1>1, <1>3, <1>4, <1>5 DEF PersistInv, InMemory

-----------------------------------------------------------------------------
(* Saves.  A step of one truncates a file or writes it.                    *)
LEMMA SaveStepKeeps == ASSUME PersistInv, saveDatabase PROVE PersistInv'
<1> DEFINE f == Files[progress \div 2 + 1]
           written == IF progress % 2 = 0 THEN Truncated ELSE memory[f]
<1>1. /\ place = "saving" /\ progress \in 0..7
      /\ progress' = progress + 1
      /\ saved' = memory
      /\ UNCHANGED <<place, memory, numTweets, torn>>
  BY DEF saveDatabase, PersistInv, PlaceOK
<1>2. file' = [file EXCEPT ![f] = written]
  BY DEF saveDatabase
<1>3. PlaceOK'
  BY <1>1 DEF PersistInv, PlaceOK
<1>4. ASSUME ~torn PROVE Kept(memory) /\ FilesOK'
  <2>1. Kept(memory) /\ FilesOK
    BY <1>1, <1>4 DEF PersistInv, InMemory
  <2>2. DOMAIN file' = Lists /\ DOMAIN file = Lists
    BY <2>1, <1>2 DEF FilesOK, Lists
  <2>3. CASE progress \in {0, 1}
    <3>1. f = "users" /\ (progress = 1 => written = memory.users)
      BY <2>3 DEF Files
    <3>2. /\ file'.followers = file.followers /\ file'.pending = file.pending
          /\ progress = 1 => file'.users = memory.users
      BY <3>1, <2>2, <1>2 DEF Lists
    <3> QED
      BY <3>2, <2>1, <2>2, <2>3, <1>1 DEF FilesOK, Kept, Lists
  <2>4. CASE progress \in {2, 3}
    <3>1. f = "followers" /\ (progress = 3 => written = memory.followers)
      BY <2>4 DEF Files
    <3>2. /\ file'.users = file.users /\ file'.pending = file.pending
          /\ progress = 3 => file'.followers = memory.followers
      BY <3>1, <2>2, <1>2 DEF Lists
    <3> QED
      BY <3>2, <2>1, <2>2, <2>4, <1>1 DEF FilesOK, Kept, Lists
  <2>5. CASE progress \in {4, 5}
    <3>1. f = "pending" /\ (progress = 5 => written = memory.pending)
      BY <2>5 DEF Files
    <3>2. /\ file'.users = file.users /\ file'.followers = file.followers
          /\ progress = 5 => file'.pending = memory.pending
      BY <3>1, <2>2, <1>2 DEF Lists
    <3> QED
      BY <3>2, <2>1, <2>2, <2>5, <1>1 DEF FilesOK, Kept, Lists
  <2>6. CASE progress \in {6, 7}
    <3>1. f = "received"
      BY <2>6 DEF Files
    <3>2. /\ file'.users = file.users /\ file'.followers = file.followers
          /\ file'.pending = file.pending
      BY <3>1, <2>2, <1>2 DEF Lists
    <3> QED
      BY <3>2, <2>1, <2>2, <2>6, <1>1 DEF FilesOK, Kept, Lists
  <2> QED
    BY <2>3, <2>4, <2>5, <2>6, <1>1
<1> QED
  BY <1>1, <1>3, <1>4 DEF PersistInv, InMemory

LEMMA BoundsOfSave ==
  ASSUME PersistInv, BeginSave \/ EndSave
  PROVE  PersistInv'
<1>1. /\ place \in {"up", "saving"} /\ place' \in {"up", "saving", "ending"}
      /\ UNCHANGED <<memory, numTweets, file, saved, torn>>
      /\ progress' = 0 /\ progress \in {0, 8}
  BY DEF BeginSave, EndSave, PersistInv, PlaceOK
<1>2. PlaceOK'
  BY <1>1 DEF PersistInv, PlaceOK
<1>3. ~torn => FilesOK'
  BY <1>1 DEF PersistInv, FilesOK
<1> QED
  BY <1>1, <1>2, <1>3 DEF PersistInv, InMemory

(* The server ends, or is killed: only the files are left.                 *)
LEMMA EndKeeps == ASSUME PersistInv, EndOfMain \/ Kill PROVE PersistInv'
<1>1. /\ place' = "down" /\ progress' = 0 /\ numTweets' = 0
      /\ UNCHANGED <<file, saved>>
  BY DEF EndOfMain, Kill, Gone
<1>2. ~torn' => ~torn /\ progress \in {0, 8}
  <2>1. progress \in 0..8 /\ (progress > 0 => place = "saving")
    BY DEF PersistInv, PlaceOK
  <2>2. CASE EndOfMain
    BY <2>1, <2>2 DEF EndOfMain
  <2>3. CASE Kill
    <3>1. ~torn' => ~torn /\ ~(progress \in 1..7)
      BY <2>3, Zenon DEF Kill
    <3> QED
      BY <2>1, <3>1
  <2> QED
    BY <2>2, <2>3
<1>3. PlaceOK'
  BY <1>1, PersistenceAssumption DEF PlaceOK
<1>4. ~torn' => FilesOK'
  BY <1>1, <1>2 DEF PersistInv, FilesOK
<1> QED
  BY <1>1, <1>3, <1>4 DEF PersistInv, InMemory

-----------------------------------------------------------------------------
(* What a start reads when no kill has torn the files.                     *)
LEMMA StartReads ==
  ASSUME PersistInv, Start, ~torn, place' = "up"
  PROVE  /\ Kept(memory)'
         /\ memory'.followers = saved.followers
         /\ Lone(saved.pending) => memory'.pending = saved.pending
<1>1. progress = 0 /\ FilesOK
  BY DEF PersistInv, PlaceOK, Start
<1>2. /\ GoodUsers(file.users)
      /\ file.followers \in Followers /\ file.followers = saved.followers
      /\ file.pending \in Pending /\ file.pending = saved.pending
  BY <1>1 DEF FilesOK
<1>3. file.followers # Truncated /\ file.pending # Truncated
  BY <1>2, NotTruncated DEF Followers, Pending
<1>4. PICK followers \in loadListOfFollowers(file.followers),
           pending \in loadListOfPendingTweets(file.pending),
           received \in loadListOfReceivedTweets(file.received),
           users \in loadListOfUsers(file.users) :
        memory' = [users |-> users, followers |-> followers,
                   pending |-> pending, received |-> received]
  BY DEF Start
<1>5. followers = file.followers
  BY <1>3 DEF loadListOfFollowers
<1>6. pending = Misread(file.pending, "tweetID", 0)
  BY <1>3 DEF loadListOfPendingTweets
<1>7. pending \in Pending
  BY <1>2, <1>6, MisreadTweets
<1>8. GoodUsers(users)
  BY <1>2, LoadKeepsUsers
<1>9. Lone(saved.pending) => pending = saved.pending
  BY <1>2, <1>6, LoneTweetIsRead
<1> QED
  BY <1>2, <1>4, <1>5, <1>7, <1>8, <1>9 DEF Kept

LEMMA StartKeeps == ASSUME PersistInv, Start PROVE PersistInv'
<1>1. /\ place = "down" /\ place' \in {"up", "hung"} /\ progress = 0
      /\ UNCHANGED <<progress, numTweets, file, saved, torn>>
  BY DEF Start, PersistInv, PlaceOK
<1>2. PlaceOK'
  BY <1>1 DEF PersistInv, PlaceOK
<1>3. ~torn => FilesOK'
  BY <1>1 DEF PersistInv, FilesOK
<1>4. ~torn /\ NumUsers > 1 => place' # "hung"
  <2> SUFFICES ASSUME ~torn, NumUsers > 1, place' = "hung" PROVE FALSE
    OBVIOUS
  <2>1. GoodUsers(file.users)
    BY <1>1 DEF PersistInv, FilesOK
  <2> QED
    BY <2>1, LoadUsersEnds DEF Start
<1>5. ~torn /\ place' = "up" => Kept(memory)'
  BY StartReads
<1> QED
  BY <1>1, <1>2, <1>3, <1>4, <1>5 DEF PersistInv, InMemory

-----------------------------------------------------------------------------
LEMMA PersistStep == PersistInv /\ [Next]_vars => PersistInv'
<1> SUFFICES ASSUME PersistInv, [Next]_vars PROVE PersistInv'
  OBVIOUS
<1>1. CASE Request
  BY <1>1, RequestKeeps
<1>2. CASE BeginSave \/ EndSave
  BY <1>2, BoundsOfSave
<1>3. CASE saveDatabase
  BY <1>3, SaveStepKeeps
<1>4. CASE EndOfMain \/ Kill
  BY <1>4, EndKeeps
<1>5. CASE Start
  BY <1>5, StartKeeps
<1>6. CASE UNCHANGED vars
  BY <1>6 DEF vars, PersistInv, PlaceOK, FilesOK, InMemory
<1> QED
  BY <1>1, <1>2, <1>3, <1>4, <1>5, <1>6 DEF Next

THEOREM PersistenceInvariant == Spec => []PersistInv
BY PersistInit, PersistStep, PTL DEF Spec

(* Every user keeps her index through any number of starts, each of which  *)
(* reads the list of users that the one before has spoiled                 *)
(* (loadListOfUsers, saveListOfUsers), unless a kill has torn a save.      *)
THEOREM IndicesKept == Spec => []UsersKeepIndex
<1>1. PersistInv => UsersKeepIndex
  BY GoodUsersKeepIndex DEF PersistInv, InMemory, Runs, Kept, UsersKeepIndex
<1> QED
  BY <1>1, PersistenceInvariant, PTL

(* With two users or more the loop of loadListOfUsers ends at every start, *)
(* unless a kill has torn a save.  (An only user has ID 0, and so has the  *)
(* entry that a start invents: a start from what it saved does not end.)   *)
THEOREM StartsEnd == ASSUME NumUsers > 1 PROVE Spec => []LoadEnds
<1>1. PersistInv => LoadEnds
  BY DEF PersistInv, LoadEnds
<1> QED
  BY <1>1, PersistenceInvariant, PTL

(* A start reads the followers of everybody as the last save has written   *)
(* them (saveListOfFollowers, loadListOfFollowers).                        *)
THEOREM FollowersKept == Spec => FollowersSurvive
<1>1. PersistInv /\ [Next]_vars
        => [Starts /\ ~torn => memory'.followers = saved.followers]_vars
  <2> SUFFICES ASSUME PersistInv, Next, Starts, ~torn
               PROVE  memory'.followers = saved.followers
    OBVIOUS
  <2>1. Start
    BY DEF Next, Starts, Request, Follow, Post, Retrieve, BeginSave, saveDatabase, EndSave,
           EndOfMain, Kill, Gone
  <2> QED
    BY <2>1, StartReads DEF Starts
<1> QED
  BY <1>1, PersistenceInvariant, PTL DEF Spec, FollowersSurvive

(* And it reads a pending tweet as it was written, if no other one is      *)
(* pending (saveListOfPendingTweets, loadListOfPendingTweets).             *)
THEOREM LoneTweetKept == Spec => LoneTweetSurvives
<1>1. PersistInv /\ [Next]_vars
        => [Starts /\ ~torn /\ (\A i, j \in UserIds : saved.pending[i] # <<>> /\ saved.pending[j] # <<>> => i = j)
                   /\ (\A i \in UserIds : Len(saved.pending[i]) <= 1) =>
              memory'.pending = saved.pending]_vars
  <2> SUFFICES ASSUME PersistInv, Next, Starts, ~torn, Lone(saved.pending)
               PROVE  memory'.pending = saved.pending
    BY DEF Lone
  <2>1. Start
    BY DEF Next, Starts, Request, Follow, Post, Retrieve, BeginSave, saveDatabase, EndSave,
           EndOfMain, Kill, Gone
  <2> QED
    BY <2>1, StartReads DEF Starts
<1> QED
  BY <1>1, PersistenceInvariant, PTL DEF Spec, LoneTweetSurvives

-----------------------------------------------------------------------------
(***************************************************************************)
(* Types, of torn files too.  Nobody follows a user twice, so that a tweet *)
(* has no more recipients than there are users.                            *)
(***************************************************************************)
Entries == [tweetID : 0..MaxTweets, author : UserIds, remaining : UserIds]
ReceivedLists == [UserIds -> Seq(Entries)]

Databases ==
  [users : Seq(UserEntries), followers : Seq(Seq(UserIds)),
   pending : Seq(Seq(Tweets)), received : Seq(Seq(Entries))]

NoRepeats(followers) ==
  \A i \in DOMAIN followers : \A j, k \in DOMAIN followers[i] :
    followers[i][j] = followers[i][k] => j = k

GoodLists(lists) == lists \in Databases /\ NoRepeats(lists.followers)

PersistTyped == GoodLists(memory) /\ GoodLists(file) /\ GoodLists(saved)

(* The author's entry for a tweet, or none.                                *)
LEMMA EntryFound ==
  ASSUME NEW q \in Seq(Entries), NEW I, I \in SUBSET (1..Len(q)),
         NEW k, k = IF I # {} THEN Min(I) ELSE 0
  PROVE  k = 0 \/ k \in 1..Len(q)
<1>1. CASE I # {}
  <2>1. I \in SUBSET Nat
    OBVIOUS
  <2>2. \E m \in I : \A n \in I : m <= n
    BY <1>1, <2>1, LeastNumber
  <2>3. Min(I) \in I
    BY <2>2 DEF Min
  <2> QED
    BY <1>1, <2>3
<1> QED
  BY <1>1

(* One recipient less for a tweet.                                         *)
LEMMA DeliveredType ==
  ASSUME NEW received \in ReceivedLists, NEW tweet \in Tweets
  PROVE  Delivered(received, tweet) \in ReceivedLists
<1> DEFINE a == tweet.author
           q == received[a]
           I == {i \in 1..Len(q) : q[i].tweetID = tweet.tweetID}
           k == IF I # {} THEN Min(I) ELSE 0
           e == [q[k] EXCEPT !.remaining = @ - 1]
           p == OneLess(q, k)
<1>1. a \in UserIds /\ q \in Seq(Entries)
  BY DEF Tweets, ReceivedLists
<1>2. k = 0 \/ k \in 1..Len(q)
  <2>1. I \in SUBSET (1..Len(q))
    OBVIOUS
  <2> HIDE DEF q, I
  <2> QED
    BY <1>1, <2>1, EntryFound
<1>3. Delivered(received, tweet) = IF k = 0 THEN received ELSE [received EXCEPT ![a] = p]
  BY DEF Delivered, SelectInSeq
<1> HIDE DEF k, q
<1>4. p = IF q[k].remaining = 1 THEN RemoveAt(q, k) ELSE [q EXCEPT ![k] = e]
  BY DEF OneLess
<1>5. ASSUME k \in 1..Len(q)
      PROVE  p \in Seq(Entries)
  <2>1. q[k] \in Entries
    BY <1>1, <1>5, SequenceFacts
  <2>2. CASE q[k].remaining = 1
    <3>1. Removed(q, k, RemoveAt(q, k))
      BY DEF RemoveAt, Removed
    <3>2. RemoveAt(q, k) \in Seq(Entries)
      BY <1>1, <1>5, <3>1, RemoveAtProperties
    <3> QED
      BY <1>4, <2>2, <3>2
  <2>3. CASE q[k].remaining # 1
    <3>1. q[k].remaining \in 1..NumUsers /\ NumUsers \in Nat
      BY <2>1, PersistenceAssumption DEF Entries, UserIds
    <3>2. q[k].remaining - 1 \in UserIds
      BY <2>3, <3>1 DEF UserIds
    <3>3. e \in Entries
      BY <2>1, <3>2 DEF Entries
    <3> HIDE DEF e
    <3>4. [q EXCEPT ![k] = e] \in Seq(Entries)
      BY <1>1, <1>5, <3>3, ExceptSeq
    <3> QED
      BY <1>4, <2>3, <3>4
  <2> QED
    BY <2>2, <2>3
<1> HIDE DEF p
<1> QED
  BY <1>1, <1>2, <1>3, <1>5 DEF ReceivedLists

(* One after the other.                                                    *)
LEMMA DeliveredAllType ==
  ASSUME NEW received \in ReceivedLists, NEW tweets \in Seq(Tweets)
  PROVE  DeliveredAll(received, tweets) \in ReceivedLists
<1> DEFINE n == Len(tweets)
           rule(f, k) == IF k = 0 THEN received ELSE Delivered(f[k - 1], tweets[k])
           after == CHOOSE f : f = [k \in 0..n |-> rule(f, k)]
           step == [r \in ReceivedLists |-> [t \in Tweets |-> Delivered(r, t)]]
<1>1. n \in Nat /\ \A k \in 1..n : tweets[k] \in Tweets
  BY SequenceFacts
<1>2. step \in [ReceivedLists -> [Tweets -> ReceivedLists]]
  BY DeliveredType
<1>3. \A r \in ReceivedLists, t \in Tweets : step[r][t] = Delivered(r, t)
  OBVIOUS
<1> HIDE DEF step
<1>4. PICK f \in [0..n -> ReceivedLists] :
        \A k \in 0..n : f[k] = IF k = 0 THEN received ELSE step[f[k - 1]][tweets[k]]
  <2>1. PICK f \in [0..Len(tweets) -> ReceivedLists] : Iterates(f, tweets, received, step)
    BY <1>2, IterationExists, Zenon
  <2> QED
    BY <2>1 DEF n, Iterates
<1> HIDE DEF n
<1>5. \A k \in 0..n : f[k] = rule(f, k)
  <2> SUFFICES ASSUME NEW k \in 0..n PROVE f[k] = rule(f, k)
    OBVIOUS
  <2>1. CASE k = 0
    BY <1>4, <2>1
  <2>2. CASE k # 0
    <3>1. k \in 1..n /\ k - 1 \in 0..n
      BY <1>1, <2>2
    <3>2. f[k - 1] \in ReceivedLists /\ tweets[k] \in Tweets
      BY <1>1, <1>4, <3>1
    <3> QED
      BY <1>3, <1>4, <2>2, <3>2
  <2> QED
    BY <2>1, <2>2
<1>6. f = [k \in 0..n |-> rule(f, k)]
  BY <1>4, <1>5
<1>7. after = [k \in 0..n |-> rule(after, k)]
  BY <1>6
<1>8. DeliveredAll(received, tweets) = after[n]
  BY DEF DeliveredAll, n
<1> HIDE DEF after
<1>9. after[0] = received
  BY <1>1, <1>7
<1>10. ASSUME NEW k \in 1..n, after[k - 1] \in ReceivedLists
       PROVE  after[k] \in ReceivedLists
  <2>1. after[k] = Delivered(after[k - 1], tweets[k])
    BY <1>1, <1>7
  <2> QED
    BY <1>1, <1>10, <2>1, DeliveredType
<1>11. after[n] \in ReceivedLists
  BY <1>1, <1>9, <1>10, IterationType
<1> QED
  BY <1>8, <1>11

-----------------------------------------------------------------------------
(* What the loaders read has the types of what was written, and of what is *)
(* read of a truncated file.                                               *)
LEMMA MisreadType ==
  ASSUME NEW T, NEW lists \in Seq(Seq(T)), NEW field, NEW value,
         \A t \in T : [t EXCEPT ![field] = value] \in T
  PROVE  Misread(lists, field, value) \in Seq(Seq(T))
<1> DEFINE D == 1..Len(lists)
           First(i) == lists[i] # <<>> /\ \A j \in 1..(i - 1) : lists[j] = <<>>
           f == CHOOSE i \in DOMAIN lists : First(i)
           tweet == lists[f][1]
           n == Len(lists[f])
           other == [tweet EXCEPT ![field] = value]
           rest == [k \in 1..n |-> other]
           kept == [rest EXCEPT ![1] = tweet]
<1>1. DOMAIN lists = D /\ Len(lists) \in Nat /\ \A i \in D : lists[i] \in Seq(T)
  BY SequenceFacts
<1>2. CASE \A i \in DOMAIN lists : lists[i] = <<>>
  BY <1>2 DEF Misread
<1>3. CASE \E i \in DOMAIN lists : lists[i] # <<>>
  <2>1. \E i \in DOMAIN lists : First(i)
    <3> DEFINE S == {i \in D : lists[i] # <<>>}
    <3>1. S \in SUBSET Nat /\ S # {}
      BY <1>1, <1>3
    <3>2. PICK m \in S : \A i \in S : m <= i
      BY <3>1, LeastNumber
    <3>3. m \in D /\ lists[m] # <<>>
      BY <3>2
    <3>4. ASSUME NEW j \in 1..(m - 1) PROVE lists[j] = <<>>
      BY <1>1, <3>2, <3>3
    <3> QED
      BY <1>1, <3>3, <3>4
  <2> HIDE DEF First
  <2>2. f \in DOMAIN lists /\ First(f)
    BY <2>1
  <2> HIDE DEF f
  <2>3. lists[f] \in Seq(T) /\ lists[f] # <<>>
    BY <1>1, <2>2 DEF First
  <2>4. n \in Nat /\ n > 0 /\ tweet \in T
    BY <2>3
  <2>5. other \in T
    BY <2>4
  <2>6. Misread(lists, field, value) =
          [i \in D |-> IF i < f \/ (n = 1 /\ i > f) THEN <<>>
                       ELSE IF i = f THEN kept ELSE rest]
    BY <1>1, <1>3 DEF Misread, f, First
  <2> HIDE DEF n, tweet, other
  <2>7. rest \in Seq(T)
    BY <2>4, <2>5, RepeatedProperties
  <2>8. DOMAIN rest = 1..n /\ 1 \in 1..n
    BY <2>4
  <2>9. kept \in Seq(T) /\ <<>> \in Seq(T)
    <3>1. Len(rest) = n
      BY <2>4, <2>5, RepeatedProperties
    <3> HIDE DEF rest
    <3> QED
      BY <2>4, <2>7, <2>8, <3>1, ExceptSeq, EmptySeq
  <2> HIDE DEF rest, kept
  <2> QED
    BY <1>1, <2>6, <2>7, <2>9, SeqDef
<1> QED
  BY <1>2, <1>3

LEMMA NoListsTyped ==
  ASSUME NEW T, NEW lists \in NoLists
  PROVE  lists \in Seq(Seq(T)) /\ NoRepeats(lists)
<1>1. <<>> \in Seq(T) /\ <<>> \in Seq(Seq(T)) /\ NumUsers \in Nat
  BY PersistenceAssumption, EmptySeq
<1> DEFINE empty == [i \in 1..NumUsers |-> <<>>]
<1>2. empty \in Seq(Seq(T))
  BY <1>1, RepeatedProperties
<1>3. lists = <<>> \/ lists = empty
  BY DEF NoLists, Shipped, UserIds
<1>4. \A i \in DOMAIN lists : lists[i] = <<>>
  <2>1. CASE lists = <<>>
    <3>1. DOMAIN lists = {}
      BY <2>1
    <3> QED
      BY <3>1
  <2>2. CASE lists = empty
    BY <2>2
  <2> QED
    BY <1>3, <2>1, <2>2
<1> HIDE DEF empty
<1>5. NoRepeats(lists)
  <2>1. \A i \in DOMAIN lists : DOMAIN lists[i] = {}
    BY <1>4
  <2> QED
    BY <2>1 DEF NoRepeats
<1> QED
  BY <1>1, <1>2, <1>3, <1>5

LEMMA LoadersTyped ==
  ASSUME GoodLists(file),
         NEW followers \in loadListOfFollowers(file.followers),
         NEW pending \in loadListOfPendingTweets(file.pending),
         NEW received \in loadListOfReceivedTweets(file.received),
         NEW users \in loadListOfUsers(file.users)
  PROVE  GoodLists([users |-> users, followers |-> followers,
                    pending |-> pending, received |-> received])
<1>1. /\ file.users \in Seq(UserEntries) /\ file.followers \in Seq(Seq(UserIds))
      /\ file.pending \in Seq(Seq(Tweets)) /\ file.received \in Seq(Seq(Entries))
      /\ NoRepeats(file.followers)
  BY DEF GoodLists, Databases
<1>2. followers \in Seq(Seq(UserIds)) /\ NoRepeats(followers)
  BY <1>1, NoListsTyped DEF loadListOfFollowers
<1>3. pending \in Seq(Seq(Tweets))
  <2>1. \A t \in Tweets : [t EXCEPT !["tweetID"] = 0] \in Tweets
    BY PersistenceAssumption DEF Tweets
  <2>2. Misread(file.pending, "tweetID", 0) \in Seq(Seq(Tweets))
    BY <1>1, <2>1, MisreadType
  <2> QED
    BY <2>2, NoListsTyped DEF loadListOfPendingTweets
<1>4. received \in Seq(Seq(Entries))
  <2>1. 1 \in UserIds
    BY PersistenceAssumption DEF UserIds
  <2>2. \A t \in Entries : [t EXCEPT !["author"] = 1] \in Entries
    BY <2>1 DEF Entries
  <2>3. Misread(file.received, "author", 1) \in Seq(Seq(Entries))
    BY <1>1, <2>2, MisreadType
  <2> QED
    BY <2>3, NoListsTyped DEF loadListOfReceivedTweets
<1>5. users \in Seq(UserEntries)
  <2> DEFINE q == file.users
  <2>1. /\ AnyID \subseteq 0..NumUsers
        /\ \A name \in {Empty, Dots}, id \in 0..NumUsers : User(name, id) \in UserEntries
    BY PersistenceAssumption DEF AnyID, User, UserEntries, Names
  <2>2. CASE q = Truncated
    <3>1. PICK id \in AnyID : users = <<User(Empty, id)>>
      BY <2>2 DEF loadListOfUsers
    <3> QED
      BY <2>1, <3>1
  <2>3. CASE q # Truncated
    <3>1. q # <<>> /\ q \in Seq(UserEntries)
      BY <1>1, <2>3 DEF Truncated
    <3>2. Last(q) \in UserEntries /\ Front(q) \in Seq(UserEntries)
      <4> HIDE DEF q
      <4> QED
        BY <3>1 DEF Last, Front
    <3>3. Last(q).userID \in 0..NumUsers
      BY <3>2 DEF UserEntries
    <3>4. CASE Last(q).name # Empty
      <4>1. users = Append(q, User(Empty, Last(q).userID))
        BY <2>3, <3>4 DEF loadListOfUsers
      <4>2. User(Empty, Last(q).userID) \in UserEntries
        BY <2>1, <3>3
      <4> QED
        BY <3>1, <4>1, <4>2, AppendProperties
    <3>5. CASE Last(q).name = Empty
      <4> DEFINE before == Front(q)
      <4>1. PICK id \in IF before = <<>> THEN AnyID ELSE {Last(before).userID} :
               users = Append(before, User(Dots, id))
        BY <2>3, <3>5 DEF loadListOfUsers
      <4>2. before \in Seq(UserEntries)
        BY <3>2
      <4> HIDE DEF before
      <4>3. before # <<>> => Last(before).userID \in 0..NumUsers
        <5>1. before # <<>> => Last(before) \in UserEntries
          BY <4>2 DEF Last
        <5> QED
          BY <5>1 DEF UserEntries
      <4>4. id \in 0..NumUsers
        BY <2>1, <4>1, <4>3
      <4>5. User(Dots, id) \in UserEntries
        BY <2>1, <4>4
      <4> QED
        BY <4>1, <4>2, <4>5, AppendProperties
    <3> QED
      BY <3>4, <3>5
  <2> QED
    BY <2>2, <2>3
<1> QED
  BY <1>2, <1>3, <1>4, <1>5 DEF GoodLists, Databases

-----------------------------------------------------------------------------
(* Nobody has more followers than there are users.                         *)
LEMMA FewFollowers ==
  ASSUME NEW q \in Seq(UserIds), \A j, k \in DOMAIN q : q[j] = q[k] => j = k
  PROVE  Len(q) \in 0..NumUsers
BY PersistenceAssumption, LengthWithoutRepeats DEF UserIds

(* One more follower, who was none.                                        *)
LEMMA OneMoreFollower ==
  ASSUME NEW lists \in Seq(Seq(UserIds)), NoRepeats(lists),
         NEW target \in 1..Len(lists), NEW follower \in UserIds,
         ~Contains(lists[target], follower)
  PROVE  LET new == [lists EXCEPT ![target] = Append(@, follower)]
         IN  new \in Seq(Seq(UserIds)) /\ NoRepeats(new)
<1> DEFINE q == lists[target]
           p == Append(q, follower)
           new == [lists EXCEPT ![target] = p]
<1>1. q \in Seq(UserIds) /\ DOMAIN lists = 1..Len(lists)
  BY SequenceFacts
<1>2. /\ Len(q) \in Nat /\ DOMAIN q = 1..Len(q)
      /\ \A j \in 1..Len(q) : q[j] # follower
  <2>1. ~\E j \in 1..Len(q) : q[j] = follower
    BY DEF Contains
  <2> QED
    BY <1>1, <2>1, SequenceFacts
<1>3. \A j, k \in DOMAIN q : q[j] = q[k] => j = k
  BY <1>1 DEF NoRepeats
<1> HIDE DEF q
<1>4. /\ p \in Seq(UserIds) /\ Len(p) = Len(q) + 1
      /\ \A j \in 1..Len(q) : p[j] = q[j]
      /\ p[Len(q) + 1] = follower
  BY <1>1, AppendProperties
<1> HIDE DEF p
<1>5. \A j, k \in DOMAIN p : p[j] = p[k] => j = k
  <2> DEFINE n == Len(q)
  <2>1. DOMAIN p = 1..(n + 1)
    BY <1>4
  <2>2. /\ n \in Nat /\ \A j \in 1..n : p[j] # p[n + 1]
        /\ \A j, k \in 1..n : p[j] = p[k] => j = k
    BY <1>2, <1>3, <1>4
  <2> HIDE DEF n
  <2> SUFFICES ASSUME NEW j \in 1..(n + 1), NEW k \in 1..(n + 1), p[j] = p[k]
               PROVE  j = k
    BY <2>1
  <2>3. (j \in 1..n \/ j = n + 1) /\ (k \in 1..n \/ k = n + 1)
    BY <2>2
  <2> QED
    BY <2>2, <2>3
<1>6. new \in Seq(Seq(UserIds))
  BY <1>4, ExceptSeq
<1>7. NoRepeats(new)
  <2>1. DOMAIN new = DOMAIN lists /\ new[target] = p /\ \A i \in DOMAIN lists : i # target => new[i] = lists[i]
    BY <1>1
  <2> HIDE DEF new
  <2> QED
    BY <1>5, <2>1 DEF NoRepeats
<1> QED
  BY <1>6, <1>7 DEF p, q

LEMMA FollowTyped ==
  ASSUME GoodLists(memory), NEW target \in UserIds, NEW follower \in UserIds,
         Follow(target, follower)
  PROVE  GoodLists(memory')
<1> DEFINE followers == memory.followers
           new == [followers EXCEPT ![target] = Append(@, follower)]
<1>1. /\ followers \in Seq(Seq(UserIds)) /\ NoRepeats(followers)
      /\ Len(followers) = NumUsers /\ ~Contains(followers[target], follower)
  BY DEF GoodLists, Databases, Follow, Whole
<1>2. target \in 1..Len(followers)
  BY <1>1 DEF UserIds
<1>3. memory' = [memory EXCEPT !.followers = new]
  BY DEF Follow
<1>4. new \in Seq(Seq(UserIds)) /\ NoRepeats(new)
  <2> HIDE DEF followers
  <2> QED
    BY <1>1, <1>2, OneMoreFollower
<1> HIDE DEF new
<1> QED
  BY <1>3, <1>4 DEF GoodLists, Databases

(* A posted tweet has as many recipients as its author has followers.      *)
LEMMA PostTyped ==
  ASSUME PlaceOK, GoodLists(memory), NEW author \in UserIds, Post(author)
  PROVE  GoodLists(memory')
<1> DEFINE tweet == [tweetID |-> numTweets, author |-> author]
           followers == memory.followers[author]
           entry == Received(tweet, Len(followers))
           received == [memory.received EXCEPT ![author] = IF followers = <<>> THEN @
                                                           ELSE Append(@, entry)]
           pending == [i \in UserIds |-> IF Contains(followers, i)
                                         THEN Append(memory.pending[i], tweet)
                                         ELSE memory.pending[i]]
<1>1. /\ memory.followers \in Seq(Seq(UserIds)) /\ Len(memory.followers) = NumUsers
      /\ memory.pending \in Seq(Seq(Tweets)) /\ Len(memory.pending) = NumUsers
      /\ memory.received \in Seq(Seq(Entries)) /\ Len(memory.received) = NumUsers
      /\ NoRepeats(memory.followers) /\ NumUsers \in Nat
  BY PersistenceAssumption DEF GoodLists, Databases, Post, Whole
<1>2. tweet \in Tweets
  BY PersistenceAssumption DEF PlaceOK, Post, Tweets
<1>3. memory' = [memory EXCEPT !.received = received, !.pending = pending]
  BY DEF Post
<1>4. /\ followers \in Seq(UserIds) /\ memory.received[author] \in Seq(Entries)
      /\ \A i \in UserIds : memory.pending[i] \in Seq(Tweets)
  BY <1>1, SequenceFacts DEF UserIds
<1>5. Len(followers) \in 0..NumUsers
  <2>1. \A j, k \in DOMAIN followers : followers[j] = followers[k] => j = k
    BY <1>1, SequenceFacts DEF NoRepeats, UserIds
  <2> HIDE DEF followers
  <2> QED
    BY <1>4, <2>1, FewFollowers
<1> HIDE DEF tweet, followers
<1>6. followers # <<>> => entry \in Entries
  <2>1. followers # <<>> => Len(followers) \in UserIds
    BY <1>4, <1>5, EmptySeq DEF UserIds
  <2> QED
    BY <1>2, <2>1 DEF Received, Entries, Tweets
<1> HIDE DEF entry
<1>7. received \in Seq(Seq(Entries))
  <2> DEFINE q == memory.received[author]
             p == IF followers = <<>> THEN q ELSE Append(q, entry)
  <2>1. p \in Seq(Entries)
    BY <1>4, <1>6, AppendProperties
  <2>2. received = [memory.received EXCEPT ![author] = p]
    OBVIOUS
  <2> HIDE DEF p, received
  <2> QED
    BY <1>1, <2>1, <2>2, ExceptSeq DEF UserIds
<1>8. pending \in Seq(Seq(Tweets))
  <2>1. \A i \in UserIds : pending[i] \in Seq(Tweets)
    BY <1>2, <1>4, AppendProperties
  <2>2. pending \in [1..NumUsers -> Seq(Tweets)]
    BY <2>1 DEF UserIds
  <2> HIDE DEF pending
  <2> QED
    BY <1>1, <2>2, SeqDef
<1> HIDE DEF received, pending
<1> QED
  BY <1>3, <1>7, <1>8 DEF GoodLists, Databases

LEMMA RetrieveTyped ==
  ASSUME GoodLists(memory), NEW user \in UserIds, Retrieve(user)
  PROVE  GoodLists(memory')
<1> DEFINE pending == [memory.pending EXCEPT ![user] = <<>>]
           received == DeliveredAll(memory.received, memory.pending[user])
<1>1. /\ memory.pending \in Seq(Seq(Tweets)) /\ Len(memory.pending) = NumUsers
      /\ memory.received \in Seq(Seq(Entries)) /\ Len(memory.received) = NumUsers
      /\ NumUsers \in Nat
  BY PersistenceAssumption DEF GoodLists, Databases, Retrieve, Whole
<1>2. memory' = [memory EXCEPT !.received = received, !.pending = pending]
  BY DEF Retrieve
<1>3. pending \in Seq(Seq(Tweets))
  BY <1>1, EmptySeq, ExceptSeq DEF UserIds
<1>4. received \in Seq(Seq(Entries))
  <2>1. memory.received \in ReceivedLists
    BY <1>1, SequenceFacts DEF ReceivedLists, UserIds
  <2>2. memory.pending[user] \in Seq(Tweets)
    BY <1>1, SequenceFacts DEF UserIds
  <2>3. received \in [1..NumUsers -> Seq(Entries)]
    BY <2>1, <2>2, DeliveredAllType DEF ReceivedLists, UserIds
  <2> HIDE DEF received
  <2> QED
    BY <1>1, <2>3, SeqDef
<1> HIDE DEF received, pending
<1> QED
  BY <1>2, <1>3, <1>4 DEF GoodLists, Databases

-----------------------------------------------------------------------------
LEMMA TypedInit == Init => PersistTyped
<1> SUFFICES ASSUME Init PROVE PersistTyped
  OBVIOUS
<1>1. NumUsers \in Nat /\ NumUsers > 0
  BY PersistenceAssumption
<1> DEFINE users == [i \in UserIds |-> User(i, i - 1)]
           empty == [i \in UserIds |-> <<>>]
<1>2. users \in Seq(UserEntries)
  <2>1. \A i \in UserIds : User(i, i - 1) \in UserEntries
    BY <1>1 DEF User, UserIds, UserEntries, Names
  <2> QED
    BY <1>1, <2>1 DEF UserIds
<1>3. empty \in NoLists
  BY DEF NoLists, Shipped
<1>4. /\ empty \in Seq(Seq(UserIds)) /\ empty \in Seq(Seq(Tweets))
      /\ empty \in Seq(Seq(Entries)) /\ NoRepeats(empty)
  <2> HIDE DEF empty
  <2> QED
    BY <1>3, NoListsTyped
<1>5. Shipped = [users |-> users, followers |-> empty, pending |-> empty, received |-> empty]
  BY DEF Shipped
<1> HIDE DEF users, empty
<1>6. GoodLists(Shipped)
  BY <1>2, <1>4, <1>5 DEF GoodLists, Databases
<1>7. GoodLists(Nothing)
  <2>1. NoRepeats(<<>>)
    BY DEF NoRepeats
  <2> QED
    BY <2>1, EmptySeq DEF Nothing, GoodLists, Databases
<1> QED
  BY <1>6, <1>7 DEF Init, PersistTyped

LEMMA TypedStep == PersistInv /\ PersistTyped /\ [Next]_vars => PersistTyped'
<1> SUFFICES ASSUME PersistInv, PersistTyped, [Next]_vars PROVE PersistTyped'
  OBVIOUS
<1>1. PlaceOK /\ GoodLists(memory) /\ GoodLists(file) /\ GoodLists(saved)
  BY DEF PersistInv, PersistTyped
<1>2. CASE Request
  <2>1. UNCHANGED <<file, saved>>
    BY <1>2 DEF Request
  <2>2. GoodLists(memory')
    BY <1>1, <1>2, FollowTyped, PostTyped, RetrieveTyped DEF Request
  <2> QED
    BY <1>1, <2>1, <2>2 DEF PersistTyped
<1>3. CASE saveDatabase
  <2> DEFINE f == Files[progress \div 2 + 1]
             new == IF progress % 2 = 0 THEN Truncated ELSE memory[f]
  <2>1. UNCHANGED memory /\ saved' = memory /\ file' = [file EXCEPT ![f] = new]
    BY <1>3 DEF saveDatabase
  <2>2. progress \in 0..7
    BY <1>1, <1>3 DEF PlaceOK, saveDatabase
  <2>3. f \in {"users", "followers", "pending", "received"}
    BY <2>2 DEF Files
  <2> HIDE DEF f
  <2>4. NoRepeats(Truncated)
    BY DEF NoRepeats, Truncated
  <2>5. GoodLists(file')
    <3>1. CASE new = Truncated
      BY <1>1, <2>1, <2>3, <2>4, <3>1, EmptySeq DEF GoodLists, Databases, Truncated
    <3>2. CASE new = memory[f]
      BY <1>1, <2>1, <2>3, <3>2 DEF GoodLists, Databases
    <3> QED
      BY <3>1, <3>2
  <2> QED
    BY <1>1, <2>1, <2>5 DEF PersistTyped
<1>4. CASE EndOfMain \/ Kill
  <2>1. memory' = Nothing /\ UNCHANGED <<file, saved>>
    BY <1>4 DEF EndOfMain, Kill, Gone
  <2>2. GoodLists(Nothing)
    <3>1. NoRepeats(<<>>)
      BY DEF NoRepeats
    <3> QED
      BY <3>1, EmptySeq DEF Nothing, GoodLists, Databases
  <2> QED
    BY <1>1, <2>1, <2>2 DEF PersistTyped
<1>5. CASE Start
  <2>1. UNCHANGED <<file, saved>>
    BY <1>5 DEF Start
  <2>2. GoodLists(memory')
    <3>1. UNCHANGED memory
          \/ \E followers \in loadListOfFollowers(file.followers),
                pending \in loadListOfPendingTweets(file.pending),
                received \in loadListOfReceivedTweets(file.received),
                users \in loadListOfUsers(file.users) :
               memory' = [users |-> users, followers |-> followers,
                          pending |-> pending, received |-> received]
      BY <1>5 DEF Start
    <3> QED
      BY <1>1, <3>1, LoadersTyped
  <2> QED
    BY <1>1, <2>1, <2>2 DEF PersistTyped
<1>6. CASE BeginSave \/ EndSave \/ UNCHANGED vars
  BY <1>1, <1>6 DEF BeginSave, EndSave, vars, PersistTyped
<1> QED
  BY <1>2, <1>3, <1>4, <1>5, <1>6 DEF Next

(* The four lists in memory and in the files have their types, whatever a  *)
(* kill leaves of a save and however often it is read: a list of users has *)
(* IDs up to their number only, and a received tweet waits for one user or *)
(* more, and for no more than there are (saveDatabase, loadDatabase,       *)
(* _updateReceivedTweet).                                                  *)
THEOREM PersistenceTypes == Spec => []PersistenceTypeOK
<1>1. PersistInv /\ PersistTyped => PersistenceTypeOK
  <2> SUFFICES ASSUME PersistInv, PersistTyped PROVE PersistenceTypeOK
    OBVIOUS
  <2>1. PlaceOK
    BY DEF PersistInv
  <2>2. \A lists \in {memory, file, saved} : lists \in Databases
    BY DEF PersistTyped, GoodLists
  <2> QED
    BY <2>1, <2>2 DEF PlaceOK, PersistenceTypeOK, Databases, UserEntries, Entries
<1>2. PersistInv /\ PersistTyped /\ [Next]_vars => PersistTyped'
  BY TypedStep
<1> QED
  BY <1>1, <1>2, TypedInit, PersistenceInvariant, PTL DEF Spec

=============================================================================
