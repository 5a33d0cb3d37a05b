---------------------------- MODULE MCTweetServer ----------------------------
(* Instances of TweetServer for TLC: author a, followers b and c.           *)
EXTENDS TweetServer, TLC

CONSTANTS a, b, c, s1, s2, s3

MCUsers == {a, b}
MCSessions == {s1, s2, s3}
MCTweets == [userAuthor : MCUsers, tweetID : 0..3]

(* A server that has ended is in one state.                                 *)
View == IF crashed THEN <<>> ELSE vars

(* Two connections of one user, who posts and follows herself.              *)
OnlyUser == {a}
OnlyTweets == [userAuthor : {a}, tweetID : 0..3]
MCTwinSessions == {s1, s2}
SelfLogin == (s1 :> a) @@ (s2 :> a)
NobodyFollows == (a :> <<>>)
SelfRequests == (s1 :> {UPDATE, a}) @@ (s2 :> {UPDATE, a})
SelfMaxRequests == (s1 :> 2) @@ (s2 :> 1)
SelfLeavers == {s1}

NoLeavers == {}

(* One connection of each user; b leaves and comes back, a follows herself. *)
PairFollowers == (a :> <<b, a>>) @@ (b :> <<>>)
PairSessions == {s1, s2}
PairLogin == (s1 :> a) @@ (s2 :> b)
PairRequests == (s1 :> {UPDATE}) @@ (s2 :> {})
OncePerPair == (s1 :> 1) @@ (s2 :> 0)
OnceTweets == [userAuthor : {a}, tweetID : {0}]
PairLeavers == {s2}

(* Two connections of a follower; a second follower who is away.            *)
TwinLogin == (s1 :> a) @@ (s2 :> b) @@ (s3 :> b)
TwinRequests == (s1 :> {UPDATE}) @@ (s2 :> {}) @@ (s3 :> {})
TwinMaxRequests == (s1 :> 1) @@ (s2 :> 0) @@ (s3 :> 0)
ThreeUsers == {a, b, c}
ThreeTweets == [userAuthor : {a}, tweetID : {0}]
AwayFollowers == (a :> <<b, c>>) @@ (b :> <<>>) @@ (c :> <<>>)

(* b, who follows herself, has two connections; a comes and goes.           *)
ShiftLogin == (s1 :> a) @@ (s2 :> b) @@ (s3 :> b)
ShiftFollowers == (a :> <<>>) @@ (b :> <<b>>)
ShiftRequests == (s1 :> {}) @@ (s2 :> {UPDATE}) @@ (s3 :> {})
ShiftMaxRequests == (s1 :> 0) @@ (s2 :> 1) @@ (s3 :> 0)
ShiftLeavers == {s1}

(* b, who follows a, asks for it again.                                     *)
AgainFollowers == (a :> <<b>>) @@ (b :> <<>>)
AgainRequests == (s1 :> {}) @@ (s2 :> {a})
AgainMaxRequests == (s1 :> 0) @@ (s2 :> 1)
==============================================================================
