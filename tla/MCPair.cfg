SPECIFICATION FairSpec
CONSTANTS
  a = a
  b = b
  c = c
  s1 = s1
  s2 = s2
  s3 = s3
  NoUser = NoUser
  NoCall = NoCall
  Users <- MCUsers
  Sessions <- PairSessions
  Login <- PairLogin
  Tweets <- OnceTweets
  InitialFollowers <- PairFollowers
  Requests <- PairRequests
  MaxRequests <- OncePerPair
  MaxAccepts = 3
  Leavers <- PairLeavers
  AutoSave = TRUE
INVARIANTS
  ExactAccounting
  SnapshotHasNoOrphan
PROPERTIES
  EveryTweetIsForwarded
  SaveFinishes
  CSSpec
