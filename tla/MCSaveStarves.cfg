SPECIFICATION FairSpec
CONSTANTS
  a = a
  b = b
  c = c
  s1 = s1
  s2 = s2
  s3 = s3
  NoUser = NoUser
  NoCall = NoCall
  Users <- MCUsers
  Sessions <- PairSessions
  Login <- PairLogin
  Tweets <- MCTweets
  InitialFollowers <- AgainFollowers
  Requests <- AgainRequests
  MaxRequests <- AgainMaxRequests
  MaxAccepts = 2
  Leavers <- NoLeavers
  AutoSave = TRUE
PROPERTY SaveFinishes
CHECK_DEADLOCK FALSE
