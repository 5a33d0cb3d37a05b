SPECIFICATION Spec
CONSTANTS
  a = a
  b = b
  c = c
  s1 = s1
  s2 = s2
  s3 = s3
  NoUser = NoUser
  NoCall = NoCall
  Users <- OnlyUser
  Sessions <- MCTwinSessions
  Login <- SelfLogin
  Tweets <- OnlyTweets
  InitialFollowers <- NobodyFollows
  Requests <- SelfRequests
  MaxRequests <- SelfMaxRequests
  MaxAccepts = 3
  Leavers <- SelfLeavers
  AutoSave = FALSE
INVARIANTS
  TypeOK
  NoOrphanTweet
  TimelineOrder
VIEW View
