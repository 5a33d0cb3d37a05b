SPECIFICATION Spec
CONSTANTS
  a = a
  b = b
  c = c
  s1 = s1
  s2 = s2
  s3 = s3
  NoUser = NoUser
  NoCall = NoCall
  Users <- ThreeUsers
  Sessions <- MCSessions
  Login <- TwinLogin
  Tweets <- ThreeTweets
  InitialFollowers <- AwayFollowers
  Requests <- TwinRequests
  MaxRequests <- TwinMaxRequests
  MaxAccepts = 3
  Leavers <- NoLeavers
  AutoSave = FALSE
INVARIANT NoTweetLost
