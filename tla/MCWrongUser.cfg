SPECIFICATION Spec
CONSTANTS
  a = a
  b = b
  c = c
  s1 = s1
  s2 = s2
  s3 = s3
  NoUser = NoUser
  NoCall = NoCall
  Users <- MCUsers
  Sessions <- MCSessions
  Login <- ShiftLogin
  Tweets <- MCTweets
  InitialFollowers <- ShiftFollowers
  Requests <- ShiftRequests
  MaxRequests <- ShiftMaxRequests
  MaxAccepts = 4
  Leavers <- ShiftLeavers
  AutoSave = FALSE
INVARIANT OnlyFollowed
