SPECIFICATION BoundedSpec
CONSTANTS
  a = a
  s1 = s1
  s2 = s2
  s3 = s3
  s4 = s4
  NoUser = NoUser
  NoCall = NoCall
  t = t
  Users <- MCUsers
  Sessions <- MCSessions
  Login <- StrangerLogin
  Tweets <- MCTweets
  MaxArchived = 1
INVARIANTS
  CSTypeOK
  OneEntryPerUser
  CountNeverExceedsLive
PROPERTIES
  NeverLockedOut
