SPECIFICATION Spec
CONSTANTS
  NumUsers = 2
  MaxStarts = 3
  MaxTweets = 2
INVARIANTS
  PersistenceTypeOK
  UsersKeepIndex
  LoadEnds
PROPERTIES
  FollowersSurvive
  LoneTweetSurvives
CHECK_DEADLOCK FALSE
