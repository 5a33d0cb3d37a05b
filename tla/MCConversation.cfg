SPECIFICATION FairSpec
CONSTANTS
  NumServers = 2
  MaxConnections = 2
  MaxUnread = 1
  MaxUnreadBack = 4
  Scenarios <- AllScenarios
INVARIANTS
  RequestStreamIntact
  TweetStreamIntact
  AnswerFirst
  ConnectedMeansSignedIn
PROPERTIES
  RequestIsExecuted
  OutgoingIsSent
  TweetIsShown
  ServerStops
  LossIsNoticed
  SearchEnds
CHECK_DEADLOCK FALSE
