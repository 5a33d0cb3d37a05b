SPECIFICATION Spec
CONSTANTS
  NumServers = 2
  MaxConnections = 2
  MaxUnread = 1
  MaxUnreadBack = 4
  Scenarios <- AllScenarios
INVARIANTS
  ConnectionIsReestablished
CHECK_DEADLOCK FALSE
