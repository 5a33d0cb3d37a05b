SPECIFICATION Spec
CONSTANTS
  NumUsers = 2
  MaxStarts = 2
  MaxTweets = 1
PROPERTIES
  RestartKeepsTweets
CHECK_DEADLOCK FALSE
