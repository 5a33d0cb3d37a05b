SPECIFICATION FairLocksSpec
CONSTANTS
  q1 = q1
  q2 = q2
  q3 = q3
  c1 = c1
  Queries <- MCQueries
  Followers <- OneFollower
  Outsiders <- MCOutsiders
  Jobs <- MCJobs
  MaxCount = 3
INVARIANTS
  LocksTypeOK
  WritersExclude
  SomeoneGoesOn
  SaveRunsAlone
PROPERTIES
  KeepsGate
  WritersFirst
  PendingWriterGetsIn
  QueryGetsOut
  SaveIsNotStarved
CHECK_DEADLOCK FALSE
