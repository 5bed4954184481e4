CONSTANTS
  MaxTags = 7
  Files <- MCFiles
  Jobs <- MCJobs
SPECIFICATION FairSpec
INVARIANTS
  EveryEntityOnce
  ArcsFollowTheWays
  TurnsFollowTheRelations
  SpeedsAreUsable
PROPERTIES
  ImportEnds
CHECK_DEADLOCK FALSE
