SPECIFICATION FairSpec
CONSTANTS
  a = a
  b = b
  j = j
  k = k
  Workers <- MCWorkers
  Name <- Siblings
  Names = {"resizer"}
  Jobs <- MCJobs
  NoOne = NoOne
  Batch = 2
  MaxAttempts = 2
  MaxRefusals = 1
INVARIANTS
  DifferentRecords
  StopHandsBack
PROPERTIES
  NothingLost
  StopEnds
  EveryJobEnds
CHECK_DEADLOCK FALSE
