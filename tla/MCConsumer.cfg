SPECIFICATION FairSpec
CONSTANTS
  a = a
  b = b
  Members <- MCMembers
  Positions <- MCPositions
  NoOne = NoOne
  Batch = 2
  MaxReturns = 1
  MaxSlow = 1
INVARIANTS
  OneMemberAtATime
  StopSettles
PROPERTIES
  NothingLost
  OneCallPerDelivery
  EveryMessageAcked
CHECK_DEADLOCK FALSE
