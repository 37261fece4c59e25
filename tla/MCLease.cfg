SPECIFICATION LeaseFairSpec
CONSTANTS
  a = a
  b = b
  c = c
  Clients <- MCClients
  Given = {""}
  MaxCalls = 6
INVARIANTS
  ExtendMeansNeverLost
PROPERTIES
  ReleaseFreesOnlyOwn
  ComesFree
CHECK_DEADLOCK FALSE
