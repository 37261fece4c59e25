SPECIFICATION FairSpec
CONSTANTS
  na = na
  nb = nb
  Nodes <- MCNodes
  MinorOf <- MCMinorOf
  Epochs = {1, 2}
  Names = {"prod", "pr-od"}
  PlainNames = {"prod"}
  Unset = "unset"
  Scripts <- MCScripts
  HasCredentials = TRUE
  MaxCalls = 3
INVARIANTS
  RunsInTheSession
  RunsWhereNamed
  ConnectionStaysOrMoves
  NoSocketLeaks
PROPERTIES
  ExecuteReturns
  KeepsItsPromise
CHECK_DEADLOCK FALSE
