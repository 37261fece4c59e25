SPECIFICATION FairSpec
CONSTANTS
  a = a
  b = b
  Callers <- TwoCallers
  HasCredentials = TRUE
  Calls = {"send", "OpenSession", "CloseSession"}
  MaxCalls = 4
  MaxLapses = 2
INVARIANTS
  CarriedOutOnce
  GivenBackStaysGivenBack
  RecoversAlone
PROPERTIES
  CallsReturn
CHECK_DEADLOCK FALSE
