SPECIFICATION Spec
CONSTANTS
  a = a
  b = b
  Callers <- TwoCallers
  HasCredentials = TRUE
  Calls = {"send", "OpenSession"}
  MaxCalls = 4
  MaxLapses = 1
INVARIANTS
  UnauthorizedOnlyIfLapsed
CHECK_DEADLOCK FALSE
