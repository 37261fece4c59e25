SPECIFICATION Spec
CONSTANTS
  a = a
  b = b
  NoOne = NoOne
  Callers <- MCCallers
  Greetings <- OneGreeting
  Calls <- AskCalls
  HasCredentials = TRUE
  MaxCalls = 2
  MaxFrames = 1
INVARIANT
  FirstStatementIsSigned
CHECK_DEADLOCK FALSE
