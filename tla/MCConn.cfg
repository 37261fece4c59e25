SPECIFICATION FairSpec
CONSTANTS
  a = a
  b = b
  NoOne = NoOne
  Callers <- MCCallers
  Greetings <- MCGreetings
  Calls <- EveryCall
  HasCredentials = TRUE
  MaxCalls = 2
  MaxFrames = 2
INVARIANTS
  AnswerMatches
  SubscriptionConsumes
  CredentialPresentedOnce
  FeedIsWhole
PROPERTIES
  CallsReturn
  FeedEnds
CHECK_DEADLOCK FALSE
