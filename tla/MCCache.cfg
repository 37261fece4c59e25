SPECIFICATION Spec
CONSTANTS
  a = a
  b = b
  d = d
  Callers <- MCCallers
  Made <- MCMade
  MaxValue = 2
  MaxWrites = 2
  MaxLapses = 1
INVARIANTS
  AnswersAgree
  AnswerWasThere
PROPERTIES
  OnlyFillsGaps
CHECK_DEADLOCK FALSE
