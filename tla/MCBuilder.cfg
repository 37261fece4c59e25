SPECIFICATION Spec
CONSTANTS
  v = v
  w = w
  Values <- MCValues
  Tables <- MCTables
  Fields <- MCFields
  Filters <- MCFilters
  Nesting = 2
  Spans <- MCSpans
  Directions = {0, 1, 2}
  MaxCalls = 4
INVARIANTS
  RendersWhatWasAsked
CHECK_DEADLOCK FALSE
