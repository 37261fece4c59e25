SPECIFICATION Spec
CONSTANTS
  Half = 10
  NanosCeiling = 15
  Nesting = 10
  Samples <- MCSamples
INVARIANTS
  ReadsBack
  NoPrefixIsAValue
  OrderKept
CHECK_DEADLOCK FALSE
