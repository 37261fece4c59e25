SPECIFICATION ScriptSpec
CONSTANTS
  Half = 16
  NanosCeiling = 12
  Nesting = 4
  Hour = 6
  Minute = 2
  Milli = 6
  Micro = 2
  YearsBefore = 12
  YearsAfter = 14
  Answers <- MCAnswers
  ScriptAnswers <- MCScriptAnswers
  Plans <- MCPlans
  TableNames <- MCTableNames
INVARIANTS
  AnyBuildIsUnderstood
  CutAnswerIsRefused
  OutcomesStandApart
  TransportsAgree
CHECK_DEADLOCK FALSE
