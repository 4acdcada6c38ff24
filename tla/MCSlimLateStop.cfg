SPECIFICATION Spec
CONSTANTS
  N = 2
  K = 2
  Size = 1
  Timeouts = TRUE
  TearDowns <- LastTables
  SuiteTearDowns <- LastPage
INVARIANT SkippedOnlyAfterStop
CHECK_DEADLOCK FALSE
