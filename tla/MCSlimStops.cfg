SPECIFICATION Spec
CONSTANTS
  N = 3
  K = 2
  Size = 2
  Timeouts = FALSE
  TearDowns <- LastTables
  SuiteTearDowns <- LastPage
INVARIANTS
  TypeOK
  SkippedOnlyAfterStop
PROPERTY KeepsThePromise
CHECK_DEADLOCK FALSE
