SPECIFICATION FairSpec
CONSTANTS
  N = 2
  K = 2
  Size = 2
  Timeouts = TRUE
  TearDowns <- LastTables
  SuiteTearDowns <- LastPage
PROPERTIES
  FixturesInOrder
  SessionEnds
CHECK_DEADLOCK FALSE
