SPECIFICATION FairSpec
CONSTANTS
  Connections = {c1, c2, c3}
  Closers = {c2, c3}
  Slow = {c1}
  Core = 1
  MaxThreads = 2
  QueueSize = 1
INVARIANTS
  ServerTypeOK
  NothingIsLost
  StopFindsTheService
PROPERTIES
  ExpeditersFinish
  ParserIsFreed
CHECK_DEADLOCK FALSE
