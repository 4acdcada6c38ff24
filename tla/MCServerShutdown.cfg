SPECIFICATION FairSpec
CONSTANTS
  Connections = {c1, k1}
  Closers = {k1}
  Slow = {}
  Core = 2
  MaxThreads = 3
  QueueSize = 1
PROPERTY ShutdownStopsTheServer
CHECK_DEADLOCK FALSE
