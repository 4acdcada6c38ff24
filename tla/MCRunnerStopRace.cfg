SPECIFICATION Spec
CONSTANTS
  N = 1
  Pages <- MCPages
  Async <- AllSync
  Stoppers = {s1}
INVARIANT StoppedMeansStopped
CHECK_DEADLOCK FALSE
