SPECIFICATION FairSpec
CONSTANTS
  N = 2
  Pages <- MCPages
  Async <- FirstAsync
  Stoppers = {s1, s2}
INVARIANTS
  TypeOK
  OneSystemAtATime
  StopSkipsTheRest
  UnstoppedRunReleases
  FinishedGroupIsReported
  StopReachesTheTestSystem
PROPERTIES
  NoLateResults
  RunEnds
  StopFreesTheRun
CHECK_DEADLOCK FALSE
