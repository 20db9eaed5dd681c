SPECIFICATION FairSpec
CONSTANTS
  r1 = r1
  r2 = r2
  r3 = r3
  r4 = r4
  Nobody = Nobody
  Requests <- ThreeRequests
  PoolSize = 2
  Threads = 2
  MaxCommits = 2
INVARIANTS TimeoutTakesCrowd OneHandlerAtATime
PROPERTY EveryRequestEnds
CHECK_DEADLOCK FALSE
