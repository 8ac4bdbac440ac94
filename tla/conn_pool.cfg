\* Three threads, each of which may hold two of four connections.
CONSTANTS
  t1 = t1
  t2 = t2
  t3 = t3
  Thread <- ThreeThreads
  PoolSize = 4
  MaxHeld = 2
  MaxGets = 3
SPECIFICATION FairSpec
INVARIANTS TypeOK OnePlace NoSleeperForgotten SomebodyReturns
PROPERTIES GetReturns ClosedInTheEnd
\* The calls are finitely many, and the pool may be destroyed.
CHECK_DEADLOCK FALSE
