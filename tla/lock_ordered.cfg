\* Three threads that take three resources in order; thread 0 releases at will.
CONSTANTS
  Free = Free
  None = None
  Thread <- Threads
  Resources = 3
  Strays <- OnlyZero
  Ordered = TRUE
  MaxAcquires = 3
SPECIFICATION FairSpec
INVARIANTS TypeOK HeldIsOwned NoLostWakeup NoCircularWait
PROPERTY AcquireReturns
\* The calls are finitely many.
CHECK_DEADLOCK FALSE
