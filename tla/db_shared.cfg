\* Three threads on one connection: calls that overlap and calls that do not.
CONSTANTS
  c1 = c1
  c2 = c2
  c3 = c3
  x1 = x1
  x2 = x2
  x3 = x3
  NoTxn = NoTxn
  Txn <- Txns
  Caller <- ThreeCallers
  Script <- SomeRejected
  Faults = {"INSERT", "COMMIT"}
SPECIFICATION Spec
INVARIANTS NoDanglingTransaction CommittedWhileClean
PROPERTY AtomicStoreSpec
\* The calls are finitely many and the owner need not close the connection.
CHECK_DEADLOCK FALSE
