\* Two handlers on one connection: [COMMIT] for a row that is not there.
CONSTANTS
  w1 = w1
  w2 = w2
  s1 = s1
  s2 = s2
  s3 = s3
  m1 = m1
  m2 = m2
  Nobody = Nobody
  NoSocket = NoSocket
  NoMsg = NoMsg
  Worker <- TwoWorkers
  Socket <- TwoSockets
  Msg <- TwoMsgs
  Rejected <- FirstMsg
  CloseFrame <- NoMsgs
  Rest <- NoMsgs
  Faults <- NoFaults
  Resets <- NoSockets
  Stalls <- NoSockets
  MaxAccepts = 2
SPECIFICATION Spec
INVARIANT CommitIsDurable
\* The connections and messages are finitely many.
CHECK_DEADLOCK FALSE
