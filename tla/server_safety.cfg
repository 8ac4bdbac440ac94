\* Two handlers, handles that are given out again, peers that reset or stall,
\* requests in two parts, statements that fail.
CONSTANTS
  w1 = w1
  w2 = w2
  s1 = s1
  s2 = s2
  s3 = s3
  m1 = m1
  m2 = m2
  Nobody = Nobody
  NoSocket = NoSocket
  NoMsg = NoMsg
  Worker <- TwoWorkers
  Socket <- TwoSockets
  Msg <- TwoMsgs
  Rejected <- NoMsgs
  CloseFrame <- FirstMsg
  Rest <- TwoMsgs
  Faults <- AllFaults
  Resets <- TwoSockets
  Stalls <- TwoSockets
  MaxAccepts = 3
SPECIFICATION Spec
SYMMETRY Symmetry
INVARIANTS TypeOK ListIsExact SocketHasOneOwner BroadcastsInStep DurableWhileClean
\* The connections and messages are finitely many.
CHECK_DEADLOCK FALSE
