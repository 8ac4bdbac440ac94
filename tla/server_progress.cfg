\* More connections than workers, peers that leave, one that stops reading for a while.
CONSTANTS
  w1 = w1
  w2 = w2
  s1 = s1
  s2 = s2
  s3 = s3
  m1 = m1
  m2 = m2
  Nobody = Nobody
  NoSocket = NoSocket
  NoMsg = NoMsg
  Worker <- TwoWorkers
  Socket <- ThreeSockets
  Msg <- NoMsgs
  Rejected <- NoMsgs
  CloseFrame <- NoMsgs
  Rest <- NoMsgs
  Faults <- NoFaults
  Resets <- NoSockets
  Stalls <- OneSocket
  MaxAccepts = 3
SPECIFICATION PoliteSpec
PROPERTIES DisconnectIsCleanedUp AcceptedIsServed
\* The connections and messages are finitely many.
CHECK_DEADLOCK FALSE
