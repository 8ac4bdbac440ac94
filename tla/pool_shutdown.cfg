\* The destructor joins its workers while it holds the mutex they need.
CONSTANTS
  w1 = w1
  w2 = w2
  w3 = w3
  c1 = c1
  c2 = c2
  t1 = t1
  t2 = t2
  Owner = Owner
  NoTask = NoTask
  Nobody = Nobody
  Client <- Clients
  Task <- Tasks
  Worker <- TwoWorkers
  MaxSubmits = 2
SPECIFICATION TerminatingSpec
PROPERTY ShutdownReturns
CHECK_DEADLOCK FALSE
