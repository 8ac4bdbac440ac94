\* Three workers whose tasks return, two submitting threads.
CONSTANTS
  w1 = w1
  w2 = w2
  w3 = w3
  c1 = c1
  c2 = c2
  t1 = t1
  t2 = t2
  Owner = Owner
  NoTask = NoTask
  Nobody = Nobody
  Client <- Clients
  Task <- Tasks
  Worker <- ThreeWorkers
  MaxSubmits = 3
SPECIFICATION TerminatingSpec
INVARIANTS TypeOK TasksConserved WorkConserving DestructorNeverReturns
PROPERTIES TaskQueueSpec FairTaskQueueSpec
\* The destructor never returns and the program stops for ever.
CHECK_DEADLOCK FALSE
