\* Two threads of the server, another tab, one lost connection, one text.
CONSTANTS
  w1 = w1
  w2 = w2
  None = None
  Tab = Tab
  Worker <- TwoWorkers
  MaxLosses = 1
  MaxTabs = 1
  MaxChats = 1
  Texts = {"plain", "quoted", "history"}
SPECIFICATION FairSpec
INVARIANTS TypeOK NoZombie  SocketIsCurrent CounterIsExact
PROPERTY Reconnects
\* Nobody need chat, and the component may be unmounted.
CHECK_DEADLOCK FALSE
