\* Two servers of one process, handles that are given out again, stops at any time.
CONSTANTS
  v1 = v1
  v2 = v2
  p1 = p1
  p2 = p2
  h1 = h1
  h2 = h2
  h3 = h3
  Invalid = Invalid
  Server <- TwoServers
  Client <- TwoClients
  Handle <- ThreeHandles
  MaxStops = 2
SPECIFICATION FairSpec
INVARIANTS TypeOK OwnHandles
PROPERTY ClientsAreFinished
\* The clients are finitely many, and a loop that spins on errors changes nothing.
CHECK_DEADLOCK FALSE
