CONSTANTS
  a = a
  b = b
  Client = {a, b}
  NoClient = NoClient
  Prio <- MCPrio
  MaxRequests = 3
  MaxCrashes = 1
  MaxFailures = 1
  MaxDeaths = 1
SPECIFICATION FairSpec
CHECK_DEADLOCK FALSE
INVARIANTS
  BeliefsTrue
PROPERTIES
  DefiniteServed
  DeadReleased
