CONSTANTS
  Caller = {c1, c2}
  Group = {g1, g2}
  MaxSerial = 2
  MaxCalls = 1
  MaxFailures = 1
SPECIFICATION DistSpec
CHECK_DEADLOCK FALSE
INVARIANTS
  Replicated
  NobodyForgotten
PROPERTIES
  NodesMonotone
