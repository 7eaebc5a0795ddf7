SPECIFICATION Spec
CONSTANTS
  a = a  b = b  c = c
  Nodes = {a, b, c}
  Candidates = {a, b, c}
  Offline = {}
  Founder = a
  IgnoreOffline = FALSE
  Unvoted = {c}
  MaxChanges = 1
  MaxFailovers = 2
  MaxFaults = 1
CHECK_DEADLOCK FALSE
INVARIANTS OneLeader 
 
