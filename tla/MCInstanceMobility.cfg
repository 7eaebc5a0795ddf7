CONSTANTS
  a = a
  b = b
  Nodes = {a, b}
  MaxJobs = 3
  MaxFaults = 1
SPECIFICATION Spec
CHECK_DEADLOCK FALSE
INVARIANTS OneGuest  CopyKept Settled
PROPERTY JobsEnd
