CONSTANTS
  m = m
  a = a
  b = b
  c = c
  Nodes = {m, a, b, c}
  Master = m
  Founders = {m, a, b}
  Requests <- OneFlag
  PoolSize = 2
  PoolSizes = {1, 3}
  j1 = j1
  j2 = j2
  Jobs = {j1, j2}
  MaxJobs = 3
  MaxFaults = 1
SPECIFICATION Spec
CHECK_DEADLOCK FALSE
SYMMETRY Symmetry
INVARIANTS RightsFollowRole CopiesFollowRole
PROPERTY PoolRestored
