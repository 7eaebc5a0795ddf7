CONSTANTS
  Client = {c1, c2}
  MaxVersion = 3
SPECIFICATION WorkerFairSpec
CHECK_DEADLOCK FALSE
INVARIANTS
  Durable
  NoLostTrigger
PROPERTIES
  CallsReturn
