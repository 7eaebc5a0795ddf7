CONSTANTS
  t1 = t1
  t2 = t2
  t3 = t3
  None = None
  Threads = {t1, t2, t3}
  Prios = {0, 1}
  Timeouts = {"none", "long"}
SPECIFICATION Spec
CHECK_DEADLOCK FALSE
INVARIANTS Exclusion NoLostWakeup
PROPERTY BlockingServed
