CONSTANTS
  Proc = {wconfd, luxid, job1}
  WConfd = wconfd
  Daemon = {wconfd, luxid}
SPECIFICATION FairSpec
INVARIANTS
  CleanupJustified
  SelfAlive
PROPERTIES
  DeadCleanedUp
