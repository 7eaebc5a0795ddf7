CONSTANTS
  Owner = {1, 2, 3}
  Lock <- MCLock
  lockImplications <- MCImplications
  Requests <- MCRequests
  Priority = {1, 2}
  Unions <- MCUnions
  Subsets = {{1}, {2, 3}}
SPECIFICATION Spec
INVARIANTS
  PendingJustified
  NoLostWakeup
  ReloadFaithful
  DeadlockOnlyByUpgrade
PROPERTIES
  ServiceSpec
