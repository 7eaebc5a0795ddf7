CONSTANTS
  Owner = {1, 2, 3}
  Lock <- MCLock
  lockImplications <- MCImplications
  Requests <- MCRequests
SPECIFICATION Spec
INVARIANTS
  FitTogether
  Exclusion
  BlockedOrdered
