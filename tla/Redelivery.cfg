SPECIFICATION Spec
CONSTANTS
  Copy = {c1, c2, c3}
  MaxAttempts = 3
  JobTimeout = 1
  HostJobTimeout = 2
  LeaseGrace = 1
  Backoffs <- DefaultOrLong
  PoolWait = 5
  LimitMargin = 1
  MinHardLimit = 2
  MinVisibility = 12
SYMMETRY CopySymmetry
INVARIANTS
  RedeliveredOnlyWhenOver
  BudgetRespected
PROPERTIES
  OwnersAreIdentified
