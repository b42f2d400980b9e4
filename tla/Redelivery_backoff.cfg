SPECIFICATION Spec
CONSTANTS
  Copy = {c1, c2}
  MaxAttempts = 3
  JobTimeout = 1
  HostJobTimeout = 2
  LeaseGrace = 1
  Backoffs <- DefaultOrLong
  PoolWait = 0
  LimitMargin = 1
  MinHardLimit = 2
  MinVisibility = 12
SYMMETRY CopySymmetry
PROPERTIES
  LateResponsesDiscarded
