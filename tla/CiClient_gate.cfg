SPECIFICATION FairSpec
CONSTANTS
  d1 = d1
  d2 = d2
  r1 = r1
  r2 = r2
  Run = {r1, r2}
  Job <- Jobs
  RunOf <- MCRunOf
  DeviceOf <- MCDeviceOf
  None = None
\* The client exits and the bounded laboratory runs out of runs.
CHECK_DEADLOCK FALSE
INVARIANTS
  ExitCodeTellsTheTruth
  OneRunPerBuild
PROPERTIES
  BuildEnds
