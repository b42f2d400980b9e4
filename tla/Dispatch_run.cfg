SPECIFICATION Spec
CONSTANTS
  d1 = d1
  d2 = d2
  r1 = r1
  r2 = r2
  Device = {d1, d2}
  Run = {r1}
  Job <- OneRun
  RunOf <- MCRunOf
  DeviceOf <- MCDeviceOf
  Task = {t1, t2}
  NoTask = NoTask
  NoJob = NoJob
  MaxAttempts = 2
SYMMETRY TaskAndDeviceSymmetry
INVARIANTS
  RunStatusAggregates
PROPERTIES
  OnlyLegalTransitions
  ActsOnRows
