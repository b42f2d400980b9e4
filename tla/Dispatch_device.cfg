SPECIFICATION Spec
CONSTANTS
  d1 = d1
  d2 = d2
  r1 = r1
  r2 = r2
  Device = {d1}
  Run = {r1, r2}
  Job <- OneDevice
  RunOf <- MCRunOf
  DeviceOf <- MCDeviceOf
  Task = {t1, t2}
  NoTask = NoTask
  NoJob = NoJob
  MaxAttempts = 2
SYMMETRY TaskSymmetry
INVARIANTS
  TypeOK
  OneActiveJobPerDevice
  OnlineDevicesAreFree
  LeaseDiscipline
  RetryBudget
PROPERTIES
  LateOutcomesDiscarded
  ImplementsLab
  ActsOnAttempts
