SPECIFICATION Spec
CONSTANTS
  d1 = d1
  d2 = d2
  r1 = r1
  r2 = r2
  Device = {d1, d2}
  Run = {r1, r2}
  Job <- Shared
  RunOf <- MCRunOf
  DeviceOf <- MCDeviceOf
  Session = {s1, s2}
  Nobody = Nobody
SYMMETRY SessionSymmetry
INVARIANTS
  TypeOK
  NoStrandedRun
  ReservationsAreExclusive
  ReportsAreFinal
  DeadlocksNeedTwoScans
PROPERTIES
  CommitsAreAtomic
  ImplementsLab
