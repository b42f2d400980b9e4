SPECIFICATION Spec
CONSTANTS
  d1 = d1
  d2 = d2
  r1 = r1
  r2 = r2
  Device = {d1}
  Run = {r1, r2}
  Job <- OneDevice
  RunOf <- MCRunOf
  DeviceOf <- MCDeviceOf
  Session = {s1, s2}
  Nobody = Nobody
SYMMETRY SessionSymmetry
PROPERTIES
  ReleaseFollowsHeartbeat
