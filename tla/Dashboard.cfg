SPECIFICATION FairSpec
CONSTANTS
  d1 = d1
  d2 = d2
  smoke = smoke
  health = health
  Device = {d1, d2}
  Suite = {smoke, health}
  Supports <- MCSupports
  Refresh = {f1, f2}
  MaxSubmissions = 2
INVARIANTS
  TypeOK
  OneSubmissionAtATime
PROPERTIES
  ErrorsStay
  ShownConverges
