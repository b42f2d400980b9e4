SPECIFICATION FairSpec
CONSTANTS
  Job = {j1}
  Call = {c1, c2, c3}
  Script <- TransientThenPass
  Definition = {v1, v2}
  HostSuite = {v1}
  MaxAttempts = 3
  MaxRestarts = 1
  None = None
INVARIANTS
  TypeOK
  OncePerProcess
PROPERTIES
  PassesAreEarned
  ActsOnAttempts
  AcceptedExecutionsFinish
