SPECIFICATION FairSpec
CONSTANTS
  Endpoint = {e1, e2}
  Request = {q1, q2}
  MaxRows = 2
  None = None
INVARIANTS
  TypeOK
  EndpointIsCurrent
PROPERTIES
  RunningAgentsBeat
  StopEndsTheLoop
