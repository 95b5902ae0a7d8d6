SPECIFICATION PatientSpec
CONSTANTS
  Instances = {i1}
  Capacity = 2
  Rows = {w1}
  Requests = {r1, r2, r3}
  Endpoints = {"read", "write", "delete", "keyed_create", "login", "register", "rotate", "readyz"}
\* The bounded requests come to an end.
CHECK_DEADLOCK FALSE
INVARIANT LockHoldersMove
INVARIANT WaitsAreShort
PROPERTY PlainRequestsAnswered
PROPERTY EveryoneAnswered
