SPECIFICATION Spec
CONSTANTS
  ip = ip
  email = email
  Keys = {ip, email}
  Limit <- Limits
  W = 2
  Requests = {r1, r2, r3}
  Paths <- LoginOrOther
  MaxTime = 4
  MaxFaults = 1
SYMMETRY Symmetry
\* The requests and the clock come to an end.
CHECK_DEADLOCK FALSE
INVARIANT LimitPerWindow
INVARIANT RefusedOnlyWhenFull
