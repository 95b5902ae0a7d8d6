SPECIFICATION Spec
CONSTANTS
  Users = {alice}
  Keys = {k1}
  None = None
  Slots = {s1, s2}
  MaxRequests = 2
  RedisFails = FALSE
  KeysExpire = FALSE
CHECK_DEADLOCK FALSE
INVARIANT NoDuplicates
