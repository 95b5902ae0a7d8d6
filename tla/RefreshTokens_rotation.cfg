SPECIFICATION Spec
CONSTANTS
  Users = {alice}
  None = None
  Slots = {s1, s2}
  MaxRequests = 3
INVARIANT ExchangedOnce
