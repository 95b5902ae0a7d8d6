SPECIFICATION Spec
CONSTANTS
  admin = admin
  Admin = Admin
  agent = agent
  Addresses = {admin, Admin, agent}
  Lower <- CaseFolding
  Clients = {alice, bob}
  Operator = operator
  Settings <- ApartOrShared
  Instances = {i1, i2}
  Slots = {s1, s2}
  MaxRequests = 2
  MaxStarts = 3
SYMMETRY Symmetry
\* The bounded clients and starts come to an end.
CHECK_DEADLOCK FALSE
INVARIANT RegistrationsHold
INVARIANT SeedsHold
PROPERTY DeactivationSurvives
