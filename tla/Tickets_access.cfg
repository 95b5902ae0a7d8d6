SPECIFICATION Spec
CONSTANTS
  alice = alice
  bob = bob
  root = root
  Users = {alice, bob, root}
  Agents = {bob}
  Admins = {root}
  TicketIds = {t1}
  Contents = {c1, c2}
  None = None
  Unset = Unset
  Ghost = Ghost
  Slots = {s1, s2}
  MaxRequests = 3
SYMMETRY Symmetry
\* The service idles when the bounded clients have sent all their requests.
CHECK_DEADLOCK FALSE
INVARIANT TypeOK
INVARIANT NoLateWork
INVARIANT CreationListedFirst
PROPERTY DeletionIsFinal
PROPERTY AnswersAreTrue
PROPERTY ImplementsLifecycle
