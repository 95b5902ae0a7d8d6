SPECIFICATION FairSpec
CONSTANTS
  alice = alice
  bob = bob
  root = root
  Users = {root}
  Agents = {}
  Admins = {root}
  TicketIds = {t1}
  Contents = {c1}
  None = None
  Unset = Unset
  Ghost = Ghost
  Slots = {s1, s2}
  MaxRequests = 4
\* The service idles when the bounded clients have sent all their requests.
CHECK_DEADLOCK FALSE
INVARIANT AuditChain
INVARIANT WriteIsCurrent
INVARIANT ClosedIffDone
INVARIANT ReadYourWrites
PROPERTY WorkflowRespected
PROPERTY Answered
