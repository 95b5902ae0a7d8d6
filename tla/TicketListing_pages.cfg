SPECIFICATION Spec
CONSTANTS
  alice = alice
  root = root
  Users = {alice, root}
  Agents = {}
  Admins = {root}
  TicketIds = {1, 2, 3}
  Contents = {c1}
  None = None
  Unset = Unset
  Ghost = Ghost
  Readers = {alice, root}
  Filters <- Lists
  PageSize = 1
  MaxCommits = 3
  MaxReads = 4
\* The bounded writers and reader come to an end.
CHECK_DEADLOCK FALSE
PROPERTY AnswersAreRecent
PROPERTY AnswersAreVisible
PROPERTY PageFitsTotal
INVARIANT WalksMissLittle
