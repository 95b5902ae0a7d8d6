SPECIFICATION Spec
CONSTANTS
  Users = {alice, bob}
  Keys = {k1}
  None = None
  Slots = {s1, s2, s3}
  MaxRequests = 4
  RedisFails = TRUE
  KeysExpire = TRUE
SYMMETRY Symmetry
\* The service idles when the bounded clients have sent all their requests.
CHECK_DEADLOCK FALSE
INVARIANT TypeOK
INVARIANT AnswersAreOwn
INVARIANT NoCreationAfterAnswer
INVARIANT AnswersSettle
