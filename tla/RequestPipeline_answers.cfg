SPECIFICATION Spec
CONSTANTS
  Requests = {r1, r2}
  ClientIds = {id1}
  Kinds = {"ok", "unready", "http_error", "invalid", "no_route", "wrong_method", "crash", "scrape", "preflight"}
  CorsOn = TRUE
  None = None
SYMMETRY Symmetry
\* The bounded requests come to an end.
CHECK_DEADLOCK FALSE
INVARIANT CountedBeforeAnswered
INVARIANT AnswersAreTraceable
