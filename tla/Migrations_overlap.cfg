SPECIFICATION MFairSpec
CONSTANTS
  Runs = {p1, p2}
  MaxRuns = 4
INVARIANT SchemaMatchesRevision
PROPERTY RefusedOnlyByLeftovers
PROPERTY StartFailsOnlyBehind
PROPERTY RunsEnd
