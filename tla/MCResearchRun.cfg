SPECIFICATION FairSpec
CONSTANTS
  u1 = u1
  u2 = u2
  u3 = u3
  c1 = c1
  c2 = c2
  Url <- MCUrl
  Content <- MCContent
  Requests <- MCRequests
  Queries = 2
  MaxIterations = 2
  MaxSources = 2
  MaxLosses = 1
INVARIANTS ResultIsBacked OneOperationPerCheckpoint
PROPERTIES SourcesCounted RunEnds
\* the run returns or raises
CHECK_DEADLOCK FALSE
