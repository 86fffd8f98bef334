SPECIFICATION FairSearchSpec
CONSTANTS
  u1 = u1
  u2 = u2
  u3 = u3
  Url <- MCUrl
  Queries = 2
  MaxResults = 2
  MaxSources = 3
INVARIANTS NewUrlsOnly RoundRobin
PROPERTY SearchEnds
\* the search returns
CHECK_DEADLOCK FALSE
