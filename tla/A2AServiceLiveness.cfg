SPECIFICATION FairSpec
CONSTANTS
  t1 = t1
  o1 = o1
  o2 = o2
  r1 = r1
  r2 = r2
  c1 = c1
  h1 = h1
  h2 = h2
  h3 = h3
  NULL = NULL
  Task <- OneTask
  Owner <- TwoOwners
  Run <- OneRun
  Commitment <- OneCommitment
  Call <- TwoCalls
  LeaseTicks = 1
  Replicas = 1
  MaxFaults = 1
CHECK_DEADLOCK FALSE
INVARIANT NoLostWakeup
PROPERTIES
  TasksEnd
  HealthReturns
