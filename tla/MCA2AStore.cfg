SPECIFICATION Spec
CONSTANTS
  t1 = t1
  o1 = o1
  o2 = o2
  r1 = r1
  r2 = r2
  c1 = c1
  c2 = c2
  s1 = s1
  s2 = s2
  s3 = s3
  NULL = NULL
  Task <- MCTask
  Owner <- MCOwner
  Run <- MCRun
  Commitment <- MCCommitment
  Session <- MCSession
  LeaseSeconds = 2
  MaxClock = 5
SYMMETRY MCSymmetry
INVARIANTS
  OneRunPerTask
PROPERTIES
  FailsClosed
  WritesAreKept
  ImplementsLifecycle
