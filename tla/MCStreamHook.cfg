SPECIFICATION FairSpec
CONSTANTS
  Marks <- MCMarks
  Requests <- MCRequests
  Messages <- MCMessages
  MaxCuts = 2
  MaxPings = 2
INVARIANTS StreamIntegrity CallsAnswered
PROPERTY HookSettles
\* the hook ends
CHECK_DEADLOCK FALSE
