SPECIFICATION Spec
CONSTANTS
  Marks <- MCMarks
  Plan <- MCPlan
  Tools <- MCTools
  Window <- MCWindow
  Routes <- MCRoutes
  Openings <- MCOpenings
  Replies <- MCReplies
  Overhead = 200
  MinRecent = 2
  MaxImages = 1
  MaxTurns = 4
INVARIANTS RequestWellFormed CompressionKeeps PlanInOrder
PROPERTY PrefixStable
\* the conversation may end
CHECK_DEADLOCK FALSE
