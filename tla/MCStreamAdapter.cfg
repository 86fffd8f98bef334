SPECIFICATION FairSpec
CONSTANTS
  Mark <- AllMarks
  MaxChunks = 3
CHECK_DEADLOCK FALSE
INVARIANTS
  StreamingContract
  AllArrives
  SignedThinking
  FallbackUnseen
PROPERTIES
  HandlerSettles
