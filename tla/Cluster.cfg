CONSTANTS
  N = 2
  MAX_WAVE = 2
  Running = {0, 1}
  BlockingReceive = FALSE
  MaxRound = 3
  MaxBlocks = 2
SPECIFICATION Spec
INVARIANT BlocksOnce
PROPERTIES ImplementsConsensus LostOnlyEarly
CHECK_DEADLOCK FALSE
