CONSTANTS
  N = 4
  MAX_WAVE = 4
  Running = {0}
  BlockingReceive = TRUE
  MaxRound = 5
  NumBlocks = 5
SPECIFICATION FairSpec
PROPERTY BlocksReachConsensus
CHECK_DEADLOCK FALSE
