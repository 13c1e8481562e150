CONSTANTS
  N = 4
  MAX_WAVE = 4
  MaxRound = 5
  MaxBlocks = 4
  Views <- OddViews
  Late <- NoVertices
SPECIFICATION MCSpec
INVARIANT TotalOrder
CHECK_DEADLOCK FALSE
