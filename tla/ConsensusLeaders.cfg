CONSTANTS
  N = 4
  MAX_WAVE = 2
  MaxRound = 9
  MaxBlocks = 8
  Views <- LeaderViews
  Late <- NoVertices
SPECIFICATION MCSpec
PROPERTY SameLeaders
CHECK_DEADLOCK FALSE
