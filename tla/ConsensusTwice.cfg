CONSTANTS
  N = 2
  MAX_WAVE = 2
  MaxRound = 5
  MaxBlocks = 4
  Views <- AllViews
  Late <- NoVertices
SPECIFICATION Spec
INVARIANT DeliverOnce
CHECK_DEADLOCK FALSE
