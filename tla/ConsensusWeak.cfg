CONSTANTS
  N = 4
  MAX_WAVE = 4
  MaxRound = 6
  MaxBlocks = 5
  Views <- SlowViews
  Late <- SlowVertices
SPECIFICATION MCSpec
INVARIANTS TypeOK NoEquivocation QuorumParents WeakEdgesNeeded
PROPERTY WeakEdgesCover
CHECK_DEADLOCK FALSE
