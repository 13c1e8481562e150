CONSTANTS
  N = 4
  MAX_WAVE = 2
  MaxRound = 7
  MaxBlocks = 6
  Views <- CommitViews
  Late <- NoVertices
SPECIFICATION MCSpec
INVARIANTS CausallyClosed CommitSafety
PROPERTIES LeaderAgreement CausalDelivery
CHECK_DEADLOCK FALSE
