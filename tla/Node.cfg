CONSTANTS
  Connections = {c1, c2, c3}
  Vertices = {v1, v2}
  NoVertex = NoVertex
  MaxLines = 2
  TRANSACTION_COUNT = 3
SPECIFICATION FairSpec
INVARIANTS TypeOK FirstVertexOnly ReceivesOrSends
PROPERTY EndsAfterReceiver
CHECK_DEADLOCK FALSE
