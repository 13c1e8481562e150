CONSTANTS
  Senders = {s1, s2}
  Receivers = {r1, r2}
  MaxSends = 2
  NoThread = NoThread
SPECIFICATION FairSpec
INVARIANTS TypeOK LockDiscipline NoLostWakeup
PROPERTIES IsFifoQueue AllReceived
