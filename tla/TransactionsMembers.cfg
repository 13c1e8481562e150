CONSTANTS
  Clients = {x, y}
  BATCH_SIZE = 4
  MaxTransactions = 4
  NumMembers = 2
  Calls <- AllCalls
  Entries <- AllEntries
  Ports = {1, 2}
  NoPort = NoPort
  EntryOf <- EntryOfAll
  PortOf <- MemberOf
  Terminated = {}
  Size = 2
SPECIFICATION Spec
INVARIANT SentToItsMember
CHECK_DEADLOCK FALSE
