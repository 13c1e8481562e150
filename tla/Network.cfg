CONSTANTS
  Calls = {1, 2, 3, 4, 5}
  Entries = {localhost}
  Ports = {p8080}
  NoPort = NoPort
  EntryOf <- OneEntry
  PortOf <- OnePort
  Terminated = {1, 2, 3, 4, 5}
  Size = 3
  MaxWire = 5
  MaxAcks = 2
SPECIFICATION FairSpec
INVARIANTS TypeOK WholeMessages
PROPERTIES DispatchedUnlessBroken SendsReturn
CHECK_DEADLOCK FALSE
