SPECIFICATION FairSpec
CONSTANTS
  Conn = {c1}
  Scripthash = {s1}
  Headers = Headers
  Main = Main
  None = None
  MaxConnections = 1
  BufSize = 1
  StartTips = {0, 1}
  MaxRequests = 1
  MaxChanges = 2
  MaxFaults = 1
INVARIANTS
  StaleExplained
PROPERTIES
  ClientsCurrent
  CloseEnds
CHECK_DEADLOCK FALSE
