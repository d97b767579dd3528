SPECIFICATION Spec
CONSTANTS
  Conn = {c1}
  Scripthash = {s1}
  Headers = Headers
  Main = Main
  None = None
  MaxConnections = 1
  BufSize = 1
  StartTips = {1}
  MaxRequests = 1
  MaxChanges = 2
  MaxFaults = 0
INVARIANT NoPanic
CHECK_DEADLOCK FALSE
