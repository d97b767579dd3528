SPECIFICATION Spec
CONSTANTS
  Conn = {c1, c2}
  Scripthash = {s1}
  Headers = Headers
  Main = Main
  None = None
  MaxConnections = 2
  BufSize = 1
  StartTips = {1}
  MaxRequests = 2
  MaxChanges = 1
  MaxFaults = 0
SYMMETRY ConnSymmetry
INVARIANTS
  TypeOK
  SubscriptionsAgree
PROPERTIES
  RegistrySpec
CHECK_DEADLOCK FALSE
