SPECIFICATION Spec
CONSTANTS
  Conn = {c1, c2}
  NoConn = NoConn
  Request = {}
  Interactive = FALSE
  Lagging = FALSE
  MayRevoke = FALSE
  MaxDials = 0
  MaxDrops = 1
  MaxCrashes = 0
CHECK_DEADLOCK FALSE
INVARIANTS OfflineMeansDisconnected
