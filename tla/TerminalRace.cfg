SPECIFICATION Spec
CONSTANTS
  Conn = {c1, c2}
  NoConn = NoConn
  Request = {r1}
  Interactive = FALSE
  Lagging = FALSE
  MayRevoke = FALSE
  MaxDials = 0
  MaxDrops = 0
  MaxCrashes = 0
CHECK_DEADLOCK FALSE
PROPERTIES TerminalIsFinal
