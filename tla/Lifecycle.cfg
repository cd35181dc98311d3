SPECIFICATION Spec
CONSTANTS
  Conn = {c1, c2}
  NoConn = NoConn
  Request = {r1}
  Interactive = FALSE
  Lagging = TRUE
  MayRevoke = TRUE
  MaxDials = 2
  MaxDrops = 1
  MaxCrashes = 0
CHECK_DEADLOCK FALSE
SYMMETRY ConnSymmetry
INVARIANTS TypeOK HonestOutcome CancelReachesProcess RevokedNeverServed OfflineVouched
CONSTRAINT RevokedOrDropped
