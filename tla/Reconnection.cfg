SPECIFICATION FairSpec
CONSTANTS
  Conn = {c1, c2}
  NoConn = NoConn
  Request = {r1}
  Interactive = TRUE
  Lagging = FALSE
  MayRevoke = FALSE
  MaxDials = 0
  MaxDrops = 1
  MaxCrashes = 1
CHECK_DEADLOCK FALSE
INVARIANTS QuiescentAgreement
PROPERTIES FinishedIsReported OutcomeStands CancelledEnds CancellationHonoured
CONSTRAINT CancelledOrFailed NothingAfterBoth
