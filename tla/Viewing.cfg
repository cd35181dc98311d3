SPECIFICATION Spec
CONSTANTS
  Bytes <- ViewedBytes
  MaxChunks = 5
  Stream = {"stdout"}
  RingChunks = 2
  RingBytes = 4
  BatchLimit = 2
  ReplayLimit = 2
  MaximumOutputBytes = 4
  MaxFaults = 0
  MaxFailures = 1
  MaxViews = 2
CHECK_DEADLOCK FALSE
CONSTRAINT EarlyOrFailed
INVARIANTS ViewerMissesOnlyInFlight
