SPECIFICATION Spec
CONSTANTS
  Bytes <- MCBytes
  MaxChunks = 3
  Stream = {"stdout", "stderr"}
  RingChunks = 2
  RingBytes = 4
  BatchLimit = 2
  ReplayLimit = 10
  MaximumOutputBytes = 4
  MaxFaults = 1
  MaxFailures = 1
  MaxViews = 0
CHECK_DEADLOCK FALSE
INVARIANTS TypeOK RetentionExact BufferBackstops ReportedFlushed
