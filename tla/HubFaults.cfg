SPECIFICATION FairSpec
CONSTANTS
  Instance = {i1, i2}
  MaxConnections = 1
  Command = {m1}
  MaxFailures = 0
  MaxStops = 1
  MaxCloses = 1
CHECK_DEADLOCK FALSE
PROPERTIES DeadOwnerLapses
