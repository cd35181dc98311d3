SPECIFICATION Spec
CONSTANTS
  Instance = {i1, i2}
  MaxConnections = 2
  Command = {}
  MaxFailures = 1
  MaxStops = 0
  MaxCloses = 0
SYMMETRY InstanceSymmetry
CHECK_DEADLOCK FALSE
INVARIANTS TypeOK NeverToReplaced RefusalHonest RoutableUnlessStruck
PROPERTIES DeliveryHonest
