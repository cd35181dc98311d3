SPECIFICATION Spec
CONSTANTS
  Machine = {m1, m2}
  Code = {k1}
  Conn = {c1, c2}
  NoMachine = NoMachine
  NoCode = NoCode
  NoConn = NoConn
  NoFetch = NoFetch
  MaxCrashes = 1
SYMMETRY DevicesSymmetry
CHECK_DEADLOCK FALSE
INVARIANTS TypeOK OneDevicePerCode PurgeUnhindered StaleListHarmless OnlineVouched
PROPERTIES RevocationFinal
