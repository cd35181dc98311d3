SPECIFICATION Spec
CONSTANTS
  User = {u1, u2}
  Task = {t1, t2}
  MaxSubscriptions = 2
  MaxEndpoints = 2
  MaxMounts = 2
  MaxFaults = 1
SYMMETRY NotificationsSymmetry
CHECK_DEADLOCK FALSE
INVARIANTS TypeOK SettledIsMine SignedOutSilent OnDelivers
