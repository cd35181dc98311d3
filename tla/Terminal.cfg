SPECIFICATION Spec
CONSTANTS
  Socket = {s1, s2}
  Size = {small, large}
  Default = Default
  NoSize = NoSize
  NoSocket = NoSocket
  NoStatus = NoStatus
  MaxMounts = 2
  MaxInputs = 2
  MaxEvents = 2
SYMMETRY TerminalSymmetry
CHECK_DEADLOCK FALSE
INVARIANTS TypeOK InputInOrder NewestHeard OneSocket SizeAgrees
