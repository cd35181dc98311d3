SPECIFICATION Spec
CONSTANTS
  Path = {"link", "home", "new", "other"}
  Canonical <- MCCanonical
  Taken = {"other"}
  Request = {1, 2}
  Body <- MCBody
  NoRequest = NoRequest
  NoPath = NoPath
  MaxFaults = 1
CHECK_DEADLOCK FALSE
INVARIANTS TypeOK EnabledVouched RegistryAgrees
PROPERTIES RequestEnds
