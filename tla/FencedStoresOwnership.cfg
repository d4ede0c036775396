SPECIFICATION Spec
CONSTANTS
  Clients = {c1, c2}
  Operations = {x, y}
  MaxFence = 1
  MaxVersion <- VersionBound
  NoClient = NoClient
  NoOperation = NoOperation
  NoRequest = NoRequest
SYMMETRY Symmetric
PROPERTIES
  ClaimIsFenced
CHECK_DEADLOCK FALSE
