SPECIFICATION Spec
CONSTANTS
  Executions = {e1, e2, e3}
  ArtifactIds = {a, b}
  Contents = {x, y}
  None = None
SYMMETRY Symmetric
INVARIANTS
  TypeOK
  ReferencedBytesKept
  DeletionIsEarned
CHECK_DEADLOCK FALSE
