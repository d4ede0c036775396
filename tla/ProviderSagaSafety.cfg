SPECIFICATION Spec
CONSTANTS
  Operations = {x, y}
  None = None
SYMMETRY Symmetric
INVARIANTS
  TypeOK
  ProjectionIsEarned
PROPERTIES
  ProjectionNeverReverts
