SPECIFICATION Spec
CONSTANTS
  Callers = {c1, c2}
  first = first
  second = second
  Jobs = {first, second}
  Operations = {x, y}
  Results = {r, s}
  MaxVersion = 2
  MaxTransportVersion <- TransportBound
  None = None
SYMMETRY Symmetric
INVARIANTS
  TypeOK
  OneActivation
  AcceptedLineage
PROPERTIES
  ImplementsHandoff
CHECK_DEADLOCK FALSE
VIEW View
