SPECIFICATION Spec
CONSTANTS
  Callers = {c1, c2}
  MaxFence = 2
  MaxEvents = 5
  None = None
SYMMETRY Symmetric
INVARIANTS
  TypeOK
  CompleteHasEvidence
  SealIsOfThisSession
  BoundOnce
  ProviderAfterBilling
VIEW View
