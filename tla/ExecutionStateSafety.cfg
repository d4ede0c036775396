SPECIFICATION Spec
CONSTANTS
  Keys = {k1, k2}
  Tokens = {t1, t2, t3}
  Attempts = {a1, a2}
  MaterialStates = {m1, m2}
  ProviderStates = {"PENDING", "OUTCOME_UNKNOWN"}
  Interventions = {o1, o2}
  InteractionClasses = {"OBSERVE_ONLY", "UNCLASSIFIED"}
  MaxVersion = 2
  MaxLease = 2
  None = None
SYMMETRY Symmetric
INVARIANTS
  TypeOK
  FenceOrder
  ReceiptsBindAuthority
  UnknownRequiresReconciliation
  ReturnedReceiptIsRecorded
CHECK_DEADLOCK FALSE
