SPECIFICATION AuthoritySpec
CONSTANTS
  Callers = {c1, c2}
  Attestations = {early, late}
  early = early
  late = late
  Expiry <- ExpiryOf
  CredentialExpiry = 1
  ReceiptExpiry = 2
  OperationIds = {o1, o2}
  MaxTime = 2
  None = None
SYMMETRY Symmetric
INVARIANTS AuthorityTypeOK AuthoritySound
PROPERTY AuthorityIsNeverRegained
CHECK_DEADLOCK FALSE
