SPECIFICATION AuthoritySpec
CONSTANTS
  Callers = {c1}
  Attestations = {early, late}
  early = early
  late = late
  Expiry <- ExpiryOf
  CredentialExpiry = 1
  ReceiptExpiry = 2
  OperationIds = {o1, o2}
  MaxTime = 2
  None = None
PROPERTY RevocationIsNotRepeated
CHECK_DEADLOCK FALSE
