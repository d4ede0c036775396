SPECIFICATION BindingSpec

CONSTANTS
  Nothing = Nothing
  c1 = c1
  c2 = c2
  Contracts = {c1, c2}
  Content <- MCContent
  Options <- MCOptions
  Admitters = {a, b}
  Capabilities = {"CHECKPOINT", "RESTRICTED_EGRESS"}
  Limits <- MCLimits
  MaxRequest = 2
  MaxVersion = 4

INVARIANTS
  BindingTypeOK
  NoMixture
  WithinSemanticCap
  StacksAgree

CHECK_DEADLOCK FALSE
