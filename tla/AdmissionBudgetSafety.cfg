SPECIFICATION Spec
CONSTANTS
  Ids = {r1, r2, r3}
  Limit <- TwoAndOne
  MaxParallelism = 2
  MaxAmount = 3
  Unlimited = Unlimited
  Amounts = {1, 2}
  Usages = {1, 2}
  MaxFence = 2
  MaxPowerLosses = 1
  None = None
SYMMETRY Symmetric
INVARIANTS
  TypeOK
  BudgetHolds
  CancellationIsExact
  SettlementIsOfTerminal
PROPERTIES
  NothingStartsAfterCancellation
