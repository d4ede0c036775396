SPECIFICATION FairSpec
CONSTANTS
  c1 = c1
  c2 = c2
  c3 = c3
  p1 = p1
  p2 = p2
  Calls = {c1, c2, c3}
  Pids = {p1, p2}
  PidOf <- MCPidOf
  Keys = {k1, k2}
  MaxVersion = 1
  MaxFaults = 1
  NoCall = NoCall
  NoFile = NoFile
INVARIANTS
  TypeOK
  PublishedIsSynced
PROPERTIES
  ImplementsRegister
  EveryCallReturns
  LockIsFreed
CHECK_DEADLOCK FALSE
