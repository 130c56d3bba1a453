SPECIFICATION FairSpec
CONSTANTS
  u1 = u1
  u2 = u2
  p1 = p1
  p2 = p2
  treasury = treasury
  reserve = reserve
  NoRequest = NoRequest
  Cleaner = Cleaner
  Treasury = treasury
  Reserve = reserve
  Users = {u1}
  Requests = {p1, p2}
  Kinds <- MCAll
  InitialBalance <- MCPoor
  Amounts <- MCAmounts1
  InitialChain = 4
  Mentions = TRUE
  Batching = TRUE
  LateThrow = TRUE
  GasUsed = 14
  GasFee = 1
  WinMultiplier = 2
  MaxRequests = 2
  MaxCrashes = 1
  MaxErrors = 1
CHECK_DEADLOCK FALSE
INVARIANTS NonNegative
PROPERTIES EveryRequestEnds LocksReclaimed
