SPECIFICATION Spec
CONSTANTS
  u1 = u1
  u2 = u2
  p1 = p1
  p2 = p2
  treasury = treasury
  reserve = reserve
  NoRequest = NoRequest
  Cleaner = Cleaner
  Treasury = treasury
  Reserve = reserve
  Users = {u1, u2}
  Requests = {p1, p2}
  Kinds <- MCRoll
  InitialBalance <- MCFunds
  Amounts <- MCAmounts1
  InitialChain = 9
  Mentions = TRUE
  Batching = TRUE
  LateThrow = FALSE
  GasUsed = 14
  GasFee = 1
  WinMultiplier = 2
  MaxRequests = 2
  MaxCrashes = 0
  MaxErrors = 0
CHECK_DEADLOCK FALSE
INVARIANTS DoubleEntry
