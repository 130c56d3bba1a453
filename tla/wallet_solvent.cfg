SPECIFICATION Spec
CONSTANTS
  u1 = u1
  u2 = u2
  p1 = p1
  p2 = p2
  treasury = treasury
  reserve = reserve
  NoRequest = NoRequest
  Cleaner = Cleaner
  Treasury = treasury
  Reserve = reserve
  Users = {u1, u2}
  Requests = {p1, p2}
  Kinds <- MCAll
  InitialBalance <- MCFunds
  Amounts <- MCAmounts2
  InitialChain = 9
  Mentions = TRUE
  Batching = FALSE
  LateThrow = FALSE
  GasUsed = 14
  GasFee = 1
  WinMultiplier = 2
  MaxRequests = 3
  MaxCrashes = 1
  MaxErrors = 0
CHECK_DEADLOCK FALSE
SYMMETRY Symmetry
INVARIANTS Solvent
