SPECIFICATION Spec
CONSTANTS
  u1 = u1
  u2 = u2
  unclaimed = unclaimed
  t1 = t1
  t2 = t2
  t3 = t3
  Monitor = Monitor
  Users = {u1, u2}
  Unclaimed = unclaimed
  NodeSpelling = asNode
  Spellings = {asNode, asTyped}
  Chain <- MCChain
  Height <- MCHeight
  Memo <- MCMemo
  Kinds <- MCAll
  Commands = {p1, p2}
  PageSize = 3
  StartupPage = 3
  Batching = FALSE
  RpcFails = TRUE
  MaxCommands = 3
  MaxCrashes = 2
  MaxErrors = 2
CHECK_DEADLOCK FALSE
INVARIANTS TypeOK MonitorCreditsOnce DoneMeansCredited ClaimedOnce Settled
