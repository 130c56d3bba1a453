SPECIFICATION FairSpec
CONSTANTS
  u1 = u1
  u2 = u2
  unclaimed = unclaimed
  t1 = t1
  t2 = t2
  t3 = t3
  Monitor = Monitor
  Users = {u1, u2}
  Unclaimed = unclaimed
  NodeSpelling = asNode
  Spellings = {asNode, asTyped}
  Chain <- MCChain
  Height <- MCHeight
  Memo <- MCMemo
  Kinds <- MCAll
  Commands = {p1}
  PageSize = 3
  StartupPage = 3
  Batching = FALSE
  RpcFails = FALSE
  MaxCommands = 1
  MaxCrashes = 2
  MaxErrors = 0
CHECK_DEADLOCK FALSE
PROPERTIES EveryDepositFound
