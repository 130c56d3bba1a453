SPECIFICATION Spec
CONSTANTS
  u1 = u1
  u2 = u2
  unclaimed = unclaimed
  t1 = t1
  t2 = t2
  t3 = t3
  Monitor = Monitor
  Users = {u1, u2}
  Unclaimed = unclaimed
  NodeSpelling = asNode
  Spellings = {asNode}
  Chain <- MCChain2
  Height <- MCHeight2
  Memo <- MCMemo2
  Kinds <- MCVerify
  Commands = {p1}
  PageSize = 3
  StartupPage = 3
  Batching = FALSE
  RpcFails = FALSE
  MaxCommands = 1
  MaxCrashes = 1
  MaxErrors = 0
CHECK_DEADLOCK FALSE
INVARIANTS CreditedOnce
