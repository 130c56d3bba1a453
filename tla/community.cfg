SPECIFICATION Spec
CONSTANTS
  u1 = u1
  u2 = u2
  u3 = u3
  m1 = m1
  m2 = m2
  x = x
  y = y
  treasury = treasury
  Treasury = treasury
  NoRequest = NoRequest
  Users = {u1, u2, u3}
  Requests = {p1, p2}
  SystemAccounts <- SystemIds
  Admins = {u1}
  Owners = {u1}
  Elevated = {u1}
  Chats = {chat}
  Messages = {m1, m2}
  MaxDuels = 2
  Wager = 1
  Consequences = {"none", "jail", "no_media"}
  MaxGiveaways = 1
  Totals = {1, 3, 15}
  Slots = {3, 4}
  Printable <- MCPrintable
  Overshoots <- MCOvershoots
  Names = {x, y}
  MaxAccounts = 2
  Modes <- MCModes
  Funds <- MCFunds
SYMMETRY Symmetry
CHECK_DEADLOCK FALSE
INVARIANTS TypeOK PaidOnce NoDuelLockLeft BalancesMatchAudit MenusAgree EscrowFollowsSlots CreatorKeepsAdmin AccessIsToThisAccount
