SPECIFICATION Spec
CONSTANTS
  owner = owner
  admin = admin
  pleb = pleb
  treasury = treasury
  all = all
  Users = {owner, admin, pleb}
  Requests = {p1, p2}
  SystemAccounts = {treasury}
  Treasury = treasury
  ConfigOwners = {owner}
  Everyone = all
  Kinds = {"no_urls"}
  Threshold = 2
  Window = 1
  MuteTime = 1
  JailTime = 2
  AutoTime = 2
  MinutesTyped <- MCDurations
  Rate = 2
  Minimum = 3
  Fines = {1, 2}
  MaxViolations = 2
  Modes <- MCJails
  Rules0 <- MCRules
  Funds <- MCFunds
CHECK_DEADLOCK FALSE
INVARIANTS QuotedBailReleases
