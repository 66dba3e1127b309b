SPECIFICATION Spec
CONSTANTS
  MaxVersion = 2
  MaxReports = 3
  MaxPending = 1
  Accounts = {anna, ben}
  Profiles = {p1, p2}
  Shared = shared
  MaxTokens = 2
  Titles = {"game", "other"}
  MaxDatasets = 2
  NPaths = 3
  Undelivered = {2}
  Scenarios <- MCScenarios
SYMMETRY Symmetric
CHECK_DEADLOCK FALSE
INVARIANTS
  ClientTypeOK
  Unchanged304
  PageFollowsAccount
  ToldOnce
  DeliveredWhole
PROPERTIES
  NoRollback
  ReportsKept
  GoodSessionKept
