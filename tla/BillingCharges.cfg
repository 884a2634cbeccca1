SPECIFICATION Spec
CONSTANTS
  a1 = a1
  NoRequest = NoRequest
  NoCost = NoCost
  NoLevel = NoLevel
  Accounts = {a1}
  Requests = {o1, o2, o3, o4, x1, m1}
  Probes = {}
  Inbounds = {}
  Strangers = {x1}
  Malformed = {m1}
  CreditCosts = {2, 3}
  PoolSize = 3
  LOW_CREDIT_NOTIFICATION_PERCENTAGES <- TwoLevels
  ENABLE_LOW_CREDIT_NOTIFICATION = TRUE
  ENABLE_LOW_CREDIT_CUTOFF = TRUE
  Balance = 10
  LastTopup = 10
  TopUps = {}
  Targets = {}
  Amount = 0
  Faults = FALSE
  MaxCrashes = 0
  AccountOf <- MCAccountOf
  DirectionOf <- MCDirectionOf
  OpeningBalance <- MCOpeningBalance
  OpeningTopup <- MCOpeningTopup
  TopUpAccount <- MCTopUpAccount
  TopUpAmount <- MCTopUpAmount
SYMMETRY Alike
CHECK_DEADLOCK FALSE
INVARIANTS StuckOnlyOnCostQueries NotificationsFollowBalance OverrunBounded
