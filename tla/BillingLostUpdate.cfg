SPECIFICATION Spec
CONSTANTS
  a1 = a1
  NoRequest = NoRequest
  NoCost = NoCost
  NoLevel = NoLevel
  Accounts = {a1}
  Requests = {o1}
  Probes = {}
  Inbounds = {}
  Strangers = {}
  Malformed = {}
  CreditCosts = {2}
  PoolSize = 4
  LOW_CREDIT_NOTIFICATION_PERCENTAGES <- TwoLevels
  ENABLE_LOW_CREDIT_NOTIFICATION = FALSE
  ENABLE_LOW_CREDIT_CUTOFF = FALSE
  Balance = 9
  LastTopup = 10
  TopUps = {t1}
  Targets = {}
  Amount = 5
  Faults = FALSE
  MaxCrashes = 0
  AccountOf <- MCAccountOf
  DirectionOf <- MCDirectionOf
  OpeningBalance <- MCOpeningBalance
  OpeningTopup <- MCOpeningTopup
  TopUpAccount <- MCTopUpAccount
  TopUpAmount <- MCTopUpAmount
INVARIANT BooksBalance
