SPECIFICATION SystemSpec
CONSTANTS
  a1 = a1
  NoRequest = NoRequest
  NoCost = NoCost
  NoLevel = NoLevel
  Accounts = {a1}
  Messages = {o1, i1}
  Unbillable = {}
  InSession = {}
  Inbounds = {i1}
  Strangers = {}
  PoolSize = 5
  Balance = 6
  Faults = TRUE
  MaxCrashes = 1
  TopUps = {}
  CreditCosts = {2}
  disable_billing = FALSE
  Probes = {}
  Malformed = {}
  LOW_CREDIT_NOTIFICATION_PERCENTAGES <- TwoLevels
  ENABLE_LOW_CREDIT_NOTIFICATION = FALSE
  ENABLE_LOW_CREDIT_CUTOFF = TRUE
  LastTopup = 10
  Targets = {}
  Amount = 10
  Requests <- MCRequests
  AccountOf <- MCAccountOf
  DirectionOf <- MCDirectionOf
  SessionOf <- MCSessionOf
  OpeningBalance <- MCOpeningBalance
  OpeningTopup <- MCOpeningTopup
  TopUpAccount <- MCTopUpAccount
  TopUpAmount <- MCTopUpAmount
INVARIANTS PaidIsCharged BilledOnceUnlessUnheard StoppedOnlyUnderLimit
