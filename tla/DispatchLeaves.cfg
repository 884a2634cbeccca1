SPECIFICATION FairSystem
CONSTANTS
  a1 = a1
  NoRequest = NoRequest
  NoCost = NoCost
  NoLevel = NoLevel
  Accounts = {a1}
  Messages = {s1, i1, u1}
  Unbillable = {u1}
  InSession = {s1}
  Inbounds = {i1}
  Strangers = {}
  PoolSize = 3
  Balance = 6
  Faults = FALSE
  MaxCrashes = 1
  TopUps = {t1}
  CreditCosts = {2}
  disable_billing = FALSE
  Probes = {}
  Malformed = {}
  LOW_CREDIT_NOTIFICATION_PERCENTAGES <- TwoLevels
  ENABLE_LOW_CREDIT_NOTIFICATION = FALSE
  ENABLE_LOW_CREDIT_CUTOFF = TRUE
  LastTopup = 10
  Targets = {}
  Amount = 10
  Requests <- MCRequests
  AccountOf <- MCAccountOf
  DirectionOf <- MCDirectionOf
  SessionOf <- MCSessionOf
  OpeningBalance <- MCOpeningBalance
  OpeningTopup <- MCOpeningTopup
  TopUpAccount <- MCTopUpAccount
  TopUpAmount <- MCTopUpAmount
PROPERTY EveryMessageLeaves
