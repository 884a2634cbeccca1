SPECIFICATION FairSpec
CONSTANTS
  a1 = a1
  NoRequest = NoRequest
  NoCost = NoCost
  NoLevel = NoLevel
  Accounts = {a1}
  Requests = {o1, i1}
  Probes = {p1}
  Inbounds = {i1}
  Strangers = {}
  Malformed = {}
  CreditCosts = {2, NoCost}
  PoolSize = 3
  LOW_CREDIT_NOTIFICATION_PERCENTAGES <- NoLevels
  ENABLE_LOW_CREDIT_NOTIFICATION = TRUE
  ENABLE_LOW_CREDIT_CUTOFF = TRUE
  Balance = 9
  LastTopup = 0
  TopUps = {t2}
  Targets = {t2}
  Amount = 12
  Faults = TRUE
  MaxCrashes = 1
  AccountOf <- MCAccountOf
  DirectionOf <- MCDirectionOf
  OpeningBalance <- MCOpeningBalance
  OpeningTopup <- MCOpeningTopup
  TopUpAccount <- MCTopUpAccount
  TopUpAmount <- MCTopUpAmount
INVARIANTS LedgerBalanced AnswerAgreesWithTable PoolConserved
PROPERTIES ImplementsLedger 
