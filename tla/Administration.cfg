SPECIFICATION AdminSpec
CONSTANTS
  a1 = a1
  a2 = a2
  c1 = c1
  r1 = r1
  t1 = t1
  t2 = t2
  NoKey = NoKey
  Nobody = Nobody
  Conversations = {c1}
  Routers = {r1}
  Tags = {t1, t2}
  Endpoints <- TwoEndpoints
  Accounts = {a1, a2}
  Jobs = {j1, j2, j3}
  OwnerOf <- AllOfFirst
  Operations <- AllOperations
  TableChoices <- SavedTables
  EntryChoices <- TwoEntries
  Faults = TRUE
  MaxStarted = 6
  Nothing = Nothing
  p1 = p1
  p2 = p2
  k1 = k1
  k2 = k2
SYMMETRY Symmetry
INVARIANTS
  AccountsAreConsistent NoTagIsLost  CommandsTakeEffectOnce
  RoutersAreNeverStuck   SettingsSurvive
  MigrationsKeepTheirObjects CachedIsFresh
CHECK_DEADLOCK FALSE
