SPECIFICATION Spec
CONSTANTS
  c1 = c1
  c2 = c2
  r1 = r1
  r2 = r2
  t1 = t1
  t2 = t2
  NoKey = NoKey
  Nothing = Nothing
  Conversations = {c1, c2}
  Routers = {r1, r2}
  Tags = {t1, t2}
  Endpoints <- TwoEndpoints
  Exchanges = {x1}
  TableChoices <- AllTables
  ReplyTags = {t1}
  MaxHops = 7
  MaxChanges = 2
INVARIANTS EventsRetrace  BilledOnTheWay OptOutsStayOut SendersPayForThemselves
CHECK_DEADLOCK FALSE
