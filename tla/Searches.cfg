SPECIFICATION Spec
CONSTANTS
  Conversations = {c1}
  Routers = {r1, r2}
  Tags = {t1}
  Endpoints = {"default"}
  NoKey = NoKey
INVARIANTS SearchIsExact
PROPERTIES SearchEnds
CHECK_DEADLOCK FALSE
