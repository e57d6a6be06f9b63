CONSTANTS
  Ping = {c1}
  Store = {c2}
  FindNode = {c3}
  FindValue = {}
  ReqId = {r1, r2}
SPECIFICATION FairSpec
INVARIANTS
  TypeOK
  ResolvedOnce
  NotForgotten
  OwnAnswer
PROPERTIES
  SentIsResolved
  KeepsRequests
CHECK_DEADLOCK FALSE
