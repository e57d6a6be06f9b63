CONSTANTS
  Ping = {c1}
  Store = {c2}
  FindNode = {}
  FindValue = {}
  ReqId = {r1, r2}
SPECIFICATION FairSpec
PROPERTY CallerNeverHangs
CHECK_DEADLOCK FALSE
