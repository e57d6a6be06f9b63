CONSTANTS
  IdBits = 4
  MaxId = 15
  Capacity = 2
  ReplacementFactor = 1
  Self = 0
  Addr = {2, 3}
  DepthStep = 2
  MaxPings = 1
  Limbs = 1
  Digits = 2
  Base = 4
  Asker = {1, 5, 6}
  Port = {1, 3}
  PortByte = 2
  Target = {9}
  Digest = {15}
  Value = {1, 2}
  MaxStored = 2
SPECIFICATION NodeSpec
INVARIANTS
  AskerGetsTheOthers
  AnswersAreToldApart
  OnlyWholeRequests
  AnswerIsComplete
  OwnBucketIsNearest
PROPERTIES
  KeepsStore
  KeepsPeerSet
CHECK_DEADLOCK FALSE
