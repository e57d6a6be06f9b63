CONSTANTS
  IdBits = 3
  MaxId = 7
  Capacity = 2
  ReplacementFactor = 1
  Self = 2
  Addr = {1}
  DepthStep = 2
  MaxPings = 1
SPECIFICATION Spec
INVARIANTS
  AnswerIsKClosest
CHECK_DEADLOCK FALSE
