CONSTANTS
  IdBits = 2
  MaxId = 3
  Capacity = 1
  ReplacementFactor = 2
  Self = 0
  Addr = {1}
  DepthStep = 2
  MaxPings = 1
SPECIFICATION FairSpec
PROPERTY ReplacesDeadPeer
CHECK_DEADLOCK FALSE
