CONSTANTS
  IdBits = 3
  MaxId = 7
  Capacity = 1
  ReplacementFactor = 3
  Self = 4
  Addr = {1}
  DepthStep = 1
  MaxPings = 1
SPECIFICATION Spec
INVARIANTS
  TypeOK
  Tiling
  AtHome
  RecordedOnce
  SparesOnlyWhenFull
  SplitIsTheLoop
  ListBounds
PROPERTY KeepsPeerSet
CHECK_DEADLOCK FALSE
