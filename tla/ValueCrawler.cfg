CONSTANTS
  Peer = {0, 1, 2, 3}
  Capacity = 2
  Alpha = {1, 2}
  Value = {v, w}
  None = None
  Garbage = Garbage
SPECIFICATION FairSpec
INVARIANT NoneIsThorough
PROPERTIES
  ReturnsFoundValue
  LookupEnds
CHECK_DEADLOCK FALSE
