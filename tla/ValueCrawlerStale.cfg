CONSTANTS
  Peer = {0, 1, 2}
  Capacity = 2
  Alpha = {2}
  Value = {v}
  None = None
  Garbage = Garbage
SPECIFICATION Spec
INVARIANT ReturnsStoredValue
CHECK_DEADLOCK FALSE
