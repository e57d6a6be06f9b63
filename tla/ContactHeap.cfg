CONSTANTS
  Member = {1, 2, 3, 4}
  HashValue = {0, 1, 4, 6}
  InitialSize = 1
  GrowFactor = 2
  GrowBase = 1
  Empty = Empty
  Capacity = 2
SPECIFICATION Spec
INVARIANTS
  HeapTypeOK
  ArrayIsSorted
  MarkedIffFound
  IterationIsNearest
