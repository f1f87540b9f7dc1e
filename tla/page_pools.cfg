SPECIFICATION Spec
CONSTANTS
  Pages = {p1, p2, p3}
  SmallPages = {q1, q2}
  Cap = 3
  MaxElemCount = 3
  SubPageCount = 2
  BucketSize = 2
  ElemCounts <- MCElemCounts
INVARIANTS
  Consistent
  CarvedInOrder
  NoRoomLost
PROPERTIES
  ReleasesUnused
  ImplementsAllocator
SYMMETRY Symmetry
