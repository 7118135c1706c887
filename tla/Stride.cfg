SPECIFICATION Spec
CONSTANTS
  Nodes = {P, Q, R, S}
  OpenNodes = {P, Q, R}
  Idle = Idle
  NULL = NULL
  BigStride = 3
  Priorities = {2}
  MaxSlice = 1
  MaxTotal = 6
INVARIANTS
  HeapExact
  SpreadBounded
PROPERTIES
  PickMinimumFixed
  Served
