SPECIFICATION Spec
CONSTANTS
  Nodes = {P, Q}
  OpenNodes = {P, Q}
  Idle = Idle
  NULL = NULL
  BigStride = 3
  Priorities = {3}
  MaxSlice = 2
  MaxTotal = 12
PROPERTY
  PickMinimum
