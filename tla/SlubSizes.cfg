SPECIFICATION Spec
CONSTANTS
  NPages = 4
  PageBytes = 110
  DescBytes = 20
  SizedNum = 2
  OwnSize = 26
  Sizes = {16, 17, 32}
INVARIANT ObjectsFit
CHECK_DEADLOCK FALSE
