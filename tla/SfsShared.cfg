SPECIFICATION Spec
CONSTANTS
  Files = {F}
  Fds = {A, B}
  NONE = NONE
  NBlocks = 4
  NDirect = 1
  NEntries = 2
  BlkSize = 2
  MaxLen = 6
INVARIANT
  NeverPanics
