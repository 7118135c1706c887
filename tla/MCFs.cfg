SPECIFICATION FsSpec
CONSTANTS
  Files = {F, G}
  Fds = {A}
  NONE = NONE
  NBlocks = 4
  NDirect = 1
  NEntries = 2
  BlkSize = 2
  MaxLen = 6
  Procs = {P, Q}
  First = P
  Nodes = {m, n}
  NULL = NULL
  NFds = 2
  NStd = 1
  MaxSize = 1
  MaxLeaks = 1
SYMMETRY Symmetry
INVARIANTS
  FreemapExact
  MapExact
  NeverPanics
  DirtyIfChanged
  NodesExact
  WrittenInTheEnd
PROPERTY
  ContentKept
