SPECIFICATION Spec
CONSTANTS
  Procs = {P}
  First = P
  Files = {F}
  Nodes = {m}
  NULL = NULL
  NFds = 2
  NStd = 1
  MaxSize = 1
  MaxLeaks = 0
INVARIANT
  ExitCloses
