SPECIFICATION PartsSpec
CONSTANTS
  MAX_PID = 7
  MAX_PROCESS = 6
  FitPages = 5
  KinProcs = 5
  UserSize = 4
  PageBytes = 2
  MaxString = 5
  IoBuf = 2
  FileLen = 3
  Lengths = {1, 3, 5}
  Sleepers = {w1, w2, w3, w4}
  MaxSleep = 3
  ElfPage = 4
  Long = 4
  IntBytes = 2
  MaxVa = 5
  MaxSize = 11
  ArgLengths = {0, 3, 5}
  Virt = 4
  Phys = 2
  Values = {0, 1}
  SpaceProcs = {p1, p2}
  SpaceFrames = 18
  SpacePages = 8
  Span = 2
  Programs <- SmallPrograms
  StackPages = 2
  StackThere = 1
  MaxLost = 3
INVARIANTS
  FreshPid
  KinExact
  RunsExact
  BuddyExact
  HeapsExact
  LookupsExact
  FramesExact
  LoadExact
  ImageExact
  NamesExact
  TransfersExact
PROPERTIES
  GetPidReturns
  ImplementsTimers
  ImplementsMemory
CHECK_DEADLOCK FALSE
