SPECIFICATION Spec
CONSTANTS
  Idle = Idle
  InitProc = InitProc
  NoProc = NoProc
  u1 = u1
  u2 = u2
  u3 = u3
  k1 = k1
  Procs <- MCProcs2K
  Users <- MCUsers2
  KThreads <- MCKThreads
  KillTargets <- MCUsers2
  MAX_PROCESS = 5
  TICK_NUM = 1
  STDIN_BUFSIZE = 1
  MaxSleep = 2
SYMMETRY SymUsers
INVARIANTS
  TypeOK
  RunPoolExact
  TimerOwner
  NoMissedKey
  NoMissedExit
  ParentLives
  CleanShutdown
PROPERTIES
  OnlyParentReaps
  ImplementsTimers
