SPECIFICATION FairSpec
CONSTANTS
  Idle = Idle
  InitProc = InitProc
  NoProc = NoProc
  u1 = u1
  u2 = u2
  u3 = u3
  k1 = k1
  Procs <- MCProcs2
  Users <- MCUsers2
  KThreads <- MCNone
  KillTargets <- MCUsers2
  MAX_PROCESS = 4
  TICK_NUM = 1
  STDIN_BUFSIZE = 0
  MaxSleep = 0
PROPERTY
  KillEnds
