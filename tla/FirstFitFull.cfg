SPECIFICATION Spec
CONSTANTS
  N = 4
  AmpleMemory = FALSE
INVARIANT
  HeldOnce
