SPECIFICATION Spec
CONSTANTS
  N = 4
  TIMES = 2
INVARIANTS
  InsideExact
  ConditionHolds
PROPERTIES
  ImplementsDining
  AllFinish
CHECK_DEADLOCK FALSE
