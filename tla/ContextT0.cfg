CONSTANTS
  NR_TASKS = 2
  DEPTH = 1
SPECIFICATION Spec
INVARIANT RegistersRestored
CHECK_DEADLOCK FALSE
