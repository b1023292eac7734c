CONSTANTS
  PRIORITY = 3
  TICKS = 1
SPECIFICATION Spec
INVARIANT FirstRunAtEntry
CHECK_DEADLOCK FALSE
