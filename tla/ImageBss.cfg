CONSTANTS
  PGSIZE = 4
  USER_END = 16
  FILE_SIZE = 7
  MAX_STORES = 0
  Images <- MCImages
SPECIFICATION Spec
INVARIANTS BssZero
CHECK_DEADLOCK FALSE
