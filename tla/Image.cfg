CONSTANTS
  PGSIZE = 4
  USER_END = 16
  FILE_SIZE = 7
  MAX_STORES = 1
  Images <- MCImages
SPECIFICATION Spec
INVARIANTS TypeOK FilePartLoaded SegmentsFound FaultIsServed
PROPERTIES NothingLost
CHECK_DEADLOCK FALSE
