CONSTANTS
  NR_TASKS = 5
  PRIORITY_MAX = 1
  MAX_TIME = 2
  VALUES = 2
  FILE_WORD = 1
SPECIFICATION USpec
INVARIANTS Processes RightBranch RunsOnGrantedTime
PROPERTIES CountsAlone OneSliceARound NoStarvation
