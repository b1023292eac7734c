CONSTANTS
  NR_TASKS = 2
  DEPTH = 1
SPECIFICATION Spec
INVARIANT KernelTrapsOnKernelStack
CHECK_DEADLOCK FALSE
