CONSTANTS
  NR_TASKS = 3
  NFRAMES = 18
  Indices = {0, 1}
  UserIndices = {0}
  Vmas <- MCVmas
  Values = {0, 1}
  Zero = 0
  File <- MCFile
SPECIFICATION Spec
INVARIANTS TypeOK Isolation TablesNotExposed KernelEverywhere
PROPERTIES ImplementsProcMem
CHECK_DEADLOCK FALSE
