CONSTANTS
  NR_TASKS = 4
  DEPTH = 1
SPECIFICATION Spec
INVARIANTS TypeOK StackDiscipline InterruptsInUserCode KernelRegisters
PROPERTIES ImplementsProcRegs
CHECK_DEADLOCK FALSE
