CONSTANTS
  PGSIZE = 2
  FAN = 8
  PHY_START = 128
  PHY_SIZE = 64
  VM_START = 512
  VM_END = 896
  OPENSBI_SIZE = 4
  BITMAP = 3
  Layouts <- MCLayouts
SPECIFICATION Spec
INVARIANTS TypeOK KeepsRunning Rights Tables FreeIsFree
CHECK_DEADLOCK FALSE
