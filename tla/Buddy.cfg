CONSTANTS
  DEPTH = 4
  RESERVED = 7
  PHY_START = 16
  VM_START = 40
  ADDR_PAGES = 64
SPECIFICATION Spec
INVARIANTS TypeOK BitmapExact
PROPERTIES ImplementsPageAlloc
