CONSTANTS
  INT_BITS = 8
  LONG_BITS = 12
  BUFFER = 7
  KernelInputs <- MCKernelInputs
  UserInputs <- MCUserInputs
  Texts <- MCTexts
  Ints <- MCInts
  SIZE = 1000
  WARMUP = 344
  ROUND = 656
SPECIFICATION LibrarySpec
INVARIANTS TypeOK PrintsPromise WritesPromise ResultInRange
PROPERTIES Repeats
CHECK_DEADLOCK FALSE
