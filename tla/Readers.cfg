SPECIFICATION Spec
CONSTANTS
  Backends = {"RingBuf", "Stream", "InMemory", "Mmap"}
  MaxSize = 4
  InitialCapacity = 1
  Limit = 2
  ReadCap = 2
  MaxPasses = 2
INVARIANTS EveryPassSeesTheFile
PROPERTIES ShortOnlyAtEof EveryFillReturns
CHECK_DEADLOCK FALSE
