SPECIFICATION Spec
CONSTANTS
  Settings <- MCSettings
  PowersOfTwo = {1, 2, 4, 8, 16, 32, 64, 128, 256}
  Granularity = 4
  AutoChunkSize <- MCAutoChunkSize
  RingBufferSize = 16
  ManyThreadsBufferSize = 8
  ManyThreads = 4
  InMemoryThreshold = 5
INVARIANTS ThreadsWithinChunks BudgetIsKept AutoBuffersOpen
CHECK_DEADLOCK FALSE
