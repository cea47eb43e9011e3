SPECIFICATION Spec
CONSTANTS
  Jobs <- BrokenHeaderJobs
  MaxSize = 5
  ChunkSizes = {1, 2, 3}
INVARIANTS NoErrorIsSwallowed
CHECK_DEADLOCK FALSE
