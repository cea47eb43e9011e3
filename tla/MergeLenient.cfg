SPECIFICATION Spec
CONSTANTS
  Jobs <- LenientJobs
  MaxSize = 7
  ChunkSizes = {1, 2, 3}
INVARIANTS NothingInvented FailsAsOnePassDoes WellQuotedIsComplete
CHECK_DEADLOCK FALSE
