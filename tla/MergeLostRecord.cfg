SPECIFICATION Spec
CONSTANTS
  Jobs <- LostRecordJobs
  MaxSize = 5
  ChunkSizes = {5}
INVARIANTS ChunkingDoesNotChangeTheYield
CHECK_DEADLOCK FALSE
