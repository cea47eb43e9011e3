SPECIFICATION Spec
CONSTANTS
  Jobs <- CommentToEofJobs
  MaxSize = 6
  ChunkSizes = {1, 2, 3}
INVARIANTS NothingInvented
CHECK_DEADLOCK FALSE
