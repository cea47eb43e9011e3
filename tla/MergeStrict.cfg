SPECIFICATION Spec
CONSTANTS
  Jobs <- StrictJobs
  MaxSize = 6
  ChunkSizes = {1, 2, 3, 4}
INVARIANTS TypeOK
PROPERTIES ImplementsSequentialParse
CHECK_DEADLOCK FALSE
