SPECIFICATION Spec
CONSTANTS
  Jobs <- MCJobs
  VectorBytes = 2
  EmitBatchFields = 3
  MaxSize = 5
INVARIANTS SearchAgrees LevelsAgree OffsetsInOrder SameAsTheDfa
CHECK_DEADLOCK FALSE
