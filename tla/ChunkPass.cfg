SPECIFICATION Spec
CONSTANTS
  Jobs <- MCJobs
  MaxSequence = 2
  ValidateWindow = 0
  MaxSize = 4
INVARIANTS CursorsInOrder UnreadBytesIntact SearchIsExact RefillsAreInvisible FieldsAreText
PROPERTIES EveryPassReturns
CHECK_DEADLOCK FALSE
