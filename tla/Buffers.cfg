SPECIFICATION Spec
CONSTANTS
  Bytes = {0, 1}
  Zero = 0
  InitialCapacity = 2
  Limit = 4
  WordSize = 8
PROPERTIES LinearIsAQueue MirroredIsAQueue
