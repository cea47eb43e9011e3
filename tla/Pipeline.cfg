SPECIFICATION RunSpec
CONSTANTS
  ThreadCount = 3
  ChunkCount = 5
  Jobs <- MCJobs
INVARIANTS TypeOK OneWriterPerSlot EveryChunkParsedAtMerge FirstFailureWins MergeSeesEveryChunk
PROPERTIES RefusalStopsClaims ImplementsParallelParse RunImplementsSequentialParse EveryRunAnswers
