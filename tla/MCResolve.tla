----------------------------- MODULE MCResolve ------------------------------
(* Bounded configurations: each sentinel, each side of each threshold.      *)
EXTENDS Resolve

MCSettings ==
  [size : {0, 1, 5, 6, 13, 40}, input : {"file", "slice", "stream"}, parser : ChunkParsers,
   concurrency : {0, 1, 9}, chunk_size : {0, 1},
   io_buffer_limit : {NoLimit, 0, 1, 4, 11, 35},
   io_backend : IoBackends, buffer_size : {0, 5}, buffer_limit : {NoLimit, 0, 7, 16},
   parallelism : {1, 5}, total_ram : {NoLimit, 6, 50}]

MCAutoChunkSize == [p \in ChunkParsers |-> IF p = "Simd" THEN 6 ELSE 3]

=============================================================================
