----------------------------- MODULE MCPipeline -----------------------------
(***************************************************************************)
(* Runs over files of five chunks, each chosen for what its merge has to   *)
(* do; MCMerge takes the merge alone through all small files.              *)
(***************************************************************************)
EXTENDS Pipeline, Integers

Rfc4180 == [delimiter |-> ",", terminator |-> "n", quote |-> "q", escape |-> "q",
            comment |-> "none", has_headers |-> FALSE,
            quote_handling |-> "Strict", field_count |-> 0]
Headed == [Rfc4180 EXCEPT !.has_headers = TRUE]

Job(config, file, chunk_size, bad) ==
  [config |-> config, file |-> file, chunk_size |-> chunk_size, bad |-> bad]
Readable == -1  \* NoOffset of ChunkParser

MCJobs == {
  \* a quoted line break in each of two chunks, and a record over three
  Job(Rfc4180, <<"q", "n", "q", "n", "q", "n", "x", "q", "n">>, 2, Readable),
  \* a chunk that opens behind the first quote of a doubled one
  Job(Rfc4180, <<"x", "n", "q", "q", "q", "n", "q", "n", "x">>, 2, Readable),
  \* a last chunk that no guess is right about
  Job(Rfc4180, <<"x", "n", "x", "n", "x", "n", "q", "x", "n", "q">>, 2, Readable),
  \* a header row, then empty lines up to the last chunk
  Job(Headed, <<"q", "q", "n", "n", "n", "n", "n", "x", "n">>, 2, Readable),
  \* a record the callback rejects
  Job(Rfc4180, <<"x", "n", "n", "!", "n">>, 1, Readable),
  \* a byte that cannot be read
  Job(Rfc4180, <<"x", "n", "q", "n", "q", "n", "x", "n", "x">>, 2, 6)}

=============================================================================
