---------------------------- MODULE Speculation -----------------------------
(***************************************************************************)
(* What one worker makes of one chunk (src/scheduler/mod.rs,               *)
(* process_chunk and try_assumptions), and the single pass of the          *)
(* streaming entry point that it has to agree with (run_stream_inner).     *)
(*                                                                         *)
(* A job is [config, file, chunk_size, bad]: a dialect, a sequence of      *)
(* bytes, the resolved chunk size and the offset of the one byte that the  *)
(* file cannot be read at, if any.  A chunk's output is a function of the  *)
(* job and of its index: every pass starts from a fresh accumulator and a  *)
(* reader reset to the chunk's start.                                      *)
(***************************************************************************)
EXTENDS ChunkParser, SequencesExt

FileSize(job) == Len(job.file)
CountOfChunks(job) == (FileSize(job) + job.chunk_size - 1) \div job.chunk_size
Chunks(job) == 0..(CountOfChunks(job) - 1)

(* IoContext::chunk_reader over [from, to).                                *)
ChunkReader(job, from, to) ==
  [bytes |-> SubSeq(job.file, from + 1, FileSize(job)),
   limit |-> to - from,
   bad   |-> IF job.bad < from THEN NoOffset ELSE job.bad - from]

(* The first chunk's state is known; the others have to be searched.       *)
FindMode(job, idx) ==
  IF idx # 0 THEN "Strict"
  ELSE IF job.config.has_headers THEN "SkipHeaders" ELSE "No"

ChunkOutput(passes, record_end) == [passes |-> passes, record_end |-> record_end]
Empty == ChunkOutput(<<>>, NoOffset)

(***************************************************************************)
(* try_assumptions: in priority order, up to the first pass that succeeds. *)
(* A pass that found a boundary and then failed is kept: it may turn out   *)
(* to be the right one.  Only a success sets the chunk's record_end.       *)
(***************************************************************************)
(* Two variants: a clean scan ends the search, and a failed pass is thrown *)
(* away although it found a boundary.                                      *)
CleanScanWins(pr) == pr.error = NoError
OnlySuccessCounts(pr) == pr.record_start # NoOffset /\ pr.error = NoError

Succeeded(pr) == pr.record_start # NoOffset /\ pr.error = NoError
CleanScan(pr) == pr.record_start = NoOffset /\ pr.error = NoError
HasBoundary(pr) == pr.record_start # NoOffset

ResolvedPass(pr, chunk_start) ==
  [record_start |-> Shift(pr.record_start, chunk_start),
   records |-> [k \in DOMAIN pr.records |->
                  [pr.records[k] EXCEPT !.at = @ + chunk_start]],
   error |-> WithBase(pr.error, chunk_start)]

EachAssumption(job, reader, find) ==
  LET assumptions == AssumptionsForConfig(job.config)
  IN  [k \in DOMAIN assumptions |-> Parse(job.config, reader, assumptions[k], find)]

UpToSuccess(results) ==
  LET winners == {k \in DOMAIN results : Succeeded(results[k])}
  IN  IF winners = {} THEN results ELSE SubSeq(results, 1, Min(winners))

(* The passes that are kept, in the order they were tried.                 *)
Kept(tried) ==
  LET kept[k \in 0..Len(tried)] ==
        IF k = 0 THEN <<>>
        ELSE IF HasBoundary(tried[k]) THEN Append(kept[k - 1], tried[k])
        ELSE kept[k - 1]
  IN  kept[Len(tried)]

TryOutcome(chunk_start, tried) ==
  LET kept == Kept(tried)
  IN  [outcome |-> IF kept # <<>> THEN "Resolved"
                   ELSE IF \E k \in DOMAIN tried : CleanScan(tried[k])
                   THEN "CleanNoBoundary" ELSE "AllFailed",
       output  |-> ChunkOutput([k \in DOMAIN kept |-> ResolvedPass(kept[k], chunk_start)],
                               IF Succeeded(Last(tried))
                               THEN Shift(Last(tried).record_end, chunk_start)
                               ELSE NoOffset)]

TryAssumptions(job, chunk_start, chunk_end, find) ==
  The({TryOutcome(chunk_start, UpToSuccess(results)) :
         results \in {EachAssumption(job, ChunkReader(job, chunk_start, chunk_end), find)}})

(***************************************************************************)
(* process_chunk: strict first; lenient only when strict rejected every    *)
(* assumption.  An output without passes is what merge skips.              *)
(***************************************************************************)
TryChunk(job, idx, find) ==
  LET chunk_start == idx * job.chunk_size
  IN  TryAssumptions(job, chunk_start,
                     Min({chunk_start + job.chunk_size, FileSize(job)}), find)

RetryIfAllFailed(job, idx, first) ==
  IF first.outcome = "AllFailed" /\ FindMode(job, idx) = "Strict"
  THEN TryChunk(job, idx, "Lenient").output ELSE first.output

ProcessChunk(job, idx) ==
  RetryIfAllFailed(job, idx, TryChunk(job, idx, FindMode(job, idx)))

(***************************************************************************)
(* reparse_chunk: one pass from a boundary that is known to be right.      *)
(***************************************************************************)
Reparsed(pr, record_start) ==
  [pass |-> ResolvedPass(pr, record_start), record_end |-> pr.record_end]

ReparseChunk(job, record_start, chunk_end) ==
  LET reader == ChunkReader(job, record_start, Min({chunk_end, FileSize(job)}))
  IN  Reparsed(Parse(job.config, reader, "OutOfQuotes", "No"), record_start)

(***************************************************************************)
(* run_stream_inner: the whole input as one chunk that never ends.         *)
(***************************************************************************)
RunStream(job) ==
  Parse(job.config, ChunkReader(job, 0, FileSize(job) + 1),
        "OutOfQuotes", FindMode(job, 0))

=============================================================================
