------------------------------- MODULE Merge --------------------------------
(***************************************************************************)
(* The merge phase (src/scheduler/merge.rs, collect_and_merge): walk the   *)
(* chunks in file order, pick for each the pass that starts where its      *)
(* predecessor ended, reparse where none does, and hand the surviving      *)
(* states to the caller's merge.  It starts once every slot is written,    *)
(* which is what module Scheduler is about.                                *)
(***************************************************************************)
EXTENDS Speculation

CONSTANT Jobs

(* The fields of `Config` that chunks are parsed by.                       *)
Dialects ==
  [delimiter : STRING, quote : STRING, escape : STRING, comment : STRING, terminator : STRING,
   quote_handling : QuoteHandlings, field_count : Nat, has_headers : BOOLEAN]

ASSUME JobsAssumption ==
  /\ Jobs \subseteq [config : Dialects, file : Seq(STRING), chunk_size : Nat \ {0},
                     bad : {NoOffset} \cup Nat]
  /\ \A j \in Jobs : ValidDialect(j.config) /\ \A i \in DOMAIN j.file : j.file[i] # NoByte

VARIABLES
  job,          \* the input, fixed at the start
  results,      \* the slots: what its threads made of each chunk
  chunk,        \* index of the chunk to look at next
  next_record,  \* the terminator the next record starts after, if known
  states,       \* the states pushed so far: each the records of one pass
  outcome       \* Running, Merged, or the error the run returns

vars == <<job, results, chunk, next_record, states, outcome>>

Running == [kind |-> "running", at |-> NoOffset]
Merged  == [kind |-> "merged", at |-> NoOffset]

Init ==
  /\ job \in Jobs
  /\ results = [idx \in Chunks(job) |-> ProcessChunk(job, idx)]
  /\ chunk = 0
  /\ next_record = NoOffset
  /\ states = <<>>
  /\ outcome = Running

-----------------------------------------------------------------------------
Output == results[chunk]
ChunkEnd == (chunk + 1) * job.chunk_size

AtChunk == outcome = Running /\ chunk < CountOfChunks(job)

(* A variant: no chunk is skipped for a record that outlasts it.          *)
NeverLater == FALSE

(* The next record does not begin in this chunk.                           *)
BeginsLater == next_record # NoOffset /\ next_record > ChunkEnd

(* The first pass, in priority order, that lines up.  While no boundary is *)
(* known yet, every pass lines up.                                         *)
Aligned(pass) == next_record = NoOffset \/ pass.record_start = next_record
IsSelected(k) ==
  /\ Aligned(Output.passes[k])
  /\ \A j \in 1..(k - 1) : ~Aligned(Output.passes[j])

NextChunk == chunk' = chunk + 1 /\ UNCHANGED <<job, results>>

Push(pass, record_end) ==
  /\ pass.error = NoError
  /\ states' = Append(states, pass.records)
  /\ next_record' = record_end
  /\ NextChunk /\ UNCHANGED outcome

Abort(error) ==
  /\ error # NoError
  /\ outcome' = error
  /\ UNCHANGED <<job, results, chunk, next_record, states>>

-----------------------------------------------------------------------------
Skip ==
  /\ AtChunk
  /\ BeginsLater \/ Output.passes = <<>>
  /\ NextChunk /\ UNCHANGED <<next_record, states, outcome>>

Select ==
  /\ AtChunk /\ ~BeginsLater
  /\ \E k \in DOMAIN Output.passes :
       /\ IsSelected(k)
       /\ \/ Push(Output.passes[k], Output.record_end)
          \/ Abort(Output.passes[k].error)

(* No assumption was right: parse the chunk again, on this thread, from    *)
(* the boundary that is known.  That opens the input once more, which may  *)
(* fail.                                                                   *)
Mismatch ==
  /\ AtChunk /\ ~BeginsLater
  /\ Output.passes # <<>>
  /\ \A k \in DOMAIN Output.passes : ~Aligned(Output.passes[k])

Reparse ==
  /\ Mismatch
  /\ LET again == ReparseChunk(job, next_record, ChunkEnd)
     IN  \/ Push(again.pass, Shift(again.record_end, next_record))
         \/ Abort(again.pass.error)

ReparseCannotOpen == Mismatch /\ Abort(IoError)

Finish ==
  /\ outcome = Running /\ chunk = CountOfChunks(job)
  /\ outcome' = Merged
  /\ UNCHANGED <<job, results, chunk, next_record, states>>

Next == Skip \/ Select \/ Reparse \/ ReparseCannotOpen \/ Finish

Spec == Init /\ [][Next]_vars /\ WF_vars(Next)

-----------------------------------------------------------------------------
(* What the input has to be for chunks to be parsed apart.  The header row *)
(* ends inside the first chunk, or is all there is.                        *)
HeaderScan(j) == ScanHeaderEnd(j.config, ChunkReader(j, 0, j.chunk_size))
HeaderFits(j) ==
  j.config.has_headers =>
    \/ HeaderScan(j).state = "RecordEnd"
    \/ HeaderScan(j).state \notin {"Error", "IoError"} /\ j.chunk_size >= FileSize(j)

(* Where a record may end, a comment ends.                                 *)
LineComments(j) ==
  j.config.comment # NoByte => Terminators(j.config) \subseteq CommentEnds(j.config)

(* No quote follows a comment byte on its line.                            *)
PlainComments(j) ==
  \A from, to \in DOMAIN j.file :
    from < to /\ j.file[from] = j.config.comment /\ j.file[to] = j.config.quote
      => \E end \in from..to : j.file[end] \in CommentEnds(j.config)

-----------------------------------------------------------------------------
Merging == FlattenSeq(states)

(* The type invariant: a boundary is a place in the file, one state per    *)
(* chunk at most, and the run ends merged or with an error.                *)
TypeOK ==
  /\ job \in Jobs
  /\ chunk \in 0..CountOfChunks(job)
  /\ next_record \in {NoOffset} \cup (0..FileSize(job))
  /\ Len(states) <= chunk
  /\ outcome.kind \in {"running", "merged", "IO", "User", "InvalidQuote",
                       "UnclosedQuote", "NumberOfFields", "Utf8"}

(* What the merge callback is handed is what one sequential pass over the  *)
(* input yields, record for record: chunking does not change what a        *)
(* dialect yields (scheduler/mod.rs:839).  A run that fails fails with the *)
(* error of that pass, at its offset, never with one of a wrong guess.     *)
Sequential == INSTANCE SequentialParse WITH yielded <- Merging
ImplementsSequentialParse == Sequential!Spec

(* The same for the records alone, at the end of the run: a run that       *)
(* merges has every record (README.md:161, "the result is correct either   *)
(* way").                                                                  *)
ChunkingDoesNotChangeTheYield ==
  outcome = Merged => Merging = RunStream(job).records

(* A run that merges had no error to report: no chunk is skipped because   *)
(* it could not be read or was rejected (merge.rs:57 has it that a chunk   *)
(* without passes has no records).                                         *)
NoErrorIsSwallowed == outcome = Merged => RunStream(job).error = NoError

(* In every dialect, whatever speculation missed: no record of a wrong     *)
(* guess survives, none is emitted twice and none is out of order.         *)
NothingInvented == IsPrefix(Merging, RunStream(job).records)

(* A run that fails fails as the one pass does, at the same offset of the  *)
(* file: the errors of the wrong guesses, kept in case one turns out to be *)
(* right, stay unheard.  An error of the crate that the callback handed    *)
(* back has a position of its own, which is shifted once, like the others, *)
(* by the offset that the pass was made from (error.rs:64, with_base).     *)
BaseOfPass == {chunk * job.chunk_size, next_record}
AsOnePass(error) ==
  {error, IoError} \cup
  IF error = HandedBack THEN {WithBase(error, base) : base \in BaseOfPass} ELSE {}
FailsAsOnePassDoes ==
  outcome \notin {Running, Merged} => outcome \in AsOnePass(RunStream(job).error)

(* The strict probe costs a dialect nothing on input it has no business    *)
(* rejecting: with every quote where RFC 4180 allows one, none of them in  *)
(* a comment, and every byte readable, a run that merges has every record. *)
WellQuoted ==
  LineComments(job) /\ PlainComments(job) /\
  RunStream([job EXCEPT !.config.quote_handling = "Strict"]).error.kind
    \notin {"InvalidQuote", "IO"}
WellQuotedIsComplete ==
  outcome = Merged /\ WellQuoted => Merging = RunStream(job).records

=============================================================================
