# csveee, specified

A TLA+ development of `csveee`, a parallel CSV parser that cuts a file into
chunks, parses every chunk *speculatively* under each state its first byte may
be read in, and merges the passes that line up. The modules are translated from
the source (paths below are relative to the repository's root); TLC checks them
on small instances, and TLAPS proves the theorems for every value of the
constants.

The question of the whole development is the one the crate's test suite asks at
each boundary offset (`src/scheduler/mod.rs:839`): *does chunking change what a
dialect yields?*

## Inventory

| Component | State | Operations | Status |
|---|---|---|---|
| DFA table (`parser/dfa/table.rs`) | none, built once per dialect | `transition` | `Dfa` |
| Chunk parser, DFA (`parser/chunk.rs`, `parser/dfa/`) | DFA state, record and field in flight, offsets of the last boundary | `scan_record_start`, `scan_header_end`, `skip_empty_lines`, `parse_from`, `finalize` | `ChunkParser` as a function, `ChunkPass` step by step |
| Speculation (`scheduler/mod.rs`) | none between chunks | `process_chunk`, `try_assumptions`, `reparse_chunk`, `run_stream_inner` | `Speculation` |
| Merge (`scheduler/merge.rs`) | the boundary the next record starts after, the states so far | skip, select, reparse, finish | `Merge` |
| Worker threads (`scheduler/mod.rs`, `scheduler/slot.rs`) | atomic chunk counter, one unguarded slot per chunk, join handles, errors | spawn, claim, parse, set, join, leave | `Scheduler`; with what the slots hold and the merge behind it, `Pipeline` |
| Configuration (`scheduler/resolve.rs`, `config.rs`, `sys.rs`) | resolved sizes and counts, a ring buffer's capacity | `for_file`, `for_slice`, the streaming path, `validate`, `grow` | `Resolve` |
| Chunk driver (`parser/driver.rs`, `parser/dfa/stepper.rs`, `parser/output.rs`) | validated prefix, resume point, bytes consumed; the stepper's cursors and spans | fill, validate, step, suspend, consume, finalize | `ChunkDriver`, under `ChunkPass` |
| Readers (`io/`) | file position, bytes left in the chunk, pages a pass has rewritten | `chunk_reader`, `fill`, `consume`, `buffer_mut` | `Readers` |
| Ring buffers (`io/ringbuf/buf/`) | memory, capacity, two cursors | `produce`, `consume`, `data_mut`, `grow`, `reset` | `LinearBuf`, `MirroredBuf`, `Buffers` |
| SIMD chunk parser (`parser/simd/`) | the vector held back, carries, offsets of fields, field-count phase | the same operations as the DFA's | `SimdParser` and the modules under it |
| Builder and entry points (`builder.rs`, `parser/api.rs`, `lib.rs`, dispatch in `scheduler/`) | the configuration, the types' mode and encoding, which parser and reader a parse was given | every setter, `variadic`, `flexible`, `bytes`, `try_build`, `supports_backend`, `parse`, `parse_slice`, `parse_stream` | `EntryPoints`, `Backends` |
| Errors (`error.rs`) | kind and offset | `from_user`, `with_base` | in `ChunkParser`, `Speculation` and `Merge` |
| Tracing, test support, benchmarks | none of a parse | | not modelled |

How they interact. `Scheduler::run_with` spawns the threads; each opens an I/O
context and calls `process_chunk` for its own chunk, then for those it takes
from the counter. `process_chunk` runs the chunk parser once per assumption over
a reader reset to the chunk's start, and each pass calls the caller's
accumulator on a fresh state. A chunk's passes go into its slot. When all
threads are joined, `collect_and_merge` walks the slots in file order on the
caller's thread, reparsing where no pass lines up, and hands the surviving
states to the caller's merge.

What is hard about it, and what must hold nevertheless:

- *Threads*: one writer per slot with no lock; threads that are refused, fail to
  open the file or panic while others run; the caller always gets an answer,
  and which failure it gets does not depend on timing.
- *Speculation*: wrong passes that succeed, wrong passes that fail first, right
  passes that fail; records that outlast one or several chunks; runs of empty
  lines and record ends that fall on a boundary, counted by two parties.
- *Failure half way*: errors of the search, I/O included, are dropped in favour
  of the next assumption; a reparse opens the file again during the merge.
- *Resumption*: a record in flight across refills, with pointers demoted to
  offsets and bytes rewritten in place, in a buffer that moves, wraps, grows
  and is cut in the middle of a character.
- *Vectors*: the SIMD parser sees 64 bytes at a time, resolves them one vector
  late and must come to what the byte-wise parser comes to, on every host.
- *Calls in any order*: the count of fields is the closure's and known at the
  parse only, long after the builder has answered what it supports.

`PROJECT.json` lists every hazard at its line, with the properties aimed at it.

## Modules

| Module | What it is |
|---|---|
| `Dfa` | The transition table as operators: one per row, a cell per role of a byte. A byte is a one-letter string; a dialect is a record of the `Config` fields the table reads. |
| `ChunkParser` | `EXTENDS Dfa`. One pass over one chunk as a function of its reader: the search, the skipped empty lines, the stepper byte by byte, `finalize`. The errors and where their offsets point. |
| `Speculation` | `EXTENDS ChunkParser`. What a worker makes of one chunk, what a reparse makes of it, and the streaming entry point's single pass. |
| `Merge` | `EXTENDS Speculation`. The merge phase as a state machine. Actions are the ways through the loop body: `Skip` (52, 58), `Select` (71-84, an error ends the run), `Reparse` (86-122), `ReparseCannotOpen`, `Finish`. |
| `SequentialParse` | The abstract specification of a parse: the single pass's records in order, in batches, then its end or its error. What the single pass makes of a job is its parameter `RunStream`; `Merge` gives it `Speculation`'s. |
| `MCMerge` | Bounded families of jobs for `Merge`. |
| `Scheduler` | The parallel section of `run_with`: `OpenContext`, `ProcessChunk`, `SetSlot`, `ClaimChunk` on any thread; `Spawn`, `SpawnFails`, `StartWorking`, `StopWorking`, `Join`, `LeaveScope`, `Unwind` on thread 0. |
| `ParallelParse` | Its abstract specification: a set of parsed chunks and how the section ended. |
| `Pipeline` | `EXTENDS Scheduler`, and `Merge` over the same slots: a whole run of `run_with`. A thread carries its chunk's output from `process_chunk` to the slot; `MergeStep` is any step of `Merge`, once the scope is left without a failure. |
| `Resolve` | `for_file`, `for_slice`, the streaming path's settings, the checks of `validate` and the ring buffer's capacity, over every sentinel: `Resolve`, `Open` for a thread's context, then `Grow`. |
| `Backends` | What each chunk parser supports, and the choice between them. |
| `EntryPoints` | `EXTENDS Backends`. The builder, the parser it builds and the three entry points, one action per call; the types' states are guards. |
| `ByteQueue` | Abstract specification of a ring buffer: a bounded queue of bytes that can be rewritten, reset and grown. |
| `LinearBuf`, `MirroredBuf` | The two ring buffers, one action per method. `Buffers` runs both on the same calls. |
| `Readers` | `chunk_reader`, `fill` and `consume` of the four back ends over one file, with `ByteQueue` for the ring buffer. |
| `ChunkDriver` | `ChunkDriver::run` with the DFA stepper: `Fill`, `Validate`, one `StepByte` per byte, `Suspend`, and the ways to finish. |
| `ChunkPass` | `EXTENDS ChunkDriver`. A whole pass on one reader: the search for a boundary or for the end of a header row, the empty lines, then the driver. |
| `SimdMasks` | The masks of one vector, the scanner that holds a vector back, both field counts, the padded vectors, the scalar primitives. |
| `SimdIndexStepper`, `SimdCursorStepper` | The steppers with and without quotes as functions of their state. |
| `SimdFindStart` | The SIMD search for a record start, with its strict probe. |
| `SimdParser` | The driver's loop around a SIMD stepper: `Refill`, `Prologue`, `ScanVector`, `Suspend`, and the ways to finish. |
| `MCMerge`, `MCPipeline`, `MCResolve`, `MCEntryPoints`, `MCChunkPass`, `MCSimdParser` | Bounded families of inputs. |
| `PipelineProofs`, `ResolveProofs`, `ReadersProofs`, `BuffersProofs`, `ChunkPassProofs`, `MergeProofs`, `EntryPointsProofs`, `SimdProofs` | Theorems and their proofs. `PipelineProofs` has those about `Scheduler` as well, `ChunkPassProofs` those about `Dfa` and `ChunkDriver`, `MergeProofs` those about the functions of `ChunkParser` and `Speculation`, `SimdProofs` those about the masks and the two steppers. |

`Pipeline` is where threads and merge meet. That the merge can be checked
without the threads, over many more files, rests on it: `MergeSeesEveryChunk`
says that at the merge every slot holds `process_chunk`'s output for its own
chunk, and `MergesAsModuleMerge` that a run is then a behaviour of `Merge`.

The levels below fit together in the same way. `ChunkParser!Parse`, which
`Merge` uses, is a pass that has all its bytes at once; `ChunkPass` is that pass
with a buffer, and `SearchIsExact` and `RefillsAreInvisible` compare the two;
`SimdParser` is the other back end, and `SearchAgrees` and `SameAsTheDfa` compare
it with the same functions. Both fill by any amount up to the end of the file:
that is what `Readers` promises them (`EveryPassSeesTheFile`, `ShortOnlyAtEof`),
over a `ByteQueue`, which is what `Buffers` shows either ring buffer to be.
`Resolve` is where the thread and chunk counts of `Scheduler` come from, and
`EntryPoints` where the dialect and the back ends do: `RunsWhatItSupports` is
what `Merge`, `ChunkPass` and `SimdParser` assume of their jobs.

Operators named in `PROJECT.json` as mutants (`FinalizePastTheEnd`,
`ClaimOneShort`, ...) are variants of the definition below them with a plausible
mistake in it. They are used nowhere; each shows that a property would notice.

### Abstractions

- A record is its fields' bytes and the offset of its first byte; a state is the
  sequence of the records its accumulator accepted. The callback is an oracle
  that rejects any record with a byte `!` in it with an error of its own, and one
  with a `?` with an error of the crate's, which `from_user` hands on unnested.
  It is assumed to depend on nothing else, as the crate's documentation asks of
  an accumulator that runs speculatively.
- A dialect is one that `Config::validate` accepts (`ValidDialect` in `Dfa`), and
  in `SimdParser` one that `SimdChunkParser::supports` accepts: `JobsAssumption` of
  `Merge`, `ChunkDriver` and `SimdParser`, which their runs evaluate. The one of
  `SimdParser` adds what `neutral_pad` sees to: the byte that pads a vector has no
  role in the dialect.
- In `Merge`, fields are compared after unescaping (`Cell.out`), trimming is off
  and every byte is a valid character. `ChunkPass` has trimming and text: `h`
  and `t` are the head and the tail of a two-byte character (`MaxSequence` = 2
  stands for 4), and a validation window of `ValidateWindow` + `MaxSequence`
  bytes stands for 128 KiB + 4.
- In `Merge`, a pass is a function of its bytes: refills and the in-place buffer
  are below this level. `ReadableEnd` and `FillAhead` say which bytes a pass has asked
  for when one byte of the file cannot be read: a read up to the bad byte
  succeeds, a read of it fails. That is the ring buffer reading as little as
  it is asked for; with larger reads it fails earlier, with the same error. The
  in-memory back end reads the rest of the file when a chunk is opened, and
  `try_assumptions` turns a failure of that into a panic (`scheduler/mod.rs:525`):
  one of the panics of `ProcessChunk` in `Scheduler`.
- `NoOffset` (-1) stands for `None`.
- The needle searches and the empty-line masks are faster ways to take
  self-loops of the table and are not told apart from it: the stepper of
  `ChunkDriver` goes byte by byte, and so do the search and the empty lines of
  `ChunkPass`, which consume each byte where the code consumes what it has
  looked through. What is consumed at a boundary is the same. A pass of the SIMD
  back end is in `ChunkPass` up to its hand-over (phase `"simd"`); `SimdParser`
  begins there.
- In `EntryPoints` a parse is as much as the callback's arity needs: its records
  are numbers of fields. What the documentation promises of `Auto` and of
  `supports_backend` is about which calls are refused, not about bytes.
- Pointers are offsets. The spans a callback gets are `off` and `end`; a callback
  that writes into its fields writes where nobody reads any more
  (`UnreadBytesIntact` with `CursorsInOrder`), and is left out.
- In `Readers` a byte *is* its offset in the file, so that a byte in the wrong
  place shows; a byte a pass has rewritten is `Dirty`. A file may be shorter
  than its size said. A mapped file that shrinks while it is mapped is a signal
  of the operating system and is left out.
- `usize` has `WordSize` values in `MirroredBuf`, whose cursors wrap; the double
  mapping is `address % capacity`, which is what it promises. `InitialCapacity`
  and `WordSize` are powers of two (assumed by `Buffers`).
- In `Resolve`, `NoLimit` stands for `None`, the powers of two are those of the
  constant `PowersOfTwo` (any set that is closed under halving), and the page
  size, defaults and thresholds are constants. The host's answers (parallelism,
  memory) are inputs.
- A mask is a set of lanes. Emitted offsets are dropped at once, where the code
  drops them when there are `COMPACT_THRESHOLD` of them. The address of the
  buffer, which decides how the first vector is padded, is any. The SIMD passes
  are over raw bytes without trimming, which the driver does alike for both.
  `VerifyPext` is the count the steppers of the model use, and sets what the
  instructions compute; `LevelsAgree` says that a host with the other count, or
  with the scalar primitives, sees no difference. The search uses what the build
  was compiled for and the steppers what the process has detected, so that one
  parse may use both.

## Runs

| Run | Asks | Bounds |
|---|---|---|
| `merge_strict` | `TypeOK`; `ImplementsSequentialParse`: the merge implements the single pass | every file up to 6 bytes over the dialect's structural bytes and `x` (5 with four letters), chunk sizes 1 to 4, with and without an unreadable byte, headers, comments, CRLF, an escape of its own, a fixed number of fields, no quotes |
| `merge_lenient` | `NothingInvented`, `FailsAsOnePassDoes`, `WellQuotedIsComplete` | Toggle and Literal dialects, files up to 7 bytes (6 with four letters), chunk sizes 1 to 3, an unreadable byte, an escape of its own, a callback that hands back an error of the crate's |
| `pipeline` | the properties of the parallel section; `MergeSeesEveryChunk`; `RunImplementsSequentialParse`: a run with its threads implements the single pass; `EveryRunAnswers` | 3 threads, six files of 5 chunks, each chosen for what its merge has to do |
| `resolve` | `ThreadsWithinChunks`, `BudgetIsKept`, `AutoBuffersOpen` | files, slices and streams; every combination of sentinels, limits on both sides of each threshold, sizes and hosts in `MCResolve`; granularity 4, buffers of 16 and 8, grown to 256 |
| `buffers` | `LinearIsAQueue`, `MirroredIsAQueue`: each buffer implements `ByteQueue` | bytes 0 and 1, capacity 2 growing to 4, words of 3 bits |
| `readers` | `EveryPassSeesTheFile`, `ShortOnlyAtEof`, `EveryFillReturns` | four back ends, files up to 4 bytes, capacity 1 growing to 2, reads of up to 2 bytes, 2 passes |
| `chunk_pass` | `CursorsInOrder`, `UnreadBytesIntact`, `SearchIsExact`, `RefillsAreInvisible`, `FieldsAreText`, `EveryPassReturns` | every file up to 4 bytes (5 with three letters), every chunk boundary, every search a pass may begin with, every refill; five dialects |
| `simd` | `SearchAgrees`, `LevelsAgree`, `OffsetsInOrder`, `SameAsTheDfa` | every file up to 5 bytes (6 with three letters), every chunk boundary, refill and alignment; vectors of 2 lanes, a batch from 3 fields up; seven dialects |
| `entry_points` | `TypeOK`, `NeverPanics`, `RunsWhatItSupports`, `AutoNeverRefuses`, `ProbeAgrees` | any 3 setters out of 12 with each value some parser refuses, every change of type, closures of 0, 1, 2 and 64 fields, 2 parses |
| `merge_lost_record`, `merge_broken_header`, `merge_comment_to_eof` | one sentence of the documentation each, which the code does not keep (below) | one family of jobs each |

Why the bounds are enough. With chunk sizes 1 to 3 and six bytes there are up to
six chunks; a record spans a whole chunk, or several; the boundary falls on
every position of a quoted field, of a doubled or escaped quote, of a run of
empty lines and of a CRLF; every assumption is wrong somewhere and right
somewhere; two wrong passes and a reparse occur in one run. Three threads and
five chunks give a thread that claims twice, one that finds the counter
exhausted, and a refusal while others are claiming. A larger instance adds
repetitions of these; that it adds nothing else is proved for the parallel
section. `SequentialParse` allows an I/O error at any time, because a chunk is
read ahead of its end and a reparse opens the file again: a parallel run may
meet I/O trouble that the single pass does not reach.

For the buffers, capacity 2 growing to 4 with words of eight values makes every
cursor wrap in memory and in its word, before and after growth, with data that
wraps as it grows. A reader of capacity 1 has to grow for almost any record, and
cannot at the limit. In `chunk_pass`, files of 4 or 5 bytes hold two records,
a doubled or an escaped quote, a character cut by a refill or by the end of the
file, and a run of empty lines across the boundary; since a refill may bring one
byte or all, a pass suspends at every byte of each of them. With two lanes a
vector, the inputs of `simd` cross two or three vector edges, every state of
the carries occurs on an edge, and the prologue, the batch and the tail vector
all occur in one pass; the same run with three lanes passes as well. Three
setters reach every pair of settings that one parser refuses, with a back end
named besides; 64 is one field more than the SIMD parser takes.

`MergeStrict.cfg` leaves out jobs whose header row does not end in the first
chunk or is rejected, and those with a quote in a comment (below). The `Merge` runs do not check deadlock: a merge
that has returned stops. `Pipeline` stutters explicitly in `Over`, so its
deadlock check says that no thread waits for another for ever. `Buffers` can
always go on. A configuration that is resolved, a pass or a SIMD parser that has
returned, a reader after its last pass and a builder that was refused stop, so
those runs do not check deadlock either; that a pass and a fill do not stop
*earlier* is what `EveryPassReturns` and `EveryFillReturns` are for.

What the SIMD run does not claim: where the input is bad, the two back ends may
report different errors. A vector is verified as soon as it is read, ahead of
the records in it and past the chunk's end, and quotes are paired by counting
them; `SameAsTheDfa` therefore says that a failing SIMD pass fails on bytes the
DFA stepper rejects too, with or without the boundary, and that the records it
handed out before are right. Where a pass succeeds they agree in everything, in runs
of empty lines too. Two comments in the tests of `simd/mod.rs` allow for more: at
line 718, that only the stepper without quotes skips empty lines, and at line 1077,
that a run of them may be another chunk's. No job of the run shows either
difference.

**Fairness.** `Pipeline` (and `Scheduler` in it) needs weak fairness of thread 0,
of every thread and of the merge: the operating system runs a thread that can
run; `process_chunk` ends because it is a loop over the bytes of a chunk
(`EveryPassReturns`); and no action waits on anything but a join. `Readers`
assumes weak fairness of `FillStep`, the loop inside `fill`: a thread in a call
runs on. It does not include `ReadFails`, so that a fill never ends only because
a read fails. `ChunkPass` assumes weak fairness of `Next`: a pass is one call of
one thread, and the choice of how much a refill brings is the reader's, which
brings at least one byte unless the file has ended. The other specifications
state no fairness and have no liveness property.

## What disagrees with the documentation

1. **A lost record** (`merge_lost_record`). When the strict probe rejects one
   assumption and another scans to the end of the chunk without a boundary,
   `try_assumptions` answers `CleanNoBoundary` (`scheduler/mod.rs:586`), so the
   lenient retry does not happen and the chunk has no passes. A later mismatch
   would reparse across it, but after the last chunk there is none. No assumption
   stands for a chunk that opens inside a comment, so that a quote in the comment
   is enough: with 5-byte chunks, `#xxxx|qxnnx` loses its last record, in every
   dialect with comments. In a Toggle dialect `xxxxx|qqxnx` does the same without
   one. `WellQuotedIsComplete` and `merge_strict` show that it takes a misplaced
   quote or one in a comment (`PlainComments`).
2. **A header that is rejected or unreadable** (`merge_broken_header`). The
   error of `scan_header_end` becomes an empty output (`scheduler/mod.rs:478`)
   which merge reads as "contained no records at all" (`merge.rs:54`).
3. **A comment to the end of the file** (`merge_comment_to_eof`). A pass that
   reaches the end of the file inside a comment, without a record before it,
   reports no `record_end`, and the next chunk's guesses are all accepted. It
   takes a record terminator other than a line feed, since a comment ends at a
   line feed only.

Also met while translating, and not run, since what they contradict is implied
rather than said:

- A header row longer than the first chunk leaves chunk 0 without passes, and
  whatever pass chunk 1 kept first is accepted (`merge.rs:57`, `:69`), although
  headers are skipped like comments (`builder.rs:202`).
- An error of the crate's that a callback hands back is shifted by the chunk's
  offset like the parser's own (`error.rs:64`, `:82`), although its offset is
  "absolute" already (`error.rs:6`). `FailsAsOnePassDoes` shows that it is
  shifted alike in every chunking.
- A SIMD parser that is named with a setting it does not support is refused when
  it parses, not when it is built (`builder.rs:178`, `:213`, `:233`, and
  `api.rs:33`), and `supports_backend` says yes to a variadic builder whose
  parses it refuses (`builder.rs:249`, `:258`): it takes a count of fields for
  granted. `ProbeAgrees` is about the `Arity` type for that reason.
- `variadic` without `flexible` does not hold records to the width of the first
  one (`builder.rs:53`, `stepper.rs:160`).

## What is proved

`PipelineProofs` proves of `Scheduler`, for every `ThreadCount` and `ChunkCount` with
`1 <= ThreadCount <= ChunkCount` (`SchedulerAssumption`): `TypeOK`,
`OneWriterPerSlot`, `EveryChunkParsedAtMerge`, `FirstFailureWins`,
`RefusalStopsClaims`, and that `Scheduler` implements `ParallelParse`.

None of these is inductive. The invariant `IInv` adds, beside the types:

- `Ownership`: the chunk a thread is on was handed out by the counter, is not
  written, and is no other thread's;
- `NotYetClaimed` and `NothingForgotten`: the counter separates the chunks
  nobody has from those that are written, owned, or were a refused thread's;
- `Exhausted`: a thread stops, and a refusal stops all, only with the counter
  at its end;
- `Born`, `Collected`, `FirstError`, `Left`: which threads exist in each phase,
  and what thread 0 knows of those it has joined.

`OneWriterPerSlot` is a consequence of `Ownership`. `EveryChunkParsedAtMerge`
follows from `NothingForgotten`: at the merge nobody was refused and every
thread is done, so no chunk below the counter has an owner left, and by
`Exhausted` the counter is past them all. The step of each conjunct is a lemma
of its own, with a case per action that can disturb it.

The same module carries this over to whole runs. A step of `Pipeline` is a step
of `Scheduler` or leaves its variables alone (`RunsTheScheduler`), so that its
theorems hold of runs. The invariant `RunIInv` follows an output from the thread
that made it (`InHand`) to its slot (`Stored`), and says that nothing of the
merge has happened before its time (`NotMergedYet`). With `NothingForgotten`
it gives `MergeSeesEveryChunk` (`SlotsHoldTheirChunks`), and from there
`MergesAsModuleMerge`: the step that leaves the scope without a failure leads to
an initial state of `Merge`, and every later step is one of `Merge` or leaves its
variables alone (`MergeAsSpecified`). TLC would evaluate `process_chunk` anew for
every chunk in every step of that property, so it is proved and not run.

With that, `RunImplementsSequentialParse` (`RunIsOnePass`) is a matter of putting
two proofs together: until the scope is left nothing is handed over, so a run
stutters (`NothingHandedOverYet`), and from then on it is a walk of `Merge`, for
which the refinement is proved below (`MergeIsOnePass`). `Pipeline` therefore
takes its merge from `MergeProofs`, which adds no definition that a run uses, and
`InputsAssumption` is what that module assumes of its jobs.

`ResolveProofs` proves, for every set of settings, granularity and threshold
(`ResolveAssumption`), `ThreadsWithinChunks`, `BudgetIsKept` and
`AutoBuffersOpen`; the first is `SchedulerAssumption`, so the theorems about
`Scheduler` hold of every configuration with a chunk. The invariant `IInv` adds
that the settings are among the inputs, that what is resolved is the result for
them, and that a buffer, when opened and however it has grown, was allowed by the
resolved limit. The rest is arithmetic, in lemmas of its own: a square root of at
least one, `n` shares of what `n` divides, the monotonicity of products, on
which the budget of all threads rests, and that rounding down to a power of two
has a result and that rounding it up again does not leave the limit.

The existence of such results is an induction, which every module with one makes
available as a lemma of its own: a property of numbers that holds of one holds of
a least one (`LeastElement`), and a bounded one of a greatest
(`GreatestElement`), from the library's theorem that `<` on the naturals is
well-founded. What is chosen with `Max` or with `CHOOSE` then exists.

`ReadersProofs` proves `EveryPassSeesTheFile` and `ShortOnlyAtEof` for files,
buffers, reads and numbers of passes of any size (`ReadersAssumption`). A reader
keeps no offset of its own, so neither is inductive. `RInv` adds `RingInStep`,
which ties the source's position and the bytes it is still to give to where the
pass is (`position = at + Len(data)`), `RestExposed`, which says that the other
back ends expose all there is, and `NotOpenedYet`. `ShortOnlyAtEof` then is a
case per way `fill` returns: a ring buffer that is not full and asks for at
least one byte gets none at the end of the file only.

`EntryPointsProofs` proves `TypeOK`, `NeverPanics`, `RunsWhatItSupports`,
`AutoNeverRefuses` and `ProbeAgrees` for any values of the setters, any closures
and any number of calls (`EntryPointsAssumption`). The invariant adds
`ConfigOK` (the record a builder carries), `Checked` (a parser that exists was
buildable), `Pinned` (the configuration of a parse differs from the parser's in
the count of fields alone) and `Unanswered`.

`BuffersProofs` proves that both ring buffers implement `ByteQueue`
(`LinearBufIsAQueue`, `MirroredBufIsAQueue`), for every capacity and limit,
sequence of calls and growth. The invariant says where each queue is in its
buffer's memory; `InStep`, that both give room for the same calls. For the
mirrored buffer it is an argument about remainders: the counters wrap at the
word size, the memory is used at their remainders by the capacity, and the two
agree because a capacity divides the word size. `BuffersAssumption` says that
both are powers of two, in the form that a doubled capacity still is.

`ChunkPassProofs` first proves of the table, for every dialect and byte: it is total
(`TableIsTotal`; the stepper's "action states never leak" rests on it), the
Toggle table the search uses never rejects (`ToggleNeverRejects`, the
"unreachable" of `scheduler/mod.rs:472` as far as the search goes), and the
strict probe rejects exactly where the Strict dialect does
(`ProbeIsTheStrictDialect`).

It then proves, for every file, chunk, dialect, window and refill
(`JobsAssumption`, `WindowsAssumption`), `CursorsInOrder`, `UnreadBytesIntact`
and `FieldsAreText`. The first two are inductive together (`DriverInv`), with the
types, with `position = total_consumed`, and with `NotBegun`: the search and the
stepper use one count of consumed bytes, and nothing is in flight when the one
takes over from the other. A field goes where bytes have been read
(`ByteRead`), and a suspension moves all cursors by what none of them needs
(`ShiftedIs`).

`FieldsAreText` needs to know what a field in flight looks like in the middle of
a character (`TextInv`): the bytes validated so far are text from the parse's
base on; the field written so far is text too, or is one byte short of it
exactly when the last byte read was a lead byte outside a comment
(`FieldFollows`). That the next byte then goes to the field as well is a fact
about the table (`TextCells`) that holds because control bytes are ASCII, which
`validate_ascii_control_bytes` sees to. Cutting a field at a delimiter, at its
first and last ink, or at the end of the input then cuts no character.

Last, it proves that a pass, whose buffer is refilled, suspended and
compacted as it goes, computes the functions of `ChunkParser`, which read the
file at once: `SearchFindsWhatOneScanFinds` (`SearchIsExact`) and
`RefillsChangeNothing` (`RefillsAreInvisible`). Both functions are runs of a
recursive function over the bytes; that such a function exists, and is what its
equation says at every byte, is a least-counterexample argument
(`ScanRunExists`, with `LeastElement`), and from then on a
byte of the pass is one step of the run.

`SearchInv` ties a search to the scan (`SearchRun`) after the bytes consumed so
far: `Leading` and `ScanFollows` while it looks, `SkipFollows` while it skips
empty lines, `BaseIsRight` from the parse on, when search and scan have found the
same record and the same first byte. In `ScanFollows` the SIMD header search may
start the DFA one state further than the scan, and the two fall into step at the
next byte, because it is content. `SearchesAssumption` is what the
callers see to: chunk 0 and a header begin outside of quotes, and the SIMD search
is given what it supports.

`PassInv` ties the stepper to the parse of the whole file (`ParseRun`) after the
same byte. `Follows` says that they are in the same state, that each span of the
buffer spells the bytes of the field the parse has copied, and that the records
handed out are the parse's after trimming (`Handed`). `AheadFilled` and
`NothingAhead` say why the loop is left only at the end of the input: a refill
has as many bytes ahead as the longest character (`MaxSequence`), or all there
are, so a buffer validated no further than before is one that holds nothing
more, or half a character. A pass may hand out less than the function: at a byte
that is not text it stops, and `StopsAt` with `TextInv` says that the validation
of windows stops at the byte at which a validation of the file does. TLC checked
both invariants on the instance of the run `chunk_pass` before they were proved.

`MergeProofs` proves, for files, chunk sizes and dialects of any kind
(`JobsAssumption`), `TypeOK` of the merge (`MergeTyped`), and for every such job
that is `Chunkable`, `NothingInvented` (`MergeInventsNothing`) and
`FailsAsOnePassDoes` (`MergeFailsRightly`). Both compare what is pushed, chunk by
chunk, with the one pass over the whole file, so both rest on what a pass over a
*part* of the file has to do with that pass:

- A scan and a pass are folds over the bytes, for which there is a function of
  the place, as in `ChunkPassProofs` (`ScanRunExists`, `StepRunExists`); the same
  argument gives the passes `try_assumptions` keeps (`KeptRunExists`) and the
  records of all states (`FlatRunExists`).
- `Shadows` says that a pass over a part is in the state of the whole, with
  every place shifted by where the part begins and with the records from before
  in front of its own. A byte keeps that (`StepShadows`), the end of a part too
  (`FinalizeAlike`); so does the skipping of empty lines, during which the whole
  pass is at rest (`RunFollows`, `SkipIs`).
- `Boundary` says where a pass may begin so that it starts out as a shadow: the
  whole is at rest there, or behind the terminator there, or the file ends.
  `PassIs` is what it comes to: an error, which is the one pass's, or a boundary
  further on; or the end of the file without a record after which one could
  begin (`Quiet`), where the next chunks hold empty lines and comments only.
- A chunk may keep passes for wrong guesses, and they may hold anything. The
  merge takes one that begins at the boundary it has reached, and then nothing
  is left of the guess: the pass is that of the boundary (`SelectIsGood`), as a
  reparse from it is (`ReparseIsGood`). In chunk 0, and behind a quiet end, every
  pass lines up: there the first record start is the file's (`AlignedAtFirst`,
  with `HeaderIs`: the header scan of the chunk and that of the file find the
  same place), and there is none to be wrong about (`AlignedWhileStill`).

The invariant is `Sound`: the merge is at a boundary with the records of the one
pass up to it, or behind a quiet end with all of them, or has not begun
(`Reached`). Its step is a lemma per action, and `BoundaryHolds` draws
`NothingInvented` from it. `Chunkable` asks that the header row ends in chunk 0
(`HeaderFits`) and that a comment ends where a record can (`LineComments`).
Without either part both properties are false: of a comment the run
`merge_comment_to_eof` shows it, and behind a header row that is longer than the
first chunk, guesses are taken from the inside of the header. It does not ask
that quotes are in their places: with a record lost, finding 1 above, those that
are handed out are still the right ones. The runs `merge_strict` and
`merge_lenient` check the three properties on small files. `Sound` itself is about
the run of the whole pass, a function chosen by its equation, which TLC cannot
evaluate.

The merge also loses nothing. `MergeLosesNothing` proves `WellQuotedIsComplete` for
every job with `HeaderFits`, and `MergeIsOnePass` the refinement
`ImplementsSequentialParse` for every job that is `Fit`. A pass that is kept is
one thing, a pass that is *not* kept another: both rest on the search of a chunk,
under some assumption, not going past the boundary the merge waits for.

- `Untagged` says of the one pass that none of its bytes is one the strict probe
  rejects. A Strict dialect has no such bytes before its error
  (`StrictIsUntagged`). In the other dialects it follows from `Accepted`, the
  same job read as Strict having no quote to reject: the two passes are the same
  up to the first byte the probe rejects (`SameUpToTag`), and there Strict stops
  (`TaggedIsRejected`).
- `Tracks` is a simulation of the one pass by a search that begins in its middle:
  the search knows less, whether a field or a record has begun, whether a quote
  has closed, or that all is comment. A byte keeps it (`TracksOn`), unless the
  byte ends the search, which can only be at a terminator. It fails in a comment
  with a quote in it, hence `PlainComments`; finding 1 is such a file.
- One assumption tracks whatever state the one pass is in where the chunk begins
  (`AssumptionFits`), so the chunk that holds the boundary the next record starts
  after keeps a pass (`BoundaryIsKept`), and the merge does not skip it
  (`BoundaryIsFound`).

The invariant `Caught` says that the boundary the merge has reached lies in a chunk
that is still to come, or that every record is merged. It cannot be lost by
`Skip` (`CaughtOnSkip`), and when the chunks are used up only the second is left
(`AllThere`). `Walk` puts it together with `Sound` and with the types, and
`StepIsOnePass` is the refinement, step by step: a push without a record is a
stutter, one with records a `Yield` (`PushYields`), an error is that of the one
pass or of a read (`AbortFails`), and the end of the walk the end of the pass
(`FinishCompletes`). `Fit` asks for a chunkable job with plain comments, in a
Strict dialect or one that Strict accepts, and leaves out two corners: a callback
that hands back an error of the crate's, whose place is shifted (see above), and
an empty file that cannot be read, which a parallel run does not read at all.
All jobs of `merge_strict` are `Fit`, so are all but one of `pipeline`: a header
row that is longer than the first chunk, where the run shows what is not proved.

`SimdProofs` proves two properties. One is `OffsetsInOrder`
(`SimdOffsetsInOrder`), for vectors of any width, batches of any size
(`VectorAssumption`), and inputs, dialects, alignments and refills of any kind
(`JobsAssumption`). It is what the emission slices by
without a check, and nothing about a single mask implies it: begins and ends of
fields come out of different masks, with different carries, one vector late, and
are then shifted, dropped and renumbered by flushes and refills.

- A vector's masks are read lane by lane. `KindsOf` says what each lane is, given
  the quotes before it; `After` is an automaton with six states over these kinds,
  which looks one byte ahead; `StateOf` reads its state off the scanner's carries.
  The lanes that the masks of begins, of ends and of boundaries select are then
  those at which the automaton begins a field, ends one, or meets a boundary
  (`BeginMask`, `EndMask`, `Resolves`), and the carries a vector hands to
  the next are the state behind its last lane (`StatesFollow`, `ResolvedState`).
- `Woven` is what one lane keeps (`WovenOn`): begins and ends alternate, a field
  is not over before it has begun, and one is open just when the state says so.
  It fails for any automaton that ends twice or begins twice; the state a closing
  quote leaves behind in front of a boundary, and that of a run of terminators,
  are there for that reason.
- `Gaps` says of the bytes between the last field of a record and the next begin
  that they are a run of terminators, with a quote in front or behind. That is
  why a flush, which walks such a run to find where the next record starts
  (`TermOf`), consumes no begin of a field (`RecordEnds`). That every
  `field_count`-th end is one of a record is the other half, `Tracks`: the phase of
  the field-count check is the number of fields so far, modulo the count, and a
  vector that passes the check has its terminators there (`LaneRuns`).
- What has been read survives the buffer being moved: compaction changes bytes
  inside of fields only, a consume shifts offsets and bytes alike, a refill
  appends (`Moves`, with `IndexFlushes`, `IndexShifts`, `IndexKept`).

The invariant is `DriverInv`: `IndexInv` or `CursorInv` for the stepper at the
driver's position, on a buffer that holds what has been scanned. The stepper
without quotes is simpler, its bounds ascend because its masks do, but its vector
held back may lie in front of the buffer after a padded prologue: `CursorHeld`
says where it is, and that its padding has no role. Each action of the driver
keeps the invariant by a lemma of its own (`RefillKeeps`, `PrologueKeeps`,
`VectorKeeps`, `SuspendKeeps`). It speaks of sequences of any numbers and of a
quotient that exists, so TLC cannot evaluate it and checks `OffsetsInOrder` itself.

`SimdLevelsAgree` proves `LevelsAgree`, for a word of any width: what a build or a
host without an instruction runs in its place computes the same. Each of the two
loops has a claim of its own that every round keeps. After a shift, a bit of
`XorPrefixSumScalar` is the parity of as many bits behind it as the shifts so far
add up to (`ParityIs`, `DoublingKeeps`), and the loop ends when that is all of them.
After k rounds of `PextScalar` the bits are left that have k or more before them
(`RankedFrom`), so the lowest is the one of rank k (`LowestRanked`). The two counts
of fields are compared through what each says: `EveryNth`, that a boundary is a
terminator just when its rank, counted from the phase, is the n-th (`PextVerdict`);
`NthEach`, that each terminator has the rank its number among the terminators calls
for, with fewer than n boundaries behind the last (`TerminatorsVerdict`). That the
first implies the second is a walk over the bits (`EveryNthInStep`), that the second
implies the first needs the next terminator, or the end of the word, as a bound
(`ShortOfNext`). `VerdictsAgree` states it for records of any number of fields, the
property for one to three.

Only model-checked: liveness, and of the SIMD parser `SearchAgrees` and
`SameAsTheDfa`. The last compares the two steppers' records, for which the
automaton above would have to be shown a simulation of the DFA's, quotes removed,
and the search has masks of its own.

## Not modelled

The vector kernels (`lanes.rs`) are what they promise, a mask of equal bytes, and
the detection of what a host has and the pinning of a level by the environment
(`isa.rs`) are hardware and platform; the system calls of the double mapping
(`mirrored.rs`) likewise. Display of errors, tracing, test support and
benchmarks change no state of a parse. That a mapped file may shrink while it is
mapped is a signal of the operating system's and left out.

## Plan

Written so far, in this order: the table and the chunk parser; speculation and
merge with the single pass as their specification; the scheduler and its proofs;
resolution and its proofs; the ring buffers, the readers and the chunk driver;
the SIMD parser; the builder and the entry points; whole passes (`ChunkPass`)
and whole runs (`Pipeline`); the proofs of runs, readers, entry points, buffers,
the driver, whole passes and the merge, and of the SIMD parser the order of its
offsets and its levels. What is left is proof, of the SIMD parser:

1. *The search* (`SearchAgrees`): a round of `findstart.rs` against the scan of the
   same bytes by the table, with the probe's boundary and parked quote as its carry.
2. *The records* (`SameAsTheDfa`): the automaton over lanes simulates the table,
   and a field's bytes without those removed are the ones the table copies.
