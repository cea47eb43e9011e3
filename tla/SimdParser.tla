----------------------------- MODULE SimdParser -----------------------------
(***************************************************************************)
(* parse_from of the SIMD chunk parser (src/parser/simd/mod.rs): the       *)
(* driver's loop around whichever stepper the dialect calls for.  Bytes    *)
(* arrive in refills of any size; where the buffer starts in memory, which *)
(* decides how the first vector is padded, is anything.                    *)
(*                                                                         *)
(* A job is [config, bytes, limit]: a dialect the parser supports, the     *)
(* input from where the parse starts, and the bytes left in the chunk.     *)
(***************************************************************************)
EXTENDS Integers, Sequences, FiniteSetsExt

CONSTANTS
  Jobs,
  VectorBytes,     \* 64
  EmitBatchFields  \* a batch is emitted from so many fields up

P == INSTANCE ChunkParser
Masks == INSTANCE SimdMasks
Index == INSTANCE SimdIndexStepper
Cursor == INSTANCE SimdCursorStepper
Find == INSTANCE SimdFindStart
Backends == INSTANCE Backends

(* The dialects the parser is chosen for: delimiters and terminators are   *)
(* bytes, and the neutral byte is one without a role.                      *)
ASSUME JobsAssumption ==
  \A j \in Jobs :
    /\ P!ValidDialect(j.config) /\ Backends!SimdSupports(j.config)
    /\ {P!NoByte, Masks!Pad} \cap ({j.config.delimiter} \cup P!Terminators(j.config)) = {}
    /\ j.config.quote # Masks!Pad
    /\ j.bytes \in Seq(STRING) /\ j.limit \in Nat

ASSUME VectorAssumption == VectorBytes \in Nat \ {0} /\ EmitBatchFields \in Nat

VARIABLES
  job,
  phase,           \* where in its loop the driver is
  buf, remaining,  \* validated bytes, and what is left of the chunk
  pos, total_consumed,
  st,              \* the stepper
  records, result

reader == <<buf, remaining>>
driver == <<pos, total_consumed>>
vars == <<job, phase, reader, driver, st, records, result>>

config == job.config
Quoted == config.quote # P!NoByte
BytesLeft == Len(job.bytes) - (total_consumed + Len(buf))

(* The two steppers behind one interface, as ChunkStepper has it.          *)
Scanned(v) == IF Quoted THEN Index!ScanVector(config, st, v, pos)
              ELSE Cursor!ScanVector(config, st, v, pos)
ScannedPrologue(v, misalign) ==
  IF Quoted THEN Index!ScanVector(config, st, v, 0)
  ELSE Cursor!ScanVector(config, st, v, -misalign)
ArityError(b) == IF Quoted THEN Index!ArityError(config, st, b, total_consumed)
                 ELSE Cursor!ArityError(config, st, b, total_consumed)
Vectorless == IF Quoted THEN Index!Vectorless(st) ELSE Cursor!Vectorless(st)
Pending(s) == IF Quoted THEN Index!Pending(s) ELSE Cursor!Pending(s)
Nothing(s) == Index!Nothing(s, buf)
Flush(s, cursor) ==
  IF Quoted THEN Index!FlushRecords(config, s, buf, cursor - VectorBytes, remaining, total_consumed)
  ELSE Cursor!FlushRecords(config, s, buf, remaining, total_consumed)
Shifted(s, n) == IF Quoted THEN Index!Shifted(s, n) ELSE Cursor!Shifted(s, n)
Consumable(s) == IF Quoted THEN Index!Consumable(s) ELSE Cursor!Consumable(s)

-----------------------------------------------------------------------------
Running == [error |-> P!NoError, last_record_end |-> P!NoOffset]

Init ==
  /\ job \in Jobs
  /\ phase = "refill" /\ buf = <<>> /\ remaining = job.limit
  /\ pos = 0 /\ total_consumed = 0
  /\ st = IF Quoted THEN Index!NewStepper ELSE Cursor!NewStepper
  /\ records = <<>> /\ result = Running

Return(error, end) ==
  /\ phase' = "returned"
  /\ result' = [error |-> error, last_record_end |-> end]

(* The callback takes the records of a flush one by one.                   *)
Rejected(f) == {k \in DOMAIN f.records : P!CallbackError(f.records[k]) # P!NoError}
Emit(f) ==
  records' = records \o IF Rejected(f) = {} THEN f.records
                        ELSE SubSeq(f.records, 1, Min(Rejected(f)) - 1)
Goes(f) == Rejected(f) = {} /\ ~f.stop

(* A flush that ends the pass: rejected, or past the chunk's end.          *)
Ends(f) ==
  /\ ~Goes(f)
  /\ Emit(f)
  /\ IF Rejected(f) # {}
     THEN Return(P!CallbackError(f.records[Min(Rejected(f))]), P!NoOffset)
     ELSE Return(P!NoError, f.st.last_record_end)
  /\ UNCHANGED <<job, reader, driver, st>>

-----------------------------------------------------------------------------
Refill(n) ==
  /\ phase = "refill" /\ n <= BytesLeft
  /\ buf' = buf \o SubSeq(job.bytes, total_consumed + Len(buf) + 1,
                          total_consumed + Len(buf) + n)
  /\ phase' = "step"
  /\ UNCHANGED <<job, remaining, driver, st, records, result>>

(* head_padded_prologue: the first vector is padded in front, so that all  *)
(* later ones are aligned in memory; it waits for a vector to follow.      *)
WantsPrologue == st.needs_align_prologue /\ pos = 0 /\ Vectorless
Skip(misalign) == VectorBytes - misalign

StaysUnaligned == Len(buf) < VectorBytes

Prologue(misalign) ==
  /\ phase = "step" /\ WantsPrologue
  /\ IF misalign = 0 \/ Len(buf) < Skip(misalign) + VectorBytes
     THEN /\ st' = [st EXCEPT !.needs_align_prologue = misalign # 0 /\ StaysUnaligned]
          /\ UNCHANGED pos
     ELSE /\ st' = [ScannedPrologue(Masks!PrologueVector(buf, misalign), misalign).st
                      EXCEPT !.needs_align_prologue = FALSE]
          /\ pos' = Skip(misalign)
  /\ phase' = "scan"
  /\ UNCHANGED <<job, reader, total_consumed, records, result>>

NoPrologue ==
  /\ phase = "step" /\ ~WantsPrologue
  /\ phase' = "scan"
  /\ UNCHANGED <<job, reader, driver, st, records, result>>

(* One round of the loop over whole vectors: scan, verify, and emit what   *)
(* has come together.                                                      *)
HasVector == phase = "scan" /\ pos + VectorBytes <= Len(buf)

RejectVector(scanned) ==
  /\ ~scanned.ok
  /\ Return(ArityError(buf), P!NoOffset)
  /\ UNCHANGED <<job, reader, driver, st, records>>

Batch(s) == IF Pending(s) < EmitBatchFields THEN Nothing(s) ELSE Flush(s, pos + VectorBytes)

ScanVector(f) ==
  /\ Goes(f)
  /\ Emit(f)
  /\ st' = f.st /\ buf' = f.buf
  /\ pos' = pos + VectorBytes
  /\ UNCHANGED <<job, phase, remaining, total_consumed, result>>

(* No whole vector is left: emit, and let the driver consume and refill.   *)
Completed == IF Pending(st) < config.field_count \/ (Quoted /\ pos < VectorBytes)
             THEN Nothing(st) ELSE Flush(st, pos)

Suspend(f) ==
  /\ Goes(f)
  /\ Emit(f)
  /\ \E n \in {Consumable(f.st)} :
       /\ buf' = SubSeq(f.buf, n + 1, Len(f.buf))
       /\ remaining' = Masks!Minus(remaining, n)
       /\ total_consumed' = total_consumed + n
       /\ pos' = pos - n
       /\ st' = Shifted(f.st, n)
  /\ phase' = "refill"
  /\ UNCHANGED <<job, result>>

-----------------------------------------------------------------------------
(* finalize, when the input has ended.                                     *)
Finishing == phase = "refill" /\ BytesLeft = 0

FinishEmpty ==
  /\ Finishing /\ buf = <<>> /\ pos = 0
  /\ Return(P!NoError, st.last_record_end)
  /\ UNCHANGED <<job, reader, driver, st, records>>

Drained == IF Quoted THEN Index!Drained(config, st, buf, pos)
           ELSE Cursor!Drained(config, st, buf, pos)
Unclosed(s) == Quoted /\ s.scanner.in_quotes
FlushRest(s) ==
  IF Quoted
  THEN Index!FlushRemaining(config, Index!WithoutPad(s, buf), buf, remaining, total_consumed)
  ELSE Cursor!FlushRecords(config, s, buf, remaining, total_consumed)

FinishUnclosed(drained) ==
  /\ drained.ok /\ Unclosed(drained.st)
  /\ Return(P!Error("UnclosedQuote",
                    total_consumed + Index!UnclosedAt(config, drained.st, buf)), P!NoOffset)
  /\ UNCHANGED <<job, reader, driver, st, records>>

Finish(f) ==
  \/ Ends(f)
  \/ /\ Goes(f)
     /\ Emit(f)
     /\ Return(P!NoError, f.st.last_record_end)
     /\ UNCHANGED <<job, reader, driver, st>>

Next ==
  \/ \E n \in 1..BytesLeft : Refill(n)
  \/ \E misalign \in 0..(VectorBytes - 1) : Prologue(misalign)
  \/ NoPrologue
  \/ /\ HasVector
     /\ \E scanned \in {Scanned(Masks!Vector(buf, pos))} :
          \/ RejectVector(scanned)
          \/ scanned.ok /\ \E f \in {Batch(scanned.st)} : ScanVector(f) \/ Ends(f)
  \/ /\ phase = "scan" /\ ~HasVector
     /\ \E f \in {Completed} : Suspend(f) \/ Ends(f)
  \/ FinishEmpty
  \/ /\ Finishing /\ buf # <<>>
     /\ \E drained \in {Drained} :
          \/ RejectVector(drained)
          \/ FinishUnclosed(drained)
          \/ /\ drained.ok /\ ~Unclosed(drained.st)
             /\ \E f \in {FlushRest(drained.st)} : Finish(f)

Spec == Init /\ [][Next]_vars

-----------------------------------------------------------------------------
(* The DFA stepper's pass over the job, and over the same bytes without a  *)
(* boundary.                                                               *)
Reader(limit) == [bytes |-> job.bytes, limit |-> limit, bad |-> P!NoOffset]
Whole(limit) == P!ParseFrom(config, Reader(limit), 0)
FieldsOf(whole) == [k \in DOMAIN whole.records |-> whole.records[k].fields]

(* A vector is verified as soon as it has been read, ahead of the records  *)
(* that are emitted and past the boundary, and quotes are paired by their  *)
(* number: where the input is bad, which of its errors is reported first   *)
(* may differ.                                                             *)
SameResult(whole) ==
  /\ whole.error = P!NoError
  /\ records = FieldsOf(whole)
  /\ result.last_record_end = whole.last_record_end

FailsOnBadInput(beyond) ==
  /\ beyond.error # P!NoError
  /\ Len(records) <= Len(FieldsOf(beyond))
  /\ records = SubSeq(FieldsOf(beyond), 1, Len(records))

(* Whatever the refills, the address of the buffer and the size of the     *)
(* batches: a pass that succeeds hands out the records of the DFA stepper  *)
(* (src/parser/dfa/stepper.rs) and ends where that one does; a pass that   *)
(* fails does so on bytes the DFA stepper rejects too, and has handed out  *)
(* none but records that stepper gives.                                    *)
SameAsTheDfa ==
  phase = "returned" =>
    IF result.error = P!NoError THEN SameResult(Whole(job.limit))
    ELSE FailsOnBadInput(Whole(Len(job.bytes) + 1))

(* scan_header_end: blank lines go first.                                  *)
ScanHeaderEnd(r) ==
  LET leading == P!SkipEmptyLines(config, r, 0).at
      rest    == [r EXCEPT !.bytes = SubSeq(@, leading + 1, Len(@)), !.limit = @ - leading]
      end     == Find!FindRecordStart(config, rest, "OutOfQuotes", FALSE)
  IN  IF end.state = "RecordEnd" THEN Find!Answer("RecordEnd", leading + end.at) ELSE end

(* The search for the first boundary of a chunk (findstart.rs) finds what  *)
(* the DFA's does (src/parser/dfa/mod.rs), under every assumption and with *)
(* either probe, and so does the search for the end of a header row, with  *)
(* blank lines in front of it or without.  One difference is left: to the strict probe two quotes   *)
(* in a row are a pair, which the DFA rejects where quotes cannot be       *)
(* doubled.                                                                *)
Unread == phase = "refill" /\ buf = <<>> /\ total_consumed = 0
Searches == Range(P!AssumptionsForConfig(config)) \X BOOLEAN

Answered(scan) ==
  IF scan.state \in P!ScanOutcomes THEN scan ELSE Find!Answer("None", P!NoOffset)
RejectsAPair(scan) ==
  /\ ~P!DoubledQuotes(config) /\ scan.state = "Error"
  /\ \A i \in {scan.at, scan.at + 1} : job.bytes[i] = config.quote

(* The input, chunk 0's by now, behind a number of blank lines.            *)
BehindBlankLines(n) ==
  [bytes |-> [i \in 1..n |-> Masks!PrimaryTerminator(config)] \o job.bytes,
   limit |-> n + job.limit, bad |-> P!NoOffset]

SearchAgrees ==
  Unread =>
    /\ \A s \in Searches :
         LET dfa == P!ScanRecordStart(config, Reader(job.limit), s[1], s[2])
         IN  \/ Find!FindRecordStart(config, Reader(job.limit), s[1], s[2]) = Answered(dfa)
             \/ RejectsAPair(dfa)
    /\ \A n \in 0..VectorBytes :
         ScanHeaderEnd(BehindBlankLines(n)) = Answered(P!ScanHeaderEnd(config, BehindBlankLines(n)))

(* A parse runs its search as the build was compiled and its steppers at   *)
(* the level the host was found to have (src/parser/simd/mod.rs:103, :137):*)
(* the scalar primitives of the one come to what the instructions of the   *)
(* other do, and both counts of fields (fieldcount.rs) to one verdict, on  *)
(* any word: here the job's bytes, as a word as long as that takes.        *)
WordOf(bytes) == {i - 1 : i \in {k \in DOMAIN job.bytes : job.bytes[k] \in bytes}}
SameVerdict(v, w) == v.ok = w.ok /\ (v.ok => v.phase = w.phase)
LevelsAgree ==
  Unread =>
    LET bits     == 0..(Len(job.bytes) - 1)
        quotes   == WordOf({config.quote})
        term     == WordOf(P!Terminators(config))
        d_struct == WordOf({config.delimiter}) \cup term
    IN  /\ Masks!XorPrefixSumScalar(quotes, bits) = Masks!XorPrefixSumOf(quotes, bits)
        /\ Masks!PextScalar(term, d_struct) = Masks!Pext(term, d_struct)
        /\ \A n \in 1..3 : \A before \in 0..(n - 1) :
             SameVerdict(Masks!VerifyPext(n, before, d_struct, term),
                         Masks!VerifyByTerminators(n, before, d_struct, term))

(* The offsets that the emission slices by without a check are in order:   *)
(* no field is over before it has begun, none reaches past what has been   *)
(* scanned, nothing unread is consumed and no bound is, and the vector     *)
(* held back is where its base says, also when that lies in front of the   *)
(* buffer (the debug_asserts of index.rs and cursor_stepper.rs).           *)
Ascending(offsets) == \A k \in 2..Len(offsets) : offsets[k - 1] < offsets[k]
FieldsInOrder ==
  /\ Ascending(st.b_offs) /\ Ascending(st.e_offs) /\ Ascending(st.r_offs)
  /\ Len(st.b_offs) >= Len(st.e_offs)
  /\ \A k \in DOMAIN st.e_offs : st.b_offs[k] <= st.e_offs[k] /\ st.e_offs[k] < pos
  /\ \A k \in DOMAIN st.r_offs : st.r_offs[k] < pos
BoundsInOrder ==
  /\ Ascending(st.bounds)
  /\ \A k \in DOMAIN st.bounds : st.cell_start <= st.bounds[k] /\ st.bounds[k] < pos
  /\ ~Vectorless => st.pending.base = pos - VectorBytes
OffsetsInOrder ==
  phase # "returned" =>
    /\ IF Quoted THEN FieldsInOrder ELSE BoundsInOrder
    /\ Consumable(st) <= pos /\ pos <= Len(buf)
=============================================================================
