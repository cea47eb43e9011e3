---------------------------- MODULE ChunkParser -----------------------------
(***************************************************************************)
(* One chunk parsed under one assumption: `ChunkParser::parse` with the    *)
(* DFA back end (src/parser/chunk.rs, src/parser/dfa/mod.rs and            *)
(* src/parser/dfa/stepper.rs, run by src/parser/driver.rs).                *)
(*                                                                         *)
(* A reader is [bytes |-> the input from the chunk's start to the end of   *)
(* the file, limit |-> the chunk's length, bad |-> the offset of a byte    *)
(* the file cannot be read at, or NoOffset]: `ChunkReader::buffer` exposes *)
(* bytes past the chunk, `remaining_in_chunk` is what bounds the scan, and *)
(* a read up to `bad` succeeds where one that needs `bad` fails.           *)
(* Every offset below is relative to the chunk's start, as in the code;    *)
(* the scheduler makes them absolute.                                      *)
(*                                                                         *)
(* Refills are not visible here: a pass is a function of the reader.       *)
(***************************************************************************)
EXTENDS Dfa, Integers, Sequences, FiniteSetsExt

NoOffset == -1

(* The element of a singleton.  A loop names its last state this way, so   *)
(* that TLC computes it once.                                              *)
The(S) == CHOOSE x \in S : TRUE

ByteAt(reader, i) == reader.bytes[i + 1]
EofOf(reader) == Len(reader.bytes)
ReadableEnd(reader) ==
  IF reader.bad = NoOffset THEN EofOf(reader) ELSE Min({reader.bad, EofOf(reader)})
IsTerminatorAt(c, reader, i) == ByteAt(reader, i) \in Terminators(c)

(***************************************************************************)
(* Errors.  An error without a position carries NoOffset.                  *)
(***************************************************************************)
NoError == [kind |-> "none", at |-> NoOffset]
Error(kind, at) == [kind |-> kind, at |-> at]
UserError == Error("User", NoOffset)

(* What a callback may hand back instead: an error of the crate with a     *)
(* position of its own, say that of a parse inside a field.  from_user     *)
(* unnests it.                                                             *)
HandedBack == Error("Utf8", 0)
IoError == Error("IO", NoOffset)

(* A variant: positions stay relative to the chunk.                        *)
WithoutBase(e, base) == e

(* Error::with_base: only the variants that carry a position move.         *)
WithBase(e, base) ==
  IF e.at = NoOffset THEN e ELSE [e EXCEPT !.at = @ + base]

Shift(offset, base) == IF offset = NoOffset THEN NoOffset ELSE offset + base

(***************************************************************************)
(* find_record_start: the terminator of the first record that ends inside  *)
(* the chunk when its first byte is read in `state`.                       *)
(***************************************************************************)
ScanOutcomes == {"RecordEnd", "Error"}

ScanTaking(cell, strict_probe, i) ==
  [state |-> IF strict_probe /\ cell.strict THEN "Error"
             ELSE IF cell.next = "FieldEnd" THEN "FieldStart"
             ELSE cell.next,
   at    |-> i]

ScanByte(c, strict_probe, reader, scan, i) ==
  IF scan.state \in ScanOutcomes THEN scan
  ELSE ScanTaking(Transition(c, scan.state, ByteAt(reader, i)), strict_probe, i)

ScanTo(c, strict_probe, reader, state, buf_end) ==
  LET scan[i \in 0..buf_end] ==
        IF i = 0 THEN [state |-> state, at |-> NoOffset]
        ELSE The({ScanByte(c, strict_probe, reader, s, i - 1) : s \in {scan[i - 1]}})
  IN  scan[buf_end]

UnlessUnreadable(reader, buf_end, scan) ==
  IF buf_end = reader.bad /\ scan.state \notin ScanOutcomes
  THEN [state |-> "IoError", at |-> buf_end] ELSE scan

FindRecordStartFrom(c, strict_probe, reader, state) ==
  LET buf_end == Min({reader.limit, ReadableEnd(reader)})
  IN  UnlessUnreadable(reader, buf_end, ScanTo(c, strict_probe, reader, state, buf_end))

(* The search reads the dialect as Toggle, whatever the user's is.         *)
FindDfa(c) == [c EXCEPT !.quote_handling = "Toggle"]

AssumptionToState(c, assumption) ==
  CASE assumption = "OutOfQuotes" -> "FieldStart"
    [] assumption = "InQuotes"    -> "InQuotedField"
    [] assumption = "InQuotesAfterEscape" ->
         IF DoubledQuotes(c) THEN "AfterClosingQuote" ELSE "InEscapedQuote"

ScanRecordStart(c, reader, assumption, strict_probe) ==
  FindRecordStartFrom(FindDfa(c), strict_probe, reader,
                      AssumptionToState(c, assumption))

ScanHeaderEnd(c, reader) == FindRecordStartFrom(c, FALSE, reader, "RecordStart")

(* assumptions_for_config, in priority order.                              *)
AssumptionsForConfig(c) ==
  IF c.quote = NoByte THEN <<"OutOfQuotes">>
  ELSE IF c.escape = NoByte \/ DoubledQuotes(c) THEN <<"OutOfQuotes", "InQuotes">>
  ELSE <<"OutOfQuotes", "InQuotes", "InQuotesAfterEscape">>

(***************************************************************************)
(* skip_empty_lines: the run of terminators at `from`.  `outlasts` says    *)
(* that it is still going where the chunk ends, which takes reading the    *)
(* byte it stops at.                                                       *)
(***************************************************************************)
SkipEmptyLines(c, reader, from) ==
  LET stops == {i \in from..ReadableEnd(reader) :
                  \/ i >= reader.limit
                  \/ i = ReadableEnd(reader)
                  \/ ~IsTerminatorAt(c, reader, i)}
      at == Min(stops)
  IN  [at |-> at,
       failed |-> at = reader.bad,
       outlasts |-> at < ReadableEnd(reader) /\ IsTerminatorAt(c, reader, at)]

(***************************************************************************)
(* The stepper.  `fields` and `field` are the record and the field in      *)
(* flight; `records` is what the callback has accepted.                    *)
(***************************************************************************)
NewStepper(base) ==
  [state |-> "RecordStart", fields |-> <<>>, field |-> <<>>,
   record_in_start |-> base, field_in_start |-> base,
   records |-> <<>>, last_record_end |-> NoOffset,
   error |-> NoError, done |-> FALSE]

Stop(st, error) == [st EXCEPT !.error = error, !.done = TRUE]

(* The callback of this model rejects a record with a byte "!" in it by an *)
(* error of its own, and one with a byte "?" by one of the crate's.        *)
Holds(fields, byte) ==
  \E k \in DOMAIN fields : \E j \in DOMAIN fields[k] : fields[k][j] = byte
CallbackError(fields) ==
  IF Holds(fields, "!") THEN UserError
  ELSE IF Holds(fields, "?") THEN HandedBack ELSE NoError

PushField(st, next_field) ==
  [st EXCEPT !.fields = Append(@, st.field), !.field = <<>>,
             !.field_in_start = next_field, !.state = "FieldStart"]

(* emit_record: the arity check, then the callback.                        *)
EmitRecord(c, st, end) ==
  IF c.field_count # 0 /\ Len(st.fields) # c.field_count
  THEN Stop(st, Error("NumberOfFields", st.record_in_start))
  ELSE IF CallbackError(st.fields) # NoError THEN Stop(st, CallbackError(st.fields))
  ELSE [st EXCEPT !.records = Append(@, [at |-> st.record_in_start,
                                         fields |-> st.fields]),
                  !.fields = <<>>, !.last_record_end = end,
                  !.state = "RecordStart"]

(* A terminator at or past the chunk's end is the last byte of the chunk's *)
(* work, whether it ends a record or is an empty line.                     *)
StopAtBoundary(reader, st, anchor) ==
  [st EXCEPT !.last_record_end = anchor, !.done = anchor >= reader.limit]

SkipTerminator(reader, st, i) ==
  IF i >= reader.limit THEN StopAtBoundary(reader, st, i) ELSE st

ApplyAction(c, reader, st, action, i) ==
  CASE action = "Error"     -> Stop(st, Error("InvalidQuote", i))
    [] action = "FieldEnd"  -> PushField(st, i + 1)
    [] action = "RecordEnd" ->
         LET emitted == EmitRecord(c, PushField(st, i + 1), i)
         IN  IF emitted.done THEN emitted ELSE StopAtBoundary(reader, emitted, i)

StepTaking(cell, c, reader, st, i) ==
  LET b    == ByteAt(reader, i)
      here == IF st.state = "RecordStart"
              THEN [st EXCEPT !.record_in_start = i, !.field_in_start = i]
              ELSE st
      read == IF cell.out THEN [here EXCEPT !.field = Append(@, b)] ELSE here
  IN  IF st.state = "RecordStart" /\ b \in Terminators(c)
      THEN SkipTerminator(reader, st, i)
      ELSE IF cell.next \in ActionStates
      THEN ApplyAction(c, reader, read, cell.next, i)
      ELSE [read EXCEPT !.state = cell.next]

StepByte(c, reader, st, i) ==
  IF st.done THEN st
  ELSE StepTaking(Transition(c, st.state, ByteAt(reader, i)), c, reader, st, i)

(* A variant: the last record ends one byte past the end of the file.      *)
FinalizePastTheEnd(c, reader, st) ==
  CASE st.state \in {"RecordStart", "InComment"} -> st
    [] st.state \in {"InQuotedField", "InEscapedQuote"} ->
         Stop(st, Error("UnclosedQuote", st.field_in_start))
    [] st.state \in {"FieldStart", "InField", "AfterClosingQuote"} ->
         EmitRecord(c, PushField(st, EofOf(reader)), EofOf(reader) + 1)

(* finalize, at the end of the file.                                       *)
Finalize(c, reader, st) ==
  CASE st.state \in {"RecordStart", "InComment"} -> st
    [] st.state \in {"InQuotedField", "InEscapedQuote"} ->
         Stop(st, Error("UnclosedQuote", st.field_in_start))
    [] st.state \in {"FieldStart", "InField", "AfterClosingQuote"} ->
         EmitRecord(c, PushField(st, EofOf(reader)), EofOf(reader))

(* parse_from: the driver feeds the stepper every byte from `base` until   *)
(* it is done or the file ends.  It asks for a whole UTF-8 sequence ahead. *)
FillAhead == 4

StepTo(c, reader, base, end) ==
  LET run[i \in base..end] ==
        IF i = base THEN NewStepper(base)
        ELSE The({StepByte(c, reader, st, i - 1) : st \in {run[i - 1]}})
  IN  run[end]

EndOfRun(c, reader, base, st) ==
  LET end == ReadableEnd(reader)
  IN  IF end = reader.bad /\ (end < base + FillAhead \/ ~st.done)
      THEN Stop(st, IoError)
      ELSE IF st.done THEN st ELSE Finalize(c, reader, st)

ParseFrom(c, reader, base) ==
  EndOfRun(c, reader, base, StepTo(c, reader, base, ReadableEnd(reader)))

(***************************************************************************)
(* ChunkParser::parse.  A pass without a record_start found no record (or  *)
(* was rejected); a pass with an error reports no record_end.              *)
(***************************************************************************)
PassResult(record_start, record_end, records, error) ==
  [record_start |-> record_start,
   record_end   |-> IF error = NoError THEN record_end ELSE NoOffset,
   records |-> records, error |-> error]

NoRecord == PassResult(NoOffset, NoOffset, <<>>, NoError)
Failed(error) == PassResult(NoOffset, NoOffset, <<>>, error)

Body(record_start, st) ==
  PassResult(record_start, st.last_record_end, st.records, st.error)

ParseFromBoundary(c, reader, record_start) ==
  LET run == SkipEmptyLines(c, reader, record_start)
  IN  IF run.failed THEN PassResult(record_start, NoOffset, <<>>, IoError)
      ELSE IF run.outlasts THEN PassResult(record_start, run.at, <<>>, NoError)
      ELSE Body(record_start, ParseFrom(c, reader, run.at))

Scan(c, reader, assumption, find) ==
  CASE find = "No"          -> [state |-> "RecordEnd", at |-> 0]
    [] find = "SkipHeaders" -> ScanHeaderEnd(c, reader)
    [] find = "Strict"      -> ScanRecordStart(c, reader, assumption, TRUE)
    [] find = "Lenient"     -> ScanRecordStart(c, reader, assumption, FALSE)

ParseScanned(c, reader, scan) ==
  CASE scan.state = "RecordEnd" -> ParseFromBoundary(c, reader, scan.at)
    [] scan.state = "Error"     -> Failed(Error("InvalidQuote", scan.at))
    [] scan.state = "IoError"   -> Failed(IoError)
    [] OTHER                    -> NoRecord

Parse(c, reader, assumption, find) ==
  ParseScanned(c, reader, Scan(c, reader, assumption, find))

=============================================================================
