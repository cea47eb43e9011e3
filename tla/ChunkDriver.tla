---------------------------- MODULE ChunkDriver -----------------------------
(***************************************************************************)
(* parse_from with its buffer: the loop of ChunkDriver::run                *)
(* (src/parser/driver.rs) around the DFA stepper                           *)
(* (src/parser/dfa/stepper.rs), which rewrites the bytes in place and      *)
(* carries a record in flight from one refill to the next.                 *)
(*                                                                         *)
(* A job has a config, which is a dialect with the flags trim and text,    *)
(* the bytes of the input from the chunk's start to the end of the file,   *)
(* and the chunk's length as its limit; what it says of the search for the *)
(* first record is ChunkPass's, which begins the parse.  A character is a  *)
(* byte, or a lead byte "h" and a continuation byte "t".  Positions in the *)
(* buffer count from zero, as in the code.                                 *)
(***************************************************************************)
EXTENDS Dfa, Integers, Sequences

CONSTANTS
  Jobs,
  MaxSequence,     \* bytes of the longest character; four in UTF-8
  ValidateWindow

P == INSTANCE ChunkParser

(* validate_ascii_control_bytes: in text, no control byte is one of a      *)
(* longer character.                                                       *)
ControlBytes(c) == {c.delimiter, c.quote, c.escape, c.comment} \cup Terminators(c)
AsciiControlBytes(c) == ControlBytes(c) \cap {"h", "t"} = {}

(* The fields of `Config` a pass reads.                                    *)
Dialects ==
  [delimiter : STRING, quote : STRING, escape : STRING, comment : STRING, terminator : STRING,
   quote_handling : QuoteHandlings, field_count : Nat, trim : BOOLEAN, text : BOOLEAN]

ASSUME JobsAssumption ==
  \A j \in Jobs :
    /\ j.bytes \in Seq(STRING) /\ j.limit \in Nat
    /\ j.config \in Dialects /\ ValidDialect(j.config)
    /\ j.config.text => AsciiControlBytes(j.config)

(* Every refill asks for more than a part of a character; an empty file    *)
(* gives an empty buffer.                                                  *)
ASSUME WindowsAssumption == MaxSequence \in Nat \ {0, 1} /\ ValidateWindow \in Nat

VARIABLES
  job,
  phase,           \* where in its loop the driver is
  buf, position,   \* the reader's buffer(), and what was consumed of the chunk
  base,            \* where the parse begins
  validated, pos, total_consumed,  \* the driver's; pos is its resume_at
  record_end,      \* the driver's last_record_end
  st,              \* the stepper
  records,         \* what the callback has accepted
  result

reader == <<buf, position>>
driver == <<base, validated, pos, total_consumed, record_end>>
vars == <<job, phase, reader, driver, st, records, result>>

config == job.config
Least(a, b) == IF a <= b THEN a ELSE b
Minus(a, b) == IF a >= b THEN a - b ELSE 0  \* saturating_sub

(* remaining_in_chunk: the buffer goes on behind the chunk.                *)
remaining == Minus(job.limit, position)

-----------------------------------------------------------------------------
(* Text.  ValidUpTo is the length of the longest prefix that is a sequence *)
(* of characters; what follows it is either cut off or invalid.            *)
IsText(bytes) ==
  \A i \in DOMAIN bytes :
    /\ bytes[i] = "h" => i < Len(bytes) /\ bytes[i + 1] = "t"
    /\ bytes[i] = "t" => i > 1 /\ bytes[i - 1] = "h"
ValidUpTo(bytes) ==
  CHOOSE n \in 0..Len(bytes) :
    /\ IsText(SubSeq(bytes, 1, n))
    /\ \A m \in (n + 1)..Len(bytes) : ~IsText(SubSeq(bytes, 1, m))

CutOff(bytes, n) == n = Len(bytes) - 1 /\ bytes[n + 1] = "h"

(* A variant: a character that is cut off passes.                          *)
ValidLengthCutOff(bytes) ==
  IF config.text /\ ~CutOff(bytes, ValidUpTo(bytes)) THEN ValidUpTo(bytes) ELSE Len(bytes)

(* validate_chunk; raw bytes need no validation.                           *)
ValidLength(bytes) == IF config.text THEN ValidUpTo(bytes) ELSE Len(bytes)

(* trim_ascii, for the white space a field of these models can hold.       *)
IsSpace(byte) == byte \in {" ", "n", "r"}
FirstInk(b, from, to) ==
  CHOOSE i \in from..to : /\ i = to \/ ~IsSpace(b[i + 1])
                          /\ \A k \in from..(i - 1) : IsSpace(b[k + 1])
AfterLastInk(b, from, to) ==
  CHOOSE i \in from..to : /\ i = from \/ ~IsSpace(b[i])
                          /\ \A k \in (i + 1)..to : IsSpace(b[k])

-----------------------------------------------------------------------------
(* The stepper's cursors.  A field is a span of the buffer.                *)
NewStepper(from) ==
  [state |-> "RecordStart", field_start |-> 0, write_pos |-> 0,
   record_buf_start |-> 0, spans |-> <<>>, last_record_end |-> P!NoOffset,
   record_in_start |-> from, field_in_start |-> from]

Span(from, to) == [off |-> from, end |-> to]
FieldSpan(b, s) ==
  IF ~config.trim THEN Span(s.field_start, s.write_pos)
  ELSE LET from == FirstInk(b, s.field_start, s.write_pos)
       IN  Span(from, AfterLastInk(b, from, s.write_pos))

(* push_field, and start_field_at for what follows it.                     *)
PushField(b, s, p) ==
  [s EXCEPT !.spans = Append(@, FieldSpan(b, s)),
            !.field_start = p, !.write_pos = p, !.field_in_start = total_consumed + p]

Fields(b, s) == [k \in DOMAIN s.spans |-> SubSeq(b, s.spans[k].off + 1, s.spans[k].end)]

(* check_arity, then the callback.                                         *)
EmitError(b, s) ==
  CASE config.field_count # 0 /\ Len(s.spans) # config.field_count ->
         P!Error("NumberOfFields", s.record_in_start)
    [] OTHER -> P!CallbackError(Fields(b, s))
Emitted(b, s) == Append(records, [at |-> s.record_in_start, fields |-> Fields(b, s)])

(* A variant: a field that has been begun does not hold its bytes.         *)
ConsumablePastField(s, p) == IF s.spans = <<>> THEN p ELSE s.record_buf_start

(* How far the driver may consume when the scan suspends.                  *)
Consumable(s, p) ==
  IF s.spans = <<>> /\ s.field_start = s.write_pos THEN p ELSE s.record_buf_start

(* A variant: the spans of the fields before stay where they are.          *)
ShiftedCursors(s, n) ==
  [s EXCEPT !.field_start = Minus(@, n), !.write_pos = Minus(@, n),
            !.record_buf_start = Minus(@, n)]

(* consume: every offset into the buffer moves with it.                    *)
Shifted(s, n) ==
  [s EXCEPT !.field_start = Minus(@, n), !.write_pos = Minus(@, n),
            !.record_buf_start = Minus(@, n),
            !.spans = [k \in DOMAIN @ |-> Span(Minus(@[k].off, n), @[k].end - n)]]

-----------------------------------------------------------------------------
Running == [error |-> P!NoError, last_record_end |-> P!NoOffset]

(* parse_from: a new driver and a new stepper, at the reader's position.   *)
Begin(from) ==
  /\ phase' = "fill"
  /\ base' = from /\ total_consumed' = from /\ st' = NewStepper(from)
  /\ UNCHANGED <<validated, pos, record_end, records, result>>

Return(error, end) ==
  /\ phase' = "returned"
  /\ result' = [error |-> error, last_record_end |-> end]

BytesLeft == Len(job.bytes) - position

(* fill(n), by the contract of ChunkReader: it returns short only at the   *)
(* end of the file, and may read more than it is asked for.                *)
FilledTo(len) ==
  SubSeq(buf \o SubSeq(job.bytes, position + Len(buf) + 1, Len(job.bytes)), 1, len)
Fills(n) ==
  {FilledTo(len) : len \in {l \in Len(buf)..BytesLeft : l >= Least(n, BytesLeft)}}
FillMayFail(n) == Len(buf) < Least(n, BytesLeft)

Fill(filled) ==
  /\ phase = "fill"
  /\ buf' = filled
  /\ phase' = "validate"
  /\ UNCHANGED <<job, position, driver, st, records, result>>

FillFails ==
  /\ phase = "fill" /\ FillMayFail(validated + MaxSequence)
  /\ Return(P!IoError, P!NoOffset)
  /\ UNCHANGED <<job, reader, driver, st, records>>

Fresh == SubSeq(buf, validated + 1, Least(Len(buf), validated + MaxSequence + ValidateWindow))

(* A variant: a call that validates nothing is followed by a step.         *)
NeverEnds(valid) == FALSE

EndOfInput(valid) == valid = 0

(* validate_fresh; without progress the input has ended.                   *)
Validate(valid) ==
  /\ phase = "validate"
  /\ valid = Len(Fresh) \/ CutOff(Fresh, valid)
  /\ validated' = validated + valid
  /\ phase' = IF EndOfInput(valid) THEN "finish" ELSE "step"
  /\ UNCHANGED <<job, reader, base, pos, total_consumed, record_end, st, records, result>>

RejectText(valid) ==
  /\ phase = "validate"
  /\ valid < Len(Fresh) /\ ~CutOff(Fresh, valid)
  /\ Return(P!Error("Utf8", total_consumed + validated + valid), P!NoOffset)
  /\ UNCHANGED <<job, reader, driver, st, records>>

-----------------------------------------------------------------------------
(* The stepper's loop, a byte at a time up to `validated`.                 *)
Byte == buf[pos + 1]
Scanning == phase = "step" /\ pos < validated
BetweenRecords == st.state = "RecordStart" /\ Byte \in Terminators(config)

(* An empty line inside the chunk, and the one that ends it.               *)
SkipEmptyLine ==
  /\ Scanning /\ BetweenRecords /\ pos < remaining
  /\ pos' = pos + 1
  /\ UNCHANGED <<job, phase, reader, base, validated, total_consumed, record_end, st,
                 records, result>>

StopOnEmptyLine ==
  /\ Scanning /\ BetweenRecords /\ pos >= remaining
  /\ Return(P!NoError, total_consumed + pos)
  /\ UNCHANGED <<job, reader, driver, st, records>>

(* Where a record starts, for its errors.                                  *)
AtRecordStart(s) ==
  IF s.state = "RecordStart"
  THEN [s EXCEPT !.record_in_start = total_consumed + pos,
                 !.field_in_start = total_consumed + pos]
  ELSE s

(* A variant: the cursor moves before the write.                           *)
WrittenAhead(cell) == IF cell.out THEN [buf EXCEPT ![st.write_pos + 2] = Byte] ELSE buf

(* A byte that belongs to the field is written behind the bytes of the     *)
(* field so far, which may be over one of its escapes.                     *)
Written(cell) == IF cell.out THEN [buf EXCEPT ![st.write_pos + 1] = Byte] ELSE buf
Taken(cell) ==
  [AtRecordStart(st) EXCEPT !.write_pos = IF cell.out THEN @ + 1 ELSE @]

(* The byte at pos leads to `cell`, and the DFA into it.                   *)
Take(cell) ==
  /\ Scanning /\ ~BetweenRecords /\ cell.next \notin ActionStates
  /\ buf' = Written(cell)
  /\ st' = [Taken(cell) EXCEPT !.state = cell.next]
  /\ pos' = pos + 1
  /\ UNCHANGED <<job, phase, position, base, validated, total_consumed, record_end,
                 records, result>>

RejectQuote(cell) ==
  /\ Scanning /\ ~BetweenRecords /\ cell.next = "Error"
  /\ Return(P!Error("InvalidQuote", total_consumed + pos), P!NoOffset)
  /\ UNCHANGED <<job, reader, driver, st, records>>

EndField(cell) ==
  /\ Scanning /\ ~BetweenRecords /\ cell.next = "FieldEnd"
  /\ st' = [PushField(buf, AtRecordStart(st), pos + 1) EXCEPT !.state = "FieldStart"]
  /\ pos' = pos + 1
  /\ UNCHANGED <<job, phase, reader, base, validated, total_consumed, record_end,
                 records, result>>

(* The byte find_record_start stops on from the other side.                *)
EndsChunk(p) == p >= remaining

Closed == PushField(buf, AtRecordStart(st), pos + 1)

EndRecord(cell) ==
  /\ Scanning /\ ~BetweenRecords /\ cell.next = "RecordEnd"
  /\ EmitError(buf, Closed) = P!NoError
  /\ records' = Emitted(buf, Closed)
  /\ st' = [Closed EXCEPT !.spans = <<>>, !.state = "RecordStart",
                          !.record_buf_start = pos + 1,
                          !.last_record_end = total_consumed + pos]
  /\ pos' = pos + 1
  /\ IF EndsChunk(pos) THEN Return(P!NoError, total_consumed + pos)
                       ELSE UNCHANGED <<phase, result>>
  /\ UNCHANGED <<job, reader, base, validated, total_consumed, record_end>>

RejectRecord(cell) ==
  /\ Scanning /\ ~BetweenRecords /\ cell.next = "RecordEnd"
  /\ EmitError(buf, Closed) # P!NoError
  /\ Return(EmitError(buf, Closed), P!NoOffset)
  /\ UNCHANGED <<job, reader, driver, st, records>>

StepByte ==
  \/ SkipEmptyLine \/ StopOnEmptyLine
  \/ /\ Scanning
     /\ LET cell == Transition(config, st.state, Byte)
        IN  Take(cell) \/ RejectQuote(cell) \/ EndField(cell)
            \/ EndRecord(cell) \/ RejectRecord(cell)

(* Suspended: the driver consumes what the stepper no longer needs, and    *)
(* both move their offsets.                                                *)
Suspend(n) ==
  /\ phase = "step" /\ pos >= validated
  /\ buf' = SubSeq(buf, n + 1, Len(buf)) /\ position' = position + n
  /\ st' = Shifted(st, n)
  /\ total_consumed' = total_consumed + n
  /\ validated' = validated - n /\ pos' = pos - n
  /\ record_end' = st.last_record_end
  /\ phase' = "fill"
  /\ UNCHANGED <<job, base, records, result>>

-----------------------------------------------------------------------------
(* After the loop: bytes that were not validated never will be.            *)
RejectTail ==
  /\ phase = "finish" /\ Len(buf) > validated
  /\ Return(P!Error("Utf8", total_consumed + validated), P!NoOffset)
  /\ UNCHANGED <<job, reader, driver, st, records>>

Finishing == phase = "finish" /\ Len(buf) = validated

(* finalize, by the state the input ends in.                               *)
FinishOutside ==
  /\ Finishing /\ st.state \in {"RecordStart", "InComment"}
  /\ Return(P!NoError, record_end)
  /\ UNCHANGED <<job, reader, driver, st, records>>

FinishQuoted ==
  /\ Finishing /\ st.state \in {"InQuotedField", "InEscapedQuote"}
  /\ Return(P!Error("UnclosedQuote", st.field_in_start), P!NoOffset)
  /\ UNCHANGED <<job, reader, driver, st, records>>

LastRecord == PushField(buf, st, pos)

FinishRecord ==
  /\ Finishing /\ st.state \in {"FieldStart", "InField", "AfterClosingQuote"}
  /\ IF EmitError(buf, LastRecord) = P!NoError
     THEN /\ records' = Emitted(buf, LastRecord)
          /\ Return(P!NoError, total_consumed + validated)
     ELSE /\ Return(EmitError(buf, LastRecord), P!NoOffset)
          /\ UNCHANGED records
  /\ UNCHANGED <<job, reader, driver, st>>

Parse ==
  \/ \E filled \in Fills(validated + MaxSequence) : Fill(filled)
  \/ FillFails
  \/ \E valid \in {ValidLength(Fresh)} : Validate(valid) \/ RejectText(valid)
  \/ StepByte
  \/ \E n \in {Consumable(st, pos)} : Suspend(n)
  \/ RejectTail \/ FinishOutside \/ FinishQuoted \/ FinishRecord

-----------------------------------------------------------------------------
(* The stepper's safety comments (stepper.rs:200, :264, :366, the          *)
(* driver's at :167): the cursors are in order, inside the buffer, and the *)
(* spans of the record in flight lie apart, behind the place up to which   *)
(* bytes may be consumed.  The callback gets them as exclusive references. *)
SpansInOrder(s) ==
  \A k \in DOMAIN s.spans :
    /\ s.record_buf_start <= s.spans[k].off
    /\ s.spans[k].off <= s.spans[k].end
    /\ s.spans[k].end <= s.field_start
    /\ k > 1 => s.spans[k - 1].end <= s.spans[k].off
CursorsInOrder ==
  /\ 0 <= st.record_buf_start /\ st.record_buf_start <= st.field_start
  /\ st.field_start <= st.write_pos /\ st.write_pos <= pos
  /\ pos <= validated /\ validated <= Len(buf)
  /\ SpansInOrder(st)

(* What is rewritten is behind what is still to be read: from pos on, the  *)
(* buffer holds the bytes of the file, each at its offset.                 *)
UnreadBytesIntact ==
  /\ total_consumed + Len(buf) <= Len(job.bytes)
  /\ \A i \in (pos + 1)..Len(buf) : buf[i] = job.bytes[total_consumed + i]

(* "A `&mut str` here is known-good UTF-8" (stepper.rs:184): compaction,   *)
(* trimming and cutting at delimiters keep characters whole, and nothing   *)
(* is handed out that was not validated.                                   *)
FieldsAreText ==
  config.text =>
    \A k \in DOMAIN records : \A f \in DOMAIN records[k].fields :
      IsText(records[k].fields[f])

=============================================================================
