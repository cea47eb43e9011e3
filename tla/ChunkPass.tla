----------------------------- MODULE ChunkPass ------------------------------
(***************************************************************************)
(* A whole pass over a chunk, as ChunkParser::parse makes it               *)
(* (src/parser/chunk.rs): the search for the first record, the empty lines *)
(* in front of it, and the parse from there, on one reader whose buffer is *)
(* refilled in any place.  The parse is ChunkDriver's.  total_consumed is  *)
(* the count of whoever holds the reader: the search, skip_empty_lines     *)
(* behind the record start, the driver behind its base.                    *)
(*                                                                         *)
(* A job says how to search: find, the assumption, and the back end, which *)
(* matters to a header row.  The SIMD back end's own parse is SimdParser's *)
(* and a pass of it ends here, in phase "simd", with its search.           *)
(***************************************************************************)
EXTENDS ChunkDriver

VARIABLES
  dfa_state,       \* the search's state
  record_start     \* the terminator the search has found

search == <<dfa_state, record_start>>
passVars == <<vars, search>>

(* Chunk 0 begins outside of quotes, the SIMD parser takes what it         *)
(* supports, and every byte is one.                                        *)
ASSUME SearchesAssumption ==
  \A j \in Jobs :
    /\ j.find \in {"No", "SkipHeaders", "Strict", "Lenient"} /\ j.backend \in {"DFA", "SIMD"}
    /\ j.assumption \in {"OutOfQuotes", "InQuotes", "InQuotesAfterEscape"}
    /\ j.find \in {"No", "SkipHeaders"} => j.assumption = "OutOfQuotes"
    /\ j.backend = "SIMD" => j.config.quote_handling = "Toggle" /\ j.config.comment = NoByte
    /\ \A i \in DOMAIN j.bytes : j.bytes[i] # NoByte

-----------------------------------------------------------------------------
(* A variant: the SIMD search meets the blank lines before a header row.   *)
HeaderScanFirst(j) == IF j.find = "No" THEN "skip" ELSE "scan"

(* No search, or one behind the blank lines, or one at once.               *)
FirstPhase(j) ==
  CASE j.find = "No" -> "skip"
    [] j.find = "SkipHeaders" /\ j.backend = "SIMD" -> "lead"
    [] OTHER -> "scan"

DfaHeader(j) == j.find = "SkipHeaders" /\ j.backend = "DFA"
FirstState(j) ==
  IF DfaHeader(j) THEN "RecordStart" ELSE P!AssumptionToState(j.config, j.assumption)
SearchConfig == IF DfaHeader(job) THEN config ELSE P!FindDfa(config)

Init ==
  /\ job \in Jobs
  /\ phase = FirstPhase(job)
  /\ dfa_state = FirstState(job)
  /\ record_start = IF job.find = "No" THEN 0 ELSE P!NoOffset
  /\ buf = <<>> /\ position = 0
  /\ base = 0 /\ validated = 0 /\ pos = 0 /\ total_consumed = 0
  /\ record_end = P!NoOffset
  /\ st = NewStepper(0) /\ records = <<>> /\ result = Running

Searching == phase \in {"lead", "scan", "skip"}

(* Every loop of a search begins with fill(1).  The bytes of a buffer are  *)
(* consumed one by one here, and together in the code.                     *)
Refill(filled) ==
  /\ Searching /\ FillMayFail(1)
  /\ buf' = filled
  /\ UNCHANGED <<job, phase, position, driver, st, records, result, search>>

SearchFails ==
  /\ Searching /\ FillMayFail(1)
  /\ Return(P!IoError, P!NoOffset)
  /\ UNCHANGED <<job, reader, driver, st, records, search>>

ConsumeByte ==
  /\ buf' = Tail(buf) /\ position' = position + 1
  /\ total_consumed' = total_consumed + 1
  /\ UNCHANGED <<job, base, validated, pos, record_end, st, records>>

AtEof == BytesLeft = 0

(* buf_end is not zero: the chunk is not over, and nor is the file.        *)
InChunk == buf # <<>> /\ remaining > 0

-----------------------------------------------------------------------------
(* find_record_start_from.                                                 *)
StrictlyRejected(cell) == job.find = "Strict" /\ cell.strict

FindNothing ==
  /\ phase = "scan" /\ ~InChunk /\ (AtEof \/ remaining = 0)
  /\ Return(P!NoError, P!NoOffset)
  /\ UNCHANGED <<job, reader, driver, st, records, search>>

ScanOn(cell) ==
  /\ ~StrictlyRejected(cell) /\ cell.next \notin {"Error", "RecordEnd"}
  /\ ConsumeByte
  /\ dfa_state' = IF cell.next = "FieldEnd" THEN "FieldStart" ELSE cell.next
  /\ UNCHANGED <<phase, record_start, result>>

(* The terminator stays with the reader.                                   *)
FindRecord(cell) ==
  /\ ~StrictlyRejected(cell) /\ cell.next = "RecordEnd"
  /\ record_start' = total_consumed
  /\ phase' = "skip"
  /\ UNCHANGED <<job, reader, driver, st, records, result, dfa_state>>

RejectScan(cell) ==
  /\ StrictlyRejected(cell) \/ cell.next = "Error"
  /\ Return(P!Error("InvalidQuote", total_consumed), P!NoOffset)
  /\ UNCHANGED <<job, reader, driver, st, records, search>>

Scan ==
  /\ phase = "scan" /\ InChunk
  /\ LET cell == Transition(SearchConfig, dfa_state, buf[1])
     IN  ScanOn(cell) \/ FindRecord(cell) \/ RejectScan(cell)

-----------------------------------------------------------------------------
(* skip_empty_lines, before a SIMD header row and before the first record. *)
AtTerminator == buf # <<>> /\ buf[1] \in Terminators(config)

SkipLines ==
  /\ phase \in {"lead", "skip"} /\ AtTerminator /\ remaining > 0
  /\ ConsumeByte
  /\ UNCHANGED <<phase, search, result>>

(* Nothing but empty lines up to the chunk's end, and one behind it.       *)
LinesOutlastChunk ==
  /\ phase = "skip" /\ AtTerminator /\ remaining = 0
  /\ Return(P!NoError, total_consumed)
  /\ UNCHANGED <<job, reader, driver, st, records, search>>

AtContent == (buf # <<>> \/ AtEof) /\ ~AtTerminator

(* A header row is searched for wherever they end.                         *)
LeadSkipped ==
  /\ phase = "lead" /\ (AtContent \/ (AtTerminator /\ remaining = 0))
  /\ phase' = "scan"
  /\ UNCHANGED <<job, reader, driver, st, records, search, result>>

LinesSkipped ==
  /\ phase = "skip" /\ AtContent
  /\ IF job.backend = "DFA" THEN Begin(total_consumed)
     ELSE /\ phase' = "simd" /\ base' = total_consumed
          /\ UNCHANGED <<total_consumed, validated, pos, record_end, st, records, result>>
  /\ UNCHANGED <<job, reader, search>>

Next ==
  \/ \E filled \in Fills(1) : Refill(filled)
  \/ SearchFails
  \/ FindNothing \/ Scan
  \/ SkipLines \/ LinesOutlastChunk \/ LeadSkipped \/ LinesSkipped
  \/ Parse /\ UNCHANGED search

(* A pass is a call: it runs until it returns.                             *)
Spec == Init /\ [][Next]_passVars /\ WF_passVars(Next)

-----------------------------------------------------------------------------
Reader == [bytes |-> job.bytes, limit |-> job.limit, bad |-> P!NoOffset]

(* The search and its refills: the terminator it stops at, and the byte    *)
(* the parse begins with, are those of a search that reads the chunk at    *)
(* once; and the SIMD back end's way to the end of a header row, blank     *)
(* lines first and any dialect's quotes as Toggle, is the DFA's way.       *)
HandedOver == \/ phase = "fill" /\ total_consumed = base /\ validated = 0
              \/ phase = "simd"
SearchIsExact ==
  LET found   == P!Scan(config, Reader, job.assumption, job.find)
      skipped == P!SkipEmptyLines(config, Reader, record_start)
  IN  /\ phase = "skip" => found.state = "RecordEnd" /\ record_start = found.at
      /\ HandedOver => base = skipped.at /\ ~skipped.outlasts

(* A refill in any place changes nothing: the records and the result are   *)
(* those of a pass that reads the file at once.  Where the file cannot be  *)
(* read, or is not text, the pass may fail before that one would stop,     *)
(* since bytes are read and validated ahead; at the first byte that is     *)
(* wrong, and after records that are right.                                *)
Trimmed(field) ==
  LET from == FirstInk(field, 0, Len(field))
  IN  SubSeq(field, from + 1, AfterLastInk(field, from, Len(field)))
AsTrimmed(record) ==
  IF config.trim
  THEN [record EXCEPT !.fields = [k \in DOMAIN @ |-> Trimmed(@[k])]] ELSE record
FirstInvalid == base + ValidLength(SubSeq(job.bytes, base + 1, Len(job.bytes)))
SameRecords(whole) ==
  \A k \in DOMAIN records : k \in DOMAIN whole /\ records[k] = AsTrimmed(whole[k])
AgreesWith(whole) ==
  /\ SameRecords(whole.records)
  /\ \/ result.error = P!IoError
     \/ result.error.kind = "Utf8" /\ result.error.at = FirstInvalid
     \/ /\ result.error = whole.error /\ Len(records) = Len(whole.records)
        /\ record_start = whole.record_start
        /\ result.last_record_end = whole.record_end
RefillsAreInvisible ==
  phase = "returned" => AgreesWith(P!Parse(config, Reader, job.assumption, job.find))

(* Every pass comes to an end: no call of fill goes round in circles.      *)
EveryPassReturns == <>(phase \in {"returned", "simd"})

=============================================================================
