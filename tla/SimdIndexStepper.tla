-------------------------- MODULE SimdIndexStepper --------------------------
(***************************************************************************)
(* The stepper for dialects with a quote                                   *)
(* (src/parser/simd/index_stepper.rs, index.rs): where fields begin and    *)
(* end, and which of their bytes go, as offsets into the buffer; a record  *)
(* is the next so many of each.  Offsets that have been emitted are        *)
(* dropped at once, where the code drops them from time to time.           *)
(***************************************************************************)
EXTENDS SimdMasks

P == INSTANCE ChunkParser

NewStepper ==
  [scanner |-> NewScanner, phase |-> 0, needs_align_prologue |-> TRUE,
   b_offs |-> <<0>>, e_offs |-> <<>>, r_offs |-> <<>>,
   record_buf_start |-> 0, last_record_end |-> P!NoOffset]

ArityError(c, st, b, total_consumed) ==
  P!Error("NumberOfFields",
          total_consumed + LocateBadRecord(c, b, Min({st.record_buf_start, Len(b)}),
                                           c.field_count))

(* What the scanner released is verified and taken over: [ok, st].         *)
Publish(c, st, released, base) ==
  LET out     == released.out
      verdict == VerifyPext(c.field_count, st.phase, out.d_struct, out.term)
  IN  IF out = NoVector THEN [ok |-> TRUE, st |-> [st EXCEPT !.scanner = released.scanner]]
      ELSE [ok |-> verdict.ok,
            st |-> [st EXCEPT !.scanner = released.scanner, !.phase = verdict.phase,
                              !.b_offs = @ \o Offsets(out.b, base),
                              !.e_offs = @ \o Offsets(out.e, base),
                              !.r_offs = @ \o Offsets(out.r, base)]]

ScanVector(c, st, v, cursor) ==
  Publish(c, st, ScannerStep(c, st.scanner, v), cursor - VectorBytes)

Vectorless(st) == st.scanner.pending = NoVector
Pending(st) == Len(st.e_offs)

-----------------------------------------------------------------------------
(* assemble_records_fixed: the fields of the next `count` records, and the *)
(* buffer with their bytes moved together.                                 *)
Removed(st, k) == {r \in Range(st.r_offs) : st.b_offs[k] <= r /\ r < st.e_offs[k]}

Field(st, b, k) ==
  LET kept == [i \in 1..(st.e_offs[k] - st.b_offs[k]) |-> st.b_offs[k] + i - 1]
      stays(offset) == offset \notin Removed(st, k)
      left == SelectSeq(kept, stays)
  IN  [i \in DOMAIN left |-> b[left[i] + 1]]

Records(c, st, b, count) ==
  [rec \in 1..count |->
     [k \in 1..c.field_count |-> Field(st, b, (rec - 1) * c.field_count + k)]]

FieldOf(c, st, offset, count) ==
  {k \in 1..(count * c.field_count) : st.b_offs[k] <= offset /\ offset < st.e_offs[k]}
Compacted(c, st, b, count) ==
  [i \in DOMAIN b |->
     IF \E k \in FieldOf(c, st, i - 1, count) : i - st.b_offs[k] \in DOMAIN Field(st, b, k)
     THEN LET k == CHOOSE k \in FieldOf(c, st, i - 1, count) : TRUE
          IN  Field(st, b, k)[i - st.b_offs[k]]
     ELSE b[i]]

-----------------------------------------------------------------------------
(* The run of terminators behind a field that ends at `e`, as far as the   *)
(* vectors up to `resolved_end` tell: its start, and its last byte.  A run *)
(* that reaches the boundary needs no end; one that reaches the vector     *)
(* held back may go on there.                                              *)
Unresolved == [resolved |-> FALSE]
TermOf(c, b, e, resolved_end, remaining) ==
  LET walk_cap == Min({resolved_end, remaining + 1})
      starts   == {p \in e..(resolved_end - 1) : IsTerm(c, b, p)}
      start    == Min(starts)
      end      == CHOOSE p \in start..Max({start, walk_cap - 1}) :
                    /\ \A i \in start..p : IsTerm(c, b, i)
                    /\ p + 1 < walk_cap => ~IsTerm(c, b, p + 1)
  IN  IF starts = {} THEN Unresolved
      ELSE IF end + 1 < walk_cap
           THEN [resolved |-> TRUE, start |-> start, ended |-> TRUE, end |-> end]
           ELSE IF walk_cap < resolved_end
                THEN [resolved |-> TRUE, start |-> start, ended |-> FALSE, end |-> end]
                ELSE Unresolved

Consumed(st, fields) ==
  [st EXCEPT !.b_offs = SubSeq(@, fields + 1, Len(@)), !.e_offs = SubSeq(@, fields + 1, Len(@)),
             !.r_offs = LET beyond == {k \in DOMAIN @ : @[k] > st.e_offs[fields]}
                        IN  IF beyond = {} THEN <<>> ELSE SubSeq(@, Min(beyond), Len(@))]

(* flush_records: what `count` records make of [st, buf, records, stop].   *)
Nothing(st, b) == [st |-> st, buf |-> b, records |-> <<>>, stop |-> FALSE]
Flushed(c, st, b, total_consumed, remaining, count, stop, term) ==
  LET anchor == total_consumed + Handoff(term.start, remaining, stop)
      kept   == Consumed(st, count * c.field_count)
  IN  [st |-> [kept EXCEPT !.record_buf_start = IF term.ended THEN term.end + 1 ELSE @,
                           !.last_record_end = anchor],
       buf |-> Compacted(c, st, b, count),
       records |-> Records(c, st, b, count),
       stop |-> stop]

(* How many of the resolved records belong to the chunk: up to the first   *)
(* whose run of terminators does not end before the boundary.              *)
Belonging(terms, avail, remaining) ==
  LET before == {k \in 0..avail :
                   \A i \in 1..k : terms[i].resolved /\ terms[i].ended /\ terms[i].end < remaining}
  IN  IF terms[avail].ended /\ terms[avail].end < remaining
      THEN [count |-> avail, stop |-> FALSE]
      ELSE [count |-> Max(before) + 1, stop |-> TRUE]

FlushRecords(c, st, b, resolved_end, remaining, total_consumed) ==
  LET n     == c.field_count
      terms == [k \in 1..(Len(st.e_offs) \div n) |->
                  TermOf(c, b, st.e_offs[k * n], resolved_end, remaining)]
      avail == Max({0} \cup {k \in DOMAIN terms : terms[k].resolved})
      take  == IF remaining = 0 THEN [count |-> 1, stop |-> TRUE]
               ELSE Belonging(terms, avail, remaining)
  IN  IF avail = 0 THEN Nothing(st, b)
      ELSE Flushed(c, st, b, total_consumed, remaining, take.count, take.stop, terms[take.count])

-----------------------------------------------------------------------------
Shifted(st, n) ==
  [st EXCEPT !.record_buf_start = Minus(@, n),
             !.b_offs = [k \in DOMAIN @ |-> Minus(@[k], n)],
             !.e_offs = [k \in DOMAIN @ |-> Minus(@[k], n)],
             !.r_offs = [k \in DOMAIN @ |-> Minus(@[k], n)]]
Consumable(st) == st.record_buf_start

-----------------------------------------------------------------------------
(* finalize.                                                               *)
(* The tail vector, then the one held back: [ok, st].                      *)
Drain(c, st, cursor) == Publish(c, st, ScannerFinalize(c, st.scanner), cursor - VectorBytes)
Drained(c, st, b, cursor) ==
  IF ~HasTail(c, b, cursor) THEN Drain(c, st, cursor)
  ELSE LET scanned == ScanVector(c, st, TailVector(c, b, cursor), cursor)
       IN  IF scanned.ok THEN Drain(c, scanned.st, cursor + VectorBytes) ELSE scanned

(* The opening quote of the field in flight.                               *)
UnclosedAt(c, st, b) ==
  LET at == IF st.b_offs = <<>> THEN Len(b) ELSE st.b_offs[Len(st.b_offs)]
  IN  IF at > 0 /\ at <= Len(b) /\ b[at] = c.quote THEN at - 1 ELSE at

WithoutPad(st, b) ==
  LET upto(offset) == offset <= Len(b)
      below(offset) == offset < Len(b)
  IN  [st EXCEPT !.b_offs = SelectSeq(@, upto), !.e_offs = SelectSeq(@, upto),
                 !.r_offs = SelectSeq(@, below)]

(* One record at a time, to the first that ends past the boundary.         *)
LastRun(c, st, b, k) ==
  LET start == Min({Len(b)} \cup {p \in st.e_offs[k]..(Len(b) - 1) : IsTerm(c, b, p)})
      end   == CHOOSE p \in start..Max({start, Len(b) - 1}) :
                 /\ \A i \in (start + 1)..p : IsTerm(c, b, i)
                 /\ p + 1 < Len(b) => ~IsTerm(c, b, p + 1)
  IN  [start |-> start, end |-> end, ended |-> TRUE]

Remaining(c, st, b, remaining) ==
  LET n    == c.field_count
      runs == [k \in 1..(Len(st.e_offs) \div n) |-> LastRun(c, st, b, k * n)]
      past == {k \in DOMAIN runs : runs[k].end + 1 > remaining}
  IN  [runs |-> runs, stop |-> past # {},
       count |-> IF past # {} THEN Min(past) ELSE Len(runs)]

FlushRemaining(c, st, b, remaining, total_consumed) ==
  LET left == Remaining(c, st, b, remaining)
  IN  IF left.count = 0 THEN Nothing(st, b)
      ELSE Flushed(c, st, b, total_consumed, remaining, left.count, left.stop,
                   left.runs[left.count])

=============================================================================
