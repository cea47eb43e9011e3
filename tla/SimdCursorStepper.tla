------------------------- MODULE SimdCursorStepper --------------------------
(***************************************************************************)
(* The stepper for dialects without a quote                                *)
(* (src/parser/simd/cursor_stepper.rs): the boundaries of fields, as       *)
(* offsets into the buffer; a field begins behind the one before.          *)
(* Boundaries that have been emitted are dropped at once.                  *)
(***************************************************************************)
EXTENDS SimdMasks

P == INSTANCE ChunkParser

NewStepper ==
  [pending |-> NoVector, phase |-> 0, needs_align_prologue |-> TRUE,
   bounds |-> <<>>, cell_start |-> 0, has_runs |-> FALSE,
   last_record_end |-> P!NoOffset]

ArityError(c, st, b, total_consumed) ==
  P!Error("NumberOfFields",
          total_consumed + LocateBadRecord(c, b, Min({st.cell_start, Len(b)}), c.field_count))

(* The vector held back is verified and its boundaries taken over, now     *)
(* that the terminator behind it is known: [ok, st].                       *)
Publish(c, st, next_is_term) ==
  LET held     == st.pending
      run_end  == TerminatorRunEnds(held.term, next_is_term)
      d_struct == held.delim \cup run_end
      verdict  == VerifyPext(c.field_count, st.phase, d_struct, run_end)
  IN  IF held = NoVector THEN [ok |-> TRUE, st |-> st]
      ELSE [ok |-> verdict.ok,
            st |-> [st EXCEPT !.phase = verdict.phase,
                              !.has_runs = @ \/ run_end # held.term,
                              !.bounds = @ \o Offsets(d_struct, held.base)]]

Hold(published, s, base) ==
  [published EXCEPT !.st.pending = [delim |-> s.delim, term |-> s.term, base |-> base]]

ScanVector(c, st, v, base) ==
  LET s == MatchStructural(c, v)
  IN  Hold(Publish(c, st, Lsb(s.term)), s, base)

Vectorless(st) == st.pending = NoVector
Pending(st) == Len(st.bounds)

-----------------------------------------------------------------------------
(* emit_records.  The boundary of a record is the last byte of its run of  *)
(* terminators, so its last field ends where the run starts.               *)
Begin(st, k) == IF k = 1 THEN st.cell_start ELSE st.bounds[k - 1] + 1

End(c, st, b, k) ==
  IF ~st.has_runs \/ k % c.field_count # 0 THEN st.bounds[k]
  ELSE CHOOSE e \in Begin(st, k)..st.bounds[k] :
         /\ \A i \in e..(st.bounds[k] - 1) : IsTerm(c, b, i)
         /\ e > Begin(st, k) => ~IsTerm(c, b, e - 1)

Records(c, st, b, count) ==
  [rec \in 1..count |->
     [k \in 1..c.field_count |->
        LET f == (rec - 1) * c.field_count + k
        IN  SubSeq(b, Begin(st, f) + 1, End(c, st, b, f))]]

Nothing(st, b) == [st |-> st, buf |-> b, records |-> <<>>, stop |-> FALSE]
Flushed(c, st, b, total_consumed, remaining, count, stop) ==
  LET last == count * c.field_count
      run_start == IF st.has_runs THEN End(c, st, b, last) ELSE st.bounds[last]
  IN  [st |-> [st EXCEPT !.bounds = SubSeq(@, last + 1, Len(@)),
                         !.cell_start = st.bounds[last] + 1,
                         !.last_record_end =
                            total_consumed + Handoff(run_start, remaining, stop)],
       buf |-> b,
       records |-> Records(c, st, b, count),
       stop |-> stop]

(* flush: up to the first record whose terminator is not before the        *)
(* boundary.  finalize does the same one record at a time.                 *)
FlushRecords(c, st, b, remaining, total_consumed) ==
  LET avail == Len(st.bounds) \div c.field_count
      past  == {k \in 1..avail : st.bounds[k * c.field_count] >= remaining}
      count == IF past = {} THEN avail ELSE Min(past)
  IN  IF avail = 0 THEN Nothing(st, b)
      ELSE Flushed(c, st, b, total_consumed, remaining, count, past # {})

-----------------------------------------------------------------------------
(* A variant: the vector held back stays where it was.                     *)
BaseKept(base, n) == base

(* A base in front of the buffer is a word close to the largest and does   *)
(* not saturate.                                                           *)
ShiftedBase(base, n) == IF base < 0 THEN base - n ELSE Minus(base, n)
Shifted(st, n) ==
  [st EXCEPT !.cell_start = Minus(@, n),
             !.bounds = [k \in DOMAIN @ |-> Minus(@[k], n)],
             !.pending = IF @ = NoVector THEN @
                         ELSE [delim |-> @.delim, term |-> @.term,
                               base |-> ShiftedBase(@.base, n)]]
Consumable(st) == st.cell_start

(* finalize: the vector held back, then the tail: [ok, st].                *)
Drain(c, st) ==
  LET published == Publish(c, st, FALSE)
  IN  [published EXCEPT !.st.pending = NoVector]
Drained(c, st, b, cursor) ==
  IF ~HasTail(c, b, cursor) THEN Drain(c, st)
  ELSE LET scanned == ScanVector(c, st, TailVector(c, b, cursor), cursor)
       IN  IF scanned.ok THEN Drain(c, scanned.st) ELSE scanned

=============================================================================
