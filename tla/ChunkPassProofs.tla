-------------------------- MODULE ChunkPassProofs ---------------------------
(***************************************************************************)
(* Proofs about the transition table, about module ChunkPass, and about    *)
(* the driver and the stepper it runs: for files, chunks, dialects,        *)
(* windows and refills of any size.                                        *)
(***************************************************************************)
EXTENDS ChunkPass, WellFoundedInduction, SequenceTheorems, TLAPS

-----------------------------------------------------------------------------
(* A set of natural numbers has a least element: the proofs about loops,   *)
(* and about operators defined by CHOOSE, rest on it.                      *)
LEMMA LeastElement ==
  ASSUME NEW T \in SUBSET Nat, T # {}
  PROVE  \E x \in T : \A y \in T : x <= y
<1> DEFINE R == OpToRel(<, Nat)
<1>1. IsWellFoundedOn(R, Nat)
  BY NatLessThanWellFounded, Zenon
<1>2. \A x, y \in Nat : x < y => <<x, y>> \in R
  BY Zenon DEF OpToRel
<1> HIDE DEF R
<1>3. PICK x \in T : \A y \in T : ~(<<y, x>> \in R)
  BY <1>1, WFMin
<1>4. ASSUME NEW y \in T  PROVE x <= y
  <2>1. x \in Nat /\ y \in Nat
    OBVIOUS
  <2>2. ~(y < x)
    BY <1>2, <1>3, <2>1
  <2> QED BY <2>1, <2>2
<1> QED BY <1>3, <1>4

(* And a last one, if they are bounded.                                    *)
LEMMA GreatestElement ==
  ASSUME NEW n \in Nat, NEW T \in SUBSET (0..n), T # {}
  PROVE  \E x \in T : \A y \in T : y <= x
<1> DEFINE Mirrored == {k \in Nat : n - k \in T}
<1>1. Mirrored \in SUBSET Nat
  OBVIOUS
<1>2. PICK t \in T : TRUE
  OBVIOUS
<1>3. n - t \in Nat /\ n - (n - t) = t
  OBVIOUS
<1>4. Mirrored # {}
  BY <1>2, <1>3
<1> HIDE DEF Mirrored
<1>5. PICK k \in Mirrored : \A j \in Mirrored : k <= j
  BY <1>1, <1>4, LeastElement
<1>6. n - k \in T /\ k \in Nat
  BY <1>5 DEF Mirrored
<1>7. ASSUME NEW y \in T  PROVE y <= n - k
  <2>1. y \in 0..n
    OBVIOUS
  <2>2. n - y \in Nat /\ n - (n - y) = y
    BY <2>1
  <2>3. n - y \in Mirrored
    BY <2>2 DEF Mirrored
  <2>4. k <= n - y
    BY <1>5, <2>3
  <2> QED BY <1>6, <2>1, <2>4
<1> QED BY <1>6, <1>7

(* A part of a sequence.                                                   *)
LEMMA Slice ==
  ASSUME NEW S, NEW s \in Seq(S), NEW from \in Nat, NEW to \in Nat,
         from <= to, to <= Len(s)
  PROVE  /\ SubSeq(s, from + 1, to) \in Seq(S)
         /\ Len(SubSeq(s, from + 1, to)) = to - from
         /\ \A i \in 1..(to - from) : SubSeq(s, from + 1, to)[i] = s[from + i]
<1>1. Len(s) \in Nat /\ \A i \in 1..Len(s) : s[i] \in S
  OBVIOUS
<1>2. \A i \in (from + 1)..to : s[i] \in S
  BY <1>1
<1>3. /\ SubSeq(s, from + 1, to) \in Seq(S)
      /\ Len(SubSeq(s, from + 1, to)) = IF from + 1 <= to THEN to - (from + 1) + 1 ELSE 0
      /\ \A i \in 1..(to - (from + 1) + 1) :
           SubSeq(s, from + 1, to)[i] = s[(from + 1) + i - 1]
  <2>1. from + 1 \in Int /\ to \in Int
    OBVIOUS
  <2> QED BY <1>2, <2>1, SubSeqProperties
<1>4. (IF from + 1 <= to THEN to - (from + 1) + 1 ELSE 0) = to - from
  OBVIOUS
<1>5. to - (from + 1) + 1 = to - from /\ \A i \in Int : (from + 1) + i - 1 = from + i
  OBVIOUS
<1> QED BY <1>3, <1>4, <1>5

-----------------------------------------------------------------------------
(* The table is total: each byte leads from an interior state, the only    *)
(* kind the steppers store, to an interior state or an action              *)
(* (stepper.rs:400, "action states never leak out of the hot loop").       *)
THEOREM TableIsTotal ==
  ASSUME NEW c, ValidDialect(c), NEW state \in InteriorStates, NEW b
  PROVE  Transition(c, state, b).next \in InteriorStates \cup ActionStates
<1> USE DEF InteriorStates, ActionStates, Consume, Emit, Cell
<1>1. FieldStartCell(c, b).next \in InteriorStates \cup ActionStates
  BY DEF FieldStartCell
<1>2. InFieldCell(c, b).next \in InteriorStates \cup ActionStates
  BY DEF InFieldCell, MidFieldQuoteCell, ValidDialect, QuoteHandlings
<1>3. InQuotedFieldCell(c, b).next \in InteriorStates
  BY DEF InQuotedFieldCell
<1>4. AfterClosingQuoteCell(c, b).next \in InteriorStates \cup ActionStates
  BY DEF AfterClosingQuoteCell
<1>5. InCommentCell(c, b).next \in InteriorStates
  BY DEF InCommentCell
<1>6. RecordStartCell(c, b).next \in InteriorStates \cup ActionStates
  BY <1>1 DEF RecordStartCell
<1>7. QED
  BY <1>1, <1>2, <1>3, <1>4, <1>5, <1>6 DEF Transition

(* A search that does not probe rejects no byte: find_dfa reads every      *)
(* dialect as Toggle, and Toggle has no error cell (scheduler/mod.rs:472). *)
THEOREM ToggleNeverRejects ==
  ASSUME NEW c, c.quote_handling = "Toggle", NEW state \in InteriorStates, NEW b
  PROVE  Transition(c, state, b).next # "Error"
<1> USE DEF Consume, Emit, Cell
<1>1. FieldStartCell(c, b).next # "Error"
  BY DEF FieldStartCell
<1>2. InFieldCell(c, b).next # "Error"
  BY DEF InFieldCell, MidFieldQuoteCell
<1>3. InQuotedFieldCell(c, b).next # "Error"
  BY DEF InQuotedFieldCell
<1>4. AfterClosingQuoteCell(c, b).next # "Error"
  BY DEF AfterClosingQuoteCell
<1>5. InCommentCell(c, b).next # "Error" /\ RecordStartCell(c, b).next # "Error"
  BY <1>1 DEF InCommentCell, RecordStartCell
<1>6. QED
  BY <1>1, <1>2, <1>3, <1>4, <1>5 DEF Transition, InteriorStates

(* The strict probe rejects exactly what a strict parse does: where the    *)
(* Toggle table is tagged the Strict table has an error, and elsewhere     *)
(* they agree.                                                             *)
THEOREM ProbeIsTheStrictDialect ==
  ASSUME NEW toggle, NEW strict, NEW state \in InteriorStates, NEW b,
         toggle.quote_handling = "Toggle", strict.quote_handling = "Strict",
         \A field \in {"quote", "escape", "delimiter", "comment", "terminator"} :
           toggle[field] = strict[field]
  PROVE  LET probed == Transition(toggle, state, b)
             parsed == Transition(strict, state, b)
         IN  IF probed.strict THEN parsed.next = "Error" ELSE probed = parsed
<1> DEFINE Agree(probed, parsed) ==
      IF probed.strict THEN parsed.next = "Error" ELSE probed = parsed
<1> USE DEF Consume, Emit, Cell
<1>1. /\ toggle.quote = strict.quote /\ toggle.escape = strict.escape
      /\ toggle.delimiter = strict.delimiter /\ toggle.comment = strict.comment
      /\ toggle.terminator = strict.terminator
  OBVIOUS
<1>2. /\ Terminators(toggle) = Terminators(strict)
      /\ CommentEnds(toggle) = CommentEnds(strict)
      /\ DoubledQuotes(toggle) <=> DoubledQuotes(strict)
  BY <1>1 DEF Terminators, CommentEnds, DoubledQuotes
<1>3. Agree(FieldStartCell(toggle, b), FieldStartCell(strict, b))
  BY <1>1, <1>2 DEF FieldStartCell
<1>4. Agree(InFieldCell(toggle, b), InFieldCell(strict, b))
  BY <1>1, <1>2 DEF InFieldCell, MidFieldQuoteCell
<1>5. Agree(InQuotedFieldCell(toggle, b), InQuotedFieldCell(strict, b))
  BY <1>1, <1>2 DEF InQuotedFieldCell
<1>6. Agree(AfterClosingQuoteCell(toggle, b), AfterClosingQuoteCell(strict, b))
  BY <1>1, <1>2 DEF AfterClosingQuoteCell
<1>7. Agree(InCommentCell(toggle, b), InCommentCell(strict, b))
  BY <1>1, <1>2 DEF InCommentCell
<1>8. Agree(RecordStartCell(toggle, b), RecordStartCell(strict, b))
  BY <1>1, <1>2, <1>3 DEF RecordStartCell
<1>9. QED
  BY <1>3, <1>4, <1>5, <1>6, <1>7, <1>8 DEF Transition, InteriorStates

-----------------------------------------------------------------------------
(* What the operators of the model promise.                                *)
LEMMA MinusIs ==
  ASSUME NEW a \in Nat, NEW b \in Nat
  PROVE  Minus(a, b) \in Nat /\ (b <= a => Minus(a, b) = a - b) /\ Minus(a, b) <= a
BY DEF Minus

LEMMA LeastIs ==
  ASSUME NEW a \in Int, NEW b \in Int
  PROVE  Least(a, b) \in {a, b} /\ Least(a, b) <= a /\ Least(a, b) <= b
BY DEF Least

(* str::from_utf8's valid_up_to is the length of some prefix.              *)
LEMMA ValidUpToIs ==
  ASSUME NEW bytes \in Seq(STRING)
  PROVE  /\ ValidUpTo(bytes) \in 0..Len(bytes)
         /\ IsText(SubSeq(bytes, 1, ValidUpTo(bytes)))
         /\ \A m \in (ValidUpTo(bytes) + 1)..Len(bytes) : ~IsText(SubSeq(bytes, 1, m))
<1> DEFINE T == {n \in 0..Len(bytes) : IsText(SubSeq(bytes, 1, n))}
<1>1. Len(bytes) \in Nat /\ T \in SUBSET (0..Len(bytes))
  OBVIOUS
<1>2. 0 \in T
  <2>1. SubSeq(bytes, 1, 0) = <<>>
    BY SubSeqEmpty
  <2>2. IsText(<<>>)
    BY DEF IsText
  <2>3. 0 \in 0..Len(bytes)
    BY <1>1
  <2> QED BY <2>1, <2>2, <2>3
<1> HIDE DEF T
<1>3. PICK n \in T : \A m \in T : m <= n
  BY <1>1, <1>2, GreatestElement
<1>4. n \in 0..Len(bytes) /\ IsText(SubSeq(bytes, 1, n))
  BY <1>3 DEF T
<1>5. \A m \in (n + 1)..Len(bytes) : ~IsText(SubSeq(bytes, 1, m))
  <2>1. ASSUME NEW m \in (n + 1)..Len(bytes), IsText(SubSeq(bytes, 1, m))  PROVE FALSE
    <3>1. m \in 0..Len(bytes) /\ ~(m <= n)
      BY <1>1, <1>4
    <3>2. m \in T
      BY <2>1, <3>1 DEF T
    <3> QED BY <1>3, <3>1, <3>2
  <2> QED BY <2>1
<1>6. \E k \in 0..Len(bytes) :
        /\ IsText(SubSeq(bytes, 1, k))
        /\ \A m \in (k + 1)..Len(bytes) : ~IsText(SubSeq(bytes, 1, m))
  BY <1>4, <1>5
<1> QED BY <1>6, Zenon DEF ValidUpTo

LEMMA ValidLengthIs ==
  ASSUME NEW bytes \in Seq(STRING)
  PROVE  /\ ValidLength(bytes) \in 0..Len(bytes)
         /\ config.text => IsText(SubSeq(bytes, 1, ValidLength(bytes)))
<1>1. Len(bytes) \in 0..Len(bytes)
  OBVIOUS
<1> QED BY <1>1, ValidUpToIs DEF ValidLength

(* trim_ascii keeps a part of the field, possibly none of it.              *)
LEMMA FirstInkIs ==
  ASSUME NEW b, NEW from \in Nat, NEW to \in Nat, from <= to
  PROVE  /\ FirstInk(b, from, to) \in from..to
         /\ FirstInk(b, from, to) = to \/ ~IsSpace(b[FirstInk(b, from, to) + 1])
         /\ \A k \in from..(FirstInk(b, from, to) - 1) : IsSpace(b[k + 1])
<1> DEFINE T == {i \in from..to : i = to \/ ~IsSpace(b[i + 1])}
<1>1. T \in SUBSET Nat /\ to \in T
  OBVIOUS
<1> HIDE DEF T
<1>2. PICK i \in T : \A k \in T : i <= k
  BY <1>1, LeastElement
<1>3. i \in from..to /\ (i = to \/ ~IsSpace(b[i + 1]))
  BY <1>2 DEF T
<1>4. ASSUME NEW k \in from..(i - 1)  PROVE IsSpace(b[k + 1])
  <2>1. k \in from..to /\ ~(i <= k)
    BY <1>3
  <2>2. k \notin T
    BY <1>2, <2>1
  <2> QED BY <2>1, <2>2 DEF T
<1>5. \E j \in from..to : /\ j = to \/ ~IsSpace(b[j + 1])
                          /\ \A k \in from..(j - 1) : IsSpace(b[k + 1])
  BY <1>3, <1>4
<1> QED BY <1>5, Zenon DEF FirstInk

LEMMA AfterLastInkIs ==
  ASSUME NEW b, NEW from \in Nat, NEW to \in Nat, from <= to
  PROVE  /\ AfterLastInk(b, from, to) \in from..to
         /\ AfterLastInk(b, from, to) = from \/ ~IsSpace(b[AfterLastInk(b, from, to)])
         /\ \A k \in (AfterLastInk(b, from, to) + 1)..to : IsSpace(b[k])
<1> DEFINE T == {i \in from..to : i = from \/ ~IsSpace(b[i])}
<1>1. T \in SUBSET (0..to) /\ from \in T
  OBVIOUS
<1> HIDE DEF T
<1>2. PICK i \in T : \A k \in T : k <= i
  BY <1>1, GreatestElement
<1>3. i \in from..to /\ (i = from \/ ~IsSpace(b[i]))
  BY <1>2 DEF T
<1>4. ASSUME NEW k \in (i + 1)..to  PROVE IsSpace(b[k])
  <2>1. k \in from..to /\ ~(k <= i)
    BY <1>3
  <2>2. k \notin T
    BY <1>2, <2>1
  <2> QED BY <2>1, <2>2 DEF T
<1>5. \E j \in from..to : /\ j = from \/ ~IsSpace(b[j])
                          /\ \A k \in (j + 1)..to : IsSpace(b[k])
  BY <1>3, <1>4
<1> QED BY <1>5, Zenon DEF AfterLastInk

-----------------------------------------------------------------------------
(* The types, and that nothing is counted twice: what was consumed of the  *)
(* reader is what the search, or the driver behind its base, has counted.  *)
Spans == [off : Nat, end : Nat]
Steppers ==
  [state : InteriorStates, field_start : Nat, write_pos : Nat, record_buf_start : Nat,
   spans : Seq(Spans), last_record_end : Int, record_in_start : Int, field_in_start : Int]
Phases == {"lead", "scan", "skip", "simd", "fill", "validate", "step", "finish", "returned"}

Types ==
  /\ job \in Jobs /\ phase \in Phases /\ buf \in Seq(STRING)
  /\ validated \in Nat /\ pos \in Nat /\ base \in Nat /\ total_consumed \in Nat
  /\ position = total_consumed
  /\ st \in Steppers

(* Before the parse begins there is nothing in flight.                     *)
NotBegun ==
  Searching \/ phase = "simd" =>
    /\ validated = 0 /\ pos = 0 /\ records = <<>>
    /\ st.field_start = 0 /\ st.write_pos = 0 /\ st.record_buf_start = 0 /\ st.spans = <<>>

(* The cursors and the bytes, the two the runs check.                      *)
DriverInv == Types /\ NotBegun /\ CursorsInOrder /\ UnreadBytesIntact

LEMMA SpanIs ==
  ASSUME NEW s \in Seq(Spans), NEW k \in 1..Len(s)
  PROVE  s[k] \in Spans /\ s[k].off \in Nat /\ s[k].end \in Nat
<1>1. s[k] \in Spans
  OBVIOUS
<1> QED BY <1>1 DEF Spans

LEMMA ASpan ==
  ASSUME NEW from \in Nat, NEW to \in Nat
  PROVE  /\ [off |-> from, end |-> to] \in Spans
         /\ [off |-> from, end |-> to].off = from /\ [off |-> from, end |-> to].end = to
BY DEF Spans

(* What SpansInOrder says, with the types of what it compares.             *)
LEMMA SpansOf ==
  ASSUME NEW s \in Steppers, SpansInOrder(s)
  PROVE  /\ s.spans \in Seq(Spans) /\ Len(s.spans) \in Nat /\ DOMAIN s.spans = 1..Len(s.spans)
         /\ s.record_buf_start \in Nat /\ s.field_start \in Nat /\ s.write_pos \in Nat
         /\ \A k \in 1..Len(s.spans) :
              /\ s.spans[k] \in Spans /\ s.spans[k].off \in Nat /\ s.spans[k].end \in Nat
              /\ s.record_buf_start <= s.spans[k].off /\ s.spans[k].off <= s.spans[k].end
              /\ s.spans[k].end <= s.field_start
              /\ k > 1 => s.spans[k - 1].end <= s.spans[k].off
<1>1. /\ s.spans \in Seq(Spans) /\ Len(s.spans) \in Nat /\ DOMAIN s.spans = 1..Len(s.spans)
      /\ s.record_buf_start \in Nat /\ s.field_start \in Nat /\ s.write_pos \in Nat
  BY DEF Steppers
<1>2. \A k \in 1..Len(s.spans) :
        s.spans[k] \in Spans /\ s.spans[k].off \in Nat /\ s.spans[k].end \in Nat
  BY <1>1, SpanIs
<1>3. \A k \in 1..Len(s.spans) :
        /\ s.record_buf_start <= s.spans[k].off /\ s.spans[k].off <= s.spans[k].end
        /\ s.spans[k].end <= s.field_start
        /\ k > 1 => s.spans[k - 1].end <= s.spans[k].off
  BY <1>1, Zenon DEF SpansInOrder
<1> QED BY <1>1, <1>2, <1>3

LEMMA NewStepperIs ==
  ASSUME NEW from \in Nat
  PROVE  /\ NewStepper(from) \in Steppers /\ SpansInOrder(NewStepper(from))
         /\ NewStepper(from).field_start = 0 /\ NewStepper(from).write_pos = 0
         /\ NewStepper(from).record_buf_start = 0 /\ NewStepper(from).spans = <<>>
BY DEF NewStepper, Steppers, InteriorStates, SpansInOrder, P!NoOffset

(* A field pushed lies between the last one and the next.                  *)
LEMMA FieldSpanIs ==
  ASSUME NEW b, NEW s \in Steppers, s.field_start <= s.write_pos
  PROVE  /\ FieldSpan(b, s) \in Spans
         /\ s.field_start <= FieldSpan(b, s).off /\ FieldSpan(b, s).off <= FieldSpan(b, s).end
         /\ FieldSpan(b, s).end <= s.write_pos
<1>1. s.field_start \in Nat /\ s.write_pos \in Nat
  BY DEF Steppers
<1>2. CASE ~config.trim
  <2>1. FieldSpan(b, s) = [off |-> s.field_start, end |-> s.write_pos]
    BY <1>2 DEF FieldSpan, Span
  <2> QED BY <1>1, <2>1 DEF Spans
<1>3. CASE config.trim
  <2> DEFINE from == FirstInk(b, s.field_start, s.write_pos)
             to == AfterLastInk(b, from, s.write_pos)
  <2>1. from \in s.field_start..s.write_pos
    BY <1>1, FirstInkIs
  <2>2. from \in Nat /\ from <= s.write_pos
    BY <1>1, <2>1
  <2> HIDE DEF from
  <2>3. to \in from..s.write_pos
    BY <1>1, <2>2, AfterLastInkIs
  <2>4. FieldSpan(b, s) = [off |-> from, end |-> to]
    BY <1>3 DEF FieldSpan, Span, from
  <2> HIDE DEF to
  <2> QED BY <1>1, <2>1, <2>2, <2>3, <2>4 DEF Spans
<1> QED BY <1>2, <1>3

LEMMA PushFieldIs ==
  ASSUME NEW b, NEW s \in Steppers, NEW p \in Nat, total_consumed \in Nat, SpansInOrder(s),
         s.record_buf_start <= s.field_start, s.field_start <= s.write_pos, s.write_pos <= p
  PROVE  /\ PushField(b, s, p) \in Steppers
         /\ PushField(b, s, p).field_start = p /\ PushField(b, s, p).write_pos = p
         /\ PushField(b, s, p).record_buf_start = s.record_buf_start
         /\ PushField(b, s, p).state = s.state
         /\ PushField(b, s, p).record_in_start = s.record_in_start
         /\ PushField(b, s, p).field_in_start = total_consumed + p
         /\ PushField(b, s, p).last_record_end = s.last_record_end
         /\ PushField(b, s, p).spans = Append(s.spans, FieldSpan(b, s))
         /\ SpansInOrder(PushField(b, s, p))
<1> DEFINE span == FieldSpan(b, s)
           t == PushField(b, s, p)
           n == Len(s.spans)
<1>1. /\ span \in Spans /\ s.field_start <= span.off /\ span.off <= span.end
      /\ span.end <= s.write_pos
  BY FieldSpanIs
<1> HIDE DEF span
<1>2. /\ s.spans \in Seq(Spans) /\ n \in Nat /\ DOMAIN s.spans = 1..n
      /\ s.record_buf_start \in Nat /\ s.field_start \in Nat /\ s.write_pos \in Nat
  BY SpansOf
<1>3. /\ Append(s.spans, span) \in Seq(Spans) /\ Len(Append(s.spans, span)) = n + 1
      /\ \A k \in 1..n : Append(s.spans, span)[k] = s.spans[k]
      /\ Append(s.spans, span)[n + 1] = span
  BY <1>1, <1>2, AppendProperties
<1>4. t = [s EXCEPT !.spans = Append(s.spans, span), !.field_start = p, !.write_pos = p,
                    !.field_in_start = total_consumed + p]
  BY DEF PushField, span
<1>5. /\ t \in Steppers /\ t.field_start = p /\ t.write_pos = p /\ t.state = s.state
      /\ t.record_buf_start = s.record_buf_start /\ t.record_in_start = s.record_in_start
      /\ t.field_in_start = total_consumed + p /\ t.spans = Append(s.spans, span)
      /\ t.last_record_end = s.last_record_end
  <2> DEFINE appended == Append(s.spans, span)
             here == total_consumed + p
  <2>1. appended \in Seq(Spans) /\ here \in Int
    BY <1>3
  <2>2. t = [s EXCEPT !.spans = appended, !.field_start = p, !.write_pos = p,
                      !.field_in_start = here]
    BY <1>4
  <2> HIDE DEF appended, here, t
  <2>3. t \in Steppers
    BY <2>1, <2>2 DEF Steppers
  <2>4. /\ t.field_start = p /\ t.write_pos = p /\ t.state = s.state
        /\ t.record_buf_start = s.record_buf_start /\ t.record_in_start = s.record_in_start
        /\ t.field_in_start = here /\ t.spans = appended
        /\ t.last_record_end = s.last_record_end
    BY <2>1, <2>2 DEF Steppers
  <2> QED BY <2>3, <2>4 DEF appended, here
<1> HIDE DEF n, t
<1>6. ASSUME NEW k \in DOMAIN t.spans
      PROVE  /\ t.record_buf_start <= t.spans[k].off /\ t.spans[k].off <= t.spans[k].end
             /\ t.spans[k].end <= t.field_start
             /\ k > 1 => t.spans[k - 1].end <= t.spans[k].off
  <2>1. k \in 1..(n + 1) /\ (k > 1 => k - 1 \in 1..n)
    BY <1>2, <1>3, <1>5
  <2>2. \A j \in 1..n : /\ s.spans[j].off \in Nat /\ s.spans[j].end \in Nat
                        /\ s.record_buf_start <= s.spans[j].off /\ s.spans[j].off <= s.spans[j].end
                        /\ s.spans[j].end <= s.field_start
                        /\ j > 1 => s.spans[j - 1].end <= s.spans[j].off
    BY SpansOf DEF n
  <2>3. span.off \in Nat /\ span.end \in Nat
    BY <1>1 DEF Spans
  <2>4. CASE k \in 1..n
    <3>1. t.spans[k] = s.spans[k] /\ (k > 1 => t.spans[k - 1] = s.spans[k - 1])
      BY <1>3, <1>5, <2>1, <2>4
    <3>2. /\ s.record_buf_start <= s.spans[k].off /\ s.spans[k].off <= s.spans[k].end
          /\ s.spans[k].end \in Nat /\ s.spans[k].end <= s.field_start
          /\ k > 1 => s.spans[k - 1].end <= s.spans[k].off
      BY <2>2, <2>4
    <3>3. s.spans[k].end <= p
      BY <1>2, <3>2
    <3> QED BY <1>5, <3>1, <3>2, <3>3
  <2>5. CASE k = n + 1
    <3>1. t.spans[k] = span /\ (k > 1 => t.spans[k - 1] = s.spans[k - 1])
      BY <1>3, <1>5, <2>1, <2>5
    <3>2. k > 1 => s.spans[k - 1].end \in Nat /\ s.spans[k - 1].end <= s.field_start
      BY <2>1, <2>2
    <3>3. s.record_buf_start <= span.off /\ span.end <= p
      BY <1>1, <1>2, <2>3
    <3>4. k > 1 => s.spans[k - 1].end <= span.off
      BY <1>1, <1>2, <2>3, <3>2
    <3> QED BY <1>1, <1>5, <3>1, <3>3, <3>4
  <2> QED BY <1>2, <2>1, <2>4, <2>5
<1> QED BY <1>5, <1>6 DEF SpansInOrder, t, span

LEMMA AtRecordStartIs ==
  ASSUME NEW s \in Steppers, total_consumed \in Nat, pos \in Nat
  PROVE  /\ AtRecordStart(s) \in Steppers /\ AtRecordStart(s).state = s.state
         /\ AtRecordStart(s).field_start = s.field_start
         /\ AtRecordStart(s).write_pos = s.write_pos
         /\ AtRecordStart(s).record_buf_start = s.record_buf_start
         /\ AtRecordStart(s).spans = s.spans
         /\ SpansInOrder(s) => SpansInOrder(AtRecordStart(s))
<1>1. CASE s.state = "RecordStart"
  <2> DEFINE here == total_consumed + pos
             t == AtRecordStart(s)
  <2>1. t = [s EXCEPT !.record_in_start = here, !.field_in_start = here] /\ here \in Int
    BY <1>1 DEF AtRecordStart
  <2> HIDE DEF here, t
  <2>2. t \in Steppers
    BY <2>1 DEF Steppers
  <2>3. /\ t.state = s.state /\ t.field_start = s.field_start /\ t.write_pos = s.write_pos
        /\ t.record_buf_start = s.record_buf_start /\ t.spans = s.spans
    BY <2>1 DEF Steppers
  <2> QED BY <2>2, <2>3 DEF t, SpansInOrder
<1>2. CASE s.state # "RecordStart"
  BY <1>2 DEF AtRecordStart
<1> QED BY <1>1, <1>2

(* consume moves every cursor by what is consumed.                         *)
LEMMA ShiftedIs ==
  ASSUME NEW s \in Steppers, NEW n \in Nat, SpansInOrder(s),
         s.record_buf_start <= s.field_start, s.field_start <= s.write_pos,
         n <= s.record_buf_start \/ (s.spans = <<>> /\ s.field_start = s.write_pos /\ s.write_pos <= n)
  PROVE  /\ Shifted(s, n) \in Steppers /\ SpansInOrder(Shifted(s, n))
         /\ Shifted(s, n).record_buf_start = Minus(s.record_buf_start, n)
         /\ Shifted(s, n).field_start = Minus(s.field_start, n)
         /\ Shifted(s, n).write_pos = Minus(s.write_pos, n)
         /\ Shifted(s, n).state = s.state
         /\ Shifted(s, n).record_in_start = s.record_in_start
         /\ Shifted(s, n).field_in_start = s.field_in_start
         /\ Shifted(s, n).last_record_end = s.last_record_end
         /\ Len(Shifted(s, n).spans) = Len(s.spans)
         /\ \A k \in 1..Len(s.spans) : /\ s.spans[k].off \in Nat /\ s.spans[k].end \in Nat
                                       /\ n <= s.spans[k].off /\ s.spans[k].off <= s.spans[k].end
                                       /\ Shifted(s, n).spans[k].off = s.spans[k].off - n
                                       /\ Shifted(s, n).spans[k].end = s.spans[k].end - n
<1> DEFINE t == Shifted(s, n)
           moved == [k \in DOMAIN s.spans |-> Span(Minus(s.spans[k].off, n), s.spans[k].end - n)]
           m == Len(s.spans)
<1>1. /\ s.spans \in Seq(Spans) /\ m \in Nat /\ DOMAIN s.spans = 1..m
      /\ s.record_buf_start \in Nat /\ s.field_start \in Nat /\ s.write_pos \in Nat
      /\ \A k \in 1..m : /\ s.spans[k].off \in Nat /\ s.spans[k].end \in Nat
                         /\ s.record_buf_start <= s.spans[k].off /\ s.spans[k].off <= s.spans[k].end
                         /\ s.spans[k].end <= s.field_start
                         /\ k > 1 => s.spans[k - 1].end <= s.spans[k].off
  BY SpansOf
<1>2. \A k \in 1..m : n <= s.record_buf_start
  BY <1>1
<1> HIDE DEF m
<1>3. ASSUME NEW k \in 1..m
      PROVE  /\ n <= s.spans[k].off /\ n <= s.spans[k].end
             /\ moved[k] = [off |-> s.spans[k].off - n, end |-> s.spans[k].end - n]
             /\ moved[k] \in Spans
             /\ moved[k].off = s.spans[k].off - n /\ moved[k].end = s.spans[k].end - n
  <2>1. n <= s.spans[k].off /\ n <= s.spans[k].end
    BY <1>1, <1>2
  <2>2. moved[k] = Span(Minus(s.spans[k].off, n), s.spans[k].end - n)
    BY <1>1
  <2>3. Minus(s.spans[k].off, n) = s.spans[k].off - n
    BY <1>1, <2>1, MinusIs
  <2>4. s.spans[k].off - n \in Nat /\ s.spans[k].end - n \in Nat
    BY <1>1, <2>1
  <2> QED BY <2>1, <2>2, <2>3, <2>4, ASpan DEF Span
<1>5. moved \in Seq(Spans) /\ Len(moved) = m /\ DOMAIN moved = 1..m
  <2>1. moved = [k \in 1..m |-> moved[k]]
    BY <1>1
  <2> HIDE DEF moved
  <2>2. moved \in [1..m -> Spans]
    BY <1>3, <2>1
  <2> QED BY <1>1, <2>2
<1>6. t = [s EXCEPT !.field_start = Minus(s.field_start, n), !.write_pos = Minus(s.write_pos, n),
                    !.record_buf_start = Minus(s.record_buf_start, n), !.spans = moved]
  BY DEF Shifted
<1> HIDE DEF moved, t, m
<1>7. /\ Minus(s.field_start, n) \in Nat /\ Minus(s.write_pos, n) \in Nat
      /\ Minus(s.record_buf_start, n) \in Nat
  BY <1>1, MinusIs
<1>8. /\ t \in Steppers /\ t.field_start = Minus(s.field_start, n)
      /\ t.write_pos = Minus(s.write_pos, n) /\ t.record_buf_start = Minus(s.record_buf_start, n)
      /\ t.spans = moved /\ t.state = s.state
      /\ t.record_in_start = s.record_in_start /\ t.field_in_start = s.field_in_start
      /\ t.last_record_end = s.last_record_end
  BY <1>5, <1>6, <1>7 DEF Steppers
<1>9. ASSUME NEW k \in DOMAIN t.spans
      PROVE  /\ t.record_buf_start <= t.spans[k].off /\ t.spans[k].off <= t.spans[k].end
             /\ t.spans[k].end <= t.field_start
             /\ k > 1 => t.spans[k - 1].end <= t.spans[k].off
  <2>1. k \in 1..m
    BY <1>5, <1>8
  <2>2. t.spans[k].off = s.spans[k].off - n /\ t.spans[k].end = s.spans[k].end - n
    BY <1>3, <1>8, <2>1
  <2>3. k > 1 => /\ k - 1 \in 1..m /\ t.spans[k - 1].end = s.spans[k - 1].end - n
                 /\ s.spans[k - 1].end \in Nat /\ s.spans[k - 1].end <= s.spans[k].off
    <3>1. k > 1 => k - 1 \in 1..m
      BY <1>1, <2>1
    <3> QED BY <1>1, <1>3, <1>8, <2>1, <3>1
  <2>4. /\ s.spans[k].off \in Nat /\ s.spans[k].end \in Nat /\ s.record_buf_start <= s.spans[k].off
        /\ s.spans[k].off <= s.spans[k].end /\ s.spans[k].end <= s.field_start
        /\ n <= s.record_buf_start
    BY <1>1, <1>2, <2>1
  <2>5. n <= s.field_start
    BY <1>1, <2>4
  <2>6. t.field_start = s.field_start - n /\ t.record_buf_start = s.record_buf_start - n
    BY <1>1, <1>8, <2>4, <2>5, MinusIs
  <2>7. k > 1 => t.spans[k - 1].end <= t.spans[k].off
    BY <2>2, <2>3, <2>4
  <2>8. t.record_buf_start <= t.spans[k].off /\ t.spans[k].end <= t.field_start
    BY <1>1, <2>2, <2>4, <2>6, SMTT(60)
  <2> QED BY <2>2, <2>4, <2>7, <2>8
<1>10. SpansInOrder(t)
  BY <1>9 DEF SpansInOrder
<1>11. Len(t.spans) = m
  BY <1>5, <1>8
<1>12. \A k \in 1..m : t.spans[k].off = s.spans[k].off - n /\ t.spans[k].end = s.spans[k].end - n
  BY <1>3, <1>8
<1> QED BY <1>1, <1>3, <1>8, <1>10, <1>11, <1>12 DEF t, m

-----------------------------------------------------------------------------
(* What a refill adds is what follows in the file.                         *)
LEMMA FillsAre ==
  ASSUME buf \in Seq(STRING), job.bytes \in Seq(STRING), position \in Nat,
         position + Len(buf) <= Len(job.bytes), NEW n \in Nat, NEW filled \in Fills(n)
  PROVE  /\ filled \in Seq(STRING) /\ Len(filled) \in Nat
         /\ Len(buf) <= Len(filled) /\ position + Len(filled) <= Len(job.bytes)
         /\ Len(filled) >= n \/ position + Len(filled) = Len(job.bytes)
         /\ \A i \in 1..Len(buf) : filled[i] = buf[i]
         /\ \A i \in (Len(buf) + 1)..Len(filled) : filled[i] = job.bytes[position + i]
<1> DEFINE have == Len(buf)
           size == Len(job.bytes)
           rest == SubSeq(job.bytes, (position + have) + 1, size)
           whole == buf \o rest
<1>1. have \in Nat /\ size \in Nat /\ BytesLeft = size - position /\ position + have <= size
  BY DEF BytesLeft
<1>2. PICK len \in have..(size - position) : filled = SubSeq(whole, 1, len) /\ len >= Least(n, size - position)
  BY <1>1 DEF Fills, FilledTo
<1>3. len \in Nat /\ have <= len /\ len <= size - position
  BY <1>1
<1>4. /\ rest \in Seq(STRING) /\ Len(rest) = size - (position + have)
      /\ \A i \in 1..(size - (position + have)) : rest[i] = job.bytes[(position + have) + i]
  <2> DEFINE from == position + have
  <2>1. /\ job.bytes \in Seq(STRING) /\ from \in Nat /\ size \in Nat
        /\ from <= size /\ size <= Len(job.bytes)
    BY <1>1
  <2>2. rest = SubSeq(job.bytes, from + 1, size)
    OBVIOUS
  <2> HIDE DEF have, size, from, rest
  <2>3. /\ SubSeq(job.bytes, from + 1, size) \in Seq(STRING)
        /\ Len(SubSeq(job.bytes, from + 1, size)) = size - from
        /\ \A i \in 1..(size - from) : SubSeq(job.bytes, from + 1, size)[i] = job.bytes[from + i]
    BY <2>1, Slice, Zenon
  <2> QED BY <2>2, <2>3, Zenon DEF from
<1> HIDE DEF rest
<1>5. /\ whole \in Seq(STRING) /\ Len(whole) = have + (size - (position + have))
      /\ \A i \in 1..(have + (size - (position + have))) :
           whole[i] = IF i <= have THEN buf[i] ELSE rest[i - have]
  BY <1>4, ConcatProperties
<1> HIDE DEF whole, have, size
<1>6. len <= Len(whole) /\ Len(whole) = size - position
  BY <1>1, <1>3, <1>5
<1>7. /\ filled \in Seq(STRING) /\ Len(filled) = len
      /\ \A i \in 1..len : filled[i] = whole[i]
  <2>1. /\ SubSeq(whole, 0 + 1, len) \in Seq(STRING) /\ Len(SubSeq(whole, 0 + 1, len)) = len - 0
        /\ \A i \in 1..(len - 0) : SubSeq(whole, 0 + 1, len)[i] = whole[0 + i]
    BY <1>3, <1>5, <1>6, Slice
  <2>2. len - 0 = len /\ 0 + 1 = 1 /\ \A i \in 1..len : 0 + i = i
    BY <1>3
  <2> QED BY <1>2, <2>1, <2>2
<1>8. \A i \in 1..have : filled[i] = buf[i]
  <2>1. \A i \in 1..have : i \in 1..len /\ i \in 1..(have + (size - (position + have))) /\ i <= have
    BY <1>1, <1>3
  <2> QED BY <1>5, <1>7, <2>1
<1>9. \A i \in (have + 1)..len : filled[i] = job.bytes[position + i]
  <2>1. ASSUME NEW i \in (have + 1)..len  PROVE filled[i] = job.bytes[position + i]
    <3>1. /\ i \in 1..len /\ i \in 1..(have + (size - (position + have))) /\ ~(i <= have)
          /\ i - have \in 1..(size - (position + have)) /\ (position + have) + (i - have) = position + i
      BY <1>1, <1>3
    <3> QED BY <1>4, <1>5, <1>7, <3>1
  <2> QED BY <2>1
<1>10. len >= n \/ position + len = size
  BY <1>1, <1>2, <1>3, LeastIs
<1> QED BY <1>1, <1>3, <1>7, <1>8, <1>9, <1>10 DEF have, size

(* The facts of one state, unfolded once.                                  *)
LEMMA DriverFacts ==
  ASSUME DriverInv
  PROVE  /\ job \in Jobs /\ job.bytes \in Seq(STRING) /\ Len(job.bytes) \in Nat /\ job.limit \in Nat
         /\ ValidDialect(config)
         /\ buf \in Seq(STRING) /\ Len(buf) \in Nat
         /\ validated \in Nat /\ pos \in Nat /\ base \in Nat
         /\ total_consumed \in Nat /\ position = total_consumed
         /\ st \in Steppers /\ st.state \in InteriorStates
         /\ st.field_start \in Nat /\ st.write_pos \in Nat /\ st.record_buf_start \in Nat
         /\ st.record_buf_start <= st.field_start /\ st.field_start <= st.write_pos
         /\ st.write_pos <= pos /\ pos <= validated /\ validated <= Len(buf)
         /\ SpansInOrder(st)
         /\ total_consumed + Len(buf) <= Len(job.bytes)
         /\ \A i \in (pos + 1)..Len(buf) : buf[i] = job.bytes[total_consumed + i]
<1>1. job \in Jobs /\ buf \in Seq(STRING) /\ st \in Steppers
  BY DEF DriverInv, Types
<1>2. job.bytes \in Seq(STRING) /\ job.limit \in Nat /\ ValidDialect(config)
  BY <1>1, JobsAssumption DEF config
<1>3. /\ st.state \in InteriorStates /\ st.field_start \in Nat /\ st.write_pos \in Nat
      /\ st.record_buf_start \in Nat
  BY <1>1 DEF Steppers
<1>4. Len(job.bytes) \in Nat /\ Len(buf) \in Nat
  BY <1>1, <1>2
<1> QED BY <1>1, <1>2, <1>3, <1>4 DEF DriverInv, Types, CursorsInOrder, UnreadBytesIntact

(* A step that moves no cursor and no byte.                                *)
LEMMA NothingMoves ==
  ASSUME DriverInv, NotBegun', phase' \in Phases, base' \in Nat,
         UNCHANGED <<job, reader, validated, pos, total_consumed, st>>
  PROVE  DriverInv'
<1>1. /\ job' = job /\ buf' = buf /\ position' = position /\ validated' = validated /\ pos' = pos
      /\ total_consumed' = total_consumed /\ st' = st
  BY DEF reader
<1>2. Types'
  BY <1>1 DEF DriverInv, Types
<1>3. CursorsInOrder'
  BY <1>1 DEF DriverInv, CursorsInOrder, SpansInOrder
<1>4. UnreadBytesIntact'
  BY <1>1 DEF DriverInv, UnreadBytesIntact
<1> QED BY <1>2, <1>3, <1>4 DEF DriverInv

(* A refill appends what follows in the file.                              *)
LEMMA Refilled ==
  ASSUME DriverInv, NEW n \in Nat, NEW filled \in Fills(n), buf' = filled,
         NotBegun', phase' \in Phases, base' \in Nat,
         UNCHANGED <<job, position, validated, pos, total_consumed, st>>
  PROVE  DriverInv'
<1>1. /\ job' = job /\ position' = position /\ validated' = validated /\ pos' = pos
      /\ total_consumed' = total_consumed /\ st' = st
  OBVIOUS
<1>2. /\ job.bytes \in Seq(STRING) /\ buf \in Seq(STRING) /\ Len(buf) \in Nat /\ position \in Nat
      /\ position = total_consumed /\ position + Len(buf) <= Len(job.bytes)
      /\ validated \in Nat /\ validated <= Len(buf) /\ pos \in Nat
      /\ \A i \in (pos + 1)..Len(buf) : buf[i] = job.bytes[total_consumed + i]
  BY DriverFacts
<1>3. /\ filled \in Seq(STRING) /\ Len(filled) \in Nat
      /\ Len(buf) <= Len(filled) /\ position + Len(filled) <= Len(job.bytes)
      /\ \A i \in 1..Len(buf) : filled[i] = buf[i]
      /\ \A i \in (Len(buf) + 1)..Len(filled) : filled[i] = job.bytes[position + i]
  BY <1>2, FillsAre
<1>4. Types'
  BY <1>1, <1>3 DEF DriverInv, Types
<1>5. CursorsInOrder'
  <2>1. validated <= Len(filled)
    BY <1>2, <1>3, SMTT(30)
  <2> QED BY <1>1, <2>1 DEF DriverInv, CursorsInOrder, SpansInOrder
<1>6. ASSUME NEW i \in (pos + 1)..Len(filled)  PROVE filled[i] = job.bytes[total_consumed + i]
  <2>1. CASE i <= Len(buf)
    <3>1. i \in 1..Len(buf) /\ i \in (pos + 1)..Len(buf)
      BY <1>2, <2>1
    <3> QED BY <1>2, <1>3, <3>1
  <2>2. CASE ~(i <= Len(buf))
    <3>1. i \in (Len(buf) + 1)..Len(filled)
      BY <1>2, <1>3, <2>2
    <3> QED BY <1>2, <1>3, <3>1
  <2> QED BY <2>1, <2>2
<1>7. UnreadBytesIntact'
  BY <1>1, <1>2, <1>3, <1>6 DEF UnreadBytesIntact
<1> QED BY <1>4, <1>5, <1>7 DEF DriverInv

(* The search drops a byte it has read, at the front of the buffer.        *)
LEMMA Consumed ==
  ASSUME DriverInv, Searching, buf # <<>>, ConsumeByte, phase' = phase
  PROVE  DriverInv'
<1>1. /\ buf \in Seq(STRING) /\ Len(buf) \in Nat /\ pos = 0 /\ validated = 0
      /\ total_consumed \in Nat /\ position = total_consumed
      /\ total_consumed + Len(buf) <= Len(job.bytes) /\ Len(job.bytes) \in Nat
      /\ \A i \in (pos + 1)..Len(buf) : buf[i] = job.bytes[total_consumed + i]
  BY DriverFacts DEF DriverInv, NotBegun
<1>2. /\ job' = job /\ buf' = Tail(buf) /\ position' = position + 1 /\ base' = base
      /\ total_consumed' = total_consumed + 1 /\ validated' = validated /\ pos' = pos
      /\ st' = st /\ records' = records
  BY DEF ConsumeByte
<1>3. /\ Tail(buf) \in Seq(STRING) /\ Len(Tail(buf)) = Len(buf) - 1 /\ Len(Tail(buf)) \in Nat
      /\ \A i \in 1..Len(Tail(buf)) : Tail(buf)[i] = buf[i + 1]
  BY <1>1
<1>4. Types'
  BY <1>1, <1>2, <1>3 DEF DriverInv, Types
<1>5. NotBegun'
  BY <1>2 DEF DriverInv, NotBegun, Searching
<1>6. CursorsInOrder'
  <2>1. validated <= Len(Tail(buf))
    BY <1>1, <1>3
  <2> QED BY <1>2, <2>1 DEF DriverInv, CursorsInOrder, SpansInOrder
<1>7. UnreadBytesIntact'
  <2>1. (total_consumed + 1) + Len(Tail(buf)) <= Len(job.bytes)
    BY <1>1, <1>3
  <2>2. ASSUME NEW i \in (pos + 1)..Len(Tail(buf))
        PROVE  Tail(buf)[i] = job.bytes[(total_consumed + 1) + i]
    <3>1. /\ i \in 1..Len(Tail(buf)) /\ i + 1 \in (pos + 1)..Len(buf)
          /\ total_consumed + (i + 1) = (total_consumed + 1) + i
      BY <1>1, <1>3
    <3> QED BY <1>1, <1>3, <3>1
  <2> QED BY <1>2, <2>1, <2>2 DEF UnreadBytesIntact
<1> QED BY <1>4, <1>5, <1>6, <1>7 DEF DriverInv

(* The parse begins with new cursors, where the search has come to.        *)
LEMMA Begun ==
  ASSUME DriverInv, phase = "skip", Begin(total_consumed), UNCHANGED <<job, reader>>
  PROVE  DriverInv'
<1>1. /\ job' = job /\ buf' = buf /\ position' = position /\ phase' = "fill"
      /\ base' = total_consumed /\ total_consumed' = total_consumed
      /\ st' = NewStepper(total_consumed) /\ validated' = validated /\ pos' = pos
  BY DEF Begin, reader
<1>2. validated = 0 /\ pos = 0 /\ total_consumed \in Nat /\ Len(buf) \in Nat
  BY DriverFacts DEF DriverInv, NotBegun, Searching
<1>3. /\ NewStepper(total_consumed) \in Steppers /\ SpansInOrder(NewStepper(total_consumed))
      /\ NewStepper(total_consumed).field_start = 0 /\ NewStepper(total_consumed).write_pos = 0
      /\ NewStepper(total_consumed).record_buf_start = 0
  BY <1>2, NewStepperIs
<1>4. Types'
  BY <1>1, <1>2, <1>3 DEF DriverInv, Types, Phases
<1>5. NotBegun'
  BY <1>1 DEF NotBegun, Searching
<1>6. SpansInOrder(st')
  BY <1>1, <1>3
<1>7. CursorsInOrder'
  BY <1>1, <1>2, <1>3, <1>6 DEF CursorsInOrder, SpansInOrder
<1>8. UnreadBytesIntact'
  BY <1>1 DEF DriverInv, UnreadBytesIntact
<1> QED BY <1>4, <1>5, <1>7, <1>8 DEF DriverInv

(* Validation stops inside the buffer.                                     *)
LEMMA FreshIs ==
  ASSUME DriverInv
  PROVE  /\ Fresh \in Seq(STRING) /\ Len(Fresh) \in Nat /\ validated + Len(Fresh) <= Len(buf)
         /\ \A i \in 1..Len(Fresh) : Fresh[i] = buf[validated + i]
         /\ validated + Len(Fresh) = Len(buf) \/ Len(Fresh) >= MaxSequence
<1> DEFINE to == Least(Len(buf), validated + MaxSequence + ValidateWindow)
<1>1. /\ buf \in Seq(STRING) /\ Len(buf) \in Nat /\ validated \in Nat /\ validated <= Len(buf)
      /\ MaxSequence \in Nat /\ ValidateWindow \in Nat
  BY DriverFacts, WindowsAssumption
<1>2. /\ to \in Nat /\ validated <= to /\ to <= Len(buf)
      /\ to = Len(buf) \/ to - validated >= MaxSequence
  BY <1>1 DEF Least
<1>3. Fresh = SubSeq(buf, validated + 1, to)
  BY DEF Fresh
<1> HIDE DEF to
<1>4. /\ SubSeq(buf, validated + 1, to) \in Seq(STRING)
      /\ Len(SubSeq(buf, validated + 1, to)) = to - validated
      /\ \A i \in 1..(to - validated) : SubSeq(buf, validated + 1, to)[i] = buf[validated + i]
  BY <1>1, <1>2, Slice, Zenon
<1>5. /\ to - validated \in Nat /\ validated + (to - validated) <= Len(buf)
      /\ validated + (to - validated) = Len(buf) \/ to - validated >= MaxSequence
  BY <1>1, <1>2
<1> QED BY <1>3, <1>4, <1>5

LEMMA Validated ==
  ASSUME DriverInv, Validate(ValidLength(Fresh))
  PROVE  DriverInv'
<1> DEFINE valid == ValidLength(Fresh)
<1>1. /\ Fresh \in Seq(STRING) /\ Len(Fresh) \in Nat /\ validated + Len(Fresh) <= Len(buf)
      /\ validated \in Nat /\ pos \in Nat /\ pos <= validated /\ Len(buf) \in Nat
  BY FreshIs, DriverFacts
<1>2. valid \in 0..Len(Fresh)
  BY <1>1, ValidLengthIs
<1>3. /\ job' = job /\ buf' = buf /\ position' = position /\ base' = base /\ pos' = pos
      /\ total_consumed' = total_consumed /\ st' = st
      /\ validated' = validated + valid /\ phase' \in {"finish", "step"}
  BY DEF Validate, reader
<1> HIDE DEF valid
<1>4. validated + valid \in Nat /\ pos <= validated + valid /\ validated + valid <= Len(buf)
  BY <1>1, <1>2
<1>5. Types'
  BY <1>3, <1>4 DEF DriverInv, Types, Phases
<1>6. NotBegun'
  BY <1>3 DEF NotBegun, Searching
<1>7. CursorsInOrder'
  BY <1>3, <1>4 DEF DriverInv, CursorsInOrder, SpansInOrder
<1>8. UnreadBytesIntact'
  BY <1>3 DEF DriverInv, UnreadBytesIntact
<1> QED BY <1>5, <1>6, <1>7, <1>8 DEF DriverInv

(* One byte further, with no other cursor in front of the one that reads.  *)
LEMMA ByteRead ==
  ASSUME DriverInv, phase = "step", pos < validated, pos' = pos + 1,
         phase' \in {"step", "returned"}, st' \in Steppers, SpansInOrder(st'),
         st'.record_buf_start <= st'.field_start, st'.field_start <= st'.write_pos,
         st'.write_pos <= pos + 1,
         buf' \in Seq(STRING), Len(buf') = Len(buf),
         \A i \in (pos + 2)..Len(buf) : buf'[i] = buf[i],
         UNCHANGED <<job, position, base, validated, total_consumed>>
  PROVE  DriverInv'
<1>1. /\ job' = job /\ position' = position /\ validated' = validated
      /\ base' = base /\ total_consumed' = total_consumed
  OBVIOUS
<1>2. /\ pos \in Nat /\ validated \in Nat /\ Len(buf) \in Nat
      /\ total_consumed + Len(buf) <= Len(job.bytes)
      /\ \A i \in (pos + 1)..Len(buf) : buf[i] = job.bytes[total_consumed + i]
      /\ validated <= Len(buf)
  BY DriverFacts
<1>3. Types'
  BY <1>1, <1>2 DEF DriverInv, Types, Phases
<1>4. NotBegun'
  BY DEF NotBegun, Searching
<1>5. CursorsInOrder'
  <2>1. 0 <= st'.record_buf_start
    BY DEF Steppers
  <2>2. SpansInOrder(st)'
    BY DEF SpansInOrder
  <2>3. pos + 1 <= validated /\ validated <= Len(buf')
    BY <1>2
  <2> QED BY <1>1, <2>1, <2>2, <2>3 DEF CursorsInOrder
<1>6. UnreadBytesIntact'
  <2>1. \A i \in ((pos + 1) + 1)..Len(buf') : buf'[i] = job.bytes[total_consumed + i]
    <3>1. ASSUME NEW i \in ((pos + 1) + 1)..Len(buf')
          PROVE  i \in (pos + 1)..Len(buf) /\ i \in (pos + 2)..Len(buf)
      BY <1>2
    <3> QED BY <1>2, <3>1
  <2> QED BY <1>1, <1>2, <2>1 DEF UnreadBytesIntact
<1> QED BY <1>3, <1>4, <1>5, <1>6 DEF DriverInv

LEMMA LineSkipped ==
  ASSUME DriverInv, SkipEmptyLine
  PROVE  DriverInv'
<1>1. /\ phase = "step" /\ pos < validated /\ pos' = pos + 1 /\ phase' = phase
      /\ st' = st /\ buf' = buf /\ UNCHANGED <<job, position, base, validated, total_consumed>>
  BY DEF SkipEmptyLine, Scanning, reader
<1>2. st.write_pos <= pos + 1
  BY DriverFacts
<1> QED BY <1>1, <1>2, DriverFacts, ByteRead

(* The write goes where the reading has been.                              *)
LEMMA WrittenIs ==
  ASSUME DriverInv, Scanning, NEW cell
  PROVE  /\ Written(cell) \in Seq(STRING) /\ Len(Written(cell)) = Len(buf)
         /\ \A i \in 1..Len(buf) :
              Written(cell)[i] = IF cell.out /\ i = st.write_pos + 1 THEN Byte ELSE buf[i]
<1>1. /\ buf \in Seq(STRING) /\ Len(buf) \in Nat /\ pos \in Nat /\ pos < validated
      /\ validated \in Nat /\ validated <= Len(buf) /\ st.write_pos \in Nat /\ st.write_pos <= pos
  BY DriverFacts DEF Scanning
<1>2. pos + 1 \in 1..Len(buf) /\ st.write_pos + 1 \in 1..Len(buf)
  BY <1>1
<1>3. Byte \in STRING
  BY <1>1, <1>2 DEF Byte
<1> HIDE DEF Byte
<1>4. CASE cell.out
  <2> DEFINE at == st.write_pos + 1
  <2>1. Written(cell) = [buf EXCEPT ![at] = Byte] /\ at \in 1..Len(buf)
    BY <1>2, <1>4 DEF Written
  <2> HIDE DEF at
  <2>2. /\ [buf EXCEPT ![at] = Byte] \in Seq(STRING)
        /\ Len([buf EXCEPT ![at] = Byte]) = Len(buf)
        /\ \A i \in 1..Len(buf) : [buf EXCEPT ![at] = Byte][i] = IF i = at THEN Byte ELSE buf[i]
    BY <1>1, <1>3, <2>1
  <2> QED BY <1>4, <2>1, <2>2 DEF at
<1>5. CASE ~cell.out
  BY <1>1, <1>5 DEF Written
<1> QED BY <1>4, <1>5

LEMMA TakenIs ==
  ASSUME DriverInv, NEW cell, NEW state \in InteriorStates
  PROVE  LET t == [Taken(cell) EXCEPT !.state = state]
         IN  /\ t \in Steppers /\ t.state = state /\ SpansInOrder(t)
             /\ t.field_start = st.field_start /\ t.record_buf_start = st.record_buf_start
             /\ t.spans = st.spans
             /\ t.write_pos = IF cell.out THEN st.write_pos + 1 ELSE st.write_pos
             /\ t.record_in_start = AtRecordStart(st).record_in_start
             /\ t.field_in_start = AtRecordStart(st).field_in_start
             /\ t.last_record_end = AtRecordStart(st).last_record_end
<1> DEFINE s == AtRecordStart(st)
           w == IF cell.out THEN s.write_pos + 1 ELSE s.write_pos
           t == [Taken(cell) EXCEPT !.state = state]
<1>1. /\ s \in Steppers /\ s.field_start = st.field_start /\ s.write_pos = st.write_pos
      /\ s.record_buf_start = st.record_buf_start /\ s.spans = st.spans /\ SpansInOrder(s)
      /\ st.write_pos \in Nat
  BY DriverFacts, AtRecordStartIs
<1>2. w \in Nat /\ w = IF cell.out THEN st.write_pos + 1 ELSE st.write_pos
  BY <1>1
<1>3. t = [s EXCEPT !.write_pos = w, !.state = state]
  <2> HIDE DEF s
  <2>1. [s EXCEPT !.write_pos = IF cell.out THEN @ + 1 ELSE @] = [s EXCEPT !.write_pos = w]
    OBVIOUS
  <2> QED BY <1>1, <2>1 DEF Taken, Steppers, s
<1> HIDE DEF s, w, t
<1>4. /\ t \in Steppers /\ t.state = state /\ t.field_start = s.field_start
      /\ t.record_buf_start = s.record_buf_start /\ t.spans = s.spans /\ t.write_pos = w
      /\ t.record_in_start = s.record_in_start /\ t.field_in_start = s.field_in_start
      /\ t.last_record_end = s.last_record_end
  BY <1>1, <1>2, <1>3 DEF Steppers
<1>5. SpansInOrder(t)
  BY <1>1, <1>4 DEF SpansInOrder
<1> QED BY <1>1, <1>2, <1>4, <1>5 DEF t, s

LEMMA Took ==
  ASSUME DriverInv, Take(Transition(config, st.state, Byte))
  PROVE  DriverInv'
<1> DEFINE cell == Transition(config, st.state, Byte)
           t == [Taken(cell) EXCEPT !.state = cell.next]
<1>1. /\ ValidDialect(config) /\ st.state \in InteriorStates /\ pos \in Nat /\ Len(buf) \in Nat
      /\ st.write_pos \in Nat /\ st.field_start \in Nat /\ st.record_buf_start \in Nat
      /\ st.record_buf_start <= st.field_start /\ st.field_start <= st.write_pos
      /\ st.write_pos <= pos
  BY DriverFacts
<1>2. /\ Scanning /\ cell.next \notin ActionStates /\ buf' = Written(cell) /\ st' = t
      /\ pos' = pos + 1 /\ phase' = phase /\ records' = records
      /\ UNCHANGED <<job, position, base, validated, total_consumed>>
  BY DEF Take
<1>3. cell.next \in InteriorStates
  BY <1>1, <1>2, TableIsTotal
<1> HIDE DEF cell
<1>4. /\ t \in Steppers /\ SpansInOrder(t) /\ t.field_start = st.field_start
      /\ t.record_buf_start = st.record_buf_start
      /\ t.write_pos = IF cell.out THEN st.write_pos + 1 ELSE st.write_pos
  BY <1>3, TakenIs
<1> HIDE DEF t
<1>5. t.field_start <= t.write_pos /\ t.write_pos <= pos + 1
  BY <1>1, <1>4
<1>6. /\ Written(cell) \in Seq(STRING) /\ Len(Written(cell)) = Len(buf)
      /\ \A i \in 1..Len(buf) :
           Written(cell)[i] = IF cell.out /\ i = st.write_pos + 1 THEN Byte ELSE buf[i]
  BY <1>2, WrittenIs
<1>7. ASSUME NEW i \in (pos + 2)..Len(buf)  PROVE Written(cell)[i] = buf[i]
  <2>1. i \in 1..Len(buf) /\ i # st.write_pos + 1
    BY <1>1
  <2> QED BY <1>6, <2>1
<1>8. phase = "step" /\ pos < validated
  BY <1>2 DEF Scanning
<1> QED BY <1>1, <1>2, <1>4, <1>5, <1>6, <1>7, <1>8, ByteRead

(* The field that ends, and the cursors behind its delimiter.              *)
LEMMA ClosedIs ==
  ASSUME DriverInv
  PROVE  /\ Closed \in Steppers /\ SpansInOrder(Closed)
         /\ Closed.field_start = pos + 1 /\ Closed.write_pos = pos + 1
         /\ Closed.record_buf_start = st.record_buf_start
         /\ Closed.spans = Append(st.spans, FieldSpan(buf, AtRecordStart(st)))
         /\ Closed.record_in_start = AtRecordStart(st).record_in_start
         /\ Closed.field_in_start = total_consumed + (pos + 1)
         /\ Closed.last_record_end = AtRecordStart(st).last_record_end
<1> DEFINE s == AtRecordStart(st)
           p == pos + 1
<1>1. /\ s \in Steppers /\ s.field_start = st.field_start /\ s.write_pos = st.write_pos
      /\ s.record_buf_start = st.record_buf_start /\ s.spans = st.spans /\ SpansInOrder(s)
  BY DriverFacts, AtRecordStartIs
<1>2. /\ total_consumed \in Nat /\ st.record_buf_start <= st.field_start
      /\ st.field_start <= st.write_pos /\ st.write_pos <= pos /\ pos \in Nat /\ st.write_pos \in Nat
  BY DriverFacts
<1>3. p \in Nat /\ s.write_pos <= p
  BY <1>1, <1>2
<1>4. Closed = PushField(buf, s, p)
  BY DEF Closed
<1> HIDE DEF s, p
<1>5. /\ s \in Steppers /\ p \in Nat /\ total_consumed \in Nat /\ SpansInOrder(s)
      /\ s.record_buf_start <= s.field_start /\ s.field_start <= s.write_pos /\ s.write_pos <= p
  BY <1>1, <1>2, <1>3
<1>6. /\ PushField(buf, s, p) \in Steppers
      /\ PushField(buf, s, p).field_start = p /\ PushField(buf, s, p).write_pos = p
      /\ PushField(buf, s, p).record_buf_start = s.record_buf_start
      /\ PushField(buf, s, p).spans = Append(s.spans, FieldSpan(buf, s))
      /\ PushField(buf, s, p).record_in_start = s.record_in_start
      /\ PushField(buf, s, p).field_in_start = total_consumed + p
      /\ PushField(buf, s, p).last_record_end = s.last_record_end
      /\ SpansInOrder(PushField(buf, s, p))
  BY <1>5, PushFieldIs
<1>7. /\ Closed.field_start = p /\ Closed.write_pos = p
      /\ Closed.record_buf_start = st.record_buf_start
      /\ Closed.spans = Append(st.spans, FieldSpan(buf, s))
      /\ Closed.record_in_start = s.record_in_start /\ Closed.field_in_start = total_consumed + p
      /\ Closed.last_record_end = s.last_record_end
  BY <1>1, <1>4, <1>6, Zenon
<1> QED BY <1>4, <1>6, <1>7, Zenon DEF s, p

LEMMA FieldEnded ==
  ASSUME DriverInv, EndField(Transition(config, st.state, Byte))
  PROVE  DriverInv'
<1> DEFINE t == [Closed EXCEPT !.state = "FieldStart"]
<1>1. /\ Scanning /\ st' = t /\ pos' = pos + 1 /\ phase' = phase
      /\ buf' = buf /\ UNCHANGED <<job, position, base, validated, total_consumed>>
  BY DEF EndField, reader, Closed
<1>2. /\ Closed \in Steppers /\ SpansInOrder(Closed)
      /\ Closed.field_start = pos + 1 /\ Closed.write_pos = pos + 1
      /\ Closed.record_buf_start = st.record_buf_start
  BY ClosedIs
<1>3. /\ t \in Steppers /\ t.field_start = pos + 1 /\ t.write_pos = pos + 1
      /\ t.record_buf_start = st.record_buf_start /\ t.spans = Closed.spans
  <2> DEFINE s == Closed
  <2> HIDE DEF s
  <2> QED BY <1>2 DEF Steppers, InteriorStates, s
<1>4. SpansInOrder(t)
  BY <1>2, <1>3 DEF SpansInOrder
<1> HIDE DEF t
<1>5. /\ pos \in Nat /\ st.record_buf_start \in Nat /\ st.record_buf_start <= pos + 1
      /\ buf \in Seq(STRING)
  BY DriverFacts
<1>6. t.record_buf_start <= t.field_start /\ t.field_start <= t.write_pos /\ t.write_pos <= pos + 1
  BY <1>3, <1>5
<1>7. phase = "step" /\ pos < validated
  BY <1>1 DEF Scanning
<1> QED BY <1>1, <1>3, <1>4, <1>5, <1>6, <1>7, ByteRead

LEMMA RecordEnded ==
  ASSUME DriverInv, EndRecord(Transition(config, st.state, Byte))
  PROVE  DriverInv'
<1> DEFINE t == [Closed EXCEPT !.spans = <<>>, !.state = "RecordStart",
                               !.record_buf_start = pos + 1,
                               !.last_record_end = total_consumed + pos]
<1>1. /\ Scanning /\ st' = t /\ pos' = pos + 1 /\ phase' \in {phase, "returned"}
      /\ buf' = buf /\ UNCHANGED <<job, position, base, validated, total_consumed>>
  BY DEF EndRecord, reader, Return
<1>2. /\ Closed \in Steppers /\ Closed.field_start = pos + 1 /\ Closed.write_pos = pos + 1
  BY ClosedIs
<1>3. pos \in Nat /\ total_consumed \in Nat /\ buf \in Seq(STRING)
  BY DriverFacts
<1>4. /\ t \in Steppers /\ t.field_start = pos + 1 /\ t.write_pos = pos + 1
      /\ t.record_buf_start = pos + 1 /\ t.spans = <<>>
  <2> DEFINE s == Closed
             here == total_consumed + pos
             p == pos + 1
  <2>1. here \in Int /\ p \in Nat /\ <<>> \in Seq(Spans)
    BY <1>3
  <2> HIDE DEF s, here, p
  <2>2. /\ s \in Steppers /\ s.field_start = p /\ s.write_pos = p
        /\ t = [s EXCEPT !.spans = <<>>, !.state = "RecordStart", !.record_buf_start = p,
                         !.last_record_end = here]
    BY <1>2 DEF s, here, p
  <2> HIDE DEF t
  <2>3. t \in Steppers
    BY <2>1, <2>2 DEF Steppers, InteriorStates
  <2>4. t.field_start = p /\ t.write_pos = p /\ t.record_buf_start = p /\ t.spans = <<>>
    BY <2>1, <2>2 DEF Steppers
  <2> QED BY <2>3, <2>4 DEF p
<1> HIDE DEF t
<1>5. SpansInOrder(t)
  BY <1>4 DEF SpansInOrder
<1>6. t.record_buf_start <= t.field_start /\ t.field_start <= t.write_pos /\ t.write_pos <= pos + 1
  BY <1>3, <1>4
<1>7. phase = "step" /\ pos < validated
  BY <1>1 DEF Scanning
<1> QED BY <1>1, <1>3, <1>4, <1>5, <1>6, <1>7, ByteRead

(* The driver consumes what no cursor needs any more.                      *)
LEMMA ConsumableIs ==
  ASSUME DriverInv
  PROVE  /\ Consumable(st, pos) \in Nat /\ Consumable(st, pos) <= pos
         /\ \/ Consumable(st, pos) <= st.record_buf_start
            \/ /\ st.spans = <<>> /\ st.field_start = st.write_pos
               /\ st.write_pos <= Consumable(st, pos)
BY DriverFacts, SMTT(30) DEF Consumable

LEMMA Suspended ==
  ASSUME DriverInv, Suspend(Consumable(st, pos))
  PROVE  DriverInv'
<1> DEFINE n == Consumable(st, pos)
           kept == SubSeq(buf, n + 1, Len(buf))
           t == Shifted(st, n)
<1>1. /\ job' = job /\ buf' = kept /\ position' = position + n /\ base' = base
      /\ st' = t /\ total_consumed' = total_consumed + n /\ validated' = validated - n
      /\ pos' = pos - n /\ phase' = "fill"
  BY DEF Suspend
<1>2. /\ n \in Nat /\ n <= pos
      /\ n <= st.record_buf_start \/ (st.spans = <<>> /\ st.field_start = st.write_pos /\ st.write_pos <= n)
  BY ConsumableIs
<1>3. /\ buf \in Seq(STRING) /\ Len(buf) \in Nat /\ pos \in Nat /\ validated \in Nat
      /\ pos <= validated /\ validated <= Len(buf) /\ total_consumed \in Nat
      /\ position = total_consumed
      /\ st \in Steppers /\ st.field_start \in Nat /\ st.write_pos \in Nat
      /\ st.record_buf_start \in Nat /\ st.record_buf_start <= st.field_start
      /\ st.field_start <= st.write_pos /\ st.write_pos <= pos /\ SpansInOrder(st)
      /\ total_consumed + Len(buf) <= Len(job.bytes) /\ Len(job.bytes) \in Nat
      /\ \A i \in (pos + 1)..Len(buf) : buf[i] = job.bytes[total_consumed + i]
  BY DriverFacts
<1> HIDE DEF n
<1>4. n <= Len(buf)
  BY <1>2, <1>3
<1>5. /\ kept \in Seq(STRING) /\ Len(kept) = Len(buf) - n
      /\ \A i \in 1..(Len(buf) - n) : kept[i] = buf[n + i]
  BY <1>2, <1>3, <1>4, Slice
<1>6. /\ t \in Steppers /\ SpansInOrder(t)
      /\ t.record_buf_start = Minus(st.record_buf_start, n)
      /\ t.field_start = Minus(st.field_start, n) /\ t.write_pos = Minus(st.write_pos, n)
  BY <1>2, <1>3, ShiftedIs
<1> HIDE DEF kept, t
<1>7. Types'
  <2>1. /\ validated - n \in Nat /\ pos - n \in Nat /\ total_consumed + n \in Nat
        /\ position + n = total_consumed + n
    BY <1>2, <1>3
  <2>2. job \in Jobs /\ base \in Nat /\ "fill" \in Phases
    BY DEF DriverInv, Types, Phases
  <2> QED BY <1>1, <1>5, <1>6, <2>1, <2>2 DEF Types
<1>8. NotBegun'
  BY <1>1 DEF NotBegun, Searching
<1>9. CursorsInOrder'
  <2>1. /\ 0 <= Minus(st.record_buf_start, n)
        /\ Minus(st.record_buf_start, n) <= Minus(st.field_start, n)
        /\ Minus(st.field_start, n) <= Minus(st.write_pos, n)
        /\ Minus(st.write_pos, n) <= pos - n
        /\ pos - n <= validated - n /\ validated - n <= Len(buf) - n
    BY <1>2, <1>3, SMTT(60) DEF Minus
  <2>2. SpansInOrder(st)'
    BY <1>1, <1>6 DEF SpansInOrder
  <2> QED BY <1>1, <1>5, <1>6, <2>1, <2>2 DEF CursorsInOrder
<1>10. UnreadBytesIntact'
  <2>1. (total_consumed + n) + Len(kept) <= Len(job.bytes)
    BY <1>2, <1>3, <1>5
  <2>2. ASSUME NEW i \in ((pos - n) + 1)..Len(kept)
        PROVE  kept[i] = job.bytes[(total_consumed + n) + i]
    <3>1. /\ i \in 1..(Len(buf) - n) /\ n + i \in (pos + 1)..Len(buf)
          /\ total_consumed + (n + i) = (total_consumed + n) + i
      BY <1>2, <1>3, <1>5
    <3> QED BY <1>3, <1>5, <3>1
  <2> QED BY <1>1, <2>1, <2>2 DEF UnreadBytesIntact
<1> QED BY <1>7, <1>8, <1>9, <1>10 DEF DriverInv

(* A pass that returns leaves everything where it is.                      *)
LEMMA Returned ==
  ASSUME DriverInv, phase' = "returned", UNCHANGED <<job, reader, driver, st>>
  PROVE  DriverInv'
<1>1. base' \in Nat /\ UNCHANGED <<job, reader, validated, pos, total_consumed, st>>
  BY DriverFacts DEF driver
<1>2. NotBegun' /\ phase' \in Phases
  BY DEF NotBegun, Searching, Phases
<1> QED BY <1>1, <1>2, NothingMoves

LEMMA SearchSteps ==
  ASSUME DriverInv,
         \/ \E filled \in Fills(1) : Refill(filled)
         \/ SearchFails \/ FindNothing \/ Scan
         \/ SkipLines \/ LinesOutlastChunk \/ LeadSkipped \/ LinesSkipped
  PROVE  DriverInv'
<1>1. ASSUME NEW filled \in Fills(1), Refill(filled)  PROVE DriverInv'
  <2>1. /\ buf' = filled /\ phase' = phase /\ base' = base /\ Searching
        /\ UNCHANGED <<job, position, validated, pos, total_consumed, st, records>>
    BY <1>1 DEF Refill, driver
  <2>2. base' \in Nat /\ phase' \in Phases /\ 1 \in Nat
    BY <2>1, DriverFacts DEF DriverInv, Types
  <2>3. NotBegun'
    BY <2>1 DEF DriverInv, NotBegun, Searching
  <2> QED BY <2>1, <2>2, <2>3, Refilled
<1>2. ASSUME SearchFails \/ FindNothing \/ LinesOutlastChunk  PROVE DriverInv'
  BY <1>2, Returned DEF SearchFails, FindNothing, LinesOutlastChunk, Return
<1>3. ASSUME Scan  PROVE DriverInv'
  <2> DEFINE cell == Transition(SearchConfig, dfa_state, buf[1])
  <2>1. phase = "scan" /\ buf # <<>> /\ (ScanOn(cell) \/ FindRecord(cell) \/ RejectScan(cell))
    BY <1>3 DEF Scan, InChunk
  <2> HIDE DEF cell
  <2>2. CASE ScanOn(cell)
    BY <2>1, <2>2, Consumed DEF ScanOn, Searching
  <2>3. CASE FindRecord(cell)
    <3>1. /\ phase' = "skip" /\ base' = base /\ records' = records
          /\ UNCHANGED <<job, reader, validated, pos, total_consumed, st>>
      BY <2>3 DEF FindRecord, driver
    <3>2. NotBegun' /\ phase' \in Phases /\ base' \in Nat
      BY <2>1, <3>1, DriverFacts DEF DriverInv, NotBegun, Searching, Phases
    <3> QED BY <3>1, <3>2, NothingMoves
  <2>4. CASE RejectScan(cell)
    BY <2>4, Returned DEF RejectScan, Return
  <2> QED BY <2>1, <2>2, <2>3, <2>4
<1>4. ASSUME SkipLines  PROVE DriverInv'
  BY <1>4, Consumed DEF SkipLines, AtTerminator, Searching
<1>5. ASSUME LeadSkipped  PROVE DriverInv'
  <2>1. /\ phase = "lead" /\ phase' = "scan" /\ base' = base /\ records' = records
        /\ UNCHANGED <<job, reader, validated, pos, total_consumed, st>>
    BY <1>5 DEF LeadSkipped, driver
  <2>2. NotBegun' /\ phase' \in Phases /\ base' \in Nat
    BY <2>1, DriverFacts DEF DriverInv, NotBegun, Searching, Phases
  <2> QED BY <2>1, <2>2, NothingMoves
<1>6. ASSUME LinesSkipped  PROVE DriverInv'
  <2>1. CASE Begin(total_consumed)
    BY <1>6, <2>1, Begun DEF LinesSkipped
  <2>2. CASE ~Begin(total_consumed)
    <3>1. /\ phase = "skip" /\ phase' = "simd" /\ base' = total_consumed /\ records' = records
          /\ UNCHANGED <<job, reader, validated, pos, total_consumed, st>>
      BY <1>6, <2>2 DEF LinesSkipped
    <3>2. NotBegun' /\ phase' \in Phases /\ base' \in Nat
      BY <3>1, DriverFacts DEF DriverInv, NotBegun, Searching, Phases
    <3> QED BY <3>1, <3>2, NothingMoves
  <2> QED BY <2>1, <2>2
<1> QED BY <1>1, <1>2, <1>3, <1>4, <1>5, <1>6

LEMMA ParseSteps ==
  ASSUME DriverInv, Parse
  PROVE  DriverInv'
<1> DEFINE cell == Transition(config, st.state, Byte)
<1>1. ASSUME NEW filled \in Fills(validated + MaxSequence), Fill(filled)  PROVE DriverInv'
  <2>1. /\ buf' = filled /\ phase' = "validate" /\ base' = base
        /\ UNCHANGED <<job, position, validated, pos, total_consumed, st>>
    BY <1>1 DEF Fill, driver
  <2>2. base' \in Nat /\ phase' \in Phases /\ NotBegun'
    BY <2>1, DriverFacts DEF Phases, NotBegun, Searching
  <2>3. validated + MaxSequence \in Nat
    BY DriverFacts, WindowsAssumption
  <2> QED BY <2>1, <2>2, <2>3, Refilled
<1>2. ASSUME FillFails \/ RejectText(ValidLength(Fresh))  PROVE DriverInv'
  BY <1>2, Returned DEF FillFails, RejectText, Return
<1>3. ASSUME StepByte  PROVE DriverInv'
  <2>1. \/ SkipEmptyLine \/ StopOnEmptyLine
        \/ Take(cell) \/ RejectQuote(cell) \/ EndField(cell) \/ EndRecord(cell)
        \/ RejectRecord(cell)
    BY <1>3 DEF StepByte
  <2>2. CASE StopOnEmptyLine \/ RejectQuote(cell) \/ RejectRecord(cell)
    BY <2>2, Returned DEF StopOnEmptyLine, RejectQuote, RejectRecord, Return
  <2> QED BY <2>1, <2>2, LineSkipped, Took, FieldEnded, RecordEnded
<1>4. ASSUME RejectTail \/ FinishOutside \/ FinishQuoted \/ FinishRecord  PROVE DriverInv'
  BY <1>4, Returned DEF RejectTail, FinishOutside, FinishQuoted, FinishRecord, Return
<1> QED BY <1>1, <1>2, <1>3, <1>4, Validated, Suspended DEF Parse

-----------------------------------------------------------------------------
LEMMA DriverStarts ==
  Init => DriverInv
<1> SUFFICES ASSUME Init  PROVE DriverInv
  OBVIOUS
<1>1. /\ job \in Jobs /\ buf = <<>> /\ position = 0 /\ base = 0 /\ validated = 0 /\ pos = 0
      /\ total_consumed = 0 /\ st = NewStepper(0) /\ records = <<>> /\ phase = FirstPhase(job)
  BY DEF Init
<1>2. /\ st \in Steppers /\ SpansInOrder(st) /\ st.field_start = 0 /\ st.write_pos = 0
      /\ st.record_buf_start = 0 /\ st.spans = <<>>
  BY <1>1, NewStepperIs
<1>3. job.bytes \in Seq(STRING) /\ Len(job.bytes) \in Nat
  BY <1>1, JobsAssumption
<1>4. phase \in Phases
  BY <1>1 DEF FirstPhase, Phases
<1>5. buf \in Seq(STRING) /\ Len(buf) = 0
  BY <1>1
<1>6. Types
  BY <1>1, <1>2, <1>4, <1>5 DEF Types
<1>7. NotBegun
  BY <1>1, <1>2 DEF NotBegun
<1>8. CursorsInOrder
  BY <1>1, <1>2, <1>5 DEF CursorsInOrder
<1>9. UnreadBytesIntact
  BY <1>1, <1>3, <1>5 DEF UnreadBytesIntact
<1> QED BY <1>6, <1>7, <1>8, <1>9 DEF DriverInv

LEMMA DriverStays ==
  DriverInv /\ [Next]_passVars => DriverInv'
<1>1. ASSUME DriverInv, Next  PROVE DriverInv'
  BY <1>1, SearchSteps, ParseSteps DEF Next
<1>2. ASSUME DriverInv, UNCHANGED passVars  PROVE DriverInv'
  <2>1. /\ UNCHANGED <<job, reader, validated, pos, total_consumed, st>>
        /\ base' = base /\ phase' = phase /\ records' = records
    BY <1>2 DEF passVars, vars, driver
  <2>2. NotBegun' /\ phase' \in Phases /\ base' \in Nat
    BY <1>2, <2>1 DEF DriverInv, Types, NotBegun, Searching
  <2> QED BY <1>2, <2>1, <2>2, NothingMoves
<1> QED BY <1>1, <1>2

THEOREM DriverIsRight == Spec => []DriverInv
BY DriverStarts, DriverStays, PTL DEF Spec

(* However the buffer is refilled, the cursors of the stepper stay in      *)
(* order inside it, and the spans handed to the callback as exclusive      *)
(* references lie apart (stepper.rs:200, :264 and :366).                   *)
THEOREM CursorsStayInOrder == Spec => []CursorsInOrder
BY DriverIsRight, PTL DEF DriverInv

(* Compacting fields in place never reaches a byte that is still to be     *)
(* read: what is behind the read cursor is the file.                       *)
THEOREM CompactionNeverOvertakes == Spec => []UnreadBytesIntact
BY DriverIsRight, PTL DEF DriverInv

-----------------------------------------------------------------------------
(* Text.  The part of a sequence behind `from`, up to `to`, is a sequence  *)
(* of characters; or it would be with one more byte.                       *)
TextIn(s, from, to) ==
  \A i \in (from + 1)..to : /\ s[i] = "h" => i < to /\ s[i + 1] = "t"
                            /\ s[i] = "t" => i > from + 1 /\ s[i - 1] = "h"
CutIn(s, from, to) == from < to /\ s[to] = "h" /\ TextIn(s, from, to - 1)

Parsing == phase \in {"fill", "validate", "step", "finish"}

(* The stepper has read a character's first byte and written it.           *)
MidCharacter ==
  /\ total_consumed + pos > base /\ job.bytes[total_consumed + pos] = "h"
  /\ st.state # "InComment"

(* The bytes read are text from the parse's base on; what was written of   *)
(* the field follows them character by character; the spans are text.      *)
FieldFollows ==
  IF MidCharacter THEN CutIn(buf, st.field_start, st.write_pos)
                  ELSE TextIn(buf, st.field_start, st.write_pos)
SpansAreText == \A k \in DOMAIN st.spans : TextIn(buf, st.spans[k].off, st.spans[k].end)
ParseIsText ==
  /\ base <= total_consumed /\ (phase # "step" => pos = validated)
  /\ TextIn(job.bytes, base, total_consumed + validated)
  /\ st.state \in {"RecordStart", "InComment"} => st.field_start = st.write_pos
  /\ FieldFollows /\ SpansAreText
TextRecords ==
  [at : Int, fields : {f \in Seq(Seq(STRING)) : \A k \in DOMAIN f : IsText(f[k])}]
TextInv == config.text => records \in Seq(TextRecords) /\ (Parsing => ParseIsText)

(* The same bytes in another place are text there.                         *)
LEMMA TextMoves ==
  ASSUME NEW s, NEW t, NEW from \in Int, NEW to \in Int, NEW n \in Int, TextIn(s, from, to),
         \A i \in (from + 1)..to : t[i - n] = s[i]
  PROVE  TextIn(t, from - n, to - n)
<1> SUFFICES ASSUME NEW i \in ((from - n) + 1)..(to - n)
             PROVE  /\ t[i] = "h" => i < to - n /\ t[i + 1] = "t"
                    /\ t[i] = "t" => i > (from - n) + 1 /\ t[i - 1] = "h"
  BY DEF TextIn
<1>1. i + n \in (from + 1)..to /\ (i + n) - n = i
  OBVIOUS
<1>2. /\ t[i] = s[i + n]
      /\ s[i + n] = "h" => i + n < to /\ s[(i + n) + 1] = "t"
      /\ s[i + n] = "t" => i + n > from + 1 /\ s[(i + n) - 1] = "h"
  BY <1>1 DEF TextIn
<1>3. i + n < to => t[i + 1] = s[(i + n) + 1]
  <2>1. i + n < to => (i + n) + 1 \in (from + 1)..to /\ ((i + n) + 1) - n = i + 1
    BY <1>1
  <2> QED BY <2>1
<1>4. i + n > from + 1 => t[i - 1] = s[(i + n) - 1]
  <2>1. i + n > from + 1 => (i + n) - 1 \in (from + 1)..to /\ ((i + n) - 1) - n = i - 1
    BY <1>1
  <2> QED BY <2>1
<1>5. (i + n < to => i < to - n) /\ (i + n > from + 1 => i > (from - n) + 1)
  OBVIOUS
<1> QED BY <1>2, <1>3, <1>4, <1>5

LEMMA TextStays ==
  ASSUME NEW s, NEW t, NEW from \in Int, NEW to \in Int,
         \A i \in (from + 1)..to : t[i] = s[i]
  PROVE  /\ TextIn(s, from, to) => TextIn(t, from, to)
         /\ CutIn(s, from, to) => CutIn(t, from, to)
<1>1. ASSUME NEW b \in Int, b <= to, TextIn(s, from, b)  PROVE TextIn(t, from, b)
  <2>1. 0 \in Int /\ from - 0 = from /\ b - 0 = b
    OBVIOUS
  <2>2. \A i \in (from + 1)..b : t[i - 0] = s[i]
    <3>1. \A i \in (from + 1)..b : i \in (from + 1)..to /\ i - 0 = i
      BY <1>1
    <3> QED BY <3>1
  <2>3. TextIn(t, from - 0, b - 0)
    BY <1>1, <2>1, <2>2, TextMoves
  <2> QED BY <2>1, <2>3
<1>2. from < to => to \in (from + 1)..to
  OBVIOUS
<1>3. to - 1 \in Int /\ to - 1 <= to /\ to <= to
  OBVIOUS
<1>4. CutIn(s, from, to) => CutIn(t, from, to)
  BY <1>1, <1>2, <1>3 DEF CutIn
<1> QED BY <1>1, <1>3, <1>4

LEMMA TextIsIn ==
  ASSUME NEW t \in Seq(STRING)
  PROVE  IsText(t) <=> TextIn(t, 0, Len(t))
<1>1. DOMAIN t = 1..Len(t) /\ 0 + 1 = 1
  OBVIOUS
<1> QED BY <1>1 DEF IsText, TextIn

LEMMA TextSlice ==
  ASSUME NEW s \in Seq(STRING), NEW from \in Nat, NEW to \in Nat, from <= to, to <= Len(s)
  PROVE  IsText(SubSeq(s, from + 1, to)) <=> TextIn(s, from, to)
<1> DEFINE t == SubSeq(s, from + 1, to)
           m == to - from
<1>1. t \in Seq(STRING) /\ Len(t) = m /\ \A i \in 1..m : t[i] = s[from + i]
  BY Slice, Zenon
<1> HIDE DEF t
<1>2. /\ m \in Nat /\ from - from = 0 /\ 0 + from = from /\ m + from = to /\ to - from = m
      /\ 0 - (0 - from) = from /\ m - (0 - from) = to
  OBVIOUS
<1>3. ASSUME TextIn(s, from, to)  PROVE TextIn(t, 0, m)
  <2>1. \A i \in (from + 1)..to : t[i - from] = s[i]
    <3>1. \A i \in (from + 1)..to : i - from \in 1..m /\ from + (i - from) = i
      OBVIOUS
    <3> QED BY <1>1, <3>1
  <2>2. from \in Int /\ to \in Int
    OBVIOUS
  <2>3. TextIn(t, from - from, to - from)
    BY <1>3, <2>1, <2>2, TextMoves, Zenon
  <2> QED BY <1>2, <2>3
<1>4. ASSUME TextIn(t, 0, m)  PROVE TextIn(s, from, to)
  <2>1. \A i \in (0 + 1)..m : s[i - (0 - from)] = t[i]
    <3>1. \A i \in (0 + 1)..m : i \in 1..m /\ i - (0 - from) = from + i
      BY <1>2
    <3> QED BY <1>1, <3>1
  <2>2. m \in Int /\ 0 \in Int /\ 0 - from \in Int
    BY <1>2
  <2> HIDE DEF m
  <2>3. TextIn(s, 0 - (0 - from), m - (0 - from))
    BY <1>4, <2>1, <2>2, TextMoves
  <2> QED BY <1>2, <2>3
<1>5. IsText(t) <=> TextIn(t, 0, m)
  BY <1>1, TextIsIn
<1> QED BY <1>3, <1>4, <1>5 DEF t

LEMMA TextJoins ==
  ASSUME NEW s, NEW a \in Int, NEW b \in Int, NEW c \in Int, a <= b, b <= c,
         TextIn(s, a, b), TextIn(s, b, c)
  PROVE  TextIn(s, a, c)
<1> SUFFICES ASSUME NEW i \in (a + 1)..c
             PROVE  /\ s[i] = "h" => i < c /\ s[i + 1] = "t"
                    /\ s[i] = "t" => i > a + 1 /\ s[i - 1] = "h"
  BY DEF TextIn
<1>1. CASE i <= b
  <2>1. i \in (a + 1)..b
    BY <1>1
  <2>2. (s[i] = "h" => i < b /\ s[i + 1] = "t") /\ (s[i] = "t" => i > a + 1 /\ s[i - 1] = "h")
    BY <2>1 DEF TextIn
  <2> QED BY <2>2
<1>2. CASE ~(i <= b)
  <2>1. i \in (b + 1)..c
    BY <1>2
  <2>2. (s[i] = "h" => i < c /\ s[i + 1] = "t") /\ (s[i] = "t" => i > b + 1 /\ s[i - 1] = "h")
    BY <2>1 DEF TextIn
  <2> QED BY <2>2
<1> QED BY <1>1, <1>2

(* Cutting in front of a byte that continues nothing, or behind one that   *)
(* begins nothing, cuts no character.                                      *)
LEMMA TextCutsBefore ==
  ASSUME NEW s, NEW a \in Int, NEW b \in Int, NEW c \in Int, b <= c,
         TextIn(s, a, c), b = c \/ s[b + 1] # "t"
  PROVE  TextIn(s, a, b)
<1> SUFFICES ASSUME NEW i \in (a + 1)..b
             PROVE  /\ s[i] = "h" => i < b /\ s[i + 1] = "t"
                    /\ s[i] = "t" => i > a + 1 /\ s[i - 1] = "h"
  BY DEF TextIn
<1>1. i \in (a + 1)..c
  OBVIOUS
<1>2. (s[i] = "h" => i < c /\ s[i + 1] = "t") /\ (s[i] = "t" => i > a + 1 /\ s[i - 1] = "h")
  BY <1>1 DEF TextIn
<1>3. s[i] = "h" => i # b
  BY <1>2
<1> QED BY <1>2, <1>3

LEMMA TextCutsBehind ==
  ASSUME NEW s, NEW a \in Int, NEW b \in Int, NEW c \in Int, a <= b,
         TextIn(s, a, c), b = a \/ s[b] # "h"
  PROVE  TextIn(s, b, c)
<1> SUFFICES ASSUME NEW i \in (b + 1)..c
             PROVE  /\ s[i] = "h" => i < c /\ s[i + 1] = "t"
                    /\ s[i] = "t" => i > b + 1 /\ s[i - 1] = "h"
  BY DEF TextIn
<1>1. i \in (a + 1)..c
  OBVIOUS
<1>2. (s[i] = "h" => i < c /\ s[i + 1] = "t") /\ (s[i] = "t" => i > a + 1 /\ s[i - 1] = "h")
  BY <1>1 DEF TextIn
<1>3. s[i] = "t" => i # b + 1
  <2>1. ASSUME s[i] = "t", i = b + 1  PROVE FALSE
    <3>1. i > a + 1 /\ s[i - 1] = "h" /\ i - 1 = b
      BY <1>2, <2>1
    <3>2. b # a /\ s[b] = "h"
      BY <2>1, <3>1
    <3> QED BY <3>2
  <2> QED BY <2>1
<1> QED BY <1>2, <1>3

(* Text with one more byte.                                                *)
LEMMA TextGrows ==
  ASSUME NEW s, NEW a \in Int, NEW b \in Int, a <= b
  PROVE  /\ TextIn(s, a, b) /\ s[b + 1] \notin {"h", "t"} => TextIn(s, a, b + 1)
         /\ TextIn(s, a, b) /\ s[b + 1] = "h" => CutIn(s, a, b + 1)
         /\ CutIn(s, a, b) /\ s[b + 1] = "t" => TextIn(s, a, b + 1)
<1>1. ASSUME TextIn(s, a, b), s[b + 1] \notin {"h", "t"}  PROVE TextIn(s, a, b + 1)
  <2>1. TextIn(s, b, b + 1)
    BY <1>1 DEF TextIn
  <2> QED BY <1>1, <2>1, TextJoins
<1>2. ASSUME TextIn(s, a, b), s[b + 1] = "h"  PROVE CutIn(s, a, b + 1)
  <2>1. (b + 1) - 1 = b /\ a < b + 1
    OBVIOUS
  <2> QED BY <1>2, <2>1 DEF CutIn
<1>3. ASSUME CutIn(s, a, b), s[b + 1] = "t"  PROVE TextIn(s, a, b + 1)
  <2>1. a < b /\ s[b] = "h" /\ TextIn(s, a, b - 1)
    BY <1>3 DEF CutIn
  <2>2. \A i \in ((b - 1) + 1)..(b + 1) : i = b \/ i = b + 1
    OBVIOUS
  <2>3. (b + 1) - 1 = b /\ b < b + 1 /\ b + 1 > (b - 1) + 1
    OBVIOUS
  <2>4. TextIn(s, b - 1, b + 1)
    BY <1>3, <2>1, <2>2, <2>3 DEF TextIn
  <2>5. b - 1 \in Int /\ b + 1 \in Int /\ a <= b - 1 /\ b - 1 <= b + 1
    BY <2>1
  <2> QED BY <2>1, <2>4, <2>5, TextJoins
<1> QED BY <1>1, <1>2, <1>3

(* Trimming cuts at white space.                                           *)
LEMMA FieldSpanIsText ==
  ASSUME NEW b, NEW s \in Steppers, s.field_start <= s.write_pos,
         TextIn(b, s.field_start, s.write_pos)
  PROVE  TextIn(b, FieldSpan(b, s).off, FieldSpan(b, s).end)
<1>1. s.field_start \in Nat /\ s.write_pos \in Nat
  BY DEF Steppers
<1>2. CASE ~config.trim
  <2>1. FieldSpan(b, s).off = s.field_start /\ FieldSpan(b, s).end = s.write_pos
    BY <1>2 DEF FieldSpan, Span
  <2> QED BY <2>1
<1>3. CASE config.trim
  <2> DEFINE start == s.field_start
             end == s.write_pos
             from == FirstInk(b, start, end)
             to == AfterLastInk(b, from, end)
  <2>1. FieldSpan(b, s).off = from /\ FieldSpan(b, s).end = to
    BY <1>3 DEF FieldSpan, Span
  <2>2. start \in Nat /\ end \in Nat /\ start <= end /\ TextIn(b, start, end)
    BY <1>1
  <2> HIDE DEF start, end
  <2>3. from \in start..end /\ \A k \in start..(from - 1) : IsSpace(b[k + 1])
    BY <2>2, FirstInkIs
  <2> HIDE DEF from
  <2>4. from \in Nat /\ from <= end /\ start <= from
    BY <2>2, <2>3
  <2>5. to \in from..end /\ \A k \in (to + 1)..end : IsSpace(b[k])
    BY <2>2, <2>4, AfterLastInkIs
  <2> HIDE DEF to
  <2>6. from = start \/ b[from] # "h"
    <3>1. from # start => from - 1 \in start..(from - 1) /\ (from - 1) + 1 = from
      BY <2>2, <2>4
    <3> QED BY <2>3, <3>1 DEF IsSpace
  <2>7. TextIn(b, from, end)
    BY <2>2, <2>4, <2>6, TextCutsBehind
  <2>8. to = end \/ b[to + 1] # "t"
    <3>1. to # end => to + 1 \in (to + 1)..end
      BY <2>2, <2>4, <2>5
    <3> QED BY <2>5, <3>1 DEF IsSpace
  <2>9. to \in Int /\ to <= end
    BY <2>2, <2>4, <2>5
  <2>10. TextIn(b, from, to)
    BY <2>2, <2>4, <2>7, <2>8, <2>9, TextCutsBefore
  <2> QED BY <2>1, <2>10
<1> QED BY <1>2, <1>3

(* In a dialect for text, the table takes the bytes of a longer character  *)
(* together: into the field, into the comment or nowhere.                  *)
LEMMA TextCells ==
  ASSUME NEW c, ValidDialect(c), AsciiControlBytes(c), NEW state \in InteriorStates, NEW b
  PROVE  LET cell == Transition(c, state, b)
         IN  /\ b \in {"h", "t"} /\ state # "InComment" =>
                  cell.next = "Error" \/ (cell.out /\ cell.next \in {"InField", "InQuotedField"})
             /\ b \in {"h", "t"} /\ state = "InComment" => cell.next = "InComment"
             /\ state = "InComment" => ~cell.out /\ cell.next \in {"RecordStart", "InComment"}
             /\ cell.next \in {"RecordStart", "InComment"} =>
                  ~cell.out /\ state \in {"RecordStart", "InComment"}
<1> USE DEF Consume, Emit, Cell
<1>1. /\ \A x \in Terminators(c) : x \notin {"h", "t"}
      /\ c.delimiter \notin {"h", "t"} /\ c.quote \notin {"h", "t"}
      /\ c.escape \notin {"h", "t"} /\ c.comment \notin {"h", "t"}
  BY DEF AsciiControlBytes, ControlBytes
<1>2. \A x \in CommentEnds(c) : x \notin {"h", "t"}
  BY DEF CommentEnds
<1>3. CASE state = "FieldStart"
  BY <1>1, <1>3 DEF Transition, FieldStartCell
<1>4. CASE state = "InField"
  BY <1>1, <1>4 DEF Transition, InFieldCell, MidFieldQuoteCell, ValidDialect, QuoteHandlings
<1>5. CASE state = "InQuotedField"
  BY <1>1, <1>5 DEF Transition, InQuotedFieldCell
<1>6. CASE state = "AfterClosingQuote"
  BY <1>1, <1>6 DEF Transition, AfterClosingQuoteCell
<1>7. CASE state = "InEscapedQuote"
  BY <1>7 DEF Transition
<1>8. CASE state = "InComment"
  BY <1>2, <1>8 DEF Transition, InCommentCell
<1>9. CASE state = "RecordStart"
  BY <1>1, <1>9 DEF Transition, RecordStartCell, FieldStartCell
<1> QED BY <1>3, <1>4, <1>5, <1>6, <1>7, <1>8, <1>9 DEF InteriorStates

(* The bytes of the fields that are complete are handed out as they are.   *)
LEMMA FieldsAre ==
  ASSUME NEW b \in Seq(STRING), NEW s \in Steppers, SpansInOrder(s), s.field_start <= Len(b),
         \A k \in DOMAIN s.spans : TextIn(b, s.spans[k].off, s.spans[k].end)
  PROVE  [at |-> s.record_in_start, fields |-> Fields(b, s)] \in TextRecords
<1> DEFINE m == Len(s.spans)
           f == Fields(b, s)
<1>1. /\ m \in Nat /\ DOMAIN s.spans = 1..m /\ s.field_start \in Nat
      /\ \A k \in 1..m : /\ s.spans[k].off \in Nat /\ s.spans[k].end \in Nat
                         /\ s.spans[k].off <= s.spans[k].end /\ s.spans[k].end <= s.field_start
  BY SpansOf
<1>2. s.record_in_start \in Int /\ Len(b) \in Nat
  BY DEF Steppers
<1> HIDE DEF m
<1>3. f = [k \in 1..m |-> f[k]]
  BY <1>1 DEF Fields
<1>4. ASSUME NEW k \in 1..m  PROVE f[k] \in Seq(STRING) /\ IsText(f[k])
  <2> DEFINE from == s.spans[k].off
             to == s.spans[k].end
  <2>1. f[k] = SubSeq(b, from + 1, to)
    BY <1>1 DEF Fields
  <2>2. from \in Nat /\ to \in Nat /\ from <= to /\ to <= Len(b) /\ TextIn(b, from, to)
    BY <1>1, <1>2, SMTT(30)
  <2> HIDE DEF from, to, f
  <2>3. SubSeq(b, from + 1, to) \in Seq(STRING)
    BY <2>2, Slice, Zenon
  <2>4. IsText(SubSeq(b, from + 1, to))
    BY <2>2, TextSlice
  <2> QED BY <2>1, <2>3, <2>4
<1> HIDE DEF f
<1>5. f \in [1..m -> Seq(STRING)]
  BY <1>3, <1>4, Zenon
<1>6. f \in Seq(Seq(STRING)) /\ DOMAIN f = 1..m
  BY <1>1, <1>5
<1> QED BY <1>2, <1>4, <1>6 DEF TextRecords, f

(* What holds of a parse under way in text, unfolded once.                 *)
LEMMA TextFacts ==
  ASSUME DriverInv, TextInv, config.text, Parsing
  PROVE  /\ AsciiControlBytes(config) /\ records \in Seq(TextRecords)
         /\ base <= total_consumed /\ (phase # "step" => pos = validated)
         /\ TextIn(job.bytes, base, total_consumed + validated)
         /\ st.state \in {"RecordStart", "InComment"} => st.field_start = st.write_pos
         /\ MidCharacter => CutIn(buf, st.field_start, st.write_pos)
         /\ ~MidCharacter => TextIn(buf, st.field_start, st.write_pos)
         /\ \A k \in DOMAIN st.spans : TextIn(buf, st.spans[k].off, st.spans[k].end)
<1>1. AsciiControlBytes(config)
  BY DriverFacts, JobsAssumption DEF config
<1>2. records \in Seq(TextRecords) /\ ParseIsText
  BY DEF TextInv
<1> QED BY <1>1, <1>2, Zenon DEF ParseIsText, FieldFollows, SpansAreText

(* A step that returns, or that is part of the search.                     *)
LEMMA TextElsewhere ==
  ASSUME TextInv, ~Parsing', UNCHANGED <<job, records>>
  PROVE  TextInv'
BY DEF TextInv, config

(* The byte at pos continues a character exactly if one is cut there.      *)
LEMMA ByteIs ==
  ASSUME DriverInv, TextInv, config.text, Scanning
  PROVE  /\ Byte = job.bytes[total_consumed + (pos + 1)]
         /\ Byte = "t" <=> total_consumed + pos > base /\ job.bytes[total_consumed + pos] = "h"
<1>1. /\ total_consumed \in Nat /\ pos \in Nat /\ validated \in Nat /\ pos < validated
      /\ validated <= Len(buf) /\ Len(buf) \in Nat /\ base \in Nat
      /\ \A i \in (pos + 1)..Len(buf) : buf[i] = job.bytes[total_consumed + i]
  BY DriverFacts DEF Scanning
<1>2. base <= total_consumed /\ TextIn(job.bytes, base, total_consumed + validated)
  BY TextFacts DEF Scanning, Parsing
<1> DEFINE i == total_consumed + (pos + 1)
           to == total_consumed + validated
           J == job.bytes
<1>3. Byte = J[i]
  <2>1. pos + 1 \in (pos + 1)..Len(buf)
    BY <1>1
  <2> QED BY <1>1, <2>1 DEF Byte
<1>4. /\ i \in (base + 1)..to /\ i - 1 = total_consumed + pos /\ (i - 1) + 1 = i
      /\ (i > base + 1 <=> i - 1 > base)
      /\ (i - 1 > base => i - 1 \in (base + 1)..to)
  BY <1>1, <1>2
<1> HIDE DEF i, to, J
<1>5. TextIn(J, base, to)
  BY <1>2 DEF J, to
<1>6. J[i] = "t" => i > base + 1 /\ J[i - 1] = "h"
  BY <1>4, <1>5 DEF TextIn
<1>7. i - 1 > base /\ J[i - 1] = "h" => J[(i - 1) + 1] = "t"
  BY <1>4, <1>5, Zenon DEF TextIn
<1>8. J[i] = "t" <=> i - 1 > base /\ J[i - 1] = "h"
  BY <1>4, <1>6, <1>7
<1>9. total_consumed + pos = i - 1 /\ job.bytes = J /\ total_consumed + (pos + 1) = i
  BY <1>4 DEF J, i
<1> QED BY <1>3, <1>8, <1>9

(* What has been written stays where bytes come in behind it, and while    *)
(* they are validated.                                                     *)
LEMMA TextKept ==
  ASSUME DriverInv, TextInv, Parsing, Parsing', phase' # "step" => pos = validated',
         UNCHANGED <<job, base, pos, total_consumed, st, records>>,
         \A i \in 1..st.write_pos : buf'[i] = buf[i],
         config.text => TextIn(job.bytes, base, total_consumed + validated')
  PROVE  TextInv'
<1> SUFFICES ASSUME config.text  PROVE records' \in Seq(TextRecords) /\ ParseIsText'
  BY DEF TextInv, config
<1>1. /\ job' = job /\ base' = base /\ pos' = pos /\ total_consumed' = total_consumed
      /\ st' = st /\ records' = records
  OBVIOUS
<1>2. /\ st \in Steppers /\ SpansInOrder(st) /\ st.field_start \in Nat /\ st.write_pos \in Nat
      /\ st.field_start <= st.write_pos
  BY DriverFacts
<1>3. /\ records \in Seq(TextRecords) /\ base <= total_consumed
      /\ st.state \in {"RecordStart", "InComment"} => st.field_start = st.write_pos
      /\ MidCharacter => CutIn(buf, st.field_start, st.write_pos)
      /\ ~MidCharacter => TextIn(buf, st.field_start, st.write_pos)
      /\ \A k \in DOMAIN st.spans : TextIn(buf, st.spans[k].off, st.spans[k].end)
  BY TextFacts
<1>4. ASSUME NEW from \in Nat, NEW to \in Nat, to <= st.write_pos
      PROVE  /\ TextIn(buf, from, to) => TextIn(buf', from, to)
             /\ CutIn(buf, from, to) => CutIn(buf', from, to)
  <2>1. \A i \in (from + 1)..to : buf'[i] = buf[i]
    <3>1. \A i \in (from + 1)..to : i \in 1..st.write_pos
      BY <1>2, <1>4
    <3> QED BY <3>1
  <2>2. from \in Int /\ to \in Int
    OBVIOUS
  <2> QED BY <2>1, <2>2, TextStays, Zenon
<1>5. FieldFollows'
  <2>1. MidCharacter' <=> MidCharacter
    BY <1>1 DEF MidCharacter
  <2>2. st.write_pos <= st.write_pos
    BY <1>2
  <2> QED BY <1>1, <1>2, <1>3, <1>4, <2>1, <2>2 DEF FieldFollows
<1>6. SpansAreText'
  <2>1. ASSUME NEW k \in DOMAIN st.spans
        PROVE  TextIn(buf', st.spans[k].off, st.spans[k].end)
    <3>1. /\ st.spans[k].off \in Nat /\ st.spans[k].end \in Nat
          /\ st.spans[k].end <= st.field_start
      BY <1>2, SpansOf
    <3>2. st.spans[k].end <= st.write_pos
      BY <1>2, <3>1
    <3> QED BY <1>3, <1>4, <3>1, <3>2
  <2> QED BY <1>1, <2>1 DEF SpansAreText
<1> QED BY <1>1, <1>3, <1>5, <1>6 DEF ParseIsText

LEMMA FillKeepsText ==
  ASSUME DriverInv, TextInv, NEW filled \in Fills(validated + MaxSequence), Fill(filled)
  PROVE  TextInv'
<1>1. /\ phase = "fill" /\ phase' = "validate" /\ buf' = filled /\ validated' = validated
      /\ UNCHANGED <<job, base, pos, total_consumed, st, records>>
  BY DEF Fill, driver
<1>2. Parsing /\ Parsing'
  BY <1>1 DEF Parsing
<1>3. /\ buf \in Seq(STRING) /\ job.bytes \in Seq(STRING) /\ position \in Nat
      /\ position + Len(buf) <= Len(job.bytes) /\ validated + MaxSequence \in Nat
      /\ Len(buf) \in Nat /\ st.write_pos \in Nat /\ st.write_pos <= Len(buf)
  BY DriverFacts, WindowsAssumption, SMTT(30)
<1>4. \A i \in 1..Len(buf) : filled[i] = buf[i]
  BY <1>3, FillsAre
<1>5. \A i \in 1..st.write_pos : i \in 1..Len(buf)
  BY <1>3
<1>6. config.text => pos = validated /\ TextIn(job.bytes, base, total_consumed + validated)
  BY <1>1, <1>2, TextFacts
<1>7. CASE config.text
  BY <1>1, <1>2, <1>4, <1>5, <1>6, <1>7, TextKept
<1>8. CASE ~config.text
  BY <1>1, <1>8 DEF TextInv, config
<1> QED BY <1>7, <1>8

(* What is validated continues the text.                                   *)
LEMMA ValidatedIsText ==
  ASSUME DriverInv, TextInv, Validate(ValidLength(Fresh)), config.text
  PROVE  TextInv'
<1> DEFINE valid == ValidLength(Fresh)
           J == job.bytes
           seen == total_consumed + validated
<1>1. /\ phase = "validate" /\ phase' = (IF EndOfInput(valid) THEN "finish" ELSE "step")
      /\ validated' = validated + valid /\ buf' = buf
      /\ UNCHANGED <<job, base, pos, total_consumed, st, records>>
  BY DEF Validate, reader
<1>2. Parsing /\ Parsing'
  BY <1>1 DEF Parsing
<1>3. /\ Fresh \in Seq(STRING) /\ Len(Fresh) \in Nat /\ validated + Len(Fresh) <= Len(buf)
      /\ \A i \in 1..Len(Fresh) : Fresh[i] = buf[validated + i]
  BY FreshIs
<1>4. valid \in 0..Len(Fresh) /\ IsText(SubSeq(Fresh, 1, valid))
  BY <1>3, ValidLengthIs
<1>5. /\ validated \in Nat /\ pos \in Nat /\ pos <= validated /\ total_consumed \in Nat
      /\ base \in Nat /\ Len(buf) \in Nat
      /\ \A i \in (pos + 1)..Len(buf) : buf[i] = J[total_consumed + i]
  BY DriverFacts
<1>6. base <= total_consumed /\ pos = validated /\ TextIn(J, base, seen)
  BY <1>1, <1>2, TextFacts
<1>7. phase' # "step" => valid = 0
  BY <1>1 DEF EndOfInput
<1> HIDE DEF valid, J, seen
<1>8. TextIn(Fresh, 0, valid)
  <2>1. 0 \in Nat /\ valid \in Nat /\ 0 <= valid /\ valid <= Len(Fresh) /\ 0 + 1 = 1
    BY <1>3, <1>4
  <2>2. IsText(SubSeq(Fresh, 0 + 1, valid)) <=> TextIn(Fresh, 0, valid)
    BY <1>3, <2>1, TextSlice
  <2> QED BY <1>4, <2>1, <2>2
<1>9. TextIn(J, seen, seen + valid)
  <2>1. \A i \in (0 + 1)..valid : J[i - (0 - seen)] = Fresh[i]
    <3>1. ASSUME NEW i \in (0 + 1)..valid
          PROVE  /\ i \in 1..Len(Fresh) /\ validated + i \in (pos + 1)..Len(buf)
                 /\ i - (0 - seen) = total_consumed + (validated + i)
      BY <1>3, <1>4, <1>5 DEF seen
    <3> QED BY <1>3, <1>5, <3>1
  <2>2. 0 \in Int /\ valid \in Int /\ 0 - seen \in Int
    BY <1>4, <1>5 DEF seen
  <2>3. TextIn(J, 0 - (0 - seen), valid - (0 - seen))
    BY <1>8, <2>1, <2>2, TextMoves, Zenon
  <2>4. 0 - (0 - seen) = seen /\ valid - (0 - seen) = seen + valid
    BY <1>4, <1>5 DEF seen
  <2> QED BY <2>3, <2>4
<1>10. TextIn(J, base, total_consumed + (validated + valid))
  <2>1. /\ base \in Int /\ seen \in Int /\ seen + valid \in Int /\ base <= seen
        /\ seen <= seen + valid /\ seen + valid = total_consumed + (validated + valid)
    BY <1>4, <1>5, <1>6 DEF seen
  <2>2. TextIn(J, base, seen + valid)
    BY <1>6, <1>9, <2>1, TextJoins, Zenon
  <2> QED BY <2>1, <2>2
<1>11. phase' # "step" => pos = validated'
  BY <1>1, <1>4, <1>5, <1>6, <1>7
<1> QED BY <1>1, <1>2, <1>10, <1>11, TextKept DEF J

(* A byte is read: what is left to show is what becomes of the field.      *)
LEMMA TextRead ==
  ASSUME DriverInv, TextInv, config.text, Scanning, pos' = pos + 1, phase' = "step",
         UNCHANGED <<job, base, validated, total_consumed>>,
         records' \in Seq(TextRecords),
         st'.state \in {"RecordStart", "InComment"} => st'.field_start = st'.write_pos,
         Byte = "h" /\ st'.state # "InComment" => CutIn(buf', st'.field_start, st'.write_pos),
         Byte # "h" \/ st'.state = "InComment" => TextIn(buf', st'.field_start, st'.write_pos),
         SpansAreText'
  PROVE  TextInv'
<1>1. /\ base <= total_consumed /\ TextIn(job.bytes, base, total_consumed + validated)
  BY TextFacts DEF Scanning, Parsing
<1>2. /\ total_consumed \in Nat /\ pos \in Nat /\ base \in Nat
      /\ Byte = job.bytes[total_consumed + (pos + 1)]
  BY DriverFacts, ByteIs
<1>3. MidCharacter' <=> Byte = "h" /\ st'.state # "InComment"
  <2>1. total_consumed + (pos + 1) > base
    BY <1>1, <1>2
  <2> QED BY <1>2, <2>1 DEF MidCharacter
<1>4. FieldFollows'
  BY <1>3 DEF FieldFollows
<1> QED BY <1>1, <1>4 DEF TextInv, ParseIsText

LEMMA SkippedLineIsText ==
  ASSUME DriverInv, TextInv, config.text, SkipEmptyLine
  PROVE  TextInv'
<1>1. /\ Scanning /\ phase = "step" /\ pos' = pos + 1 /\ phase' = phase /\ buf' = buf /\ st' = st
      /\ records' = records /\ UNCHANGED <<job, base, validated, total_consumed>>
      /\ st.state = "RecordStart" /\ Byte \in Terminators(config)
  BY DEF SkipEmptyLine, Scanning, BetweenRecords, reader
<1>2. /\ AsciiControlBytes(config) /\ records \in Seq(TextRecords)
      /\ st.field_start = st.write_pos
      /\ \A k \in DOMAIN st.spans : TextIn(buf, st.spans[k].off, st.spans[k].end)
  BY <1>1, TextFacts DEF Parsing
<1>3. Byte # "h"
  BY <1>1, <1>2 DEF AsciiControlBytes, ControlBytes
<1>4. TextIn(buf, st.field_start, st.write_pos)
  <2>1. st.write_pos \in Nat
    BY DriverFacts
  <2> QED BY <1>2, <2>1 DEF TextIn
<1>5. SpansAreText'
  BY <1>1, <1>2 DEF SpansAreText
<1> QED BY <1>1, <1>2, <1>3, <1>4, <1>5, TextRead

(* A byte is taken into the field, or is dropped where nothing is cut.     *)
LEMMA TakenIsText ==
  ASSUME DriverInv, TextInv, config.text, Take(Transition(config, st.state, Byte))
  PROVE  TextInv'
<1> DEFINE cell == Transition(config, st.state, Byte)
           t == [Taken(cell) EXCEPT !.state = cell.next]
           fs == st.field_start
           wp == st.write_pos
<1>1. /\ Scanning /\ cell.next \notin ActionStates /\ buf' = Written(cell) /\ st' = t
      /\ pos' = pos + 1 /\ phase = "step" /\ phase' = phase /\ records' = records
      /\ UNCHANGED <<job, base, validated, total_consumed>>
  BY DEF Take, Scanning
<1>2. /\ ValidDialect(config) /\ st \in Steppers /\ st.state \in InteriorStates /\ SpansInOrder(st)
      /\ fs \in Nat /\ wp \in Nat /\ fs <= wp /\ wp <= pos /\ pos \in Nat
      /\ pos < validated /\ validated <= Len(buf) /\ Len(buf) \in Nat /\ validated \in Nat
  BY <1>1, DriverFacts DEF Scanning
<1>3. /\ AsciiControlBytes(config) /\ records \in Seq(TextRecords)
      /\ st.state \in {"RecordStart", "InComment"} => fs = wp
      /\ MidCharacter => CutIn(buf, fs, wp)
      /\ ~MidCharacter => TextIn(buf, fs, wp)
      /\ \A k \in DOMAIN st.spans : TextIn(buf, st.spans[k].off, st.spans[k].end)
  BY <1>1, TextFacts DEF Parsing
<1>4. cell.next \in InteriorStates
  BY <1>1, <1>2, TableIsTotal
<1>5. /\ Byte \in {"h", "t"} /\ st.state # "InComment" => cell.out /\ cell.next # "InComment"
      /\ Byte \in {"h", "t"} /\ st.state = "InComment" => cell.next = "InComment"
      /\ st.state = "InComment" => ~cell.out /\ cell.next \in {"RecordStart", "InComment"}
      /\ cell.next \in {"RecordStart", "InComment"} =>
           ~cell.out /\ st.state \in {"RecordStart", "InComment"}
  BY <1>1, <1>2, <1>3, TextCells DEF ActionStates
<1>6. Byte = "t" /\ st.state # "InComment" <=> MidCharacter
  BY <1>1, ByteIs DEF MidCharacter
<1> HIDE DEF cell
<1>7. /\ t.state = cell.next /\ t.field_start = fs /\ t.spans = st.spans
      /\ t.write_pos = IF cell.out THEN wp + 1 ELSE wp
  BY <1>4, TakenIs
<1>8. \A i \in 1..Len(buf) :
        Written(cell)[i] = IF cell.out /\ i = wp + 1 THEN Byte ELSE buf[i]
  BY <1>1, WrittenIs
<1> HIDE DEF t, fs, wp
<1>9. /\ \A i \in 1..wp : buf'[i] = buf[i]
      /\ cell.out => buf'[wp + 1] = Byte
  <2>1. \A i \in 1..wp : i \in 1..Len(buf) /\ i # wp + 1
    BY <1>2
  <2>2. wp + 1 \in 1..Len(buf)
    BY <1>2
  <2> QED BY <1>1, <1>8, <2>1, <2>2
<1>10. ASSUME NEW from \in Nat, NEW to \in Nat, to <= wp
       PROVE  /\ TextIn(buf, from, to) => TextIn(buf', from, to)
              /\ CutIn(buf, from, to) => CutIn(buf', from, to)
  <2>1. \A i \in (from + 1)..to : i \in 1..wp
    BY <1>2, <1>10
  <2>2. \A i \in (from + 1)..to : buf'[i] = buf[i]
    BY <1>9, <2>1
  <2>3. from \in Int /\ to \in Int
    OBVIOUS
  <2> QED BY <2>2, <2>3, TextStays, Zenon
<1>11. /\ MidCharacter => CutIn(buf', fs, wp)
       /\ ~MidCharacter => TextIn(buf', fs, wp)
  <2>1. wp <= wp
    BY <1>2
  <2> QED BY <1>2, <1>3, <1>10, <2>1
<1>12. /\ TextIn(buf', fs, wp) /\ buf'[wp + 1] \notin {"h", "t"} => TextIn(buf', fs, wp + 1)
       /\ TextIn(buf', fs, wp) /\ buf'[wp + 1] = "h" => CutIn(buf', fs, wp + 1)
       /\ CutIn(buf', fs, wp) /\ buf'[wp + 1] = "t" => TextIn(buf', fs, wp + 1)
  <2>1. fs \in Int /\ wp \in Int /\ fs <= wp
    BY <1>2
  <2> QED BY <2>1, TextGrows, Zenon
<1>13. SpansAreText'
  <2>1. ASSUME NEW k \in DOMAIN st.spans
        PROVE  st.spans[k].off \in Nat /\ st.spans[k].end \in Nat /\ st.spans[k].end <= wp
    <3>1. /\ st.spans[k].off \in Nat /\ st.spans[k].end \in Nat
          /\ st.spans[k].end <= st.field_start
      BY <1>2, SpansOf
    <3> QED BY <1>2, <3>1 DEF fs
  <2>2. \A k \in DOMAIN st.spans : TextIn(buf', st.spans[k].off, st.spans[k].end)
    BY <1>3, <1>10, <2>1
  <2> QED BY <1>1, <1>7, <2>2 DEF SpansAreText
<1>14. CASE st.state = "InComment"
  <2>1. t.field_start = t.write_pos /\ (Byte = "h" => t.state = "InComment")
    BY <1>3, <1>5, <1>7, <1>14
  <2>2. TextIn(buf', t.field_start, t.write_pos)
    BY <1>5, <1>6, <1>7, <1>11, <1>14
  <2> QED BY <1>1, <1>3, <1>13, <2>1, <2>2, TextRead
<1>15. CASE st.state # "InComment"
  <2>1. t.state \in {"RecordStart", "InComment"} => t.field_start = t.write_pos
    BY <1>3, <1>5, <1>7
  <2>2. Byte = "h" => CutIn(buf', t.field_start, t.write_pos)
    BY <1>5, <1>6, <1>7, <1>9, <1>11, <1>12, <1>15
  <2>3. Byte # "h" => TextIn(buf', t.field_start, t.write_pos)
    BY <1>5, <1>6, <1>7, <1>9, <1>11, <1>12, <1>15
  <2>4. t.state = "InComment" => Byte # "h"
    BY <1>5, <1>7, <1>15
  <2> QED BY <1>1, <1>3, <1>13, <2>1, <2>2, <2>3, <2>4, TextRead
<1> QED BY <1>14, <1>15

LEMMA PushedIsText ==
  ASSUME NEW b, NEW s \in Steppers, NEW p \in Nat, total_consumed \in Nat, SpansInOrder(s),
         s.record_buf_start <= s.field_start, s.field_start <= s.write_pos, s.write_pos <= p,
         TextIn(b, s.field_start, s.write_pos),
         \A k \in DOMAIN s.spans : TextIn(b, s.spans[k].off, s.spans[k].end)
  PROVE  LET t == PushField(b, s, p)
         IN  \A k \in DOMAIN t.spans : TextIn(b, t.spans[k].off, t.spans[k].end)
<1> DEFINE span == FieldSpan(b, s)
           n == Len(s.spans)
<1>1. PushField(b, s, p).spans = Append(s.spans, span)
  BY PushFieldIs
<1>2. span \in Spans /\ TextIn(b, span.off, span.end)
  BY FieldSpanIs, FieldSpanIsText
<1>3. s.spans \in Seq(Spans) /\ n \in Nat /\ DOMAIN s.spans = 1..n
  BY SpansOf
<1> HIDE DEF span
<1>4. /\ Append(s.spans, span) \in Seq(Spans) /\ Len(Append(s.spans, span)) = n + 1
      /\ \A k \in 1..n : Append(s.spans, span)[k] = s.spans[k]
      /\ Append(s.spans, span)[n + 1] = span
  BY <1>2, <1>3, AppendProperties
<1>5. DOMAIN Append(s.spans, span) = 1..(n + 1)
  BY <1>4
<1> HIDE DEF n
<1>6. \A k \in 1..(n + 1) : k \in 1..n \/ k = n + 1
  BY <1>3
<1> QED BY <1>1, <1>2, <1>3, <1>4, <1>5, <1>6, Zenon

(* A delimiter and a terminator come between characters.                   *)
LEMMA ClosedIsText ==
  ASSUME DriverInv, TextInv, config.text, Scanning,
         Transition(config, st.state, Byte).next \in {"FieldEnd", "RecordEnd"}
  PROVE  /\ Byte \notin {"h", "t"}
         /\ \A k \in DOMAIN Closed.spans : TextIn(buf, Closed.spans[k].off, Closed.spans[k].end)
<1> DEFINE s == AtRecordStart(st)
           p == pos + 1
<1>1. /\ ValidDialect(config) /\ st.state \in InteriorStates /\ total_consumed \in Nat /\ pos \in Nat
      /\ st.write_pos \in Nat /\ st.record_buf_start <= st.field_start
      /\ st.field_start <= st.write_pos /\ st.write_pos <= pos
  BY DriverFacts
<1>2. /\ AsciiControlBytes(config)
      /\ ~MidCharacter => TextIn(buf, st.field_start, st.write_pos)
      /\ \A k \in DOMAIN st.spans : TextIn(buf, st.spans[k].off, st.spans[k].end)
  BY TextFacts DEF Scanning, Parsing
<1>3. Byte \notin {"h", "t"}
  BY <1>1, <1>2, TextCells
<1>4. TextIn(buf, st.field_start, st.write_pos)
  BY <1>2, <1>3, ByteIs DEF MidCharacter
<1>5. /\ s \in Steppers /\ s.field_start = st.field_start /\ s.write_pos = st.write_pos
      /\ s.record_buf_start = st.record_buf_start /\ s.spans = st.spans /\ SpansInOrder(s)
  BY <1>1, DriverFacts, AtRecordStartIs
<1>6. p \in Nat /\ st.write_pos <= p
  BY <1>1
<1>7. Closed = PushField(buf, s, p)
  BY DEF Closed
<1> HIDE DEF s, p
<1>8. /\ s \in Steppers /\ p \in Nat /\ total_consumed \in Nat /\ SpansInOrder(s)
      /\ s.record_buf_start <= s.field_start /\ s.field_start <= s.write_pos /\ s.write_pos <= p
      /\ TextIn(buf, s.field_start, s.write_pos)
      /\ \A k \in DOMAIN s.spans : TextIn(buf, s.spans[k].off, s.spans[k].end)
  BY <1>1, <1>2, <1>4, <1>5, <1>6
<1> QED BY <1>3, <1>7, <1>8, PushedIsText

LEMMA EndedFieldIsText ==
  ASSUME DriverInv, TextInv, config.text, EndField(Transition(config, st.state, Byte))
  PROVE  TextInv'
<1> DEFINE t == [Closed EXCEPT !.state = "FieldStart"]
<1>1. /\ Scanning /\ st' = t /\ pos' = pos + 1 /\ phase = "step" /\ phase' = phase
      /\ buf' = buf /\ records' = records /\ UNCHANGED <<job, base, validated, total_consumed>>
      /\ Transition(config, st.state, Byte).next \in {"FieldEnd", "RecordEnd"}
  BY DEF EndField, reader, Closed, Scanning
<1>2. Closed \in Steppers /\ Closed.field_start = pos + 1 /\ Closed.write_pos = pos + 1
  BY ClosedIs
<1>3. /\ t.field_start = pos + 1 /\ t.write_pos = pos + 1 /\ t.spans = Closed.spans
      /\ t.state = "FieldStart"
  <2> DEFINE s == Closed
  <2> HIDE DEF s
  <2> QED BY <1>2 DEF Steppers, s
<1> HIDE DEF t
<1>4. /\ Byte \notin {"h", "t"} /\ records \in Seq(TextRecords)
      /\ \A k \in DOMAIN Closed.spans : TextIn(buf, Closed.spans[k].off, Closed.spans[k].end)
  BY <1>1, ClosedIsText DEF TextInv
<1>5. SpansAreText'
  BY <1>1, <1>3, <1>4 DEF SpansAreText
<1>6. TextIn(buf, pos + 1, pos + 1)
  BY DriverFacts DEF TextIn
<1> QED BY <1>1, <1>3, <1>4, <1>5, <1>6, TextRead

(* The callback gets the record's fields.                                  *)
LEMMA EndedRecordIsText ==
  ASSUME DriverInv, TextInv, config.text, EndRecord(Transition(config, st.state, Byte))
  PROVE  TextInv'
<1> DEFINE t == [Closed EXCEPT !.spans = <<>>, !.state = "RecordStart",
                               !.record_buf_start = pos + 1,
                               !.last_record_end = total_consumed + pos]
           record == [at |-> Closed.record_in_start, fields |-> Fields(buf, Closed)]
<1>1. /\ Scanning /\ st' = t /\ pos' = pos + 1 /\ phase = "step"
      /\ phase' \in {phase, "returned"} /\ records' = Append(records, record)
      /\ buf' = buf /\ UNCHANGED <<job, base, validated, total_consumed>>
      /\ Transition(config, st.state, Byte).next \in {"FieldEnd", "RecordEnd"}
  BY DEF EndRecord, reader, Return, Scanning, Emitted
<1>2. /\ Closed \in Steppers /\ Closed.field_start = pos + 1 /\ Closed.write_pos = pos + 1
      /\ SpansInOrder(Closed)
  BY ClosedIs
<1>3. /\ buf \in Seq(STRING) /\ pos \in Nat /\ Len(buf) \in Nat /\ validated \in Nat
      /\ pos < validated /\ validated <= Len(buf)
  BY <1>1, DriverFacts DEF Scanning
<1>4. /\ t.field_start = pos + 1 /\ t.write_pos = pos + 1 /\ t.spans = <<>>
      /\ t.state = "RecordStart"
  <2> DEFINE s == Closed
  <2> HIDE DEF s
  <2> QED BY <1>2 DEF Steppers, s
<1>5. /\ Byte \notin {"h", "t"} /\ records \in Seq(TextRecords)
      /\ \A k \in DOMAIN Closed.spans : TextIn(buf, Closed.spans[k].off, Closed.spans[k].end)
  BY <1>1, ClosedIsText DEF TextInv
<1>6. record \in TextRecords
  <2>1. Closed.field_start <= Len(buf)
    BY <1>2, <1>3
  <2> QED BY <1>2, <1>3, <1>5, <2>1, FieldsAre, Zenon
<1> HIDE DEF t, record
<1>7. records' \in Seq(TextRecords)
  BY <1>1, <1>5, <1>6
<1>8. SpansAreText'
  BY <1>1, <1>4 DEF SpansAreText
<1>9. TextIn(buf, pos + 1, pos + 1)
  BY <1>3 DEF TextIn
<1>10. CASE phase' = "step"
  BY <1>1, <1>4, <1>5, <1>7, <1>8, <1>9, <1>10, TextRead
<1>11. CASE phase' = "returned"
  BY <1>7, <1>11 DEF TextInv, Parsing
<1> QED BY <1>1, <1>10, <1>11

(* The last record of an input that ends without a terminator.             *)
LEMMA LastRecordIsText ==
  ASSUME DriverInv, TextInv, config.text, FinishRecord
  PROVE  TextInv'
<1> DEFINE record == [at |-> LastRecord.record_in_start, fields |-> Fields(buf, LastRecord)]
<1>1. /\ phase = "finish" /\ phase' = "returned" /\ job' = job
      /\ records' \in {records, Append(records, record)}
  BY DEF FinishRecord, Finishing, Return, Emitted
<1>2. /\ buf \in Seq(STRING) /\ total_consumed \in Nat /\ pos \in Nat /\ validated \in Nat
      /\ base \in Nat /\ pos <= validated /\ validated <= Len(buf) /\ Len(buf) \in Nat
      /\ st \in Steppers /\ SpansInOrder(st) /\ st.field_start \in Nat /\ st.write_pos \in Nat
      /\ st.record_buf_start <= st.field_start /\ st.field_start <= st.write_pos
      /\ st.write_pos <= pos
  BY DriverFacts
<1>3. /\ base <= total_consumed /\ pos = validated /\ records \in Seq(TextRecords)
      /\ TextIn(job.bytes, base, total_consumed + validated)
      /\ ~MidCharacter => TextIn(buf, st.field_start, st.write_pos)
      /\ \A k \in DOMAIN st.spans : TextIn(buf, st.spans[k].off, st.spans[k].end)
  BY <1>1, TextFacts DEF Parsing
<1>4. ~MidCharacter
  <2>1. total_consumed + pos > base =>
          total_consumed + pos \in (base + 1)..(total_consumed + validated)
    BY <1>2, <1>3
  <2>2. ~(total_consumed + pos < total_consumed + validated)
    BY <1>2, <1>3
  <2> QED BY <1>3, <2>1, <2>2 DEF MidCharacter, TextIn
<1>5. \A k \in DOMAIN LastRecord.spans :
        TextIn(buf, LastRecord.spans[k].off, LastRecord.spans[k].end)
  BY <1>2, <1>3, <1>4, PushedIsText DEF LastRecord
<1>6. LastRecord \in Steppers /\ SpansInOrder(LastRecord) /\ LastRecord.field_start = pos
  BY <1>2, PushFieldIs, ZenonT(30) DEF LastRecord
<1>7. record \in TextRecords
  <2>1. LastRecord.field_start <= Len(buf)
    BY <1>2, <1>6
  <2> QED BY <1>2, <1>5, <1>6, <2>1, FieldsAre, Zenon
<1> HIDE DEF record
<1> QED BY <1>1, <1>3, <1>7 DEF TextInv, Parsing

(* What a suspended scan leaves behind moves as a whole.                   *)
LEMMA SuspendedIsText ==
  ASSUME DriverInv, TextInv, config.text, Suspend(Consumable(st, pos))
  PROVE  TextInv'
<1> DEFINE n == Consumable(st, pos)
           kept == SubSeq(buf, n + 1, Len(buf))
           t == Shifted(st, n)
           fs == st.field_start
           wp == st.write_pos
<1>1. /\ phase = "step" /\ pos >= validated /\ job' = job /\ buf' = kept /\ base' = base
      /\ st' = t /\ total_consumed' = total_consumed + n /\ validated' = validated - n
      /\ pos' = pos - n /\ phase' = "fill" /\ records' = records
  BY DEF Suspend
<1>2. /\ n \in Nat /\ n <= pos
      /\ n <= st.record_buf_start \/ (st.spans = <<>> /\ fs = wp /\ wp <= n)
  BY ConsumableIs
<1>3. /\ buf \in Seq(STRING) /\ Len(buf) \in Nat /\ pos \in Nat /\ validated \in Nat
      /\ pos <= validated /\ validated <= Len(buf) /\ total_consumed \in Nat /\ base \in Nat
      /\ st \in Steppers /\ SpansInOrder(st) /\ fs \in Nat /\ wp \in Nat
      /\ st.record_buf_start \in Nat /\ st.record_buf_start <= fs /\ fs <= wp /\ wp <= pos
  BY DriverFacts
<1>4. /\ records \in Seq(TextRecords) /\ base <= total_consumed
      /\ TextIn(job.bytes, base, total_consumed + validated)
      /\ st.state \in {"RecordStart", "InComment"} => fs = wp
      /\ MidCharacter => CutIn(buf, fs, wp)
      /\ ~MidCharacter => TextIn(buf, fs, wp)
      /\ \A k \in DOMAIN st.spans : TextIn(buf, st.spans[k].off, st.spans[k].end)
  BY <1>1, TextFacts DEF Parsing
<1> HIDE DEF n
<1>5. \A i \in 1..(Len(buf) - n) : kept[i] = buf[n + i]
  <2>1. n <= Len(buf)
    BY <1>2, <1>3
  <2> QED BY <1>2, <1>3, <2>1, Slice
<1>6. /\ t.state = st.state /\ t.field_start = Minus(fs, n) /\ t.write_pos = Minus(wp, n)
      /\ t \in Steppers /\ SpansInOrder(t) /\ Len(t.spans) = Len(st.spans)
      /\ \A k \in 1..Len(st.spans) : /\ st.spans[k].off \in Nat /\ st.spans[k].end \in Nat
                                     /\ n <= st.spans[k].off /\ st.spans[k].off <= st.spans[k].end
                                     /\ t.spans[k].off = st.spans[k].off - n
                                     /\ t.spans[k].end = st.spans[k].end - n
  <2>1. n <= st.record_buf_start \/ (st.spans = <<>> /\ st.field_start = st.write_pos /\ st.write_pos <= n)
    BY <1>2
  <2>2. st.record_buf_start <= st.field_start /\ st.field_start <= st.write_pos
    BY <1>3
  <2> QED BY <1>2, <1>3, <2>1, <2>2, ShiftedIs
<1> HIDE DEF kept, t
<1>7. ASSUME NEW from \in Nat, NEW to \in Nat, n <= from, to <= wp
      PROVE  /\ TextIn(buf, from, to) => TextIn(kept, from - n, to - n)
             /\ CutIn(buf, from, to) => CutIn(kept, from - n, to - n)
  <2>1. \A i \in (from + 1)..to : kept[i - n] = buf[i]
    <3>1. \A i \in (from + 1)..to : i - n \in 1..(Len(buf) - n) /\ n + (i - n) = i
      BY <1>2, <1>3, <1>7
    <3> QED BY <1>5, <3>1
  <2>2. from \in Int /\ n \in Int
    BY <1>2
  <2>3. ASSUME NEW b \in Int, b <= to, TextIn(buf, from, b)  PROVE TextIn(kept, from - n, b - n)
    <3>1. \A i \in (from + 1)..b : i \in (from + 1)..to
      BY <2>2, <2>3
    <3>2. \A i \in (from + 1)..b : kept[i - n] = buf[i]
      BY <2>1, <3>1
    <3> QED BY <2>2, <2>3, <3>2, TextMoves, Zenon
  <2>4. /\ to \in Int /\ to <= to /\ to - 1 \in Int /\ to - 1 <= to /\ (to - 1) - n = (to - n) - 1
        /\ (from < to => to \in (from + 1)..to /\ from - n < to - n)
    BY <1>2
  <2> QED BY <2>1, <2>3, <2>4 DEF CutIn
<1>8. MidCharacter' <=> MidCharacter
  <2>1. (total_consumed + n) + (pos - n) = total_consumed + pos
    BY <1>2, <1>3
  <2> QED BY <1>1, <1>6, <2>1 DEF MidCharacter
<1>9. FieldFollows'
  <2>1. CASE n <= fs
    <3>1. Minus(fs, n) = fs - n /\ Minus(wp, n) = wp - n /\ wp <= wp
      BY <1>2, <1>3, <2>1 DEF Minus
    <3> QED BY <1>1, <1>3, <1>4, <1>6, <1>7, <1>8, <2>1, <3>1 DEF FieldFollows
  <2>2. CASE ~(n <= fs)
    <3>1. fs = wp /\ Minus(fs, n) = 0 /\ Minus(wp, n) = 0
      BY <1>2, <1>3, <2>2 DEF Minus
    <3>2. ~CutIn(buf, fs, wp)
      BY <1>3, <3>1 DEF CutIn
    <3>3. TextIn(kept, 0, 0)
      BY DEF TextIn
    <3> QED BY <1>1, <1>4, <1>6, <1>8, <3>1, <3>2, <3>3 DEF FieldFollows
  <2> QED BY <2>1, <2>2
<1>10. SpansAreText'
  <2>1. /\ DOMAIN st.spans = 1..Len(st.spans) /\ DOMAIN t.spans = 1..Len(t.spans)
        /\ \A k \in 1..Len(st.spans) : st.spans[k].end \in Nat /\ st.spans[k].end <= st.field_start
    BY <1>3, <1>6, SpansOf
  <2>2. ASSUME NEW k \in 1..Len(st.spans)
        PROVE  TextIn(kept, t.spans[k].off, t.spans[k].end)
    <3>1. st.spans[k].end <= wp
      BY <1>3, <2>1
    <3> QED BY <1>4, <1>6, <1>7, <2>1, <3>1
  <2> QED BY <1>1, <1>6, <2>1, <2>2 DEF SpansAreText
<1>11. Minus(fs, n) = Minus(wp, n) \/ fs # wp
  OBVIOUS
<1>12. /\ base <= total_consumed + n /\ pos - n = validated - n
       /\ (total_consumed + n) + (validated - n) = total_consumed + validated
  BY <1>1, <1>2, <1>3, <1>4, SMTT(30)
<1>13. ParseIsText'
  BY <1>1, <1>4, <1>6, <1>9, <1>10, <1>11, <1>12 DEF ParseIsText
<1> QED BY <1>1, <1>4, <1>13 DEF TextInv

LEMMA ParseKeepsText ==
  ASSUME DriverInv, TextInv, Parse
  PROVE  TextInv'
<1> DEFINE cell == Transition(config, st.state, Byte)
<1>1. ASSUME NEW filled \in Fills(validated + MaxSequence), Fill(filled)  PROVE TextInv'
  BY <1>1, FillKeepsText
<1>2. CASE FillFails \/ RejectText(ValidLength(Fresh)) \/ RejectTail \/ FinishOutside \/ FinishQuoted
  BY <1>2, TextElsewhere DEF FillFails, RejectText, RejectTail, FinishOutside, FinishQuoted,
                             Return, Parsing
<1>3. CASE StopOnEmptyLine \/ RejectQuote(cell) \/ RejectRecord(cell)
  BY <1>3, TextElsewhere DEF StopOnEmptyLine, RejectQuote, RejectRecord, Return, Parsing
<1>4. job' = job
  BY DEF Parse, Fill, FillFails, Validate, RejectText, StepByte, SkipEmptyLine, StopOnEmptyLine,
         Take, RejectQuote, EndField, EndRecord, RejectRecord, Suspend, RejectTail,
         FinishOutside, FinishQuoted, FinishRecord
<1>5. CASE ~config.text
  BY <1>4, <1>5 DEF TextInv, config
<1>6. CASE /\ config.text
           /\ \/ SkipEmptyLine \/ Take(cell) \/ EndField(cell) \/ EndRecord(cell)
              \/ Validate(ValidLength(Fresh)) \/ Suspend(Consumable(st, pos)) \/ FinishRecord
  BY <1>6, SkippedLineIsText, TakenIsText, EndedFieldIsText, EndedRecordIsText, ValidatedIsText,
     SuspendedIsText, LastRecordIsText
<1>7. StepByte => \/ SkipEmptyLine \/ StopOnEmptyLine \/ Take(cell) \/ RejectQuote(cell)
                  \/ EndField(cell) \/ EndRecord(cell) \/ RejectRecord(cell)
  BY DEF StepByte
<1> QED BY <1>1, <1>2, <1>3, <1>5, <1>6, <1>7 DEF Parse

(* A parse begins between records, with nothing read of the text.          *)
LEMMA BegunIsText ==
  ASSUME DriverInv, TextInv, phase = "skip", Begin(total_consumed), UNCHANGED <<job, reader>>
  PROVE  TextInv'
<1>1. /\ job' = job /\ buf' = buf /\ phase' = "fill" /\ base' = total_consumed
      /\ total_consumed' = total_consumed /\ st' = NewStepper(total_consumed)
      /\ validated' = validated /\ pos' = pos /\ records' = records
  BY DEF Begin, reader
<1>2. validated = 0 /\ pos = 0 /\ total_consumed \in Nat
  BY DriverFacts DEF DriverInv, NotBegun, Searching
<1>3. /\ NewStepper(total_consumed).field_start = 0 /\ NewStepper(total_consumed).write_pos = 0
      /\ NewStepper(total_consumed).spans = <<>>
  BY <1>2, NewStepperIs
<1>4. ~MidCharacter' /\ total_consumed <= total_consumed
  BY <1>1, <1>2 DEF MidCharacter
<1>5. TextIn(buf, 0, 0) /\ TextIn(job.bytes, total_consumed, total_consumed + 0)
  BY <1>2 DEF TextIn
<1>6. FieldFollows' /\ SpansAreText'
  BY <1>1, <1>3, <1>4, <1>5 DEF FieldFollows, SpansAreText
<1>7. ParseIsText'
  BY <1>1, <1>2, <1>3, <1>4, <1>5, <1>6 DEF ParseIsText
<1> QED BY <1>1, <1>7 DEF TextInv, config

LEMMA SearchKeepsText ==
  ASSUME DriverInv, TextInv,
         \/ \E filled \in Fills(1) : Refill(filled)
         \/ SearchFails \/ FindNothing \/ Scan
         \/ SkipLines \/ LinesOutlastChunk \/ LeadSkipped \/ LinesSkipped
  PROVE  TextInv'
<1>1. CASE \/ \E filled \in Fills(1) : Refill(filled)
           \/ SearchFails \/ FindNothing \/ SkipLines \/ LinesOutlastChunk \/ LeadSkipped
  BY <1>1, TextElsewhere DEF Refill, SearchFails, FindNothing, SkipLines, LinesOutlastChunk,
                             LeadSkipped, Searching, ConsumeByte, Return, Parsing
<1>2. CASE Scan
  <2> DEFINE cell == Transition(SearchConfig, dfa_state, buf[1])
  <2>1. phase = "scan" /\ (ScanOn(cell) \/ FindRecord(cell) \/ RejectScan(cell))
    BY <1>2 DEF Scan
  <2> HIDE DEF cell
  <2> QED BY <2>1, TextElsewhere DEF ScanOn, FindRecord, RejectScan, ConsumeByte, Return, Parsing
<1>3. CASE LinesSkipped
  <2>1. CASE Begin(total_consumed)
    BY <1>3, <2>1, BegunIsText DEF LinesSkipped
  <2>2. CASE ~Begin(total_consumed)
    BY <1>3, <2>2, TextElsewhere DEF LinesSkipped, Parsing
  <2> QED BY <2>1, <2>2
<1> QED BY <1>1, <1>2, <1>3

LEMMA TextStarts ==
  Init => TextInv
<1> SUFFICES ASSUME Init  PROVE TextInv
  OBVIOUS
<1>1. records = <<>> /\ phase \in {"skip", "lead", "scan"}
  BY DEF Init, FirstPhase
<1> QED BY <1>1 DEF TextInv, Parsing

LEMMA TextInvStays ==
  DriverInv /\ TextInv /\ [Next]_passVars => TextInv'
<1>1. ASSUME DriverInv, TextInv, Next  PROVE TextInv'
  BY <1>1, SearchKeepsText, ParseKeepsText DEF Next
<1>2. ASSUME TextInv, UNCHANGED passVars  PROVE TextInv'
  BY <1>2 DEF passVars, vars, reader, driver, TextInv, ParseIsText, FieldFollows, SpansAreText,
              MidCharacter, Parsing, config
<1> QED BY <1>1, <1>2

THEOREM TextIsRight == Spec => []TextInv
BY DriverIsRight, DriverStays, TextStarts, TextInvStays, PTL DEF Spec

(* The callback's fields are text, in every dialect whose control bytes    *)
(* are ASCII: no field handed out as a str ends, or begins, inside a       *)
(* character (stepper.rs:184).                                             *)
THEOREM FieldsHandedOutAreText == Spec => []FieldsAreText
<1>1. TextInv => FieldsAreText
  <2> SUFFICES ASSUME records \in Seq(TextRecords), NEW k \in DOMAIN records
               PROVE  \A f \in DOMAIN records[k].fields : IsText(records[k].fields[f])
    BY DEF TextInv, FieldsAreText
  <2>1. records[k] \in TextRecords
    OBVIOUS
  <2> QED BY <2>1 DEF TextRecords
<1> QED BY <1>1, TextIsRight, PTL

-----------------------------------------------------------------------------
(* A whole pass: what its search finds, and what its parse makes of the    *)
(* chunk, is what the functions of ChunkParser make of the file read at    *)
(* once.                                                                   *)
LEMMA MinIs ==
  ASSUME NEW S \in SUBSET Nat, NEW m \in S, \A x \in S : m <= x
  PROVE  P!Min(S) = m
<1> DEFINE least == P!Min(S)
<1>1. least \in S /\ \A y \in S : least <= y
  BY DEF P!Min
<1> HIDE DEF least
<1>2. least <= m /\ m <= least /\ least \in Nat /\ m \in Nat
  BY <1>1
<1>3. least = m
  BY <1>2
<1> QED BY <1>3 DEF least

LEMMA TheOneIs ==
  ASSUME NEW x
  PROVE  P!The({x}) = x
BY DEF P!The

(* The table that ChunkParser reads is the driver's.                       *)
LEMMA OneTable ==
  ASSUME NEW c
  PROVE  /\ P!Terminators(c) = Terminators(c)
         /\ \A state, b : P!Transition(c, state, b) = Transition(c, state, b)
<1> USE DEF P!Consume, P!Emit, P!Cell, Consume, Emit, Cell
<1>1. /\ P!Terminators(c) = Terminators(c) /\ P!CommentEnds(c) = CommentEnds(c)
      /\ P!DoubledQuotes(c) <=> DoubledQuotes(c)
  BY DEF P!Terminators, Terminators, P!CommentEnds, CommentEnds, P!DoubledQuotes, DoubledQuotes,
         P!NoByte, NoByte
<1>2. ASSUME NEW b  PROVE P!FieldStartCell(c, b) = FieldStartCell(c, b)
  BY <1>1 DEF P!FieldStartCell, FieldStartCell
<1>3. ASSUME NEW b  PROVE P!InFieldCell(c, b) = InFieldCell(c, b)
  BY <1>1 DEF P!InFieldCell, InFieldCell, P!MidFieldQuoteCell, MidFieldQuoteCell
<1>4. ASSUME NEW b  PROVE P!InQuotedFieldCell(c, b) = InQuotedFieldCell(c, b)
  BY <1>1 DEF P!InQuotedFieldCell, InQuotedFieldCell
<1>5. ASSUME NEW b  PROVE P!AfterClosingQuoteCell(c, b) = AfterClosingQuoteCell(c, b)
  BY <1>1 DEF P!AfterClosingQuoteCell, AfterClosingQuoteCell
<1>6. ASSUME NEW b  PROVE P!InCommentCell(c, b) = InCommentCell(c, b)
  BY <1>1 DEF P!InCommentCell, InCommentCell
<1>7. ASSUME NEW b  PROVE P!RecordStartCell(c, b) = RecordStartCell(c, b)
  BY <1>1, <1>2 DEF P!RecordStartCell, RecordStartCell
<1>8. ASSUME NEW state, NEW b  PROVE P!Transition(c, state, b) = Transition(c, state, b)
  BY <1>2, <1>3, <1>4, <1>5, <1>6, <1>7 DEF P!Transition, Transition
<1> QED BY <1>1, <1>8

-----------------------------------------------------------------------------
(* A scan of the chunk at once, byte after byte: the function that         *)
(* ChunkParser's ScanTo ends with.                                         *)
ScanRunOf(f, c, strict, r, state, n) ==
  f = [i \in 0..n |->
         IF i = 0 THEN [state |-> state, at |-> P!NoOffset]
         ELSE P!The({P!ScanByte(c, strict, r, s, i - 1) : s \in {f[i - 1]}})]

FollowsTheBytes(f, c, strict, r, n) ==
  \A i \in 1..n : f[i] = P!ScanByte(c, strict, r, f[i - 1], i - 1)

LEMMA ScanRunExists ==
  ASSUME NEW c, NEW strict, NEW r, NEW state, NEW n \in Nat
  PROVE  \E f : ScanRunOf(f, c, strict, r, state, n)
<1> DEFINE Runs(k) == \E f : ScanRunOf(f, c, strict, r, state, k)
           T == {k \in Nat : ~Runs(k)}
           first == [state |-> state, at |-> P!NoOffset]
           Next1(p, i) == P!The({P!ScanByte(c, strict, r, s, i - 1) : s \in {p}})
<1>1. \A f, k : ScanRunOf(f, c, strict, r, state, k)
                <=> f = [i \in 0..k |-> IF i = 0 THEN first ELSE Next1(f[i - 1], i)]
  BY Zenon DEF ScanRunOf
<1> HIDE DEF first, Next1
<1>2. ASSUME NEW x \in T, \A y \in T : x <= y  PROVE FALSE
  <2>1. x \in Nat /\ ~Runs(x)
    BY <1>2
  <2>2. CASE x = 0
    <3> DEFINE f == [i \in 0..0 |-> first]
    <3>1. f = [i \in 0..0 |-> IF i = 0 THEN first ELSE Next1(f[i - 1], i)]
      OBVIOUS
    <3> HIDE DEF f
    <3> QED BY <1>1, <2>1, <2>2, <3>1
  <2>3. CASE x # 0
    <3>1. x - 1 \in Nat /\ x - 1 \notin T
      BY <1>2, <2>1, <2>3
    <3>2. Runs(x - 1)
      BY <3>1
    <3>3. PICK f : f = [i \in 0..(x - 1) |-> IF i = 0 THEN first ELSE Next1(f[i - 1], i)]
      BY <1>1, <3>2
    <3> DEFINE g == [i \in 0..x |-> IF i = x THEN Next1(f[i - 1], i) ELSE f[i]]
               h == [i \in 0..x |-> IF i = 0 THEN first ELSE Next1(g[i - 1], i)]
    <3>4. ASSUME NEW i \in 0..x  PROVE g[i] = h[i]
      <4>1. i # 0 => i - 1 \in 0..(x - 1) /\ i - 1 \in 0..x /\ i - 1 # x
        BY <2>1
      <4>2. i # 0 => g[i - 1] = f[i - 1]
        BY <4>1
      <4>3. i # x => i \in 0..(x - 1)
        BY <2>1
      <4>4. i # x => f[i] = IF i = 0 THEN first ELSE Next1(f[i - 1], i)
        BY <3>3, <4>3
      <4> QED BY <2>3, <4>2, <4>4
    <3>5. g = h
      BY <3>4
    <3> HIDE DEF g
    <3> QED BY <1>1, <2>1, <3>5
  <2> QED BY <2>2, <2>3
<1>3. T = {}
  <2>1. T \in SUBSET Nat
    OBVIOUS
  <2> HIDE DEF T
  <2> QED BY <1>2, <2>1, LeastElement
<1> QED BY <1>3

LEMMA ScanRunIs ==
  ASSUME NEW c, NEW strict, NEW r, NEW state, NEW n \in Nat, NEW f,
         ScanRunOf(f, c, strict, r, state, n)
  PROVE  /\ f[0] = [state |-> state, at |-> P!NoOffset]
         /\ FollowsTheBytes(f, c, strict, r, n)
<1>1. 0 \in 0..n /\ \A i \in 1..n : i \in 0..n /\ i # 0
  OBVIOUS
<1>2. \A i \in 1..n : f[i] = P!The({P!ScanByte(c, strict, r, s, i - 1) : s \in {f[i - 1]}})
  BY <1>1, Zenon DEF ScanRunOf
<1>3. f[0] = [state |-> state, at |-> P!NoOffset]
  BY <1>1, Zenon DEF ScanRunOf
<1>4. ASSUME NEW i \in 1..n  PROVE f[i] = P!ScanByte(c, strict, r, f[i - 1], i - 1)
  <2>1. {P!ScanByte(c, strict, r, s, i - 1) : s \in {f[i - 1]}}
          = {P!ScanByte(c, strict, r, f[i - 1], i - 1)}
    OBVIOUS
  <2> QED BY <1>2, <2>1, TheOneIs
<1> QED BY <1>3, <1>4 DEF FollowsTheBytes

LEMMA ScanToIs ==
  ASSUME NEW c, NEW strict, NEW r, NEW state, NEW n \in Nat
  PROVE  LET f == CHOOSE g : ScanRunOf(g, c, strict, r, state, n)
         IN  ScanRunOf(f, c, strict, r, state, n) /\ P!ScanTo(c, strict, r, state, n) = f[n]
<1> DEFINE f == CHOOSE g : ScanRunOf(g, c, strict, r, state, n)
<1>1. ScanRunOf(f, c, strict, r, state, n)
  BY ScanRunExists, Zenon
<1>2. P!ScanTo(c, strict, r, state, n) = f[n]
  BY Zenon DEF ScanRunOf, P!ScanTo
<1> QED BY <1>1, <1>2

(* A scan that has come to an end stays there.                             *)
LEMMA ScanStays ==
  ASSUME NEW c, NEW strict, NEW r, NEW state, NEW n \in Nat, NEW f,
         ScanRunOf(f, c, strict, r, state, n),
         NEW k \in 0..n, f[k].state \in P!ScanOutcomes
  PROVE  f[n] = f[k]
<1> DEFINE T == {i \in k..n : f[i] # f[k]}
<1>1. T \in SUBSET Nat
  OBVIOUS
<1>2. ASSUME NEW x \in T, \A y \in T : x <= y  PROVE FALSE
  <2>1. x \in Nat /\ x \in k..n /\ f[x] # f[k] /\ x # k
    BY <1>1, <1>2
  <2>2. x - 1 \in k..n /\ ~(x <= x - 1) /\ x \in 1..n
    BY <2>1
  <2>3. f[x - 1] = f[k]
    BY <1>2, <2>2
  <2>4. \A i \in 1..n : f[i] = P!ScanByte(c, strict, r, f[i - 1], i - 1)
    <3>1. FollowsTheBytes(f, c, strict, r, n)
      BY ScanRunIs
    <3> QED BY <3>1 DEF FollowsTheBytes
  <2>5. f[x] = P!ScanByte(c, strict, r, f[x - 1], x - 1)
    BY <2>2, <2>4
  <2> QED BY <2>1, <2>3, <2>5 DEF P!ScanByte
<1>3. T = {}
  <2> HIDE DEF T
  <2> QED BY <1>1, <1>2, LeastElement
<1>4. n \in k..n
  OBVIOUS
<1> QED BY <1>3, <1>4

-----------------------------------------------------------------------------
(* The search of a job, in one scan.                                       *)
SearchEnd == Least(job.limit, Len(job.bytes))
PureConfig == IF job.find = "SkipHeaders" THEN config ELSE P!FindDfa(config)
PureState ==
  IF job.find = "SkipHeaders" THEN "RecordStart" ELSE P!AssumptionToState(config, job.assumption)
SearchRun ==
  CHOOSE f : ScanRunOf(f, PureConfig, job.find = "Strict", Reader, PureState, SearchEnd)
Found == P!Scan(config, Reader, job.assumption, job.find)
Skipped == P!SkipEmptyLines(config, Reader, record_start)

LEMMA JobFacts ==
  ASSUME job \in Jobs
  PROVE  /\ job.bytes \in Seq(STRING) /\ Len(job.bytes) \in Nat /\ job.limit \in Nat
         /\ config \in Dialects /\ ValidDialect(config)
         /\ SearchEnd \in Nat /\ SearchEnd <= job.limit /\ SearchEnd <= Len(job.bytes)
         /\ SearchEnd = job.limit \/ SearchEnd = Len(job.bytes)
         /\ job.find \in {"No", "SkipHeaders", "Strict", "Lenient"}
         /\ job.backend \in {"DFA", "SIMD"}
         /\ job.assumption \in {"OutOfQuotes", "InQuotes", "InQuotesAfterEscape"}
         /\ job.find \in {"No", "SkipHeaders"} => job.assumption = "OutOfQuotes"
         /\ job.backend = "SIMD" => config.quote_handling = "Toggle" /\ config.comment = NoByte
         /\ \A i \in 1..Len(job.bytes) : job.bytes[i] # NoByte
<1>1. /\ job.bytes \in Seq(STRING) /\ job.limit \in Nat
      /\ config \in Dialects /\ ValidDialect(config)
  BY JobsAssumption DEF config
<1>2. Len(job.bytes) \in Nat /\ DOMAIN job.bytes = 1..Len(job.bytes)
  BY <1>1
<1>3. /\ SearchEnd \in Nat /\ SearchEnd <= job.limit /\ SearchEnd <= Len(job.bytes)
      /\ SearchEnd = job.limit \/ SearchEnd = Len(job.bytes)
  BY <1>1, <1>2 DEF SearchEnd, Least
<1> QED BY <1>1, <1>2, <1>3, SearchesAssumption DEF config

LEMMA ReaderIs ==
  ASSUME job \in Jobs
  PROVE  /\ Reader.bytes = job.bytes /\ Reader.limit = job.limit /\ Reader.bad = -1
         /\ P!EofOf(Reader) = Len(job.bytes) /\ P!ReadableEnd(Reader) = Len(job.bytes)
         /\ \A i : P!ByteAt(Reader, i) = job.bytes[i + 1]
BY DEF Reader, P!EofOf, P!ReadableEnd, P!ByteAt, P!NoOffset

LEMMA FindRecordStartIs ==
  ASSUME job \in Jobs, NEW c, NEW strict, NEW state
  PROVE  P!FindRecordStartFrom(c, strict, Reader, state)
           = P!ScanTo(c, strict, Reader, state, SearchEnd)
<1>1. /\ job.limit \in Nat /\ Len(job.bytes) \in Nat /\ SearchEnd \in Nat
      /\ SearchEnd <= job.limit /\ SearchEnd <= Len(job.bytes)
      /\ SearchEnd = job.limit \/ SearchEnd = Len(job.bytes)
  BY JobFacts
<1>2. Reader.limit = job.limit /\ P!ReadableEnd(Reader) = Len(job.bytes) /\ Reader.bad = -1
  BY ReaderIs
<1>3. P!Min({job.limit, Len(job.bytes)}) = SearchEnd
  <2> DEFINE S == {job.limit, Len(job.bytes)}
  <2>1. S \in SUBSET Nat /\ SearchEnd \in S /\ \A x \in S : SearchEnd <= x
    BY <1>1
  <2> HIDE DEF S
  <2>2. P!Min(S) = SearchEnd
    BY <2>1, MinIs, Zenon
  <2> QED BY <2>2 DEF S
<1>4. SearchEnd # -1
  BY <1>1
<1> QED BY <1>2, <1>3, <1>4 DEF P!FindRecordStartFrom, P!UnlessUnreadable

LEMMA FoundIs ==
  ASSUME job \in Jobs, job.find # "No"
  PROVE  /\ Found = SearchRun[SearchEnd]
         /\ ScanRunOf(SearchRun, PureConfig, job.find = "Strict", Reader, PureState, SearchEnd)
<1>1. SearchEnd \in Nat /\ job.find \in {"SkipHeaders", "Strict", "Lenient"}
  BY JobFacts
<1>2. /\ ScanRunOf(SearchRun, PureConfig, job.find = "Strict", Reader, PureState, SearchEnd)
      /\ P!ScanTo(PureConfig, job.find = "Strict", Reader, PureState, SearchEnd)
           = SearchRun[SearchEnd]
  BY <1>1, ScanToIs, Zenon DEF SearchRun
<1>3. Found = P!FindRecordStartFrom(PureConfig, job.find = "Strict", Reader, PureState)
  <2>1. CASE job.find = "SkipHeaders"
    <3>1. Found = P!FindRecordStartFrom(config, FALSE, Reader, "RecordStart")
      BY <2>1 DEF Found, P!Scan, P!ScanHeaderEnd
    <3>2. (job.find = "Strict") = FALSE
      BY <2>1
    <3> QED BY <2>1, <3>1, <3>2 DEF PureConfig, PureState
  <2>2. CASE job.find = "Strict"
    <3>1. Found = P!FindRecordStartFrom(P!FindDfa(config), TRUE, Reader,
                                        P!AssumptionToState(config, job.assumption))
      BY <2>2 DEF Found, P!Scan, P!ScanRecordStart
    <3>2. (job.find = "Strict") = TRUE
      BY <2>2
    <3> QED BY <2>2, <3>1, <3>2 DEF PureConfig, PureState
  <2>3. CASE job.find = "Lenient"
    <3>1. Found = P!FindRecordStartFrom(P!FindDfa(config), FALSE, Reader,
                                        P!AssumptionToState(config, job.assumption))
      BY <2>3 DEF Found, P!Scan, P!ScanRecordStart
    <3>2. (job.find = "Strict") = FALSE
      BY <2>3
    <3> QED BY <2>3, <3>1, <3>2 DEF PureConfig, PureState
  <2> QED BY <1>1, <2>1, <2>2, <2>3
<1>4. Found = P!ScanTo(PureConfig, job.find = "Strict", Reader, PureState, SearchEnd)
  BY <1>3, FindRecordStartIs
<1> QED BY <1>2, <1>4

(* The two tables of a search are one: what the SIMD back end takes is     *)
(* Toggle as it stands.                                                    *)
LEMMA SearchConfigIs ==
  ASSUME job \in Jobs
  PROVE  /\ SearchConfig = PureConfig /\ ValidDialect(PureConfig)
         /\ Terminators(PureConfig) = Terminators(config)
         /\ job.find = "SkipHeaders" => PureConfig = config
<1>1. /\ config \in Dialects /\ ValidDialect(config) /\ job.backend \in {"DFA", "SIMD"}
      /\ job.backend = "SIMD" => config.quote_handling = "Toggle"
  BY JobFacts
<1>2. ValidDialect(P!FindDfa(config)) /\ Terminators(P!FindDfa(config)) = Terminators(config)
  BY <1>1 DEF P!FindDfa, ValidDialect, Terminators, Dialects, QuoteHandlings
<1>3. job.backend = "SIMD" => P!FindDfa(config) = config
  BY <1>1 DEF P!FindDfa, Dialects
<1> QED BY <1>1, <1>2, <1>3 DEF SearchConfig, PureConfig, DfaHeader

(* An empty line ends no record.                                           *)
LEMMA LineBetweenRecords ==
  ASSUME NEW c, ValidDialect(c), NEW b \in Terminators(c), b # NoByte
  PROVE  Transition(c, "RecordStart", b) = Consume("RecordStart")
<1>1. b # c.comment
  BY DEF ValidDialect
<1> QED BY <1>1 DEF Transition, RecordStartCell

(* The scan behind the blank lines before a SIMD header row begins a field *)
(* where the scan of the chunk begins a record.                            *)
LEMMA ContentBeginsAField ==
  ASSUME NEW c, c.comment = NoByte, NEW b, b # NoByte, b \notin Terminators(c)
  PROVE  Transition(c, "RecordStart", b) = Transition(c, "FieldStart", b)
BY DEF Transition, RecordStartCell

-----------------------------------------------------------------------------
(* Where the search is, that scan is too.                                  *)
SimdHeader == job.find = "SkipHeaders" /\ job.backend = "SIMD"
ContentAhead ==
  total_consumed = SearchEnd \/ job.bytes[total_consumed + 1] \notin Terminators(config)

Leading ==
  phase = "lead" =>
    /\ SimdHeader /\ record_start = P!NoOffset /\ dfa_state = "FieldStart"
    /\ total_consumed <= SearchEnd /\ SearchRun[total_consumed].state = "RecordStart"
ScanFollows ==
  phase = "scan" =>
    /\ job.find # "No" /\ record_start = P!NoOffset /\ dfa_state \in InteriorStates
    /\ total_consumed <= SearchEnd
    /\ \/ SearchRun[total_consumed].state = dfa_state
       \/ /\ SimdHeader /\ ContentAhead
          /\ SearchRun[total_consumed].state = "RecordStart" /\ dfa_state = "FieldStart"
FoundIt == Found.state = "RecordEnd" /\ record_start = Found.at /\ record_start \in Nat
SkipFollows ==
  phase = "skip" =>
    /\ FoundIt /\ record_start <= total_consumed /\ total_consumed <= job.limit
    /\ \A i \in record_start..(total_consumed - 1) : job.bytes[i + 1] \in Terminators(config)
BaseIsRight ==
  phase \in {"simd", "fill", "validate", "step", "finish"} =>
    FoundIt /\ base = Skipped.at /\ ~Skipped.outlasts

SearchInv == Leading /\ ScanFollows /\ SkipFollows /\ BaseIsRight

(* The bytes a search sees are the file's.                                 *)
LEMMA SearchFacts ==
  ASSUME DriverInv, Searching
  PROVE  /\ total_consumed \in Nat /\ pos = 0 /\ Len(job.bytes) \in Nat /\ job.limit \in Nat
         /\ total_consumed <= Len(job.bytes)
         /\ remaining > 0 <=> total_consumed < job.limit
         /\ remaining = 0 <=> job.limit <= total_consumed
         /\ AtEof <=> total_consumed = Len(job.bytes)
         /\ buf # <<>> => /\ total_consumed < Len(job.bytes)
                          /\ buf[1] = job.bytes[total_consumed + 1]
<1>1. /\ buf \in Seq(STRING) /\ Len(buf) \in Nat /\ pos = 0 /\ validated = 0
      /\ total_consumed \in Nat /\ position = total_consumed /\ Len(job.bytes) \in Nat
      /\ job.limit \in Nat /\ total_consumed + Len(buf) <= Len(job.bytes)
      /\ \A i \in (pos + 1)..Len(buf) : buf[i] = job.bytes[total_consumed + i]
  BY DriverFacts DEF DriverInv, NotBegun
<1>2. buf # <<>> => Len(buf) > 0 /\ 1 \in (pos + 1)..Len(buf)
  BY <1>1
<1>3. buf # <<>> => total_consumed < Len(job.bytes) /\ buf[1] = job.bytes[total_consumed + 1]
  BY <1>1, <1>2
<1>4. (remaining > 0 <=> total_consumed < job.limit)
      /\ (remaining = 0 <=> job.limit <= total_consumed)
  BY <1>1 DEF remaining, Minus
<1>5. AtEof <=> total_consumed = Len(job.bytes)
  BY <1>1 DEF AtEof, BytesLeft
<1> QED BY <1>1, <1>3, <1>4, <1>5

LEMMA SameSearch ==
  ASSUME job' = job
  PROVE  /\ config' = config /\ SearchEnd' = SearchEnd /\ SearchRun' = SearchRun
         /\ Found' = Found /\ (SimdHeader' <=> SimdHeader)
         /\ record_start' = record_start => Skipped' = Skipped /\ (FoundIt' <=> FoundIt)
BY DEF config, SearchEnd, PureConfig, PureState, SearchRun, Found, Skipped, Reader, SimdHeader,
       FoundIt

LEMMA SearchStands ==
  ASSUME SearchInv, job' = job, total_consumed' = total_consumed, base' = base,
         UNCHANGED search, phase' \in {phase, "returned"}
  PROVE  SearchInv'
<1>1. dfa_state' = dfa_state /\ record_start' = record_start
  BY DEF search
<1> QED BY <1>1, SameSearch
    DEF SearchInv, Leading, ScanFollows, ContentAhead, SkipFollows, BaseIsRight

LEMMA ParseKeepsSearch ==
  ASSUME SearchInv, Parse, UNCHANGED search
  PROVE  SearchInv'
<1>1. /\ job' = job /\ base' = base
      /\ phase \in {"fill", "validate", "step", "finish"}
      /\ phase' \in {"fill", "validate", "step", "finish", "returned"}
  BY DEF Parse, Fill, FillFails, Validate, RejectText, StepByte, SkipEmptyLine, StopOnEmptyLine,
         Take, RejectQuote, EndField, EndRecord, RejectRecord, Suspend, RejectTail, Finishing,
         FinishOutside, FinishQuoted, FinishRecord, Scanning, Return, driver
<1>2. record_start' = record_start
  BY DEF search
<1> QED BY <1>1, <1>2, SameSearch
    DEF SearchInv, Leading, ScanFollows, SkipFollows, BaseIsRight

LEMMA SearchStarts ==
  ASSUME Init
  PROVE  SearchInv
<1>1. /\ job \in Jobs /\ phase = FirstPhase(job) /\ dfa_state = FirstState(job)
      /\ record_start = (IF job.find = "No" THEN 0 ELSE P!NoOffset) /\ total_consumed = 0
  BY DEF Init
<1>2. /\ SearchEnd \in Nat /\ job.find \in {"No", "SkipHeaders", "Strict", "Lenient"}
      /\ job.assumption \in {"OutOfQuotes", "InQuotes", "InQuotesAfterEscape"}
      /\ job.find \in {"No", "SkipHeaders"} => job.assumption = "OutOfQuotes"
      /\ job.limit \in Nat /\ job.backend \in {"DFA", "SIMD"}
  BY <1>1, JobFacts
<1>3. FirstState(job) \in InteriorStates
  BY <1>2 DEF FirstState, P!AssumptionToState, InteriorStates
<1>4. CASE job.find = "No"
  <2>1. phase = "skip" /\ record_start = 0 /\ Found = [state |-> "RecordEnd", at |-> 0]
    BY <1>1, <1>4 DEF FirstPhase, Found, P!Scan
  <2>2. \A i \in 0..(0 - 1) : FALSE
    OBVIOUS
  <2> QED BY <1>1, <1>2, <2>1, <2>2
      DEF SearchInv, Leading, ScanFollows, SkipFollows, BaseIsRight, FoundIt
<1>5. CASE job.find # "No"
  <2>1. ScanRunOf(SearchRun, PureConfig, job.find = "Strict", Reader, PureState, SearchEnd)
    BY <1>1, <1>5, FoundIs
  <2>2. SearchRun[0] = [state |-> PureState, at |-> P!NoOffset]
    BY <1>2, <2>1, ScanRunIs
  <2>3. SearchRun[0].state = PureState /\ 0 <= SearchEnd
    BY <1>2, <2>2
  <2>4. CASE SimdHeader
    <3>1. phase = "lead" /\ dfa_state = "FieldStart" /\ PureState = "RecordStart"
      BY <1>1, <1>2, <2>4 DEF SimdHeader, FirstPhase, FirstState, DfaHeader, PureState,
                              P!AssumptionToState
    <3> QED BY <1>1, <1>5, <2>3, <2>4, <3>1
        DEF SearchInv, Leading, ScanFollows, SkipFollows, BaseIsRight
  <2>5. CASE ~SimdHeader
    <3>1. phase = "scan"
      BY <1>1, <1>5, <2>5 DEF SimdHeader, FirstPhase
    <3>2. dfa_state = PureState
      BY <1>1, <1>2, <2>5 DEF SimdHeader, FirstState, DfaHeader, PureState, config
    <3> QED BY <1>1, <1>3, <1>5, <2>3, <3>1, <3>2
        DEF SearchInv, Leading, ScanFollows, SkipFollows, BaseIsRight
  <2> QED BY <2>4, <2>5
<1> QED BY <1>4, <1>5

(* A byte of the scan is a byte of the search.                             *)
LEMMA SameByteSameCell ==
  ASSUME DriverInv, SearchInv, phase = "scan", InChunk
  PROVE  /\ total_consumed \in Nat /\ total_consumed + 1 \in 1..SearchEnd
         /\ SearchRun[total_consumed + 1]
              = P!ScanTaking(Transition(SearchConfig, dfa_state, buf[1]), job.find = "Strict",
                             total_consumed)
         /\ Transition(SearchConfig, dfa_state, buf[1]).next \in InteriorStates \cup ActionStates
<1> DEFINE cell == Transition(SearchConfig, dfa_state, buf[1])
           here == SearchRun[total_consumed]
<1>1. /\ job \in Jobs /\ total_consumed \in Nat /\ total_consumed < job.limit
      /\ total_consumed < Len(job.bytes) /\ buf[1] = job.bytes[total_consumed + 1]
  BY SearchFacts DEF DriverInv, Types, Searching, InChunk
<1>2. /\ job.find # "No" /\ dfa_state \in InteriorStates
      /\ \/ here.state = dfa_state
         \/ /\ SimdHeader /\ ContentAhead
            /\ here.state = "RecordStart" /\ dfa_state = "FieldStart"
  BY DEF SearchInv, ScanFollows
<1>3. /\ SearchEnd \in Nat /\ (SearchEnd = job.limit \/ SearchEnd = Len(job.bytes))
      /\ job.limit \in Nat /\ Len(job.bytes) \in Nat
      /\ job.backend = "SIMD" => config.comment = NoByte
      /\ \A i \in 1..Len(job.bytes) : job.bytes[i] # NoByte
  BY <1>1, JobFacts
<1>4. /\ total_consumed + 1 \in 1..SearchEnd /\ total_consumed + 1 \in 1..Len(job.bytes)
      /\ total_consumed # SearchEnd /\ (total_consumed + 1) - 1 = total_consumed
  BY <1>1, <1>3
<1>5. /\ SearchConfig = PureConfig /\ ValidDialect(PureConfig)
      /\ job.find = "SkipHeaders" => PureConfig = config
  BY <1>1, SearchConfigIs
<1>6. cell.next \in InteriorStates \cup ActionStates
  BY <1>2, <1>5, TableIsTotal
<1>7. Transition(PureConfig, here.state, job.bytes[total_consumed + 1]) = cell
      /\ here.state \in InteriorStates
  <2>1. CASE here.state = dfa_state
    BY <1>1, <1>2, <1>5, <2>1
  <2>2. CASE here.state # dfa_state
    <3>1. /\ job.bytes[total_consumed + 1] # NoByte /\ config.comment = NoByte
          /\ job.bytes[total_consumed + 1] \notin Terminators(config) /\ PureConfig = config
      BY <1>2, <1>3, <1>4, <1>5, <2>2 DEF SimdHeader, ContentAhead
    <3>2. here.state = "RecordStart" /\ dfa_state = "FieldStart"
      BY <1>2, <2>2
    <3> QED BY <1>1, <1>5, <3>1, <3>2, ContentBeginsAField DEF InteriorStates
  <2> QED BY <2>1, <2>2
<1>8. SearchRun[total_consumed + 1]
        = P!ScanByte(PureConfig, job.find = "Strict", Reader, here, total_consumed)
  <2>1. ScanRunOf(SearchRun, PureConfig, job.find = "Strict", Reader, PureState, SearchEnd)
    BY <1>1, <1>2, FoundIs
  <2>2. FollowsTheBytes(SearchRun, PureConfig, job.find = "Strict", Reader, SearchEnd)
    BY <1>3, <2>1, ScanRunIs
  <2> QED BY <1>4, <2>2 DEF FollowsTheBytes
<1>9. P!ByteAt(Reader, total_consumed) = job.bytes[total_consumed + 1]
  BY <1>1, ReaderIs
<1>10. here.state \notin P!ScanOutcomes
  BY <1>7 DEF P!ScanOutcomes, InteriorStates
<1> HIDE DEF cell, here
<1>11. SearchRun[total_consumed + 1] = P!ScanTaking(cell, job.find = "Strict", total_consumed)
  BY <1>7, <1>8, <1>9, <1>10, OneTable DEF P!ScanByte
<1> QED BY <1>1, <1>4, <1>6, <1>11 DEF cell

LEMMA ScannedOn ==
  ASSUME DriverInv, SearchInv, phase = "scan", InChunk,
         ScanOn(Transition(SearchConfig, dfa_state, buf[1]))
  PROVE  SearchInv'
<1> DEFINE cell == Transition(SearchConfig, dfa_state, buf[1])
<1>1. /\ total_consumed \in Nat /\ total_consumed + 1 \in 1..SearchEnd
      /\ SearchRun[total_consumed + 1] = P!ScanTaking(cell, job.find = "Strict", total_consumed)
      /\ cell.next \in InteriorStates \cup ActionStates
  BY SameByteSameCell
<1>2. /\ ~StrictlyRejected(cell) /\ cell.next \notin {"Error", "RecordEnd"}
      /\ job' = job /\ phase' = phase /\ record_start' = record_start
      /\ total_consumed' = total_consumed + 1
      /\ dfa_state' = IF cell.next = "FieldEnd" THEN "FieldStart" ELSE cell.next
  BY DEF ScanOn, ConsumeByte
<1> HIDE DEF cell
<1>3. SearchRun[total_consumed + 1].state = dfa_state'
  BY <1>1, <1>2 DEF P!ScanTaking, StrictlyRejected
<1>4. dfa_state' \in InteriorStates
  BY <1>1, <1>2 DEF InteriorStates, ActionStates
<1>5. total_consumed + 1 <= SearchEnd
  BY <1>1
<1>6. job.find # "No" /\ record_start = P!NoOffset
  BY DEF SearchInv, ScanFollows
<1>7. SearchRun' = SearchRun /\ SearchEnd' = SearchEnd
  BY <1>2, SameSearch
<1> QED BY <1>2, <1>3, <1>4, <1>5, <1>6, <1>7
    DEF SearchInv, Leading, ScanFollows, SkipFollows, BaseIsRight

LEMMA RecordFound ==
  ASSUME DriverInv, SearchInv, phase = "scan", InChunk,
         FindRecord(Transition(SearchConfig, dfa_state, buf[1]))
  PROVE  SearchInv'
<1> DEFINE cell == Transition(SearchConfig, dfa_state, buf[1])
<1>1. /\ total_consumed \in Nat /\ total_consumed + 1 \in 1..SearchEnd
      /\ SearchRun[total_consumed + 1] = P!ScanTaking(cell, job.find = "Strict", total_consumed)
  BY SameByteSameCell
<1>2. /\ ~StrictlyRejected(cell) /\ cell.next = "RecordEnd"
      /\ job' = job /\ phase' = "skip" /\ record_start' = total_consumed
      /\ total_consumed' = total_consumed
  BY DEF FindRecord, driver
<1> HIDE DEF cell
<1>3. SearchRun[total_consumed + 1] = [state |-> "RecordEnd", at |-> total_consumed]
  BY <1>1, <1>2 DEF P!ScanTaking, StrictlyRejected
<1>4. job \in Jobs /\ job.find # "No"
  BY DEF DriverInv, Types, SearchInv, ScanFollows
<1>5. SearchEnd \in Nat /\ SearchEnd <= job.limit /\ job.limit \in Nat
  BY <1>4, JobFacts
<1>6. Found = SearchRun[total_consumed + 1]
  <2>1. /\ ScanRunOf(SearchRun, PureConfig, job.find = "Strict", Reader, PureState, SearchEnd)
        /\ Found = SearchRun[SearchEnd]
    BY <1>4, FoundIs
  <2>2. total_consumed + 1 \in 0..SearchEnd
    BY <1>1
  <2>3. SearchRun[total_consumed + 1].state \in P!ScanOutcomes
    BY <1>3 DEF P!ScanOutcomes
  <2>4. SearchRun[SearchEnd] = SearchRun[total_consumed + 1]
    BY <1>5, <2>1, <2>2, <2>3, ScanStays
  <2> QED BY <2>1, <2>4
<1>7. Found' = Found
  BY <1>2, SameSearch
<1>8. /\ total_consumed <= total_consumed /\ total_consumed <= job.limit
      /\ \A i \in total_consumed..(total_consumed - 1) : FALSE
  BY <1>1, <1>5
<1> QED BY <1>1, <1>2, <1>3, <1>6, <1>7, <1>8
    DEF SearchInv, Leading, ScanFollows, SkipFollows, BaseIsRight, FoundIt

LEMMA LineOfTheSearchSkipped ==
  ASSUME DriverInv, SearchInv, SkipLines
  PROVE  SearchInv'
<1>1. /\ phase \in {"lead", "skip"} /\ buf # <<>> /\ buf[1] \in Terminators(config) /\ remaining > 0
      /\ job' = job /\ phase' = phase /\ total_consumed' = total_consumed + 1
      /\ dfa_state' = dfa_state /\ record_start' = record_start
  BY DEF SkipLines, AtTerminator, ConsumeByte, search
<1>2. /\ total_consumed \in Nat /\ total_consumed < job.limit /\ total_consumed < Len(job.bytes)
      /\ job.bytes[total_consumed + 1] \in Terminators(config)
      /\ Len(job.bytes) \in Nat /\ job.limit \in Nat /\ job \in Jobs
  BY <1>1, SearchFacts DEF Searching, DriverInv, Types
<1>3. /\ SearchEnd \in Nat /\ (SearchEnd = job.limit \/ SearchEnd = Len(job.bytes))
  BY <1>2, JobFacts
<1>4. /\ config' = config /\ SearchEnd' = SearchEnd /\ SearchRun' = SearchRun
      /\ (SimdHeader' <=> SimdHeader) /\ (FoundIt' <=> FoundIt)
  BY <1>1, SameSearch
<1>5. CASE phase = "lead"
  <2>1. total_consumed + 1 \in 1..SearchEnd /\ (total_consumed + 1) - 1 = total_consumed
    BY <1>2, <1>3
  <2>2. /\ SimdHeader /\ record_start = P!NoOffset /\ dfa_state = "FieldStart"
        /\ SearchRun[total_consumed].state = "RecordStart"
    BY <1>5 DEF SearchInv, Leading
  <2>3. job.find = "SkipHeaders" /\ PureConfig = config
    BY <1>2, <2>2, SearchConfigIs DEF SimdHeader
  <2>4. SearchRun[total_consumed + 1]
          = P!ScanByte(config, FALSE, Reader, SearchRun[total_consumed], total_consumed)
    <3>1. ScanRunOf(SearchRun, PureConfig, job.find = "Strict", Reader, PureState, SearchEnd)
      BY <1>2, <2>3, FoundIs
    <3>2. FollowsTheBytes(SearchRun, PureConfig, job.find = "Strict", Reader, SearchEnd)
      BY <1>3, <3>1, ScanRunIs
    <3>3. (job.find = "Strict") = FALSE
      BY <2>3
    <3> QED BY <2>1, <2>3, <3>2, <3>3 DEF FollowsTheBytes
  <2>5. P!ByteAt(Reader, total_consumed) = job.bytes[total_consumed + 1]
    BY <1>2, ReaderIs
  <2>6. Transition(config, "RecordStart", job.bytes[total_consumed + 1]) = Consume("RecordStart")
    <3>1. total_consumed + 1 \in 1..Len(job.bytes)
      BY <1>2
    <3>2. job.bytes[total_consumed + 1] # NoByte /\ ValidDialect(config)
      BY <1>2, <3>1, JobFacts
    <3> QED BY <1>2, <3>2, LineBetweenRecords
  <2>7. SearchRun[total_consumed + 1].state = "RecordStart"
    BY <2>2, <2>4, <2>5, <2>6, OneTable DEF P!ScanByte, P!ScanTaking, P!ScanOutcomes, Consume, Cell
  <2>8. total_consumed + 1 <= SearchEnd
    BY <2>1
  <2> QED BY <1>1, <1>4, <1>5, <2>2, <2>7, <2>8
      DEF SearchInv, Leading, ScanFollows, SkipFollows, BaseIsRight
<1>6. CASE phase = "skip"
  <2>1. /\ FoundIt /\ record_start \in Nat /\ record_start <= total_consumed
        /\ \A i \in record_start..(total_consumed - 1) : job.bytes[i + 1] \in Terminators(config)
    BY <1>6 DEF SearchInv, SkipFollows, FoundIt
  <2>2. record_start <= total_consumed + 1 /\ total_consumed + 1 <= job.limit
    BY <1>2, <2>1
  <2>3. ASSUME NEW i \in record_start..((total_consumed + 1) - 1)
        PROVE  job.bytes[i + 1] \in Terminators(config)
    <3>1. i \in record_start..(total_consumed - 1) \/ i = total_consumed
      BY <1>2, <2>1
    <3> QED BY <1>2, <2>1, <3>1
  <2> QED BY <1>1, <1>4, <1>6, <2>1, <2>2, <2>3
      DEF SearchInv, Leading, ScanFollows, SkipFollows, BaseIsRight
<1> QED BY <1>1, <1>5, <1>6

LEMMA HeaderReached ==
  ASSUME DriverInv, SearchInv, LeadSkipped
  PROVE  SearchInv'
<1>1. /\ phase = "lead" /\ phase' = "scan" /\ job' = job /\ total_consumed' = total_consumed
      /\ dfa_state' = dfa_state /\ record_start' = record_start
      /\ AtContent \/ (AtTerminator /\ remaining = 0)
  BY DEF LeadSkipped, driver, search
<1>2. /\ SimdHeader /\ record_start = P!NoOffset /\ dfa_state = "FieldStart"
      /\ total_consumed <= SearchEnd /\ SearchRun[total_consumed].state = "RecordStart"
  BY <1>1 DEF SearchInv, Leading
<1>3. /\ total_consumed \in Nat /\ Len(job.bytes) \in Nat /\ job.limit \in Nat /\ job \in Jobs
      /\ remaining = 0 <=> job.limit <= total_consumed
      /\ AtEof <=> total_consumed = Len(job.bytes)
      /\ buf # <<>> => buf[1] = job.bytes[total_consumed + 1]
  BY <1>1, SearchFacts DEF Searching, DriverInv, Types
<1>4. SearchEnd \in Nat /\ SearchEnd <= job.limit /\ SearchEnd <= Len(job.bytes)
  BY <1>3, JobFacts
<1>5. ContentAhead
  <2>1. CASE remaining = 0 \/ AtEof
    BY <1>2, <1>3, <1>4, <2>1 DEF ContentAhead
  <2>2. CASE AtContent /\ ~AtEof
    BY <1>3, <2>2 DEF AtContent, AtTerminator, ContentAhead
  <2> QED BY <1>1, <2>1, <2>2
<1>6. /\ config' = config /\ SearchEnd' = SearchEnd /\ SearchRun' = SearchRun
      /\ (SimdHeader' <=> SimdHeader)
  BY <1>1, SameSearch
<1>7. ContentAhead'
  BY <1>1, <1>5, <1>6 DEF ContentAhead
<1>8. job.find # "No" /\ dfa_state \in InteriorStates
  BY <1>2 DEF SimdHeader, InteriorStates
<1> QED BY <1>1, <1>2, <1>6, <1>7, <1>8
    DEF SearchInv, Leading, ScanFollows, SkipFollows, BaseIsRight

(* skip_empty_lines stops at the first byte that is none of them.          *)
LEMMA SkippedIs ==
  ASSUME job \in Jobs, record_start \in Nat, NEW at \in Nat, record_start <= at,
         at <= job.limit, at <= Len(job.bytes),
         \A i \in record_start..(at - 1) : job.bytes[i + 1] \in Terminators(config),
         \/ at = job.limit \/ at = Len(job.bytes)
         \/ job.bytes[at + 1] \notin Terminators(config)
  PROVE  /\ Skipped.at = at /\ ~Skipped.failed
         /\ Skipped.outlasts <=> /\ at < Len(job.bytes)
                                 /\ job.bytes[at + 1] \in Terminators(config)
<1> DEFINE stops == {i \in record_start..P!ReadableEnd(Reader) :
                       \/ i >= Reader.limit
                       \/ i = P!ReadableEnd(Reader)
                       \/ ~P!IsTerminatorAt(config, Reader, i)}
<1>1. /\ Reader.limit = job.limit /\ P!ReadableEnd(Reader) = Len(job.bytes) /\ Reader.bad = -1
      /\ \A i : P!IsTerminatorAt(config, Reader, i) <=> job.bytes[i + 1] \in Terminators(config)
  BY ReaderIs, OneTable DEF P!IsTerminatorAt
<1>2. Len(job.bytes) \in Nat /\ job.limit \in Nat
  BY JobFacts
<1>3. /\ stops \in SUBSET Nat
      /\ \A i : i \in stops <=> /\ i \in record_start..Len(job.bytes)
                                /\ \/ i >= job.limit \/ i = Len(job.bytes)
                                   \/ job.bytes[i + 1] \notin Terminators(config)
  BY <1>1, <1>2
<1>4. Skipped = [at |-> P!Min(stops), failed |-> P!Min(stops) = Reader.bad,
                 outlasts |-> /\ P!Min(stops) < P!ReadableEnd(Reader)
                              /\ P!IsTerminatorAt(config, Reader, P!Min(stops))]
  BY DEF Skipped, P!SkipEmptyLines
<1> HIDE DEF stops
<1>5. at \in stops
  BY <1>2, <1>3
<1>6. ASSUME NEW i \in stops  PROVE at <= i
  <2>1. /\ i \in record_start..Len(job.bytes)
        /\ \/ i >= job.limit \/ i = Len(job.bytes)
           \/ job.bytes[i + 1] \notin Terminators(config)
    BY <1>3
  <2>2. ~(at <= i) => i \in record_start..(at - 1) /\ ~(i >= job.limit) /\ i # Len(job.bytes)
    BY <1>2, <2>1
  <2> QED BY <2>1, <2>2
<1>7. P!Min(stops) = at
  BY <1>3, <1>5, <1>6, MinIs
<1>8. at # -1
  OBVIOUS
<1> QED BY <1>1, <1>4, <1>7, <1>8

LEMMA RecordReached ==
  ASSUME DriverInv, SearchInv, LinesSkipped
  PROVE  SearchInv'
<1>1. /\ phase = "skip" /\ phase' \in {"fill", "simd"} /\ job' = job /\ base' = total_consumed
      /\ record_start' = record_start /\ AtContent
  BY DEF LinesSkipped, Begin, search
<1>2. /\ FoundIt /\ record_start \in Nat /\ record_start <= total_consumed
      /\ total_consumed <= job.limit
      /\ \A i \in record_start..(total_consumed - 1) : job.bytes[i + 1] \in Terminators(config)
  BY <1>1 DEF SearchInv, SkipFollows, FoundIt
<1>3. /\ total_consumed \in Nat /\ Len(job.bytes) \in Nat /\ job \in Jobs
      /\ total_consumed <= Len(job.bytes)
      /\ AtEof <=> total_consumed = Len(job.bytes)
      /\ buf # <<>> => buf[1] = job.bytes[total_consumed + 1]
  BY <1>1, SearchFacts DEF Searching, DriverInv, Types
<1>4. total_consumed = Len(job.bytes) \/ job.bytes[total_consumed + 1] \notin Terminators(config)
  BY <1>1, <1>3 DEF AtContent, AtTerminator
<1>5. Skipped.at = total_consumed /\ ~Skipped.outlasts
  BY <1>2, <1>3, <1>4, SkippedIs
<1>6. Skipped' = Skipped /\ (FoundIt' <=> FoundIt)
  BY <1>1, SameSearch
<1> QED BY <1>1, <1>2, <1>5, <1>6
    DEF SearchInv, Leading, ScanFollows, SkipFollows, BaseIsRight

LEMMA SearchStays ==
  DriverInv /\ SearchInv /\ [Next]_passVars => SearchInv'
<1>1. ASSUME DriverInv, SearchInv, Next  PROVE SearchInv'
  <2>1. CASE \/ \E filled \in Fills(1) : Refill(filled)
             \/ SearchFails \/ FindNothing \/ LinesOutlastChunk
    BY <1>1, <2>1, SearchStands DEF Refill, SearchFails, FindNothing, LinesOutlastChunk, driver, Return
  <2>2. CASE Scan
    <3> DEFINE cell == Transition(SearchConfig, dfa_state, buf[1])
    <3>1. phase = "scan" /\ InChunk /\ (ScanOn(cell) \/ FindRecord(cell) \/ RejectScan(cell))
      BY <2>2 DEF Scan
    <3>2. CASE ScanOn(cell)
      BY <1>1, <3>1, <3>2, ScannedOn
    <3>3. CASE FindRecord(cell)
      BY <1>1, <3>1, <3>3, RecordFound
    <3>4. CASE RejectScan(cell)
      <4> HIDE DEF cell
      <4> QED BY <1>1, <3>4, SearchStands DEF RejectScan, driver, Return
    <3> QED BY <3>1, <3>2, <3>3, <3>4
  <2>3. CASE SkipLines
    BY <1>1, <2>3, LineOfTheSearchSkipped
  <2>4. CASE LeadSkipped
    BY <1>1, <2>4, HeaderReached
  <2>5. CASE LinesSkipped
    BY <1>1, <2>5, RecordReached
  <2>6. CASE Parse /\ UNCHANGED search
    BY <1>1, <2>6, ParseKeepsSearch
  <2> QED BY <1>1, <2>1, <2>2, <2>3, <2>4, <2>5, <2>6 DEF Next
<1>2. ASSUME SearchInv, UNCHANGED passVars  PROVE SearchInv'
  BY <1>2, SearchStands DEF passVars, vars, driver
<1> QED BY <1>1, <1>2

THEOREM SearchIsRight == Spec => []SearchInv
<1>1. Init => SearchInv
  BY SearchStarts
<1> QED BY <1>1, SearchStays, DriverIsRight, PTL DEF Spec

(* Wherever the buffer was refilled, and whichever back end searches, the  *)
(* record and the byte the parse begins with are those of one scan of the  *)
(* chunk (chunk.rs, find_record_start and skip_empty_lines).               *)
THEOREM SearchFindsWhatOneScanFinds == Spec => []SearchIsExact
<1>1. SearchInv => SearchIsExact
  BY DEF SearchInv, SkipFollows, BaseIsRight, FoundIt, Found, Skipped, SearchIsExact, HandedOver
<1> QED BY <1>1, SearchIsRight, PTL

-----------------------------------------------------------------------------
(* A parse of the chunk at once, byte after byte: the function that        *)
(* ChunkParser's StepTo ends with.                                         *)
StepRunOf(f, c, r, from, n) ==
  f = [i \in from..n |->
         IF i = from THEN P!NewStepper(from)
         ELSE P!The({P!StepByte(c, r, s, i - 1) : s \in {f[i - 1]}})]
StepsByTheBytes(f, c, r, from, n) ==
  \A i \in (from + 1)..n : f[i] = P!StepByte(c, r, f[i - 1], i - 1)

LEMMA StepRunExists ==
  ASSUME NEW c, NEW r, NEW from \in Nat, NEW n \in Nat, from <= n
  PROVE  \E f : StepRunOf(f, c, r, from, n)
<1> DEFINE Runs(k) == \E f : StepRunOf(f, c, r, from, k)
           T == {k \in Nat : from <= k /\ ~Runs(k)}
           first == P!NewStepper(from)
           Next1(p, i) == P!The({P!StepByte(c, r, s, i - 1) : s \in {p}})
<1>1. \A f, k : StepRunOf(f, c, r, from, k)
                <=> f = [i \in from..k |-> IF i = from THEN first ELSE Next1(f[i - 1], i)]
  BY Zenon DEF StepRunOf
<1> HIDE DEF first, Next1
<1>2. ASSUME NEW x \in T, \A y \in T : x <= y  PROVE FALSE
  <2>1. x \in Nat /\ from <= x /\ ~Runs(x)
    BY <1>2
  <2>2. CASE x = from
    <3> DEFINE f == [i \in from..x |-> first]
    <3>1. f = [i \in from..x |-> IF i = from THEN first ELSE Next1(f[i - 1], i)]
      <4>1. \A i \in from..x : i = from
        BY <2>2
      <4> QED BY <4>1
    <3> HIDE DEF f
    <3> QED BY <1>1, <2>1, <3>1
  <2>3. CASE x # from
    <3>1. x - 1 \in Nat /\ from <= x - 1 /\ x - 1 \notin T
      BY <1>2, <2>1, <2>3
    <3>2. Runs(x - 1)
      BY <3>1
    <3>3. PICK f : f = [i \in from..(x - 1) |-> IF i = from THEN first ELSE Next1(f[i - 1], i)]
      BY <1>1, <3>2
    <3> DEFINE g == [i \in from..x |-> IF i = x THEN Next1(f[i - 1], i) ELSE f[i]]
               h == [i \in from..x |-> IF i = from THEN first ELSE Next1(g[i - 1], i)]
    <3>4. ASSUME NEW i \in from..x  PROVE g[i] = h[i]
      <4>1. i # from => i - 1 \in from..(x - 1) /\ i - 1 \in from..x /\ i - 1 # x
        BY <2>1
      <4>2. i # from => g[i - 1] = f[i - 1]
        BY <4>1
      <4>3. i # x => i \in from..(x - 1)
        BY <2>1
      <4>4. i # x => f[i] = IF i = from THEN first ELSE Next1(f[i - 1], i)
        BY <3>3, <4>3
      <4> QED BY <2>3, <4>2, <4>4
    <3>5. g = h
      BY <3>4
    <3> HIDE DEF g
    <3> QED BY <1>1, <2>1, <3>5
  <2> QED BY <2>2, <2>3
<1>3. T = {}
  <2>1. T \in SUBSET Nat
    OBVIOUS
  <2> HIDE DEF T
  <2> QED BY <1>2, <2>1, LeastElement
<1> QED BY <1>3

LEMMA StepRunIs ==
  ASSUME NEW c, NEW r, NEW from \in Nat, NEW n \in Nat, from <= n, NEW f,
         StepRunOf(f, c, r, from, n)
  PROVE  f[from] = P!NewStepper(from) /\ StepsByTheBytes(f, c, r, from, n)
<1>1. from \in from..n /\ \A i \in (from + 1)..n : i \in from..n /\ i # from
  OBVIOUS
<1>2. \A i \in (from + 1)..n : f[i] = P!The({P!StepByte(c, r, s, i - 1) : s \in {f[i - 1]}})
  BY <1>1, Zenon DEF StepRunOf
<1>3. f[from] = P!NewStepper(from)
  BY <1>1, Zenon DEF StepRunOf
<1>4. ASSUME NEW i \in (from + 1)..n  PROVE f[i] = P!StepByte(c, r, f[i - 1], i - 1)
  <2>1. {P!StepByte(c, r, s, i - 1) : s \in {f[i - 1]}} = {P!StepByte(c, r, f[i - 1], i - 1)}
    OBVIOUS
  <2> QED BY <1>2, <2>1, TheOneIs
<1> QED BY <1>3, <1>4 DEF StepsByTheBytes

LEMMA StepToIs ==
  ASSUME NEW c, NEW r, NEW from \in Nat, NEW n \in Nat, from <= n
  PROVE  LET f == CHOOSE g : StepRunOf(g, c, r, from, n)
         IN  StepRunOf(f, c, r, from, n) /\ P!StepTo(c, r, from, n) = f[n]
<1> DEFINE f == CHOOSE g : StepRunOf(g, c, r, from, n)
<1>1. StepRunOf(f, c, r, from, n)
  BY StepRunExists, Zenon
<1>2. P!StepTo(c, r, from, n) = f[n]
  BY Zenon DEF StepRunOf, P!StepTo
<1> QED BY <1>1, <1>2

(* A parse that is done stays there.                                       *)
LEMMA ParseStays ==
  ASSUME NEW c, NEW r, NEW from \in Nat, NEW n \in Nat, from <= n, NEW f,
         StepsByTheBytes(f, c, r, from, n), NEW k \in from..n, f[k].done
  PROVE  f[n] = f[k]
<1> DEFINE T == {i \in k..n : f[i] # f[k]}
<1>1. T \in SUBSET Nat
  OBVIOUS
<1>2. ASSUME NEW x \in T, \A y \in T : x <= y  PROVE FALSE
  <2>1. x \in Nat /\ x \in k..n /\ f[x] # f[k] /\ x # k
    BY <1>1, <1>2
  <2>2. x - 1 \in k..n /\ ~(x <= x - 1) /\ x \in (from + 1)..n
    BY <2>1
  <2>3. f[x - 1] = f[k]
    BY <1>2, <2>2
  <2>4. f[x] = P!StepByte(c, r, f[x - 1], x - 1)
    BY <2>2 DEF StepsByTheBytes
  <2> QED BY <2>1, <2>3, <2>4 DEF P!StepByte
<1>3. T = {}
  <2> HIDE DEF T
  <2> QED BY <1>1, <1>2, LeastElement
<1>4. n \in k..n
  OBVIOUS
<1> QED BY <1>3, <1>4

-----------------------------------------------------------------------------
(* The stepper of ChunkParser, which has fields where the driver's has     *)
(* spans of the buffer.                                                    *)
Kinds == {"none", "InvalidQuote", "NumberOfFields", "UnclosedQuote", "User", "Utf8", "IO"}
PureErrors == [kind : Kinds, at : Int]
PureRecords == [at : Int, fields : Seq(Seq(STRING))]
PureSteppers ==
  [state : InteriorStates, fields : Seq(Seq(STRING)), field : Seq(STRING),
   record_in_start : Int, field_in_start : Int, records : Seq(PureRecords),
   last_record_end : Int, error : PureErrors, done : BOOLEAN]

LEMMA PureTypes ==
  ASSUME NEW s \in PureSteppers
  PROVE  /\ s.state \in InteriorStates /\ s.fields \in Seq(Seq(STRING)) /\ s.field \in Seq(STRING)
         /\ s.record_in_start \in Int /\ s.field_in_start \in Int
         /\ s.records \in Seq(PureRecords) /\ s.last_record_end \in Int
         /\ s.error \in PureErrors /\ s.done \in BOOLEAN
BY DEF PureSteppers

LEMMA ErrorsAre ==
  /\ \A kind \in Kinds, at \in Int :
       P!Error(kind, at) \in PureErrors /\ P!Error(kind, at).kind = kind /\ P!Error(kind, at).at = at
  /\ P!NoError \in PureErrors /\ P!NoError.kind = "none" /\ P!NoError.at = -1
  /\ P!IoError \in PureErrors
  /\ \A fields : P!CallbackError(fields) \in PureErrors
<1>1. /\ \A kind \in Kinds, at \in Int :
           P!Error(kind, at) \in PureErrors /\ P!Error(kind, at).kind = kind /\ P!Error(kind, at).at = at
  BY DEF P!Error, PureErrors
<1>2. P!NoError \in PureErrors /\ P!NoError.kind = "none" /\ P!NoError.at = -1
  BY DEF P!NoError, P!NoOffset, PureErrors, Kinds
<1>3. P!IoError \in PureErrors /\ P!UserError \in PureErrors /\ P!HandedBack \in PureErrors
  BY DEF P!IoError, P!UserError, P!HandedBack, P!Error, P!NoOffset, PureErrors, Kinds
<1>4. ASSUME NEW fields  PROVE P!CallbackError(fields) \in PureErrors
  BY <1>2, <1>3 DEF P!CallbackError
<1> QED BY <1>1, <1>2, <1>3, <1>4

LEMMA PureStart ==
  ASSUME NEW from \in Nat
  PROVE  LET s == P!NewStepper(from)
         IN  /\ s \in PureSteppers /\ s.state = "RecordStart" /\ s.fields = <<>> /\ s.field = <<>>
             /\ s.record_in_start = from /\ s.field_in_start = from /\ s.records = <<>>
             /\ s.last_record_end = P!NoOffset /\ s.error = P!NoError /\ ~s.done
BY ErrorsAre DEF P!NewStepper, PureSteppers, InteriorStates, P!NoOffset

LEMMA PureStop ==
  ASSUME NEW s \in PureSteppers, NEW e \in PureErrors
  PROVE  LET t == P!Stop(s, e)
         IN  /\ t \in PureSteppers /\ t.records = s.records /\ t.last_record_end = s.last_record_end
             /\ t.error = e /\ t.done
<1> DEFINE t == P!Stop(s, e)
<1>1. t = [s EXCEPT !.error = e, !.done = TRUE]
  BY DEF P!Stop
<1> HIDE DEF t
<1>2. t \in PureSteppers
  BY <1>1 DEF PureSteppers
<1>3. t.records = s.records /\ t.last_record_end = s.last_record_end /\ t.error = e /\ t.done
  BY <1>1 DEF PureSteppers
<1> QED BY <1>2, <1>3 DEF t

LEMMA PurePush ==
  ASSUME NEW s \in PureSteppers, NEW p \in Int
  PROVE  LET t == P!PushField(s, p)
         IN  /\ t \in PureSteppers /\ t.fields = Append(s.fields, s.field) /\ t.field = <<>>
             /\ t.field_in_start = p /\ t.state = "FieldStart"
             /\ t.record_in_start = s.record_in_start /\ t.records = s.records
             /\ t.last_record_end = s.last_record_end /\ t.error = s.error /\ t.done = s.done
<1> DEFINE t == P!PushField(s, p)
           fields == Append(s.fields, s.field)
           none == <<>>
<1>1. t = [s EXCEPT !.fields = fields, !.field = none, !.field_in_start = p, !.state = "FieldStart"]
  BY DEF P!PushField
<1>2. fields \in Seq(Seq(STRING)) /\ none \in Seq(STRING) /\ "FieldStart" \in InteriorStates
  BY PureTypes DEF InteriorStates
<1> HIDE DEF t, fields, none
<1>3. t \in PureSteppers
  BY <1>1, <1>2 DEF PureSteppers
<1>4. /\ t.fields = fields /\ t.field = none /\ t.field_in_start = p /\ t.state = "FieldStart"
      /\ t.record_in_start = s.record_in_start /\ t.records = s.records
      /\ t.last_record_end = s.last_record_end /\ t.error = s.error /\ t.done = s.done
  BY <1>1 DEF PureSteppers
<1> QED BY <1>3, <1>4 DEF t, fields, none

(* What emit_record makes of the record, for either stepper.               *)
ErrorOf(s) ==
  IF config.field_count # 0 /\ Len(s.fields) # config.field_count
  THEN P!Error("NumberOfFields", s.record_in_start) ELSE P!CallbackError(s.fields)

LEMMA PureEmit ==
  ASSUME NEW s \in PureSteppers, NEW end \in Int
  PROVE  LET t == P!EmitRecord(config, s, end)
             record == [at |-> s.record_in_start, fields |-> s.fields]
         IN  /\ ErrorOf(s) \in PureErrors /\ record \in PureRecords
             /\ ErrorOf(s) # P!NoError => t = P!Stop(s, ErrorOf(s))
             /\ ErrorOf(s) = P!NoError =>
                  /\ t \in PureSteppers /\ t.records = Append(s.records, record)
                  /\ t.fields = <<>> /\ t.last_record_end = end /\ t.state = "RecordStart"
                  /\ t.field = s.field /\ t.record_in_start = s.record_in_start
                  /\ t.field_in_start = s.field_in_start /\ t.error = s.error /\ t.done = s.done
<1> DEFINE t == P!EmitRecord(config, s, end)
           record == [at |-> s.record_in_start, fields |-> s.fields]
           appended == Append(s.records, record)
           none == <<>>
<1>1. ErrorOf(s) \in PureErrors
  <2>1. s.record_in_start \in Int /\ "NumberOfFields" \in Kinds
    BY PureTypes DEF Kinds
  <2>2. P!Error("NumberOfFields", s.record_in_start) \in PureErrors
    BY <2>1, ErrorsAre
  <2> QED BY <2>2, ErrorsAre DEF ErrorOf
<1>2. record \in PureRecords
  BY PureTypes DEF PureRecords
<1>3. P!Error("NumberOfFields", s.record_in_start) # P!NoError
  BY DEF P!Error, P!NoError
<1>4. ErrorOf(s) # P!NoError => t = P!Stop(s, ErrorOf(s))
  BY <1>3 DEF P!EmitRecord, ErrorOf
<1>5. ErrorOf(s) = P!NoError =>
        t = [s EXCEPT !.records = appended, !.fields = none, !.last_record_end = end,
                      !.state = "RecordStart"]
  BY <1>3 DEF P!EmitRecord, ErrorOf
<1> HIDE DEF record
<1>6. appended \in Seq(PureRecords) /\ none \in Seq(Seq(STRING)) /\ "RecordStart" \in InteriorStates
  BY <1>2, PureTypes DEF InteriorStates
<1> HIDE DEF t, appended, none
<1>7. ASSUME ErrorOf(s) = P!NoError  PROVE t \in PureSteppers
  BY <1>5, <1>6, <1>7 DEF PureSteppers
<1>8. ASSUME ErrorOf(s) = P!NoError
      PROVE  /\ t.records = appended /\ t.fields = none /\ t.last_record_end = end
             /\ t.state = "RecordStart" /\ t.field = s.field
             /\ t.record_in_start = s.record_in_start
             /\ t.field_in_start = s.field_in_start /\ t.error = s.error /\ t.done = s.done
  BY <1>5, <1>8 DEF PureSteppers
<1> QED BY <1>1, <1>2, <1>4, <1>7, <1>8 DEF t, record, appended, none

LEMMA PureBoundary ==
  ASSUME NEW s \in PureSteppers, NEW at \in Int, NEW r, r.limit \in Int
  PROVE  LET t == P!StopAtBoundary(r, s, at)
         IN  /\ t \in PureSteppers /\ t.last_record_end = at /\ (t.done <=> at >= r.limit)
             /\ t.state = s.state /\ t.fields = s.fields /\ t.field = s.field
             /\ t.record_in_start = s.record_in_start /\ t.field_in_start = s.field_in_start
             /\ t.records = s.records /\ t.error = s.error
<1> DEFINE t == P!StopAtBoundary(r, s, at)
           over == at >= r.limit
<1>1. t = [s EXCEPT !.last_record_end = at, !.done = over]
  BY DEF P!StopAtBoundary
<1>2. over \in BOOLEAN
  OBVIOUS
<1> HIDE DEF t, over
<1>3. t \in PureSteppers
  BY <1>1, <1>2 DEF PureSteppers
<1>4. /\ t.last_record_end = at /\ t.done = over
      /\ t.state = s.state /\ t.fields = s.fields /\ t.field = s.field
      /\ t.record_in_start = s.record_in_start /\ t.field_in_start = s.field_in_start
      /\ t.records = s.records /\ t.error = s.error
  BY <1>1 DEF PureSteppers
<1> QED BY <1>3, <1>4 DEF t, over

(* A byte that belongs to the record: where the record starts, and the     *)
(* field with the byte.                                                    *)
PureRead(s, i, b, cell) ==
  LET here == IF s.state = "RecordStart"
              THEN [s EXCEPT !.record_in_start = i, !.field_in_start = i]
              ELSE s
  IN  IF cell.out THEN [here EXCEPT !.field = Append(@, b)] ELSE here

LEMMA PureReadIs ==
  ASSUME NEW s \in PureSteppers, NEW i \in Int, NEW b \in STRING, NEW cell
  PROVE  LET t == PureRead(s, i, b, cell)
         IN  /\ t \in PureSteppers
             /\ t.record_in_start = (IF s.state = "RecordStart" THEN i ELSE s.record_in_start)
             /\ t.field_in_start = (IF s.state = "RecordStart" THEN i ELSE s.field_in_start)
             /\ t.field = (IF cell.out THEN Append(s.field, b) ELSE s.field)
             /\ t.state = s.state /\ t.fields = s.fields /\ t.records = s.records
             /\ t.last_record_end = s.last_record_end /\ t.error = s.error /\ t.done = s.done
<1> DEFINE here == IF s.state = "RecordStart"
                   THEN [s EXCEPT !.record_in_start = i, !.field_in_start = i] ELSE s
           t == PureRead(s, i, b, cell)
<1>1. /\ here \in PureSteppers
      /\ here.record_in_start = (IF s.state = "RecordStart" THEN i ELSE s.record_in_start)
      /\ here.field_in_start = (IF s.state = "RecordStart" THEN i ELSE s.field_in_start)
      /\ here.field = s.field
      /\ here.state = s.state /\ here.fields = s.fields /\ here.records = s.records
      /\ here.last_record_end = s.last_record_end /\ here.error = s.error /\ here.done = s.done
  BY DEF PureSteppers
<1>2. t = IF cell.out THEN [here EXCEPT !.field = Append(@, b)] ELSE here
  BY DEF PureRead
<1> HIDE DEF here, t
<1>3. CASE cell.out
  <2> DEFINE more == Append(here.field, b)
  <2>1. more \in Seq(STRING)
    BY <1>1, PureTypes
  <2>2. t = [here EXCEPT !.field = more]
    BY <1>2, <1>3
  <2>3. more = Append(s.field, b)
    BY <1>1
  <2> HIDE DEF more
  <2>4. t \in PureSteppers
    BY <1>1, <2>1, <2>2 DEF PureSteppers
  <2>5. /\ t.record_in_start = here.record_in_start /\ t.field_in_start = here.field_in_start
        /\ t.field = more /\ t.state = here.state /\ t.fields = here.fields
        /\ t.records = here.records /\ t.last_record_end = here.last_record_end
        /\ t.error = here.error /\ t.done = here.done
    BY <1>1, <2>2 DEF PureSteppers
  <2> QED BY <1>1, <1>3, <2>3, <2>4, <2>5 DEF t
<1>4. CASE ~cell.out
  BY <1>1, <1>2, <1>4 DEF t
<1> QED BY <1>3, <1>4

(* One step of it, by what the byte is.                                    *)
LEMMA PureStep ==
  ASSUME job \in Jobs, NEW s \in PureSteppers, ~s.done, NEW i \in Nat
  PROVE  LET b    == job.bytes[i + 1]
             cell == Transition(config, s.state, b)
             read == PureRead(s, i, b, cell)
             emitted == P!EmitRecord(config, P!PushField(read, i + 1), i)
             t    == P!StepByte(config, Reader, s, i)
         IN  IF s.state = "RecordStart" /\ b \in Terminators(config)
             THEN t = IF i >= job.limit THEN P!StopAtBoundary(Reader, s, i) ELSE s
             ELSE /\ cell.next \notin ActionStates => t = [read EXCEPT !.state = cell.next]
                  /\ cell.next = "Error" => t = P!Stop(read, P!Error("InvalidQuote", i))
                  /\ cell.next = "FieldEnd" => t = P!PushField(read, i + 1)
                  /\ cell.next = "RecordEnd" =>
                       t = IF emitted.done THEN emitted ELSE P!StopAtBoundary(Reader, emitted, i)
<1> DEFINE b == job.bytes[i + 1]
           cell == Transition(config, s.state, b)
           read == PureRead(s, i, b, cell)
           emitted == P!EmitRecord(config, P!PushField(read, i + 1), i)
           t == P!StepByte(config, Reader, s, i)
<1>1. P!ByteAt(Reader, i) = b /\ Reader.limit = job.limit
  BY ReaderIs
<1>2. t = P!StepTaking(cell, config, Reader, s, i)
  BY <1>1, OneTable DEF P!StepByte
<1>3. t = IF s.state = "RecordStart" /\ b \in Terminators(config)
          THEN P!SkipTerminator(Reader, s, i)
          ELSE IF cell.next \in P!ActionStates
          THEN P!ApplyAction(config, Reader, read, cell.next, i)
          ELSE [read EXCEPT !.state = cell.next]
  <2> HIDE DEF cell, t, b
  <2> QED BY <1>1, <1>2, OneTable DEF P!StepTaking, PureRead, read
<1>4. P!ActionStates = ActionStates
  BY DEF P!ActionStates, ActionStates
<1>5. P!SkipTerminator(Reader, s, i) = IF i >= job.limit THEN P!StopAtBoundary(Reader, s, i) ELSE s
  BY <1>1 DEF P!SkipTerminator
<1>6. /\ P!ApplyAction(config, Reader, read, "Error", i) = P!Stop(read, P!Error("InvalidQuote", i))
      /\ P!ApplyAction(config, Reader, read, "FieldEnd", i) = P!PushField(read, i + 1)
      /\ P!ApplyAction(config, Reader, read, "RecordEnd", i)
           = IF emitted.done THEN emitted ELSE P!StopAtBoundary(Reader, emitted, i)
  <2> HIDE DEF cell, b, read
  <2> QED BY DEF P!ApplyAction
<1> HIDE DEF b, cell, read, emitted, t
<1>7. IF s.state = "RecordStart" /\ b \in Terminators(config)
      THEN t = IF i >= job.limit THEN P!StopAtBoundary(Reader, s, i) ELSE s
      ELSE /\ cell.next \notin ActionStates => t = [read EXCEPT !.state = cell.next]
           /\ cell.next = "Error" => t = P!Stop(read, P!Error("InvalidQuote", i))
           /\ cell.next = "FieldEnd" => t = P!PushField(read, i + 1)
           /\ cell.next = "RecordEnd" =>
                t = IF emitted.done THEN emitted ELSE P!StopAtBoundary(Reader, emitted, i)
  BY <1>3, <1>4, <1>5, <1>6 DEF ActionStates
<1> QED BY <1>7 DEF b, cell, read, emitted, t

(* It keeps its type, and what the callback has accepted.                  *)
Extends(before, after) ==
  Len(before) <= Len(after) /\ \A k \in 1..Len(before) : after[k] = before[k]

LEMMA ExtendsItself ==
  ASSUME NEW S, NEW a \in Seq(S)
  PROVE  /\ Extends(a, a)
         /\ \A x \in S : Extends(a, Append(a, x))
         /\ \A b \in Seq(S), c \in Seq(S) : Extends(a, b) /\ Extends(b, c) => Extends(a, c)
<1>1. Len(a) \in Nat
  OBVIOUS
<1>2. Extends(a, a)
  BY <1>1 DEF Extends
<1>3. ASSUME NEW x \in S  PROVE Extends(a, Append(a, x))
  <2>1. Len(Append(a, x)) = Len(a) + 1 /\ \A k \in 1..Len(a) : Append(a, x)[k] = a[k]
    BY AppendProperties
  <2> QED BY <1>1, <2>1 DEF Extends
<1>4. ASSUME NEW b \in Seq(S), NEW c \in Seq(S), Extends(a, b), Extends(b, c)
      PROVE  Extends(a, c)
  <2>1. Len(b) \in Nat /\ Len(c) \in Nat
    OBVIOUS
  <2>2. Len(a) <= Len(c) /\ \A k \in 1..Len(a) : k \in 1..Len(b)
    BY <1>1, <1>4, <2>1 DEF Extends
  <2> QED BY <1>4, <2>2 DEF Extends
<1> QED BY <1>2, <1>3, <1>4

LEMMA PureEmitKeeps ==
  ASSUME NEW s \in PureSteppers, NEW end \in Int
  PROVE  P!EmitRecord(config, s, end) \in PureSteppers
         /\ Extends(s.records, P!EmitRecord(config, s, end).records)
<1> DEFINE t == P!EmitRecord(config, s, end)
           record == [at |-> s.record_in_start, fields |-> s.fields]
<1>1. /\ ErrorOf(s) \in PureErrors /\ record \in PureRecords
      /\ ErrorOf(s) # P!NoError => t = P!Stop(s, ErrorOf(s))
      /\ ErrorOf(s) = P!NoError => t \in PureSteppers /\ t.records = Append(s.records, record)
  BY PureEmit
<1>2. s.records \in Seq(PureRecords)
  BY PureTypes
<1> HIDE DEF t, record
<1>3. CASE ErrorOf(s) # P!NoError
  BY <1>1, <1>2, <1>3, PureStop, ExtendsItself DEF t
<1>4. CASE ErrorOf(s) = P!NoError
  BY <1>1, <1>2, <1>4, ExtendsItself DEF t
<1> QED BY <1>3, <1>4

LEMMA PureStepKeeps ==
  ASSUME job \in Jobs, NEW s \in PureSteppers, NEW i \in Nat, i < Len(job.bytes)
  PROVE  P!StepByte(config, Reader, s, i) \in PureSteppers
         /\ Extends(s.records, P!StepByte(config, Reader, s, i).records)
<1> DEFINE b == job.bytes[i + 1]
           cell == Transition(config, s.state, b)
           read == PureRead(s, i, b, cell)
           pushed == P!PushField(read, i + 1)
           emitted == P!EmitRecord(config, pushed, i)
           t == P!StepByte(config, Reader, s, i)
<1>1. /\ job.bytes \in Seq(STRING) /\ Len(job.bytes) \in Nat /\ ValidDialect(config)
      /\ job.limit \in Nat /\ Reader.limit = job.limit
  BY JobFacts, ReaderIs
<1>2. b \in STRING
  <2>1. i + 1 \in 1..Len(job.bytes)
    BY <1>1
  <2> QED BY <1>1, <2>1
<1>3. s.records \in Seq(PureRecords) /\ s.state \in InteriorStates
  BY PureTypes
<1>4. CASE s.done
  BY <1>3, <1>4, ExtendsItself DEF P!StepByte
<1>5. CASE ~s.done
  <2>1. cell.next \in InteriorStates \cup ActionStates
    BY <1>1, <1>3, TableIsTotal
  <2>2. read \in PureSteppers /\ read.records = s.records
    <3> HIDE DEF b, cell
    <3>1. i \in Int
      OBVIOUS
    <3> QED BY <1>2, <3>1, PureReadIs, ZenonT(30)
  <2>3. IF s.state = "RecordStart" /\ b \in Terminators(config)
        THEN t = IF i >= job.limit THEN P!StopAtBoundary(Reader, s, i) ELSE s
        ELSE /\ cell.next \notin ActionStates => t = [read EXCEPT !.state = cell.next]
             /\ cell.next = "Error" => t = P!Stop(read, P!Error("InvalidQuote", i))
             /\ cell.next = "FieldEnd" => t = pushed
             /\ cell.next = "RecordEnd" =>
                  t = IF emitted.done THEN emitted ELSE P!StopAtBoundary(Reader, emitted, i)
    BY <1>5, PureStep
  <2> HIDE DEF b, cell, read, t
  <2>4. pushed \in PureSteppers /\ pushed.records = s.records
    BY <2>2, PurePush, SMTT(30)
  <2> HIDE DEF pushed
  <2>5. emitted \in PureSteppers /\ Extends(s.records, emitted.records)
    BY <2>4, PureEmitKeeps
  <2> HIDE DEF emitted
  <2>6. Extends(s.records, s.records)
    BY <1>3, ExtendsItself
  <2>7. CASE s.state = "RecordStart" /\ b \in Terminators(config)
    BY <1>1, <2>3, <2>6, <2>7, PureBoundary DEF t
  <2>8. CASE ~(s.state = "RecordStart" /\ b \in Terminators(config)) /\ cell.next \notin ActionStates
    <3>1. cell.next \in InteriorStates /\ t = [read EXCEPT !.state = cell.next]
      BY <2>1, <2>3, <2>8
    <3>2. t \in PureSteppers /\ t.records = read.records
      BY <2>2, <3>1 DEF PureSteppers
    <3> QED BY <2>2, <2>6, <3>2 DEF t
  <2>9. CASE ~(s.state = "RecordStart" /\ b \in Terminators(config)) /\ cell.next = "Error"
    <3>1. P!Error("InvalidQuote", i) \in PureErrors
      <4>1. "InvalidQuote" \in Kinds /\ i \in Int
        BY DEF Kinds
      <4> QED BY <4>1, ErrorsAre
    <3> QED BY <2>2, <2>3, <2>6, <2>9, <3>1, PureStop DEF t
  <2>10. CASE ~(s.state = "RecordStart" /\ b \in Terminators(config)) /\ cell.next = "FieldEnd"
    BY <2>3, <2>4, <2>6, <2>10 DEF t
  <2>11. CASE ~(s.state = "RecordStart" /\ b \in Terminators(config)) /\ cell.next = "RecordEnd"
    BY <1>1, <2>3, <2>5, <2>11, PureBoundary, SMTT(30) DEF t
  <2> QED BY <2>1, <2>7, <2>8, <2>9, <2>10, <2>11 DEF ActionStates
<1> QED BY <1>4, <1>5

-----------------------------------------------------------------------------
(* The parse of a job, at once from the byte its search ends at.           *)
ParseRun == CHOOSE f : StepRunOf(f, config, Reader, base, Len(job.bytes))
WholeParse == P!ParseFrom(config, Reader, base)
Whole == P!Parse(config, Reader, job.assumption, job.find)

LEMMA RunIs ==
  ASSUME job \in Jobs, base \in Nat, base <= Len(job.bytes)
  PROVE  /\ ParseRun[base] = P!NewStepper(base)
         /\ StepsByTheBytes(ParseRun, config, Reader, base, Len(job.bytes))
         /\ P!StepTo(config, Reader, base, Len(job.bytes)) = ParseRun[Len(job.bytes)]
<1>1. Len(job.bytes) \in Nat
  BY JobFacts
<1>2. /\ StepRunOf(ParseRun, config, Reader, base, Len(job.bytes))
      /\ P!StepTo(config, Reader, base, Len(job.bytes)) = ParseRun[Len(job.bytes)]
  BY <1>1, StepToIs DEF ParseRun
<1> QED BY <1>1, <1>2, StepRunIs

LEMMA RunTypes ==
  ASSUME job \in Jobs, base \in Nat, base <= Len(job.bytes)
  PROVE  \A i \in base..Len(job.bytes) : ParseRun[i] \in PureSteppers
<1> DEFINE N == Len(job.bytes)
           T == {i \in base..N : ParseRun[i] \notin PureSteppers}
<1>1. N \in Nat /\ T \in SUBSET Nat
  BY JobFacts
<1>2. ASSUME NEW x \in T, \A y \in T : x <= y  PROVE FALSE
  <2>1. x \in Nat /\ x \in base..N /\ ParseRun[x] \notin PureSteppers
    BY <1>1, <1>2
  <2>2. CASE x = base
    <3>1. ParseRun[x] = P!NewStepper(base)
      BY <2>2, RunIs
    <3> QED BY <2>1, <3>1, PureStart
  <2>3. CASE x # base
    <3>1. /\ x - 1 \in base..N /\ ~(x <= x - 1) /\ x \in (base + 1)..N
          /\ x - 1 \in Nat /\ x - 1 < N
      BY <1>1, <2>1, <2>3
    <3>2. ParseRun[x - 1] \in PureSteppers
      BY <1>2, <3>1
    <3>3. ParseRun[x] = P!StepByte(config, Reader, ParseRun[x - 1], x - 1)
      BY <3>1, RunIs DEF StepsByTheBytes
    <3> QED BY <2>1, <3>1, <3>2, <3>3, PureStepKeeps
  <2> QED BY <2>2, <2>3
<1>3. T = {}
  <2> HIDE DEF T
  <2> QED BY <1>1, <1>2, LeastElement
<1> QED BY <1>3

(* What it has accepted stays.                                             *)
LEMMA RecordsStay ==
  ASSUME job \in Jobs, base \in Nat, base <= Len(job.bytes), NEW i \in base..Len(job.bytes)
  PROVE  \A j \in i..Len(job.bytes) : Extends(ParseRun[i].records, ParseRun[j].records)
<1> DEFINE N == Len(job.bytes)
           T == {j \in i..N : ~Extends(ParseRun[i].records, ParseRun[j].records)}
<1>1. N \in Nat /\ i \in Nat /\ T \in SUBSET Nat
  BY JobFacts
<1>2. \A j \in base..N : ParseRun[j] \in PureSteppers /\ ParseRun[j].records \in Seq(PureRecords)
  BY RunTypes, PureTypes
<1>3. ASSUME NEW x \in T, \A y \in T : x <= y  PROVE FALSE
  <2>1. x \in Nat /\ x \in i..N /\ x \in base..N
        /\ ~Extends(ParseRun[i].records, ParseRun[x].records)
    BY <1>1, <1>3
  <2>2. CASE x = i
    BY <1>2, <2>1, <2>2, ExtendsItself
  <2>3. CASE x # i
    <3>1. /\ x - 1 \in i..N /\ x - 1 \in base..N /\ ~(x <= x - 1) /\ x \in (base + 1)..N
          /\ x - 1 \in Nat /\ x - 1 < N
      BY <1>1, <2>1, <2>3
    <3>2. Extends(ParseRun[i].records, ParseRun[x - 1].records)
      BY <1>3, <3>1
    <3>3. ParseRun[x] = P!StepByte(config, Reader, ParseRun[x - 1], x - 1)
      BY <3>1, RunIs DEF StepsByTheBytes
    <3>4. Extends(ParseRun[x - 1].records, ParseRun[x].records)
      BY <1>2, <3>1, <3>3, PureStepKeeps
    <3> QED BY <1>2, <2>1, <3>1, <3>2, <3>4, ExtendsItself
  <2> QED BY <2>2, <2>3
<1>4. T = {}
  <2> HIDE DEF T
  <2> QED BY <1>1, <1>3, LeastElement
<1> QED BY <1>4

(* The end of the file, for a parse that has not stopped before it.        *)
LEMMA PureFinalize ==
  ASSUME job \in Jobs, NEW s \in PureSteppers
  PROVE  LET t == P!Finalize(config, Reader, s)
             n == Len(job.bytes)
         IN  /\ s.state \in {"RecordStart", "InComment"} => t = s
             /\ s.state \in {"InQuotedField", "InEscapedQuote"} =>
                  t = P!Stop(s, P!Error("UnclosedQuote", s.field_in_start))
             /\ s.state \in {"FieldStart", "InField", "AfterClosingQuote"} =>
                  t = P!EmitRecord(config, P!PushField(s, n), n)
             /\ t \in PureSteppers /\ Extends(s.records, t.records)
<1> DEFINE t == P!Finalize(config, Reader, s)
           n == Len(job.bytes)
<1>1. P!EofOf(Reader) = n /\ n \in Nat
  BY ReaderIs, JobFacts
<1>2. s.state \in InteriorStates /\ s.records \in Seq(PureRecords) /\ s.field_in_start \in Int
  BY PureTypes
<1>3. s.state \in {"RecordStart", "InComment"} => t = s
  BY DEF P!Finalize
<1>4. s.state \in {"InQuotedField", "InEscapedQuote"} =>
        t = P!Stop(s, P!Error("UnclosedQuote", s.field_in_start))
  BY DEF P!Finalize
<1>5. s.state \in {"FieldStart", "InField", "AfterClosingQuote"} =>
        t = P!EmitRecord(config, P!PushField(s, n), n)
  BY <1>1 DEF P!Finalize
<1> HIDE DEF t, n
<1>6. Extends(s.records, s.records)
  BY <1>2, ExtendsItself
<1>7. s.state \in {"InQuotedField", "InEscapedQuote"} =>
        t \in PureSteppers /\ Extends(s.records, t.records)
  <2>1. P!Error("UnclosedQuote", s.field_in_start) \in PureErrors
    <3>1. "UnclosedQuote" \in Kinds
      BY DEF Kinds
    <3> QED BY <1>2, <3>1, ErrorsAre
  <2> QED BY <1>4, <1>6, <2>1, PureStop
<1>8. s.state \in {"FieldStart", "InField", "AfterClosingQuote"} =>
        t \in PureSteppers /\ Extends(s.records, t.records)
  <2> DEFINE pushed == P!PushField(s, n)
  <2>1. pushed \in PureSteppers /\ pushed.records = s.records
    BY <1>1, PurePush
  <2> HIDE DEF pushed
  <2>2. P!EmitRecord(config, pushed, n) \in PureSteppers
        /\ Extends(pushed.records, P!EmitRecord(config, pushed, n).records)
    BY <1>1, <2>1, PureEmitKeeps
  <2> QED BY <1>5, <2>1, <2>2 DEF pushed
<1> QED BY <1>2, <1>3, <1>4, <1>5, <1>6, <1>7, <1>8 DEF InteriorStates, t, n

LEMMA WholeParseIs ==
  ASSUME job \in Jobs, base \in Nat, base <= Len(job.bytes)
  PROVE  /\ WholeParse = IF ParseRun[Len(job.bytes)].done THEN ParseRun[Len(job.bytes)]
                         ELSE P!Finalize(config, Reader, ParseRun[Len(job.bytes)])
         /\ WholeParse \in PureSteppers
         /\ \A i \in base..Len(job.bytes) :
              /\ Extends(ParseRun[i].records, WholeParse.records)
              /\ ParseRun[i].done => WholeParse = ParseRun[i]
<1> DEFINE n == Len(job.bytes)
           last == ParseRun[n]
<1>1. n \in Nat /\ n \in base..n
  BY JobFacts
<1>2. P!ReadableEnd(Reader) = n /\ Reader.bad = -1 /\ n # -1
  BY <1>1, ReaderIs
<1>3. P!StepTo(config, Reader, base, n) = last
  BY RunIs
<1>4. WholeParse = IF last.done THEN last ELSE P!Finalize(config, Reader, last)
  <2> HIDE DEF last, n
  <2> QED BY <1>2, <1>3 DEF WholeParse, P!ParseFrom, P!EndOfRun
<1>5. \A i \in base..n : ParseRun[i] \in PureSteppers /\ ParseRun[i].records \in Seq(PureRecords)
  BY RunTypes, PureTypes
<1>6. last \in PureSteppers /\ last.records \in Seq(PureRecords)
  BY <1>1, <1>5
<1> HIDE DEF last, n
<1>7. WholeParse \in PureSteppers /\ Extends(last.records, WholeParse.records)
  BY <1>4, <1>6, PureFinalize, ExtendsItself
<1>8. WholeParse.records \in Seq(PureRecords)
  BY <1>7, PureTypes
<1>9. ASSUME NEW i \in base..n
      PROVE  /\ Extends(ParseRun[i].records, WholeParse.records)
             /\ ParseRun[i].done => WholeParse = ParseRun[i]
  <2>1. Extends(ParseRun[i].records, last.records)
    <3>1. n \in i..n
      BY <1>1
    <3> QED BY <3>1, RecordsStay DEF n, last
  <2>2. ParseRun[i].done => last = ParseRun[i]
    <3>1. StepsByTheBytes(ParseRun, config, Reader, base, n) /\ base <= n
      BY RunIs DEF n
    <3> QED BY <1>1, <3>1, ParseStays DEF last
  <2> QED BY <1>4, <1>5, <1>6, <1>7, <1>8, <2>1, <2>2, ExtendsItself
<1> QED BY <1>4, <1>7, <1>9 DEF n, last

(* The pass is that parse, behind that search.                             *)
LEMMA WholeIs ==
  ASSUME job \in Jobs, base \in Nat, FoundIt, base = Skipped.at, ~Skipped.outlasts
  PROVE  /\ Whole.record_start = record_start /\ Whole.records = WholeParse.records
         /\ Whole.error = WholeParse.error
         /\ Whole.record_end = IF WholeParse.error = P!NoError THEN WholeParse.last_record_end
                               ELSE P!NoOffset
<1>1. Whole = P!ParseScanned(config, Reader, Found)
  BY DEF Whole, P!Parse, Found
<1>2. Whole = P!ParseFromBoundary(config, Reader, record_start)
  BY <1>1 DEF P!ParseScanned, FoundIt
<1>3. ~Skipped.failed
  <2>1. Skipped.failed <=> Skipped.at = Reader.bad
    BY DEF Skipped, P!SkipEmptyLines
  <2> QED BY <2>1, ReaderIs
<1>4. Whole = P!Body(record_start, WholeParse)
  BY <1>2, <1>3 DEF P!ParseFromBoundary, Skipped, WholeParse
<1> QED BY <1>4 DEF P!Body, P!PassResult

-----------------------------------------------------------------------------
(* A field of the one stepper is a part of the other's buffer.             *)
Spells(b, from, to, field) ==
  Len(field) = to - from /\ \A i \in 1..(to - from) : b[from + i] = field[i]

LEMMA SpelledIs ==
  ASSUME NEW b \in Seq(STRING), NEW from \in Nat, NEW to \in Nat, from <= to, to <= Len(b),
         NEW field \in Seq(STRING), Spells(b, from, to, field)
  PROVE  SubSeq(b, from + 1, to) = field
<1> DEFINE part == SubSeq(b, from + 1, to)
<1>1. /\ part \in Seq(STRING) /\ Len(part) = to - from
      /\ \A i \in 1..(to - from) : part[i] = b[from + i]
  BY Slice
<1>2. Len(field) = to - from /\ \A i \in 1..(to - from) : b[from + i] = field[i]
  BY DEF Spells
<1> HIDE DEF part
<1>3. Len(part) = Len(field) /\ \A i \in 1..Len(part) : part[i] = field[i]
  BY <1>1, <1>2
<1>4. part = field
  BY <1>1, <1>3, SeqEqual
<1> QED BY <1>4 DEF part

(* trim_ascii finds the same ink in both.                                  *)
LEMMA FirstInkMoves ==
  ASSUME NEW b, NEW from \in Nat, NEW to \in Nat, from <= to,
         NEW field \in Seq(STRING), Spells(b, from, to, field)
  PROVE  FirstInk(b, from, to) = from + FirstInk(field, 0, Len(field))
<1> DEFINE x == FirstInk(b, from, to)
           y == FirstInk(field, 0, Len(field))
<1>1. Len(field) = to - from /\ \A i \in 1..(to - from) : b[from + i] = field[i]
  BY DEF Spells
<1>2. /\ x \in from..to /\ (x = to \/ ~IsSpace(b[x + 1]))
      /\ \A k \in from..(x - 1) : IsSpace(b[k + 1])
  BY FirstInkIs
<1>3. /\ y \in 0..Len(field) /\ (y = Len(field) \/ ~IsSpace(field[y + 1]))
      /\ \A k \in 0..(y - 1) : IsSpace(field[k + 1])
  <2>1. 0 \in Nat /\ Len(field) \in Nat /\ 0 <= Len(field)
    OBVIOUS
  <2> QED BY <2>1, FirstInkIs
<1> HIDE DEF x, y
<1>4. x \in Nat /\ y \in Nat /\ y <= to - from /\ from <= x /\ x <= to
  BY <1>1, <1>2, <1>3
<1>5. ASSUME x < from + y  PROVE FALSE
  <2>1. x - from \in 0..(y - 1) /\ (x - from) + 1 \in 1..(to - from) /\ x # to
        /\ from + ((x - from) + 1) = x + 1
    BY <1>4, <1>5
  <2>2. IsSpace(field[(x - from) + 1]) /\ b[x + 1] = field[(x - from) + 1]
    BY <1>1, <1>3, <2>1
  <2> QED BY <1>2, <2>1, <2>2
<1>6. ASSUME x > from + y  PROVE FALSE
  <2>1. from + y \in from..(x - 1) /\ y + 1 \in 1..(to - from) /\ y # to - from
        /\ from + (y + 1) = (from + y) + 1
    BY <1>4, <1>6
  <2>2. IsSpace(b[(from + y) + 1]) /\ b[(from + y) + 1] = field[y + 1]
    BY <1>1, <1>2, <2>1
  <2> QED BY <1>1, <1>3, <2>1, <2>2
<1>7. x = from + y
  BY <1>4, <1>5, <1>6
<1> QED BY <1>7 DEF x, y

LEMMA LastInkMoves ==
  ASSUME NEW b, NEW from \in Nat, NEW to \in Nat, from <= to,
         NEW field \in Seq(STRING), Spells(b, from, to, field), NEW k \in 0..Len(field)
  PROVE  AfterLastInk(b, from + k, to) = from + AfterLastInk(field, k, Len(field))
<1> DEFINE x == AfterLastInk(b, from + k, to)
           y == AfterLastInk(field, k, Len(field))
<1>1. Len(field) = to - from /\ \A i \in 1..(to - from) : b[from + i] = field[i]
  BY DEF Spells
<1>2. k \in Nat /\ k <= to - from /\ from + k \in Nat /\ from + k <= to /\ to - from \in Nat
  BY <1>1
<1>3. /\ x \in (from + k)..to /\ (x = from + k \/ ~IsSpace(b[x]))
      /\ \A i \in (x + 1)..to : IsSpace(b[i])
  BY <1>2, AfterLastInkIs
<1>4. /\ y \in k..Len(field) /\ (y = k \/ ~IsSpace(field[y]))
      /\ \A i \in (y + 1)..Len(field) : IsSpace(field[i])
  BY <1>1, <1>2, AfterLastInkIs
<1> HIDE DEF x, y
<1>5. x \in Nat /\ y \in Nat /\ y <= to - from /\ k <= y /\ from + k <= x /\ x <= to
  BY <1>1, <1>2, <1>3, <1>4
<1>6. ASSUME x < from + y  PROVE FALSE
  <2>1. from + y \in (x + 1)..to /\ y \in 1..(to - from) /\ y # k
    BY <1>2, <1>5, <1>6
  <2>2. IsSpace(b[from + y]) /\ b[from + y] = field[y]
    BY <1>1, <1>3, <2>1
  <2> QED BY <1>4, <2>1, <2>2
<1>7. ASSUME x > from + y  PROVE FALSE
  <2>1. x - from \in (y + 1)..(to - from) /\ x - from \in 1..(to - from) /\ x # from + k
        /\ from + (x - from) = x
    BY <1>2, <1>5, <1>7
  <2>2. IsSpace(field[x - from]) /\ b[x] = field[x - from]
    BY <1>1, <1>4, <2>1
  <2> QED BY <1>3, <2>1, <2>2
<1>8. x = from + y
  BY <1>5, <1>6, <1>7
<1> QED BY <1>8 DEF x, y

(* The field as the callback gets it.                                      *)
Handed(field) == IF config.trim THEN Trimmed(field) ELSE field

LEMMA TrimmedIs ==
  ASSUME NEW field \in Seq(STRING)
  PROVE  \E k, z \in 0..Len(field) :
           /\ k <= z
           /\ k = FirstInk(field, 0, Len(field)) /\ z = AfterLastInk(field, k, Len(field))
           /\ Trimmed(field) \in Seq(STRING) /\ Len(Trimmed(field)) = z - k
           /\ \A i \in 1..(z - k) : Trimmed(field)[i] = field[k + i]
           /\ \A i \in 1..Len(field) : i <= k \/ i > z => IsSpace(field[i])
<1> DEFINE k == FirstInk(field, 0, Len(field))
           z == AfterLastInk(field, k, Len(field))
<1>1. 0 \in Nat /\ Len(field) \in Nat /\ 0 <= Len(field)
  OBVIOUS
<1>2. k \in 0..Len(field) /\ \A i \in 0..(k - 1) : IsSpace(field[i + 1])
  BY <1>1, FirstInkIs
<1> HIDE DEF k
<1>3. k \in Nat /\ k <= Len(field)
  BY <1>1, <1>2
<1>4. z \in k..Len(field) /\ \A i \in (z + 1)..Len(field) : IsSpace(field[i])
  BY <1>1, <1>3, AfterLastInkIs
<1>5. Trimmed(field) = SubSeq(field, k + 1, z)
  BY DEF Trimmed, k
<1> HIDE DEF z
<1>6. z \in Nat /\ k <= z /\ z <= Len(field)
  BY <1>1, <1>3, <1>4
<1>7. /\ Trimmed(field) \in Seq(STRING) /\ Len(Trimmed(field)) = z - k
      /\ \A i \in 1..(z - k) : Trimmed(field)[i] = field[k + i]
  BY <1>3, <1>5, <1>6, Slice
<1>8. ASSUME NEW i \in 1..Len(field), i <= k \/ i > z  PROVE IsSpace(field[i])
  <2>1. i <= k => i - 1 \in 0..(k - 1) /\ (i - 1) + 1 = i
    BY <1>3
  <2>2. i > z => i \in (z + 1)..Len(field)
    BY <1>1, <1>6
  <2>3. i <= k => IsSpace(field[i])
    BY <1>2, <2>1
  <2> QED BY <1>4, <1>8, <2>2, <2>3
<1>9. z \in 0..Len(field)
  BY <1>1, <1>6
<1> QED BY <1>2, <1>6, <1>7, <1>8, <1>9 DEF k, z

LEMMA HandedIs ==
  ASSUME NEW field \in Seq(STRING)
  PROVE  /\ Handed(field) \in Seq(STRING)
         /\ \A byte : ~IsSpace(byte) =>
              ((\E j \in DOMAIN Handed(field) : Handed(field)[j] = byte)
               <=> \E j \in DOMAIN field : field[j] = byte)
<1>1. CASE config.trim
  <2> DEFINE t == Trimmed(field)
  <2>1. Handed(field) = t
    BY <1>1 DEF Handed
  <2>2. PICK k \in 0..Len(field), z \in 0..Len(field) :
          /\ k <= z
          /\ t \in Seq(STRING) /\ Len(t) = z - k
          /\ \A i \in 1..(z - k) : t[i] = field[k + i]
          /\ \A i \in 1..Len(field) : i <= k \/ i > z => IsSpace(field[i])
    BY TrimmedIs
  <2> HIDE DEF t
  <2>3. /\ Len(field) \in Nat /\ k \in Nat /\ z \in Nat /\ k <= z /\ z <= Len(field)
        /\ DOMAIN t = 1..(z - k) /\ DOMAIN field = 1..Len(field)
    BY <2>2
  <2>4. ASSUME NEW byte, ~IsSpace(byte)
        PROVE  (\E j \in DOMAIN t : t[j] = byte) <=> \E j \in DOMAIN field : field[j] = byte
    <3>1. ASSUME NEW j \in DOMAIN t, t[j] = byte  PROVE \E i \in DOMAIN field : field[i] = byte
      <4>1. k + j \in DOMAIN field
        BY <2>3
      <4>2. field[k + j] = byte
        BY <2>2, <2>3, <3>1
      <4> QED BY <4>1, <4>2
    <3>2. ASSUME NEW j \in DOMAIN field, field[j] = byte  PROVE \E i \in DOMAIN t : t[i] = byte
      <4>1. j \in 1..Len(field) /\ ~(j <= k \/ j > z)
        BY <2>2, <2>3, <2>4, <3>2
      <4>2. j - k \in 1..(z - k) /\ k + (j - k) = j
        BY <2>3, <4>1
      <4>3. t[j - k] = byte
        BY <2>2, <3>2, <4>2
      <4> QED BY <2>3, <4>2, <4>3
    <3> QED BY <3>1, <3>2
  <2> QED BY <2>1, <2>2, <2>4
<1>2. CASE ~config.trim
  BY <1>2 DEF Handed
<1> QED BY <1>1, <1>2

(* push_field's span holds what the callback gets of the field.            *)
LEMMA SpanSpells ==
  ASSUME NEW b, NEW s \in Steppers, s.field_start <= s.write_pos,
         NEW field \in Seq(STRING), Spells(b, s.field_start, s.write_pos, field)
  PROVE  Spells(b, FieldSpan(b, s).off, FieldSpan(b, s).end, Handed(field))
<1> DEFINE fs == s.field_start
           wp == s.write_pos
<1>1. fs \in Nat /\ wp \in Nat /\ fs <= wp /\ Len(field) = wp - fs
      /\ \A i \in 1..(wp - fs) : b[fs + i] = field[i]
  BY DEF Steppers, Spells
<1>2. CASE ~config.trim
  <2>1. FieldSpan(b, s).off = fs /\ FieldSpan(b, s).end = wp /\ Handed(field) = field
    BY <1>2 DEF FieldSpan, Span, Handed
  <2> QED BY <2>1
<1>3. CASE config.trim
  <2>1. PICK k \in 0..Len(field), z \in 0..Len(field) :
          /\ k <= z
          /\ k = FirstInk(field, 0, Len(field)) /\ z = AfterLastInk(field, k, Len(field))
          /\ Trimmed(field) \in Seq(STRING) /\ Len(Trimmed(field)) = z - k
          /\ \A i \in 1..(z - k) : Trimmed(field)[i] = field[k + i]
    BY TrimmedIs
  <2>2. k \in Nat /\ z \in Nat /\ k <= z /\ z <= wp - fs
    BY <1>1, <2>1
  <2>3. FirstInk(b, fs, wp) = fs + k
    BY <1>1, <2>1, FirstInkMoves
  <2>4. AfterLastInk(b, fs + k, wp) = fs + z
    BY <1>1, <2>1, LastInkMoves, SMTT(30)
  <2>5. FieldSpan(b, s) = [off |-> fs + k, end |-> fs + z]
    BY <1>3, <2>3, <2>4 DEF FieldSpan, Span
  <2>6. FieldSpan(b, s).off = fs + k /\ FieldSpan(b, s).end = fs + z /\ Handed(field) = Trimmed(field)
    BY <1>3, <2>5 DEF Handed
  <2>7. (fs + z) - (fs + k) = z - k
    BY <1>1, <2>2
  <2>8. ASSUME NEW i \in 1..(z - k)  PROVE b[(fs + k) + i] = Trimmed(field)[i]
    <3>1. (fs + k) + i = fs + (k + i) /\ k + i \in 1..(wp - fs)
      BY <1>1, <2>2
    <3> QED BY <1>1, <2>1, <3>1
  <2> QED BY <2>1, <2>6, <2>7, <2>8 DEF Spells
<1> QED BY <1>2, <1>3

(* What the callback looks for is never white space.                       *)
LEMMA SameCallbackError ==
  ASSUME NEW fields \in Seq(Seq(STRING)), NEW handed, DOMAIN handed = DOMAIN fields,
         \A k \in DOMAIN fields : handed[k] = Handed(fields[k])
  PROVE  P!CallbackError(handed) = P!CallbackError(fields)
<1>1. ~IsSpace("!") /\ ~IsSpace("?")
  BY DEF IsSpace
<1>2. ASSUME NEW byte, ~IsSpace(byte)  PROVE P!Holds(handed, byte) <=> P!Holds(fields, byte)
  <2>1. ASSUME NEW k \in DOMAIN fields
        PROVE  (\E j \in DOMAIN handed[k] : handed[k][j] = byte)
               <=> \E j \in DOMAIN fields[k] : fields[k][j] = byte
    <3> DEFINE field == fields[k]
    <3>1. field \in Seq(STRING) /\ handed[k] = Handed(field)
      OBVIOUS
    <3> HIDE DEF field
    <3>2. (\E j \in DOMAIN Handed(field) : Handed(field)[j] = byte)
            <=> \E j \in DOMAIN field : field[j] = byte
      BY <1>2, <3>1, HandedIs
    <3> QED BY <3>1, <3>2 DEF field
  <2> QED BY <2>1 DEF P!Holds
<1> QED BY <1>1, <1>2 DEF P!CallbackError

LEMMA AsTrimmedIs ==
  ASSUME NEW record \in PureRecords
  PROVE  AsTrimmed(record)
           = [at |-> record.at,
              fields |-> [k \in 1..Len(record.fields) |-> Handed(record.fields[k])]]
<1>1. /\ record = [at |-> record.at, fields |-> record.fields]
      /\ record.fields \in Seq(Seq(STRING)) /\ DOMAIN record.fields = 1..Len(record.fields)
  BY DEF PureRecords
<1>2. CASE config.trim
  <2> DEFINE trimmed == [k \in DOMAIN record.fields |-> Trimmed(record.fields[k])]
  <2>1. AsTrimmed(record) = [record EXCEPT !.fields = trimmed]
    BY <1>2 DEF AsTrimmed
  <2>2. trimmed = [k \in 1..Len(record.fields) |-> Handed(record.fields[k])]
    BY <1>1, <1>2 DEF Handed
  <2> HIDE DEF trimmed
  <2>3. [record EXCEPT !.fields = trimmed] = [at |-> record.at, fields |-> trimmed]
    BY DEF PureRecords
  <2> QED BY <2>1, <2>2, <2>3
<1>3. CASE ~config.trim
  <2>1. record.fields = [k \in 1..Len(record.fields) |-> record.fields[k]]
    BY <1>1
  <2>2. [k \in 1..Len(record.fields) |-> record.fields[k]]
          = [k \in 1..Len(record.fields) |-> Handed(record.fields[k])]
    BY <1>3 DEF Handed
  <2>3. AsTrimmed(record) = record
    BY <1>3 DEF AsTrimmed
  <2> QED BY <1>1, <2>1, <2>2, <2>3
<1> QED BY <1>2, <1>3

-----------------------------------------------------------------------------
(* Where the driver is in the file, its stepper is the one of that parse:  *)
(* the same states and offsets, and its spans hold the other's fields.     *)
SpellsAll(b, spans, fields) ==
  /\ Len(spans) = Len(fields)
  /\ \A k \in 1..Len(fields) : Spells(b, spans[k].off, spans[k].end, Handed(fields[k]))
Accepted(handed, accepted) ==
  /\ Len(handed) = Len(accepted)
  /\ \A k \in 1..Len(accepted) : handed[k] = AsTrimmed(accepted[k])

Follows(s) ==
  /\ ~s.done /\ s.error = P!NoError /\ s.state = st.state
  /\ s.record_in_start = st.record_in_start /\ s.field_in_start = st.field_in_start
  /\ s.last_record_end = st.last_record_end
  /\ Spells(buf, st.field_start, st.write_pos, s.field)
  /\ SpellsAll(buf, st.spans, s.fields)
  /\ Accepted(records, s.records)

(* What a refill is for, and why the loop is left.                         *)
AheadFilled == Len(buf) >= validated + MaxSequence \/ total_consumed + Len(buf) = Len(job.bytes)
NothingAhead ==
  /\ total_consumed + Len(buf) = Len(job.bytes)
  /\ \/ Len(buf) = validated
     \/ config.text /\ Len(buf) = validated + 1 /\ buf[Len(buf)] = "h"

ParseFollows ==
  /\ records \in Seq(PureRecords)
  /\ Parsing =>
       /\ base <= total_consumed /\ Follows(ParseRun[total_consumed + pos])
       /\ phase # "step" => pos = validated /\ record_end = st.last_record_end
       /\ phase = "validate" => AheadFilled
       /\ phase = "finish" => NothingAhead
NoEndYet == Searching => record_end = P!NoOffset

PassInv == ParseFollows /\ NoEndYet /\ RefillsAreInvisible

(* A delimiter, a terminator or a rejected byte belongs to no field.       *)
LEMMA ActionsTakeNoByte ==
  ASSUME NEW c, ValidDialect(c), NEW state \in InteriorStates, NEW b,
         Transition(c, state, b).next \in ActionStates
  PROVE  ~Transition(c, state, b).out
<1> DEFINE Plain(cell) == cell.next \in ActionStates => ~cell.out
<1> USE DEF InteriorStates, ActionStates, Consume, Emit, Cell
<1>1. Plain(FieldStartCell(c, b))
  BY DEF FieldStartCell
<1>2. Plain(InFieldCell(c, b))
  BY DEF InFieldCell, MidFieldQuoteCell, ValidDialect, QuoteHandlings
<1>3. Plain(InQuotedFieldCell(c, b))
  BY DEF InQuotedFieldCell
<1>4. Plain(AfterClosingQuoteCell(c, b))
  BY DEF AfterClosingQuoteCell
<1>5. Plain(InCommentCell(c, b))
  BY DEF InCommentCell
<1>6. Plain(RecordStartCell(c, b))
  BY <1>1 DEF RecordStartCell
<1>7. Plain(Transition(c, state, b))
  BY <1>1, <1>2, <1>3, <1>4, <1>5, <1>6 DEF Transition
<1> QED BY <1>7

(* The same bytes in another place spell the same.                         *)
LEMMA SpelledMoves ==
  ASSUME NEW b, NEW c, NEW from \in Int, NEW to \in Int, NEW n \in Int, NEW field,
         Spells(b, from, to, field), \A i \in (from + 1)..to : c[i - n] = b[i]
  PROVE  Spells(c, from - n, to - n, field)
<1>1. (to - n) - (from - n) = to - from
  OBVIOUS
<1>2. ASSUME NEW i \in 1..(to - from)  PROVE c[(from - n) + i] = field[i]
  <2>1. from + i \in (from + 1)..to /\ (from + i) - n = (from - n) + i
    OBVIOUS
  <2>2. c[(from + i) - n] = b[from + i]
    BY <2>1
  <2> QED BY <2>1, <2>2 DEF Spells
<1> QED BY <1>1, <1>2 DEF Spells

LEMMA SpelledStays ==
  ASSUME NEW b, NEW c, NEW from \in Int, NEW to \in Int, NEW field,
         Spells(b, from, to, field), \A i \in (from + 1)..to : c[i] = b[i]
  PROVE  Spells(c, from, to, field)
<1>1. 0 \in Int /\ from - 0 = from /\ to - 0 = to /\ \A i \in (from + 1)..to : i - 0 = i
  OBVIOUS
<1>2. \A i \in (from + 1)..to : c[i - 0] = b[i]
  BY <1>1
<1>3. Spells(c, from - 0, to - 0, field)
  BY <1>1, <1>2, SpelledMoves
<1> QED BY <1>1, <1>3

(* A byte more of the field, and of the buffer.                            *)
LEMMA SpelledGrows ==
  ASSUME NEW b, NEW c, NEW from \in Nat, NEW to \in Nat, from <= to, NEW field \in Seq(STRING),
         Spells(b, from, to, field), \A i \in (from + 1)..to : c[i] = b[i],
         c[to + 1] \in STRING
  PROVE  Spells(c, from, to + 1, Append(field, c[to + 1]))
<1> DEFINE byte == c[to + 1]
           more == Append(field, byte)
<1>1. Len(field) = to - from /\ \A i \in 1..(to - from) : b[from + i] = field[i]
  BY DEF Spells
<1>2. /\ Len(more) = Len(field) + 1 /\ more[Len(field) + 1] = byte
      /\ \A i \in 1..Len(field) : more[i] = field[i]
  <2>1. byte \in STRING
    OBVIOUS
  <2> HIDE DEF byte
  <2> DEFINE longer == Append(field, byte)
  <2>2. /\ Len(longer) = Len(field) + 1 /\ longer[Len(field) + 1] = byte
        /\ \A i \in 1..Len(field) : longer[i] = field[i]
    BY <2>1, AppendProperties, ZenonT(30)
  <2> QED BY <2>2 DEF more
<1> HIDE DEF more
<1>3. Len(more) = (to + 1) - from
  BY <1>1, <1>2
<1>4. ASSUME NEW i \in 1..((to + 1) - from)  PROVE c[from + i] = more[i]
  <2>1. CASE i <= to - from
    <3>1. i \in 1..(to - from) /\ i \in 1..Len(field) /\ from + i \in (from + 1)..to
      BY <1>1, <2>1
    <3> QED BY <1>1, <1>2, <3>1
  <2>2. CASE ~(i <= to - from)
    <3>1. from + i = to + 1 /\ i = Len(field) + 1
      BY <1>1, <2>2
    <3> QED BY <1>2, <3>1
  <2> QED BY <2>1, <2>2
<1>5. Spells(c, from, to + 1, more)
  BY <1>3, <1>4 DEF Spells
<1> QED BY <1>5 DEF more

(* The fields that are complete lie in front of what a step may write.     *)
LEMMA AllSpelledStay ==
  ASSUME NEW b, NEW c, NEW s \in Steppers, SpansInOrder(s), NEW fields \in Seq(Seq(STRING)),
         SpellsAll(b, s.spans, fields), \A i \in 1..s.field_start : c[i] = b[i]
  PROVE  SpellsAll(c, s.spans, fields)
<1>1. /\ Len(s.spans) = Len(fields) /\ s.field_start \in Nat /\ Len(fields) \in Nat
      /\ \A k \in 1..Len(fields) : /\ s.spans[k].off \in Nat /\ s.spans[k].end \in Nat
                                   /\ s.spans[k].end <= s.field_start
      /\ \A k \in 1..Len(fields) : Spells(b, s.spans[k].off, s.spans[k].end, Handed(fields[k]))
  BY SpansOf DEF SpellsAll
<1>2. ASSUME NEW k \in 1..Len(fields)
      PROVE  Spells(c, s.spans[k].off, s.spans[k].end, Handed(fields[k]))
  <2> DEFINE from == s.spans[k].off
             to == s.spans[k].end
             field == Handed(fields[k])
  <2>1. from \in Nat /\ to \in Nat /\ to <= s.field_start /\ Spells(b, from, to, field)
    BY <1>1
  <2> HIDE DEF from, to, field
  <2>2. \A i \in (from + 1)..to : i \in 1..s.field_start
    BY <1>1, <2>1
  <2>3. \A i \in (from + 1)..to : c[i] = b[i]
    BY <2>2
  <2>4. from \in Int /\ to \in Int
    BY <2>1
  <2>5. Spells(c, from, to, field)
    BY <2>1, <2>3, <2>4, SpelledStays
  <2> QED BY <2>5 DEF from, to, field
<1> QED BY <1>1, <1>2 DEF SpellsAll

(* push_field, in both.                                                    *)
LEMMA PushSpells ==
  ASSUME NEW b, NEW d \in Steppers, d.field_start <= d.write_pos,
         NEW fields \in Seq(Seq(STRING)), NEW field \in Seq(STRING),
         Spells(b, d.field_start, d.write_pos, field), SpellsAll(b, d.spans, fields)
  PROVE  SpellsAll(b, Append(d.spans, FieldSpan(b, d)), Append(fields, field))
<1> DEFINE span == FieldSpan(b, d)
           spans == Append(d.spans, span)
           more == Append(fields, field)
           n == Len(fields)
<1>1. Spells(b, span.off, span.end, Handed(field))
  BY SpanSpells
<1>2. span \in Spans /\ d.spans \in Seq(Spans)
  BY FieldSpanIs DEF Steppers
<1>3. Len(d.spans) = n /\ \A k \in 1..n : Spells(b, d.spans[k].off, d.spans[k].end, Handed(fields[k]))
  BY DEF SpellsAll
<1> HIDE DEF span
<1>4. Len(spans) = n + 1 /\ spans[n + 1] = span /\ \A k \in 1..n : spans[k] = d.spans[k]
  BY <1>2, <1>3, AppendProperties
<1>5. Len(more) = n + 1 /\ more[n + 1] = field /\ \A k \in 1..n : more[k] = fields[k]
  BY AppendProperties
<1>6. n \in Nat
  OBVIOUS
<1> HIDE DEF spans, more, n
<1>7. ASSUME NEW k \in 1..(n + 1)  PROVE Spells(b, spans[k].off, spans[k].end, Handed(more[k]))
  <2>1. CASE k = n + 1
    BY <1>1, <1>4, <1>5, <2>1
  <2>2. CASE k # n + 1
    <3>1. k \in 1..n
      BY <1>6, <2>2
    <3> QED BY <1>3, <1>4, <1>5, <3>1
  <2> QED BY <2>1, <2>2
<1>8. SpellsAll(b, spans, more)
  BY <1>4, <1>5, <1>7 DEF SpellsAll
<1> QED BY <1>8 DEF spans, more, span

(* emit_record, in both: the same error, or the same record, trimmed.      *)
LEMMA EmitsTheSame ==
  ASSUME NEW b \in Seq(STRING), NEW d \in Steppers, SpansInOrder(d), d.field_start <= Len(b),
         NEW s \in PureSteppers, SpellsAll(b, d.spans, s.fields),
         d.record_in_start = s.record_in_start
  PROVE  LET record == [at |-> s.record_in_start, fields |-> s.fields]
             handed == [at |-> d.record_in_start, fields |-> Fields(b, d)]
         IN  /\ EmitError(b, d) = ErrorOf(s)
             /\ record \in PureRecords /\ handed \in PureRecords /\ handed = AsTrimmed(record)
<1> DEFINE record == [at |-> s.record_in_start, fields |-> s.fields]
           handed == [at |-> d.record_in_start, fields |-> Fields(b, d)]
           fields == s.fields
           given == Fields(b, d)
           n == Len(fields)
<1>1. fields \in Seq(Seq(STRING)) /\ n \in Nat /\ DOMAIN fields = 1..n /\ s.record_in_start \in Int
  BY PureTypes
<1>2. /\ Len(d.spans) = n /\ DOMAIN d.spans = 1..n /\ d.field_start \in Nat
      /\ \A k \in 1..n : /\ d.spans[k].off \in Nat /\ d.spans[k].end \in Nat
                         /\ d.spans[k].off <= d.spans[k].end /\ d.spans[k].end <= d.field_start
      /\ \A k \in 1..n : Spells(b, d.spans[k].off, d.spans[k].end, Handed(fields[k]))
  BY SpansOf DEF SpellsAll
<1>3. given = [k \in 1..n |-> SubSeq(b, d.spans[k].off + 1, d.spans[k].end)]
  BY <1>2 DEF Fields
<1>4. record \in PureRecords
  BY <1>1 DEF PureRecords
<1>5. record.at = d.record_in_start /\ record.fields = fields
  OBVIOUS
<1> HIDE DEF n, given
<1>6. ASSUME NEW k \in 1..n
      PROVE  /\ SubSeq(b, d.spans[k].off + 1, d.spans[k].end) = Handed(fields[k])
             /\ Handed(fields[k]) \in Seq(STRING)
  <2> DEFINE from == d.spans[k].off
             to == d.spans[k].end
             field == fields[k]
  <2>1. field \in Seq(STRING)
    BY <1>1
  <2>2. /\ from \in Nat /\ to \in Nat /\ from <= to /\ to <= Len(b)
        /\ Spells(b, from, to, Handed(field))
    <3>1. Len(b) \in Nat
      OBVIOUS
    <3> QED BY <1>2, <3>1
  <2> HIDE DEF from, to, field
  <2>3. Handed(field) \in Seq(STRING)
    BY <2>1, HandedIs
  <2>4. SubSeq(b, from + 1, to) = Handed(field)
    BY <2>2, <2>3, SpelledIs
  <2> QED BY <2>3, <2>4 DEF from, to, field
<1>7. given = [k \in 1..n |-> Handed(fields[k])]
  BY <1>3, <1>6
<1>8. given \in Seq(Seq(STRING))
  BY <1>1, <1>6, <1>7
<1>9. P!CallbackError(given) = P!CallbackError(fields)
  <2>1. DOMAIN given = DOMAIN fields /\ \A k \in DOMAIN fields : given[k] = Handed(fields[k])
    BY <1>1, <1>7
  <2> HIDE DEF fields
  <2> QED BY <1>1, <2>1, SameCallbackError
<1>10. EmitError(b, d) = ErrorOf(s)
  BY <1>2, <1>9 DEF EmitError, ErrorOf, given, n
<1>11. handed = AsTrimmed(record)
  <2>1. AsTrimmed(record)
          = [at |-> record.at, fields |-> [k \in 1..Len(record.fields) |-> Handed(record.fields[k])]]
    <3> HIDE DEF record
    <3> QED BY <1>4, AsTrimmedIs
  <2> QED BY <1>5, <1>7, <2>1 DEF given, n
<1>12. handed \in PureRecords
  <2>1. handed = [at |-> s.record_in_start, fields |-> given]
    BY DEF given
  <2> QED BY <1>1, <1>8, <2>1 DEF PureRecords
<1> QED BY <1>4, <1>10, <1>11, <1>12

LEMMA OneMoreAccepted ==
  ASSUME NEW handed \in Seq(PureRecords), NEW accepted \in Seq(PureRecords),
         Accepted(handed, accepted), NEW record \in PureRecords, AsTrimmed(record) \in PureRecords
  PROVE  Accepted(Append(handed, AsTrimmed(record)), Append(accepted, record))
<1> DEFINE more == Append(handed, AsTrimmed(record))
           too == Append(accepted, record)
           n == Len(accepted)
<1>1. n \in Nat /\ Len(handed) = n /\ \A k \in 1..n : handed[k] = AsTrimmed(accepted[k])
  BY DEF Accepted
<1>2. Len(more) = n + 1 /\ more[n + 1] = AsTrimmed(record) /\ \A k \in 1..n : more[k] = handed[k]
  <2> DEFINE last == AsTrimmed(record)
  <2>1. last \in PureRecords
    OBVIOUS
  <2> HIDE DEF last
  <2> QED BY <1>1, <2>1, AppendProperties
<1>3. Len(too) = n + 1 /\ too[n + 1] = record /\ \A k \in 1..n : too[k] = accepted[k]
  BY AppendProperties
<1> HIDE DEF more, too, n
<1>4. ASSUME NEW k \in 1..(n + 1)  PROVE more[k] = AsTrimmed(too[k])
  <2>1. CASE k = n + 1
    BY <1>2, <1>3, <2>1
  <2>2. CASE k # n + 1
    <3>1. k \in 1..n
      BY <1>1, <2>2
    <3> QED BY <1>1, <1>2, <1>3, <3>1
  <2> QED BY <2>1, <2>2
<1>5. Accepted(more, too)
  BY <1>2, <1>3, <1>4 DEF Accepted
<1> QED BY <1>5 DEF more, too

(* What holds while a parse is under way, unfolded once.                   *)
LEMMA PassFacts ==
  ASSUME DriverInv, ParseFollows, Parsing
  PROVE  LET i == total_consumed + pos
             s == ParseRun[i]
         IN  /\ i \in Nat /\ i \in base..Len(job.bytes) /\ i <= Len(job.bytes)
             /\ base \in Nat /\ base <= total_consumed /\ base <= Len(job.bytes)
             /\ s \in PureSteppers /\ ~s.done /\ s.error = P!NoError /\ s.state = st.state
             /\ s.record_in_start = st.record_in_start /\ s.field_in_start = st.field_in_start
             /\ s.last_record_end = st.last_record_end
             /\ Spells(buf, st.field_start, st.write_pos, s.field)
             /\ SpellsAll(buf, st.spans, s.fields)
             /\ Accepted(records, s.records)
             /\ records \in Seq(PureRecords)
<1> DEFINE i == total_consumed + pos
           s == ParseRun[i]
<1>1. /\ total_consumed \in Nat /\ pos \in Nat /\ base \in Nat /\ Len(job.bytes) \in Nat
      /\ Len(buf) \in Nat /\ validated \in Nat /\ pos <= validated /\ validated <= Len(buf)
      /\ total_consumed + Len(buf) <= Len(job.bytes) /\ job \in Jobs
  BY DriverFacts
<1>2. base <= total_consumed /\ Follows(s) /\ records \in Seq(PureRecords)
  BY DEF ParseFollows
<1>3. i \in Nat /\ i \in base..Len(job.bytes) /\ i <= Len(job.bytes) /\ base <= Len(job.bytes)
  BY <1>1, <1>2
<1> HIDE DEF i
<1>4. s \in PureSteppers
  BY <1>1, <1>3, RunTypes
<1> QED BY <1>1, <1>2, <1>3, <1>4 DEF Follows, i

(* The byte the stepper is at, in both.                                    *)
LEMMA NextByte ==
  ASSUME DriverInv, ParseFollows, Scanning
  PROVE  LET i == total_consumed + pos
         IN  /\ i \in Nat /\ i + 1 \in Nat /\ i + 1 \in base..Len(job.bytes)
             /\ total_consumed + (pos + 1) = i + 1 /\ i < Len(job.bytes)
             /\ Byte = job.bytes[i + 1] /\ Byte \in STRING
             /\ ParseRun[i + 1] = P!StepByte(config, Reader, ParseRun[i], i)
             /\ pos >= remaining <=> i >= job.limit
<1> DEFINE i == total_consumed + pos
<1>1. /\ total_consumed \in Nat /\ pos \in Nat /\ base \in Nat /\ Len(job.bytes) \in Nat
      /\ Len(buf) \in Nat /\ pos < Len(buf) /\ total_consumed + Len(buf) <= Len(job.bytes)
  BY DriverFacts DEF Scanning
<1>2. base <= total_consumed
  BY PassFacts DEF Parsing, Scanning
<1>3. /\ i \in Nat /\ i + 1 \in Nat /\ i + 1 \in base..Len(job.bytes)
      /\ i + 1 \in (base + 1)..Len(job.bytes) /\ (i + 1) - 1 = i
      /\ total_consumed + (pos + 1) = i + 1 /\ i < Len(job.bytes) /\ base <= Len(job.bytes)
  BY <1>1, <1>2
<1>4. Byte = job.bytes[i + 1] /\ Byte \in STRING
  <2>1. pos + 1 \in (pos + 1)..Len(buf) /\ pos + 1 \in 1..Len(buf)
    BY <1>1
  <2>2. buf \in Seq(STRING) /\ \A k \in (pos + 1)..Len(buf) : buf[k] = job.bytes[total_consumed + k]
    BY DriverFacts
  <2>3. buf[pos + 1] \in STRING /\ buf[pos + 1] = job.bytes[total_consumed + (pos + 1)]
    BY <2>1, <2>2
  <2> QED BY <1>3, <2>3 DEF Byte
<1>5. pos >= remaining <=> i >= job.limit
  <2>1. position = total_consumed /\ job.limit \in Nat
    BY DriverFacts
  <2> QED BY <1>1, <2>1 DEF remaining, Minus
<1> HIDE DEF i
<1>6. ParseRun[i + 1] = P!StepByte(config, Reader, ParseRun[i], i)
  <2>1. StepsByTheBytes(ParseRun, config, Reader, base, Len(job.bytes))
    BY <1>1, <1>3, DriverFacts, RunIs
  <2> QED BY <1>3, <2>1 DEF StepsByTheBytes
<1> QED BY <1>3, <1>4, <1>5, <1>6 DEF i

-----------------------------------------------------------------------------
(* How a step leaves the invariant: the parse goes on, at the place the    *)
(* step has come to; or it returns, as that parse does or before it.       *)
LEMMA SameParse ==
  ASSUME job' = job, base' = base
  PROVE  /\ config' = config /\ Reader' = Reader /\ ParseRun' = ParseRun
         /\ WholeParse' = WholeParse /\ Whole' = Whole /\ FirstInvalid' = FirstInvalid
         /\ \A fields : Handed(fields)' = Handed(fields)
         /\ \A record : AsTrimmed(record)' = AsTrimmed(record)
BY DEF config, Reader, ParseRun, WholeParse, Whole, FirstInvalid, ValidLength, Handed, AsTrimmed

LEMMA PassGoesOn ==
  ASSUME job' = job, base' = base, base <= total_consumed', Parsing',
         NEW i, i = total_consumed' + pos', NEW s, s = ParseRun[i],
         ~s.done, s.error = P!NoError, s.state = st'.state,
         s.record_in_start = st'.record_in_start, s.field_in_start = st'.field_in_start,
         s.last_record_end = st'.last_record_end,
         Spells(buf', st'.field_start, st'.write_pos, s.field),
         SpellsAll(buf', st'.spans, s.fields),
         Accepted(records', s.records), records' \in Seq(PureRecords),
         phase' # "step" => pos' = validated' /\ record_end' = st'.last_record_end,
         phase' = "validate" => AheadFilled',
         phase' = "finish" => NothingAhead'
  PROVE  PassInv'
<1>1. /\ ParseRun' = ParseRun
      /\ \A fields : Handed(fields)' = Handed(fields)
      /\ \A record : AsTrimmed(record)' = AsTrimmed(record)
  BY SameParse
<1>2. Spells(buf, st.field_start, st.write_pos, s.field)'
  BY DEF Spells
<1>3. SpellsAll(buf, st.spans, s.fields)'
  BY <1>1 DEF SpellsAll, Spells
<1>4. Accepted(records, s.records)'
  BY <1>1 DEF Accepted
<1>5. Follows(s)'
  BY <1>2, <1>3, <1>4 DEF Follows
<1>6. (ParseRun[total_consumed + pos])' = s
  BY <1>1
<1>7. Follows(ParseRun[total_consumed + pos])'
  BY <1>5, <1>6
<1>8. ParseFollows'
  BY <1>7 DEF ParseFollows
<1>9. NoEndYet' /\ RefillsAreInvisible'
  BY DEF Parsing, NoEndYet, Searching, RefillsAreInvisible
<1> QED BY <1>8, <1>9 DEF PassInv

LEMMA PassReturns ==
  ASSUME phase' = "returned", records' \in Seq(PureRecords), AgreesWith(Whole)'
  PROVE  PassInv'
BY DEF PassInv, ParseFollows, Parsing, NoEndYet, Searching, RefillsAreInvisible, Whole

(* The records handed out are the first of the whole parse's.              *)
LEMMA RecordsAgree ==
  ASSUME NEW handed \in Seq(PureRecords), NEW accepted \in Seq(PureRecords),
         NEW whole \in Seq(PureRecords), Accepted(handed, accepted), Extends(accepted, whole)
  PROVE  \A k \in DOMAIN handed : k \in DOMAIN whole /\ handed[k] = AsTrimmed(whole[k])
<1>1. /\ DOMAIN handed = 1..Len(handed) /\ DOMAIN whole = 1..Len(whole) /\ Len(handed) \in Nat
      /\ Len(whole) \in Nat /\ Len(handed) = Len(accepted)
      /\ \A k \in 1..Len(accepted) : handed[k] = AsTrimmed(accepted[k])
      /\ Len(accepted) <= Len(whole) /\ \A k \in 1..Len(accepted) : whole[k] = accepted[k]
  BY DEF Accepted, Extends
<1> QED BY <1>1

LEMMA WholeFacts ==
  ASSUME DriverInv, SearchInv, ParseFollows, Parsing
  PROVE  /\ Whole.record_start = record_start /\ Whole.records = WholeParse.records
         /\ Whole.error = WholeParse.error
         /\ Whole.record_end = IF WholeParse.error = P!NoError THEN WholeParse.last_record_end
                               ELSE P!NoOffset
         /\ WholeParse \in PureSteppers /\ WholeParse.records \in Seq(PureRecords)
<1>1. base \in Nat /\ base <= Len(job.bytes) /\ job \in Jobs
  BY PassFacts, DriverFacts
<1>2. FoundIt /\ base = Skipped.at /\ ~Skipped.outlasts
  BY DEF SearchInv, BaseIsRight, Parsing
<1>3. WholeParse \in PureSteppers
  BY <1>1, WholeParseIs
<1> QED BY <1>1, <1>2, <1>3, WholeIs, PureTypes

LEMMA ReturnsTheWhole ==
  ASSUME DriverInv, SearchInv, ParseFollows, Parsing, phase' = "returned",
         job' = job, base' = base, UNCHANGED search,
         records' \in Seq(PureRecords), Accepted(records', WholeParse.records),
         result'.error = WholeParse.error,
         result'.last_record_end = IF WholeParse.error = P!NoError THEN WholeParse.last_record_end
                                   ELSE P!NoOffset
  PROVE  PassInv'
<1>1. /\ Whole.record_start = record_start /\ Whole.records = WholeParse.records
      /\ Whole.error = WholeParse.error /\ Whole.record_end = result'.last_record_end
      /\ WholeParse.records \in Seq(PureRecords)
  BY WholeFacts
<1>2. Whole' = Whole /\ record_start' = record_start
      /\ \A record : AsTrimmed(record)' = AsTrimmed(record)
  BY SameParse DEF search
<1>3. Len(records') = Len(WholeParse.records)
  BY DEF Accepted
<1>4. \A k \in DOMAIN records' :
        k \in DOMAIN WholeParse.records /\ records'[k] = AsTrimmed(WholeParse.records[k])
  <2>1. Extends(WholeParse.records, WholeParse.records)
    BY <1>1, ExtendsItself
  <2> QED BY <1>1, <2>1, RecordsAgree
<1>5. SameRecords(Whole.records)'
  BY <1>1, <1>2, <1>4 DEF SameRecords
<1>6. AgreesWith(Whole)'
  BY <1>1, <1>2, <1>3, <1>5 DEF AgreesWith
<1> QED BY <1>6, PassReturns

LEMMA ReturnsEarly ==
  ASSUME DriverInv, SearchInv, ParseFollows, Parsing, phase' = "returned",
         job' = job, base' = base, records' = records,
         \/ result'.error = P!IoError
         \/ result'.error.kind = "Utf8" /\ result'.error.at = FirstInvalid
  PROVE  PassInv'
<1> DEFINE i == total_consumed + pos
           s == ParseRun[i]
<1>1. /\ i \in base..Len(job.bytes) /\ base \in Nat /\ base <= Len(job.bytes)
      /\ s \in PureSteppers /\ Accepted(records, s.records) /\ records \in Seq(PureRecords)
  BY PassFacts
<1>2. Whole.records = WholeParse.records /\ WholeParse.records \in Seq(PureRecords)
  BY WholeFacts
<1>3. Whole' = Whole /\ FirstInvalid' = FirstInvalid
      /\ \A record : AsTrimmed(record)' = AsTrimmed(record)
  BY SameParse
<1>4. Extends(s.records, WholeParse.records)
  <2> HIDE DEF i
  <2> QED BY <1>1, DriverFacts, WholeParseIs
<1>5. s.records \in Seq(PureRecords)
  BY <1>1, PureTypes
<1> HIDE DEF s
<1>6. \A k \in DOMAIN records :
        k \in DOMAIN WholeParse.records /\ records[k] = AsTrimmed(WholeParse.records[k])
  BY <1>1, <1>2, <1>4, <1>5, RecordsAgree
<1>7. SameRecords(Whole.records)'
  BY <1>2, <1>3, <1>6 DEF SameRecords
<1>8. AgreesWith(Whole)'
  BY <1>3, <1>7 DEF AgreesWith
<1>9. records' \in Seq(PureRecords)
  BY <1>1
<1> QED BY <1>8, <1>9, PassReturns

-----------------------------------------------------------------------------
(* The stepper's loop.                                                     *)
LEMMA NextStep ==
  ASSUME DriverInv, ParseFollows, Scanning
  PROVE  LET i    == total_consumed + pos
             s    == ParseRun[i]
             t    == ParseRun[i + 1]
             cell == Transition(config, st.state, Byte)
             read == PureRead(s, i, Byte, cell)
             emitted == P!EmitRecord(config, P!PushField(read, i + 1), i)
         IN  IF BetweenRecords
             THEN t = IF i >= job.limit THEN P!StopAtBoundary(Reader, s, i) ELSE s
             ELSE /\ cell.next \notin ActionStates => t = [read EXCEPT !.state = cell.next]
                  /\ cell.next = "Error" => t = P!Stop(read, P!Error("InvalidQuote", i))
                  /\ cell.next = "FieldEnd" => t = P!PushField(read, i + 1)
                  /\ cell.next = "RecordEnd" =>
                       t = IF emitted.done THEN emitted ELSE P!StopAtBoundary(Reader, emitted, i)
<1> DEFINE i    == total_consumed + pos
           s    == ParseRun[i]
           t    == ParseRun[i + 1]
           b    == job.bytes[i + 1]
           cell == Transition(config, s.state, b)
           read == PureRead(s, i, b, cell)
           emitted == P!EmitRecord(config, P!PushField(read, i + 1), i)
<1>1. i \in Nat /\ b = Byte /\ t = P!StepByte(config, Reader, s, i)
  BY NextByte
<1>2. s \in PureSteppers /\ ~s.done /\ s.state = st.state
  BY PassFacts DEF Scanning, Parsing
<1>3. job \in Jobs
  BY DriverFacts
<1> HIDE DEF i, s, t
<1>4. IF s.state = "RecordStart" /\ b \in Terminators(config)
      THEN P!StepByte(config, Reader, s, i)
             = IF i >= job.limit THEN P!StopAtBoundary(Reader, s, i) ELSE s
      ELSE /\ cell.next \notin ActionStates =>
                P!StepByte(config, Reader, s, i) = [read EXCEPT !.state = cell.next]
           /\ cell.next = "Error" =>
                P!StepByte(config, Reader, s, i) = P!Stop(read, P!Error("InvalidQuote", i))
           /\ cell.next = "FieldEnd" => P!StepByte(config, Reader, s, i) = P!PushField(read, i + 1)
           /\ cell.next = "RecordEnd" =>
                P!StepByte(config, Reader, s, i)
                  = IF emitted.done THEN emitted ELSE P!StopAtBoundary(Reader, emitted, i)
  BY <1>1, <1>2, <1>3, PureStep
<1>5. BetweenRecords <=> s.state = "RecordStart" /\ b \in Terminators(config)
  BY <1>1, <1>2 DEF BetweenRecords
<1> HIDE DEF b
<1> QED BY <1>1, <1>2, <1>4, <1>5 DEF i, s, t

(* Where a record starts, in both.                                         *)
LEMMA RecordStartSets ==
  ASSUME NEW d \in Steppers, total_consumed \in Nat, pos \in Nat
  PROVE  LET here == total_consumed + pos
             e    == AtRecordStart(d)
         IN  /\ e.record_in_start = (IF d.state = "RecordStart" THEN here ELSE d.record_in_start)
             /\ e.field_in_start = (IF d.state = "RecordStart" THEN here ELSE d.field_in_start)
             /\ e.last_record_end = d.last_record_end
<1> DEFINE here == total_consumed + pos
           e    == AtRecordStart(d)
<1>1. CASE d.state = "RecordStart"
  <2>1. e = [d EXCEPT !.record_in_start = here, !.field_in_start = here]
    BY <1>1 DEF AtRecordStart
  <2> HIDE DEF here, e
  <2>2. e.record_in_start = here /\ e.field_in_start = here /\ e.last_record_end = d.last_record_end
    BY <2>1 DEF Steppers
  <2> QED BY <1>1, <2>2 DEF here, e
<1>2. CASE d.state # "RecordStart"
  BY <1>2 DEF AtRecordStart
<1> QED BY <1>1, <1>2

LEMMA ReadBoth ==
  ASSUME DriverInv, ParseFollows, Scanning, NEW cell
  PROVE  LET s    == ParseRun[total_consumed + pos]
             read == PureRead(s, total_consumed + pos, Byte, cell)
             d    == AtRecordStart(st)
         IN  /\ read \in PureSteppers /\ read.state = st.state
             /\ read.record_in_start = d.record_in_start
             /\ read.field_in_start = d.field_in_start
             /\ read.last_record_end = st.last_record_end
             /\ d.last_record_end = st.last_record_end
             /\ read.field = (IF cell.out THEN Append(s.field, Byte) ELSE s.field)
             /\ read.fields = s.fields /\ read.records = s.records
             /\ read.error = P!NoError /\ ~read.done
<1> DEFINE i    == total_consumed + pos
           s    == ParseRun[i]
           read == PureRead(s, i, Byte, cell)
           d    == AtRecordStart(st)
<1>1. i \in Nat /\ Byte \in STRING
  BY NextByte
<1>2. /\ s \in PureSteppers /\ ~s.done /\ s.error = P!NoError /\ s.state = st.state
      /\ s.record_in_start = st.record_in_start /\ s.field_in_start = st.field_in_start
      /\ s.last_record_end = st.last_record_end
  BY PassFacts DEF Scanning, Parsing
<1>3. /\ d.record_in_start = (IF st.state = "RecordStart" THEN i ELSE st.record_in_start)
      /\ d.field_in_start = (IF st.state = "RecordStart" THEN i ELSE st.field_in_start)
      /\ d.last_record_end = st.last_record_end
  BY DriverFacts, RecordStartSets
<1> HIDE DEF i, s, d
<1>4. /\ read \in PureSteppers
      /\ read.record_in_start = (IF s.state = "RecordStart" THEN i ELSE s.record_in_start)
      /\ read.field_in_start = (IF s.state = "RecordStart" THEN i ELSE s.field_in_start)
      /\ read.field = (IF cell.out THEN Append(s.field, Byte) ELSE s.field)
      /\ read.state = s.state /\ read.fields = s.fields /\ read.records = s.records
      /\ read.last_record_end = s.last_record_end /\ read.error = s.error /\ read.done = s.done
  <2>1. s \in PureSteppers /\ i \in Int /\ Byte \in STRING
    BY <1>1, <1>2
  <2> HIDE DEF read
  <2> QED BY <2>1, PureReadIs DEF read
<1> HIDE DEF read
<1> QED BY <1>2, <1>3, <1>4 DEF i, s, d, read

(* An empty line inside the chunk, and the one that ends it.               *)
LEMMA LineFollowed ==
  ASSUME DriverInv, ParseFollows, SkipEmptyLine
  PROVE  PassInv'
<1> DEFINE i == total_consumed + pos
           s == ParseRun[i]
           t == ParseRun[i + 1]
<1>1. /\ Scanning /\ phase = "step" /\ BetweenRecords /\ pos < remaining /\ pos' = pos + 1
      /\ job' = job /\ phase' = phase /\ base' = base /\ total_consumed' = total_consumed
      /\ buf' = buf /\ st' = st /\ records' = records
  BY DEF SkipEmptyLine, Scanning, reader
<1>2. /\ i \in Nat /\ total_consumed + (pos + 1) = i + 1 /\ (pos >= remaining <=> i >= job.limit)
  BY <1>1, NextByte
<1>3. ~(pos >= remaining)
  <2>1. position \in Nat /\ job.limit \in Nat /\ pos \in Nat
    BY DriverFacts
  <2>2. remaining \in Nat
    BY <2>1, MinusIs DEF remaining
  <2> QED BY <1>1, <2>1, <2>2
<1>4. t = s
  BY <1>1, <1>2, <1>3, NextStep
<1>5. /\ base <= total_consumed
      /\ ~s.done /\ s.error = P!NoError /\ s.state = st.state
      /\ s.record_in_start = st.record_in_start /\ s.field_in_start = st.field_in_start
      /\ s.last_record_end = st.last_record_end
      /\ Spells(buf, st.field_start, st.write_pos, s.field)
      /\ SpellsAll(buf, st.spans, s.fields)
      /\ Accepted(records, s.records) /\ records \in Seq(PureRecords)
  BY <1>1, PassFacts DEF Parsing
<1>6. i + 1 = total_consumed' + pos' /\ Parsing' /\ t = ParseRun[i + 1]
  BY <1>1, <1>2 DEF Parsing
<1> HIDE DEF i, s, t
<1> QED BY <1>1, <1>4, <1>5, <1>6, PassGoesOn

LEMMA LastLineFollowed ==
  ASSUME DriverInv, SearchInv, ParseFollows, StopOnEmptyLine, UNCHANGED search
  PROVE  PassInv'
<1> DEFINE i == total_consumed + pos
           s == ParseRun[i]
           t == ParseRun[i + 1]
<1>1. /\ Scanning /\ Parsing /\ BetweenRecords /\ pos >= remaining
      /\ phase' = "returned" /\ result' = [error |-> P!NoError, last_record_end |-> i]
      /\ job' = job /\ base' = base /\ records' = records
  BY DEF StopOnEmptyLine, Scanning, Parsing, Return, driver
<1>2. i \in Nat /\ (pos >= remaining <=> i >= job.limit) /\ i + 1 \in base..Len(job.bytes)
  BY <1>1, NextByte
<1>3. t = P!StopAtBoundary(Reader, s, i)
  BY <1>1, <1>2, NextStep
<1>4. /\ s \in PureSteppers /\ s.error = P!NoError /\ base \in Nat /\ base <= Len(job.bytes)
      /\ Accepted(records, s.records) /\ records \in Seq(PureRecords)
  BY <1>1, PassFacts
<1>5. job \in Jobs /\ job.limit \in Int /\ Reader.limit = job.limit
  BY DriverFacts, ReaderIs
<1>6. ParseRun[i + 1].done => WholeParse = ParseRun[i + 1]
  <2> HIDE DEF i
  <2> QED BY <1>2, <1>4, <1>5, WholeParseIs
<1>7. i \in Int /\ i >= job.limit
  BY <1>1, <1>2
<1> HIDE DEF i, s, t
<1>8. t.last_record_end = i /\ t.done /\ t.records = s.records /\ t.error = s.error
  <2> DEFINE u == P!StopAtBoundary(Reader, s, i)
  <2>1. u.last_record_end = i /\ (u.done <=> i >= Reader.limit) /\ u.records = s.records
        /\ u.error = s.error
    <3> HIDE DEF u
    <3> QED BY <1>4, <1>5, <1>7, PureBoundary DEF u
  <2> HIDE DEF u
  <2> QED BY <1>3, <1>5, <1>7, <2>1 DEF u
<1>9. WholeParse = t
  BY <1>6, <1>8 DEF t
<1>10. result'.error = P!NoError /\ result'.last_record_end = i
  BY <1>1
<1> QED BY <1>1, <1>4, <1>8, <1>9, <1>10, ReturnsTheWhole

(* A byte is taken into the field, or is dropped.                          *)
LEMMA TakenFollowed ==
  ASSUME DriverInv, ParseFollows, Take(Transition(config, st.state, Byte))
  PROVE  PassInv'
<1> DEFINE i    == total_consumed + pos
           s    == ParseRun[i]
           cell == Transition(config, st.state, Byte)
           read == PureRead(s, i, Byte, cell)
           t    == ParseRun[i + 1]
           d    == AtRecordStart(st)
           u    == [Taken(cell) EXCEPT !.state = cell.next]
           fs   == st.field_start
           wp   == st.write_pos
<1>1. /\ Scanning /\ ~BetweenRecords /\ cell.next \notin ActionStates
      /\ buf' = Written(cell) /\ st' = u /\ pos' = pos + 1 /\ phase = "step" /\ phase' = phase
      /\ job' = job /\ base' = base /\ total_consumed' = total_consumed /\ records' = records
  BY DEF Take, Scanning
<1>2. /\ i \in Nat /\ total_consumed + (pos + 1) = i + 1 /\ Byte \in STRING
  BY <1>1, NextByte
<1>3. t = [read EXCEPT !.state = cell.next]
  BY <1>1, NextStep
<1>4. /\ read \in PureSteppers /\ read.record_in_start = d.record_in_start
      /\ read.field_in_start = d.field_in_start /\ read.last_record_end = d.last_record_end
      /\ read.field = (IF cell.out THEN Append(s.field, Byte) ELSE s.field)
      /\ read.fields = s.fields /\ read.records = s.records
      /\ read.error = P!NoError /\ ~read.done
  BY <1>1, ReadBoth
<1>5. /\ base <= total_consumed /\ s \in PureSteppers
      /\ Spells(buf, fs, wp, s.field) /\ SpellsAll(buf, st.spans, s.fields)
      /\ Accepted(records, s.records) /\ records \in Seq(PureRecords)
  BY <1>1, PassFacts DEF Parsing
<1>6. /\ ValidDialect(config) /\ st.state \in InteriorStates /\ st \in Steppers /\ SpansInOrder(st)
      /\ fs \in Nat /\ wp \in Nat /\ fs <= wp /\ wp <= pos /\ pos \in Nat /\ Len(buf) \in Nat
      /\ pos < validated /\ validated <= Len(buf) /\ validated \in Nat
  BY <1>1, DriverFacts DEF Scanning
<1>7. cell.next \in InteriorStates
  BY <1>1, <1>6, TableIsTotal
<1> HIDE DEF cell
<1>8. /\ u.state = cell.next /\ u.field_start = fs /\ u.spans = st.spans
      /\ u.write_pos = (IF cell.out THEN wp + 1 ELSE wp)
      /\ u.record_in_start = d.record_in_start /\ u.field_in_start = d.field_in_start
      /\ u.last_record_end = d.last_record_end
  BY <1>7, TakenIs
<1>9. \A k \in 1..Len(buf) :
        Written(cell)[k] = IF cell.out /\ k = wp + 1 THEN Byte ELSE buf[k]
  BY <1>1, WrittenIs
<1> HIDE DEF i, s, read, t, d, u
<1>10. /\ t.state = cell.next /\ t.record_in_start = read.record_in_start
       /\ t.field_in_start = read.field_in_start /\ t.last_record_end = read.last_record_end
       /\ t.field = read.field /\ t.fields = read.fields /\ t.records = read.records
       /\ t.error = read.error /\ t.done = read.done
  BY <1>3, <1>4 DEF PureSteppers
<1>11. s.field \in Seq(STRING) /\ s.fields \in Seq(Seq(STRING))
  BY <1>5, PureTypes
<1>12. /\ \A k \in 1..wp : buf'[k] = buf[k]
       /\ cell.out => buf'[wp + 1] = Byte
  <2>1. \A k \in 1..wp : k \in 1..Len(buf) /\ k # wp + 1
    BY <1>6
  <2>2. wp + 1 \in 1..Len(buf)
    BY <1>6
  <2> QED BY <1>1, <1>9, <2>1, <2>2
<1>13. /\ \A k \in (fs + 1)..wp : k \in 1..wp
       /\ \A k \in 1..fs : k \in 1..wp
       /\ fs \in Int /\ wp \in Int
  BY <1>6
<1>14. /\ \A k \in (fs + 1)..wp : buf'[k] = buf[k]
       /\ \A k \in 1..fs : buf'[k] = buf[k]
  BY <1>12, <1>13
<1>15. Spells(buf', st'.field_start, st'.write_pos, t.field)
  <2>1. CASE cell.out
    <3>1. buf'[wp + 1] \in STRING /\ t.field = Append(s.field, buf'[wp + 1])
      BY <1>2, <1>4, <1>10, <1>12, <2>1
    <3>2. Spells(buf', fs, wp + 1, Append(s.field, buf'[wp + 1]))
      BY <1>5, <1>6, <1>11, <1>14, <3>1, SpelledGrows
    <3> QED BY <1>1, <1>8, <2>1, <3>1, <3>2
  <2>2. CASE ~cell.out
    <3>1. Spells(buf', fs, wp, s.field)
      BY <1>5, <1>13, <1>14, SpelledStays
    <3> QED BY <1>1, <1>4, <1>8, <1>10, <2>2, <3>1
  <2> QED BY <2>1, <2>2
<1>16. SpellsAll(buf', st'.spans, t.fields)
  <2>1. SpellsAll(buf', st.spans, s.fields)
    BY <1>5, <1>6, <1>11, <1>14, AllSpelledStay DEF fs
  <2> QED BY <1>1, <1>4, <1>8, <1>10, <2>1
<1>17. i + 1 = total_consumed' + pos' /\ Parsing' /\ base <= total_consumed' /\ phase' = "step"
  BY <1>1, <1>2, <1>5 DEF Parsing, i
<1>18. /\ ~t.done /\ t.error = P!NoError /\ t.state = st'.state
       /\ t.record_in_start = st'.record_in_start /\ t.field_in_start = st'.field_in_start
       /\ t.last_record_end = st'.last_record_end /\ Accepted(records', t.records)
       /\ records' \in Seq(PureRecords) /\ t = ParseRun[i + 1]
  BY <1>1, <1>4, <1>5, <1>8, <1>10 DEF t
<1>19. phase' # "validate" /\ phase' # "finish"
  BY <1>17
<1> QED BY <1>1, <1>15, <1>16, <1>17, <1>18, <1>19, PassGoesOn

(* A field that ends, in both.                                             *)
LEMMA ClosedBoth ==
  ASSUME DriverInv, ParseFollows, Scanning,
         Transition(config, st.state, Byte).next \in {"FieldEnd", "RecordEnd"}
  PROVE  LET i      == total_consumed + pos
             s      == ParseRun[i]
             pushed == P!PushField(PureRead(s, i, Byte, Transition(config, st.state, Byte)), i + 1)
         IN  /\ pushed \in PureSteppers /\ SpellsAll(buf, Closed.spans, pushed.fields)
             /\ pushed.field = <<>> /\ pushed.state = "FieldStart"
             /\ pushed.record_in_start = Closed.record_in_start
             /\ pushed.field_in_start = Closed.field_in_start
             /\ pushed.last_record_end = Closed.last_record_end
             /\ Closed.last_record_end = st.last_record_end
             /\ pushed.records = s.records /\ pushed.error = P!NoError /\ ~pushed.done
<1> DEFINE i    == total_consumed + pos
           s    == ParseRun[i]
           cell == Transition(config, st.state, Byte)
           read == PureRead(s, i, Byte, cell)
           d    == AtRecordStart(st)
           pushed == P!PushField(read, i + 1)
<1>1. i \in Nat /\ i + 1 \in Int /\ total_consumed + (pos + 1) = i + 1
  BY NextByte
<1>2. ~cell.out
  BY DriverFacts, ActionsTakeNoByte DEF ActionStates
<1> HIDE DEF cell
<1>3. /\ read \in PureSteppers /\ read.record_in_start = d.record_in_start
      /\ read.field_in_start = d.field_in_start /\ read.last_record_end = st.last_record_end
      /\ d.last_record_end = st.last_record_end
      /\ read.field = (IF cell.out THEN Append(s.field, Byte) ELSE s.field)
      /\ read.fields = s.fields /\ read.records = s.records
      /\ read.error = P!NoError /\ ~read.done
  BY ReadBoth
<1>4. /\ s \in PureSteppers /\ Spells(buf, st.field_start, st.write_pos, s.field)
      /\ SpellsAll(buf, st.spans, s.fields)
  BY PassFacts DEF Parsing, Scanning
<1>5. /\ st \in Steppers /\ total_consumed \in Nat /\ pos \in Nat /\ st.field_start <= st.write_pos
  BY DriverFacts
<1>6. /\ d \in Steppers /\ d.field_start = st.field_start /\ d.write_pos = st.write_pos
      /\ d.spans = st.spans
  BY <1>5, AtRecordStartIs
<1>7. /\ Closed.spans = Append(st.spans, FieldSpan(buf, d))
      /\ Closed.record_in_start = d.record_in_start /\ Closed.field_in_start = i + 1
      /\ Closed.last_record_end = d.last_record_end
  BY <1>1, ClosedIs
<1> HIDE DEF i, s, read, d
<1>8. /\ pushed \in PureSteppers /\ pushed.fields = Append(read.fields, read.field)
      /\ pushed.field = <<>> /\ pushed.field_in_start = i + 1 /\ pushed.state = "FieldStart"
      /\ pushed.record_in_start = read.record_in_start /\ pushed.records = read.records
      /\ pushed.last_record_end = read.last_record_end /\ pushed.error = read.error
      /\ pushed.done = read.done
  <2> HIDE DEF pushed
  <2> QED BY <1>1, <1>3, PurePush DEF pushed
<1> HIDE DEF pushed
<1>9. s.field \in Seq(STRING) /\ s.fields \in Seq(Seq(STRING))
  BY <1>4, PureTypes
<1>10. SpellsAll(buf, Append(d.spans, FieldSpan(buf, d)), Append(s.fields, s.field))
  BY <1>4, <1>5, <1>6, <1>9, PushSpells
<1>11. SpellsAll(buf, Closed.spans, pushed.fields)
  BY <1>2, <1>3, <1>6, <1>7, <1>8, <1>10
<1>12. /\ pushed.record_in_start = Closed.record_in_start
       /\ pushed.field_in_start = Closed.field_in_start
       /\ pushed.last_record_end = Closed.last_record_end
       /\ Closed.last_record_end = st.last_record_end
       /\ pushed.records = s.records /\ pushed.error = P!NoError /\ ~pushed.done
  BY <1>3, <1>7, <1>8
<1> QED BY <1>8, <1>11, <1>12 DEF i, s, read, pushed, cell

LEMMA NothingSpelled ==
  ASSUME NEW b, NEW at \in Int
  PROVE  Spells(b, at, at, <<>>)
BY DEF Spells

LEMMA NoneSpelled ==
  ASSUME NEW b
  PROVE  SpellsAll(b, <<>>, <<>>)
BY DEF SpellsAll

LEMMA EndedFieldFollowed ==
  ASSUME DriverInv, ParseFollows, EndField(Transition(config, st.state, Byte))
  PROVE  PassInv'
<1> DEFINE i    == total_consumed + pos
           s    == ParseRun[i]
           cell == Transition(config, st.state, Byte)
           pushed == P!PushField(PureRead(s, i, Byte, cell), i + 1)
           t    == ParseRun[i + 1]
<1>1. /\ Scanning /\ ~BetweenRecords /\ cell.next = "FieldEnd"
      /\ st' = [Closed EXCEPT !.state = "FieldStart"] /\ pos' = pos + 1
      /\ buf' = buf /\ phase = "step" /\ phase' = phase
      /\ job' = job /\ base' = base /\ total_consumed' = total_consumed /\ records' = records
  BY DEF EndField, Scanning, Closed, reader
<1>2. /\ i \in Nat /\ total_consumed + (pos + 1) = i + 1
  BY <1>1, NextByte
<1>3. t = pushed
  BY <1>1, NextStep
<1>4. /\ pushed \in PureSteppers /\ SpellsAll(buf, Closed.spans, pushed.fields)
      /\ pushed.field = <<>> /\ pushed.state = "FieldStart"
      /\ pushed.record_in_start = Closed.record_in_start
      /\ pushed.field_in_start = Closed.field_in_start
      /\ pushed.last_record_end = Closed.last_record_end
      /\ pushed.records = s.records /\ pushed.error = P!NoError /\ ~pushed.done
  BY <1>1, ClosedBoth
<1>5. base <= total_consumed /\ Accepted(records, s.records) /\ records \in Seq(PureRecords)
  BY <1>1, PassFacts DEF Parsing
<1>6. /\ Closed \in Steppers /\ Closed.field_start = pos + 1 /\ Closed.write_pos = pos + 1
      /\ pos \in Nat
  BY ClosedIs, DriverFacts
<1> HIDE DEF i, s, cell, pushed, t
<1>7. /\ st'.state = "FieldStart" /\ st'.field_start = pos + 1 /\ st'.write_pos = pos + 1
      /\ st'.spans = Closed.spans /\ st'.record_in_start = Closed.record_in_start
      /\ st'.field_in_start = Closed.field_in_start /\ st'.last_record_end = Closed.last_record_end
  <2> DEFINE c == Closed
  <2> HIDE DEF c
  <2>1. c \in Steppers /\ st' = [c EXCEPT !.state = "FieldStart"]
    BY <1>1, <1>6 DEF c
  <2>2. /\ st'.state = "FieldStart" /\ st'.field_start = c.field_start
        /\ st'.write_pos = c.write_pos
        /\ st'.spans = c.spans /\ st'.record_in_start = c.record_in_start
        /\ st'.field_in_start = c.field_in_start /\ st'.last_record_end = c.last_record_end
    BY <2>1 DEF Steppers
  <2> QED BY <1>6, <2>2 DEF c
<1>8. Spells(buf', st'.field_start, st'.write_pos, t.field)
  <2>1. pos + 1 \in Int
    BY <1>6
  <2> QED BY <1>3, <1>4, <1>7, <2>1, NothingSpelled
<1>9. SpellsAll(buf', st'.spans, t.fields)
  BY <1>1, <1>3, <1>4, <1>7
<1>10. i + 1 = total_consumed' + pos' /\ Parsing' /\ base <= total_consumed' /\ phase' = "step"
  BY <1>1, <1>2, <1>5 DEF Parsing, i
<1>11. /\ ~t.done /\ t.error = P!NoError /\ t.state = st'.state
       /\ t.record_in_start = st'.record_in_start /\ t.field_in_start = st'.field_in_start
       /\ t.last_record_end = st'.last_record_end /\ Accepted(records', t.records)
       /\ records' \in Seq(PureRecords) /\ t = ParseRun[i + 1]
  BY <1>1, <1>3, <1>4, <1>5, <1>7 DEF t
<1>12. phase' # "validate" /\ phase' # "finish"
  BY <1>10
<1> QED BY <1>1, <1>8, <1>9, <1>10, <1>11, <1>12, PassGoesOn

LEMMA ParseEndsHere ==
  ASSUME DriverInv, ParseFollows, Scanning, ParseRun[total_consumed + pos + 1].done
  PROVE  WholeParse = ParseRun[total_consumed + pos + 1]
<1> DEFINE i == total_consumed + pos
<1>1. i + 1 \in base..Len(job.bytes)
  BY NextByte
<1>2. base \in Nat /\ base <= Len(job.bytes) /\ job \in Jobs
  BY PassFacts, DriverFacts DEF Parsing, Scanning
<1>3. ParseRun[i + 1].done
  OBVIOUS
<1> HIDE DEF i
<1>4. WholeParse = ParseRun[i + 1]
  BY <1>1, <1>2, <1>3, WholeParseIs
<1> QED BY <1>4 DEF i

(* A byte the dialect rejects.                                             *)
LEMMA QuoteRejected ==
  ASSUME DriverInv, SearchInv, ParseFollows, UNCHANGED search,
         RejectQuote(Transition(config, st.state, Byte))
  PROVE  PassInv'
<1> DEFINE i    == total_consumed + pos
           s    == ParseRun[i]
           cell == Transition(config, st.state, Byte)
           read == PureRead(s, i, Byte, cell)
           t    == ParseRun[i + 1]
           e    == P!Error("InvalidQuote", i)
<1>1. /\ Scanning /\ Parsing /\ ~BetweenRecords /\ cell.next = "Error"
      /\ phase' = "returned" /\ result' = [error |-> e, last_record_end |-> P!NoOffset]
      /\ job' = job /\ base' = base /\ records' = records
  BY DEF RejectQuote, Scanning, Parsing, Return, driver
<1>2. i \in Int
  BY <1>1, NextByte
<1>3. t = P!Stop(read, e)
  BY <1>1, NextStep
<1>4. read \in PureSteppers /\ read.records = s.records
  BY <1>1, ReadBoth
<1>5. Accepted(records, s.records) /\ records \in Seq(PureRecords)
  BY <1>1, PassFacts
<1>6. t.done => WholeParse = t
  BY <1>1, ParseEndsHere
<1> HIDE DEF i, s, cell, read, t
<1>7. e \in PureErrors /\ e # P!NoError
  <2>1. "InvalidQuote" \in Kinds
    BY DEF Kinds
  <2>2. e \in PureErrors /\ e.kind = "InvalidQuote" /\ P!NoError.kind = "none"
    BY <1>2, <2>1, ErrorsAre
  <2> HIDE DEF e
  <2> QED BY <2>2
<1> HIDE DEF e
<1>8. t.records = s.records /\ t.error = e /\ t.done
  BY <1>3, <1>4, <1>7, PureStop
<1>9. result'.error = e /\ result'.last_record_end = P!NoOffset
  BY <1>1
<1> QED BY <1>1, <1>5, <1>6, <1>7, <1>8, <1>9, ReturnsTheWhole

(* A record that ends: what becomes of it, in both.                        *)
LEMMA EmittedBoth ==
  ASSUME DriverInv, ParseFollows, Scanning, ~BetweenRecords,
         Transition(config, st.state, Byte).next = "RecordEnd"
  PROVE  LET i == total_consumed + pos
             t == ParseRun[i + 1]
         IN  /\ EmitError(buf, Closed) \in PureErrors
             /\ EmitError(buf, Closed) # P!NoError =>
                  t.done /\ t.error = EmitError(buf, Closed) /\ Accepted(records, t.records)
             /\ EmitError(buf, Closed) = P!NoError =>
                  /\ t \in PureSteppers /\ t.fields = <<>> /\ t.field = <<>>
                  /\ t.state = "RecordStart" /\ t.last_record_end = i
                  /\ t.record_in_start = Closed.record_in_start
                  /\ t.field_in_start = Closed.field_in_start
                  /\ t.error = P!NoError /\ (t.done <=> i >= job.limit)
                  /\ Emitted(buf, Closed) \in Seq(PureRecords)
                  /\ Accepted(Emitted(buf, Closed), t.records)
<1> DEFINE i    == total_consumed + pos
           s    == ParseRun[i]
           cell == Transition(config, st.state, Byte)
           pushed == P!PushField(PureRead(s, i, Byte, cell), i + 1)
           emitted == P!EmitRecord(config, pushed, i)
           t    == ParseRun[i + 1]
           record == [at |-> pushed.record_in_start, fields |-> pushed.fields]
           handed == [at |-> Closed.record_in_start, fields |-> Fields(buf, Closed)]
<1>1. i \in Int
  BY NextByte
<1>2. t = IF emitted.done THEN emitted ELSE P!StopAtBoundary(Reader, emitted, i)
  BY NextStep
<1>3. /\ pushed \in PureSteppers /\ SpellsAll(buf, Closed.spans, pushed.fields)
      /\ pushed.field = <<>>
      /\ pushed.record_in_start = Closed.record_in_start
      /\ pushed.field_in_start = Closed.field_in_start
      /\ pushed.records = s.records /\ pushed.error = P!NoError /\ ~pushed.done
  BY ClosedBoth
<1>4. Accepted(records, s.records) /\ records \in Seq(PureRecords) /\ s \in PureSteppers
  BY PassFacts DEF Parsing, Scanning
<1>5. /\ Closed \in Steppers /\ SpansInOrder(Closed) /\ Closed.field_start <= Len(buf)
      /\ buf \in Seq(STRING)
  <2>1. pos + 1 <= Len(buf)
    BY DriverFacts DEF Scanning
  <2> QED BY <2>1, ClosedIs, DriverFacts
<1>6. job \in Jobs /\ Reader.limit = job.limit /\ Reader.limit \in Int
  BY DriverFacts, ReaderIs
<1> HIDE DEF i, s, cell, pushed, t
<1>7. /\ EmitError(buf, Closed) = ErrorOf(pushed)
      /\ record \in PureRecords /\ handed \in PureRecords /\ handed = AsTrimmed(record)
  BY <1>3, <1>5, EmitsTheSame
<1>8. /\ ErrorOf(pushed) \in PureErrors
      /\ ErrorOf(pushed) # P!NoError => emitted = P!Stop(pushed, ErrorOf(pushed))
      /\ ErrorOf(pushed) = P!NoError =>
           /\ emitted \in PureSteppers /\ emitted.records = Append(pushed.records, record)
           /\ emitted.fields = <<>> /\ emitted.last_record_end = i
           /\ emitted.state = "RecordStart" /\ emitted.field = pushed.field
           /\ emitted.record_in_start = pushed.record_in_start
           /\ emitted.field_in_start = pushed.field_in_start
           /\ emitted.error = pushed.error /\ emitted.done = pushed.done
  <2> HIDE DEF emitted
  <2> QED BY <1>1, <1>3, PureEmit DEF emitted
<1>9. Emitted(buf, Closed) = Append(records, handed)
  BY DEF Emitted
<1> HIDE DEF emitted, record, handed
<1>10. ASSUME EmitError(buf, Closed) # P!NoError
       PROVE  t.done /\ t.error = EmitError(buf, Closed) /\ Accepted(records, t.records)
  <2>1. emitted = P!Stop(pushed, ErrorOf(pushed))
    BY <1>7, <1>8, <1>10
  <2>2. /\ emitted.records = pushed.records /\ emitted.error = ErrorOf(pushed) /\ emitted.done
    BY <1>3, <1>8, <2>1, PureStop
  <2> QED BY <1>2, <1>3, <1>4, <1>7, <2>2
<1>11. ASSUME EmitError(buf, Closed) = P!NoError
       PROVE  /\ t \in PureSteppers /\ t.fields = <<>> /\ t.field = <<>>
              /\ t.state = "RecordStart" /\ t.last_record_end = i
              /\ t.record_in_start = Closed.record_in_start
              /\ t.field_in_start = Closed.field_in_start
              /\ t.error = P!NoError /\ (t.done <=> i >= job.limit)
              /\ Emitted(buf, Closed) \in Seq(PureRecords)
              /\ Accepted(Emitted(buf, Closed), t.records)
  <2>1. /\ emitted \in PureSteppers /\ emitted.records = Append(s.records, record)
        /\ emitted.fields = <<>> /\ emitted.state = "RecordStart" /\ emitted.field = <<>>
        /\ emitted.record_in_start = Closed.record_in_start
        /\ emitted.field_in_start = Closed.field_in_start
        /\ emitted.error = P!NoError /\ ~emitted.done
    BY <1>3, <1>7, <1>8, <1>11
  <2>2. t = P!StopAtBoundary(Reader, emitted, i)
    BY <1>2, <2>1
  <2>3. /\ t \in PureSteppers /\ t.last_record_end = i /\ (t.done <=> i >= Reader.limit)
        /\ t.state = emitted.state /\ t.fields = emitted.fields /\ t.field = emitted.field
        /\ t.record_in_start = emitted.record_in_start
        /\ t.field_in_start = emitted.field_in_start
        /\ t.records = emitted.records /\ t.error = emitted.error
    <3> DEFINE r == Reader
    <3> HIDE DEF r
    <3>1. t = P!StopAtBoundary(r, emitted, i) /\ r.limit \in Int
      BY <1>6, <2>2 DEF r
    <3>2. /\ t \in PureSteppers /\ t.last_record_end = i /\ (t.done <=> i >= r.limit)
          /\ t.state = emitted.state /\ t.fields = emitted.fields /\ t.field = emitted.field
          /\ t.record_in_start = emitted.record_in_start
          /\ t.field_in_start = emitted.field_in_start
          /\ t.records = emitted.records /\ t.error = emitted.error
      BY <1>1, <2>1, <3>1, PureBoundary
    <3> QED BY <3>2 DEF r
  <2>4. s.records \in Seq(PureRecords)
    BY <1>4, PureTypes
  <2>5. Accepted(Append(records, handed), Append(s.records, record))
    BY <1>4, <1>7, <2>4, OneMoreAccepted
  <2>6. Append(records, handed) \in Seq(PureRecords)
    BY <1>4, <1>7, AppendProperties
  <2> QED BY <1>6, <1>9, <2>1, <2>3, <2>5, <2>6
<1> QED BY <1>7, <1>8, <1>10, <1>11 DEF i, t

LEMMA RecordRejected ==
  ASSUME DriverInv, SearchInv, ParseFollows, UNCHANGED search,
         RejectRecord(Transition(config, st.state, Byte))
  PROVE  PassInv'
<1> DEFINE i == total_consumed + pos
           t == ParseRun[i + 1]
           e == EmitError(buf, Closed)
<1>1. /\ Scanning /\ Parsing /\ ~BetweenRecords /\ e # P!NoError
      /\ Transition(config, st.state, Byte).next = "RecordEnd"
      /\ phase' = "returned" /\ result' = [error |-> e, last_record_end |-> P!NoOffset]
      /\ job' = job /\ base' = base /\ records' = records
  BY DEF RejectRecord, Scanning, Parsing, Return, driver
<1>2. t.done /\ t.error = e /\ Accepted(records, t.records)
  BY <1>1, EmittedBoth
<1>3. WholeParse = t
  BY <1>1, <1>2, ParseEndsHere
<1>4. records \in Seq(PureRecords)
  BY <1>1, PassFacts
<1> HIDE DEF i, t, e
<1>5. result'.error = e /\ result'.last_record_end = P!NoOffset
  BY <1>1
<1> QED BY <1>1, <1>2, <1>3, <1>4, <1>5, ReturnsTheWhole

LEMMA EndedRecordFollowed ==
  ASSUME DriverInv, SearchInv, ParseFollows, UNCHANGED search,
         EndRecord(Transition(config, st.state, Byte))
  PROVE  PassInv'
<1> DEFINE i == total_consumed + pos
           t == ParseRun[i + 1]
           p == pos + 1
<1>1. /\ Scanning /\ Parsing /\ ~BetweenRecords /\ EmitError(buf, Closed) = P!NoError
      /\ Transition(config, st.state, Byte).next = "RecordEnd"
      /\ records' = Emitted(buf, Closed)
      /\ st' = [Closed EXCEPT !.spans = <<>>, !.state = "RecordStart",
                              !.record_buf_start = p, !.last_record_end = i]
      /\ pos' = p /\ phase = "step"
      /\ IF pos >= remaining
         THEN phase' = "returned" /\ result' = [error |-> P!NoError, last_record_end |-> i]
         ELSE phase' = phase
      /\ job' = job /\ base' = base /\ total_consumed' = total_consumed /\ buf' = buf
  BY DEF EndRecord, Scanning, Parsing, EndsChunk, Return, reader
<1>2. /\ i \in Int /\ total_consumed + p = i + 1 /\ (pos >= remaining <=> i >= job.limit)
  BY <1>1, NextByte
<1>3. /\ t \in PureSteppers /\ t.fields = <<>> /\ t.field = <<>>
      /\ t.state = "RecordStart" /\ t.last_record_end = i
      /\ t.record_in_start = Closed.record_in_start
      /\ t.field_in_start = Closed.field_in_start
      /\ t.error = P!NoError /\ (t.done <=> i >= job.limit)
      /\ records' \in Seq(PureRecords) /\ Accepted(records', t.records)
  <2> DEFINE more == Emitted(buf, Closed)
  <2>1. /\ t \in PureSteppers /\ t.fields = <<>> /\ t.field = <<>>
        /\ t.state = "RecordStart" /\ t.last_record_end = i
        /\ t.record_in_start = Closed.record_in_start
        /\ t.field_in_start = Closed.field_in_start
        /\ t.error = P!NoError /\ (t.done <=> i >= job.limit)
        /\ more \in Seq(PureRecords) /\ Accepted(more, t.records)
    BY <1>1, EmittedBoth
  <2> HIDE DEF more, t, i
  <2>2. records' = more
    BY <1>1 DEF more
  <2> QED BY <2>1, <2>2
<1>4. base <= total_consumed
  BY <1>1, PassFacts
<1>5. /\ Closed \in Steppers /\ Closed.field_start = p /\ Closed.write_pos = p /\ p \in Nat
  BY ClosedIs, DriverFacts, SMTT(30)
<1>6. t.done => WholeParse = t
  BY <1>1, ParseEndsHere
<1>7. i + 1 = total_consumed' + pos' /\ t = ParseRun[i + 1]
  BY <1>1, <1>2
<1> HIDE DEF i, t, p
<1>8. CASE pos >= remaining
  <2>1. t.done /\ WholeParse = t
    BY <1>2, <1>3, <1>6, <1>8
  <2>2. result'.error = P!NoError /\ result'.last_record_end = i /\ phase' = "returned"
    BY <1>1, <1>8
  <2> QED BY <1>1, <1>3, <2>1, <2>2, ReturnsTheWhole
<1>9. CASE ~(pos >= remaining)
  <2>1. ~t.done /\ phase' = "step" /\ Parsing' /\ phase' # "validate" /\ phase' # "finish"
    BY <1>1, <1>2, <1>3, <1>9 DEF Parsing
  <2>2. /\ st'.state = "RecordStart" /\ st'.field_start = p /\ st'.write_pos = p
        /\ st'.spans = <<>> /\ st'.record_in_start = Closed.record_in_start
        /\ st'.field_in_start = Closed.field_in_start /\ st'.last_record_end = i
    <3> DEFINE c == Closed
    <3> HIDE DEF c
    <3>1. c \in Steppers /\ st' = [c EXCEPT !.spans = <<>>, !.state = "RecordStart",
                                            !.record_buf_start = p, !.last_record_end = i]
      BY <1>1, <1>5 DEF c
    <3>2. /\ st'.state = "RecordStart" /\ st'.field_start = c.field_start
          /\ st'.write_pos = c.write_pos
          /\ st'.spans = <<>> /\ st'.record_in_start = c.record_in_start
          /\ st'.field_in_start = c.field_in_start /\ st'.last_record_end = i
      BY <3>1 DEF Steppers
    <3> QED BY <1>5, <3>2 DEF c
  <2>3. Spells(buf', st'.field_start, st'.write_pos, t.field)
    BY <1>3, <1>5, <2>2, NothingSpelled
  <2>4. SpellsAll(buf', st'.spans, t.fields)
    BY <1>3, <2>2, NoneSpelled
  <2> QED BY <1>1, <1>3, <1>4, <1>7, <2>1, <2>2, <2>3, <2>4, PassGoesOn
<1> QED BY <1>8, <1>9

-----------------------------------------------------------------------------
(* Text that stops: the byte behind it begins no character that is whole.  *)
StopsAt(s, n) ==
  /\ n < Len(s)
  /\ \/ s[n + 1] = "t"
     \/ s[n + 1] = "h" /\ (n + 1 = Len(s) \/ s[n + 2] # "t")

LEMMA ValidUpToStops ==
  ASSUME NEW s \in Seq(STRING), ValidUpTo(s) < Len(s)
  PROVE  TextIn(s, 0, ValidUpTo(s)) /\ StopsAt(s, ValidUpTo(s))
<1> DEFINE n == ValidUpTo(s)
<1>1. n \in 0..Len(s) /\ IsText(SubSeq(s, 1, n))
      /\ \A m \in (n + 1)..Len(s) : ~IsText(SubSeq(s, 1, m))
  BY ValidUpToIs
<1>2. Len(s) \in Nat /\ n < Len(s)
  OBVIOUS
<1> HIDE DEF n
<1>3. ASSUME NEW m \in 0..Len(s)
      PROVE  IsText(SubSeq(s, 1, m)) <=> TextIn(s, 0, m)
  <2>1. 0 \in Nat /\ m \in Nat /\ 0 <= m /\ m <= Len(s) /\ 0 + 1 = 1
    BY <1>2
  <2>2. IsText(SubSeq(s, 0 + 1, m)) <=> TextIn(s, 0, m)
    BY <2>1, TextSlice
  <2> QED BY <2>1, <2>2
<1>4. TextIn(s, 0, n)
  BY <1>1, <1>3
<1>5. n \in Int /\ 0 \in Int /\ 0 <= n /\ n + 1 \in Int /\ 0 <= n + 1 /\ (n + 1) + 1 = n + 2
  BY <1>1
<1>6. ~TextIn(s, 0, n + 1)
  <2>1. n + 1 \in (n + 1)..Len(s) /\ n + 1 \in 0..Len(s)
    BY <1>1, <1>2
  <2> QED BY <1>1, <1>3, <2>1
<1>7. n + 1 = Len(s) \/ ~TextIn(s, 0, n + 2)
  <2>1. n + 1 = Len(s) \/ (n + 2 \in (n + 1)..Len(s) /\ n + 2 \in 0..Len(s))
    BY <1>1, <1>2
  <2> QED BY <1>1, <1>3, <2>1
<1>8. s[n + 1] \in {"h", "t"}
  BY <1>4, <1>5, <1>6, TextGrows
<1>9. ASSUME s[n + 1] = "h", s[n + 2] = "t"  PROVE TextIn(s, 0, n + 2)
  <2>1. CutIn(s, 0, n + 1)
    BY <1>4, <1>5, <1>9, TextGrows
  <2>2. s[(n + 1) + 1] = "t"
    BY <1>5, <1>9
  <2>3. TextIn(s, 0, (n + 1) + 1)
    BY <1>5, <2>1, <2>2, TextGrows
  <2> QED BY <1>5, <2>3
<1>10. StopsAt(s, n)
  BY <1>2, <1>7, <1>8, <1>9 DEF StopsAt
<1> QED BY <1>4, <1>10 DEF n

LEMMA StopsThere ==
  ASSUME NEW s \in Seq(STRING), NEW n \in Nat, TextIn(s, 0, n), StopsAt(s, n)
  PROVE  ValidUpTo(s) = n
<1> DEFINE m == ValidUpTo(s)
<1>1. m \in 0..Len(s) /\ IsText(SubSeq(s, 1, m))
      /\ \A k \in (m + 1)..Len(s) : ~IsText(SubSeq(s, 1, k))
  BY ValidUpToIs
<1>2. /\ Len(s) \in Nat /\ n < Len(s) /\ (s[n + 1] = "t" \/ s[n + 1] = "h")
      /\ s[n + 1] = "h" => n + 1 = Len(s) \/ s[n + 2] # "t"
  BY DEF StopsAt
<1> HIDE DEF m
<1>3. ASSUME NEW k \in 0..Len(s)
      PROVE  IsText(SubSeq(s, 1, k)) <=> TextIn(s, 0, k)
  <2>1. 0 \in Nat /\ k \in Nat /\ 0 <= k /\ k <= Len(s) /\ 0 + 1 = 1
    BY <1>2
  <2>2. IsText(SubSeq(s, 0 + 1, k)) <=> TextIn(s, 0, k)
    BY <2>1, TextSlice
  <2> QED BY <2>1, <2>2
<1>4. m \in 0..Len(s)
  BY <1>1
<1>5. m \in Nat /\ m <= Len(s) /\ Len(s) \in Nat /\ n < Len(s)
  BY <1>2, <1>4
<1>6. ~(m < n)
  <2>1. m < n => n \in (m + 1)..Len(s)
    BY <1>5
  <2>2. n \in 0..Len(s)
    BY <1>5
  <2> QED BY <1>1, <1>3, <2>1, <2>2
<1>7. ASSUME n < m  PROVE FALSE
  <2>1. TextIn(s, 0, m)
    BY <1>1, <1>3
  <2>2. n + 1 \in (0 + 1)..m /\ (n + 1) + 1 = n + 2 /\ (n + 1) - 1 = n
    BY <1>7, <1>5
  <2>3. /\ s[n + 1] = "h" => n + 1 < m /\ s[n + 2] = "t"
        /\ s[n + 1] = "t" => n + 1 > 1 /\ s[n] = "h"
    BY <2>1, <2>2 DEF TextIn
  <2>4. s[n + 1] # "h"
    <3>1. n + 1 = Len(s) => ~(n + 1 < m)
      BY <1>5
    <3> QED BY <1>2, <2>3, <3>1
  <2>5. n > 0 /\ s[n] = "h"
    BY <1>2, <2>3, <2>4
  <2>6. n \in (0 + 1)..n
    BY <2>5
  <2>7. n < n
    BY <2>5, <2>6 DEF TextIn
  <2> QED BY <2>7
<1>8. m = n
  BY <1>6, <1>7, <1>5
<1> QED BY <1>8 DEF m

(* Where the text of a job stops, behind the parse's base.                 *)
LEMMA FirstInvalidIs ==
  ASSUME job \in Jobs, config.text, base \in Nat, NEW q \in Nat, base <= q,
         TextIn(job.bytes, base, q), StopsAt(job.bytes, q)
  PROVE  FirstInvalid = q
<1> DEFINE J == job.bytes
           rest == SubSeq(J, base + 1, Len(J))
           n == q - base
<1>1. J \in Seq(STRING) /\ Len(J) \in Nat
  BY JobFacts
<1>2. /\ q < Len(J) /\ (J[q + 1] = "t" \/ J[q + 1] = "h")
      /\ J[q + 1] = "h" => q + 1 = Len(J) \/ J[q + 2] # "t"
  BY DEF StopsAt
<1>3. TextIn(J, base, q)
  OBVIOUS
<1>4. FirstInvalid = base + ValidUpTo(rest)
  BY DEF FirstInvalid, ValidLength
<1> HIDE DEF J
<1>5. base <= Len(J)
  BY <1>1, <1>2
<1>6. /\ rest \in Seq(STRING) /\ Len(rest) = Len(J) - base
      /\ \A i \in 1..(Len(J) - base) : rest[i] = J[base + i]
  BY <1>1, <1>5, Slice
<1> HIDE DEF rest
<1>7. /\ n \in Nat /\ n < Len(rest) /\ base + (n + 1) = q + 1 /\ base + (n + 2) = q + 2
      /\ n + 1 \in 1..(Len(J) - base)
      /\ n + 1 = Len(rest) \/ n + 2 \in 1..(Len(J) - base)
      /\ q + 1 = Len(J) => n + 1 = Len(rest)
  BY <1>1, <1>2, <1>6
<1>8. TextIn(rest, 0, n)
  <2>1. ASSUME NEW i \in (base + 1)..q  PROVE rest[i - base] = J[i]
    <3>1. i - base \in 1..(Len(J) - base) /\ base + (i - base) = i
      BY <1>1, <1>2
    <3> QED BY <1>6, <3>1
  <2>2. base \in Int /\ q \in Int /\ base - base = 0
    OBVIOUS
  <2> HIDE DEF n
  <2>3. TextIn(rest, base - base, q - base)
    BY <1>3, <2>1, <2>2, TextMoves
  <2> QED BY <2>2, <2>3 DEF n
<1> HIDE DEF n
<1>9. rest[n + 1] = J[q + 1] /\ (n + 1 = Len(rest) \/ rest[n + 2] = J[q + 2])
  BY <1>6, <1>7, SMTT(30)
<1>10. StopsAt(rest, n)
  BY <1>2, <1>7, <1>9 DEF StopsAt
<1>11. ValidUpTo(rest) = n
  BY <1>6, <1>7, <1>8, <1>10, StopsThere
<1> QED BY <1>4, <1>11 DEF n

(* What a refill reads comes behind what the stepper has.                  *)
LEMMA FillFollowed ==
  ASSUME DriverInv, ParseFollows, NEW filled \in Fills(validated + MaxSequence), Fill(filled)
  PROVE  PassInv'
<1> DEFINE i == total_consumed + pos
           s == ParseRun[i]
           n == validated + MaxSequence
<1>1. /\ Parsing /\ phase = "fill" /\ phase' = "validate" /\ buf' = filled
      /\ job' = job /\ base' = base /\ total_consumed' = total_consumed /\ pos' = pos
      /\ validated' = validated /\ record_end' = record_end /\ st' = st /\ records' = records
  BY DEF Fill, Parsing, driver
<1>2. /\ base <= total_consumed /\ s \in PureSteppers
      /\ ~s.done /\ s.error = P!NoError /\ s.state = st.state
      /\ s.record_in_start = st.record_in_start /\ s.field_in_start = st.field_in_start
      /\ s.last_record_end = st.last_record_end
      /\ Spells(buf, st.field_start, st.write_pos, s.field)
      /\ SpellsAll(buf, st.spans, s.fields)
      /\ Accepted(records, s.records) /\ records \in Seq(PureRecords)
  BY <1>1, PassFacts
<1>3. pos = validated /\ record_end = st.last_record_end
  BY <1>1 DEF ParseFollows
<1>4. /\ job.bytes \in Seq(STRING) /\ Len(job.bytes) \in Nat /\ buf \in Seq(STRING)
      /\ Len(buf) \in Nat /\ position \in Nat /\ position = total_consumed
      /\ position + Len(buf) <= Len(job.bytes)
      /\ st \in Steppers /\ SpansInOrder(st) /\ st.field_start \in Nat /\ st.write_pos \in Nat
      /\ st.field_start <= st.write_pos /\ st.write_pos <= pos /\ pos <= validated
      /\ validated <= Len(buf) /\ validated \in Nat /\ pos \in Nat
  BY DriverFacts
<1>5. n \in Nat
  BY <1>4, WindowsAssumption
<1>6. /\ filled \in Seq(STRING)
      /\ Len(filled) >= n \/ position + Len(filled) = Len(job.bytes)
      /\ \A k \in 1..Len(buf) : filled[k] = buf[k]
  BY <1>4, <1>5, FillsAre
<1>7. AheadFilled'
  BY <1>1, <1>4, <1>6 DEF AheadFilled
<1>8. s.fields \in Seq(Seq(STRING))
  BY <1>2, PureTypes
<1> HIDE DEF i, s
<1>9. /\ \A k \in (st.field_start + 1)..st.write_pos : k \in 1..Len(buf)
      /\ \A k \in 1..st.field_start : k \in 1..Len(buf)
      /\ st.field_start \in Int /\ st.write_pos \in Int
  BY <1>4
<1>10. /\ \A k \in (st.field_start + 1)..st.write_pos : buf'[k] = buf[k]
       /\ \A k \in 1..st.field_start : buf'[k] = buf[k]
  BY <1>1, <1>6, <1>9
<1>11. Spells(buf', st'.field_start, st'.write_pos, s.field)
  BY <1>1, <1>2, <1>9, <1>10, SpelledStays
<1>12. SpellsAll(buf', st'.spans, s.fields)
  BY <1>1, <1>2, <1>4, <1>8, <1>10, AllSpelledStay
<1>13. i = total_consumed' + pos' /\ s = ParseRun[i] /\ Parsing' /\ phase' # "finish"
  BY <1>1 DEF Parsing, i, s
<1> QED BY <1>1, <1>2, <1>3, <1>7, <1>11, <1>12, <1>13, PassGoesOn

LEMMA FailedFillReturns ==
  ASSUME DriverInv, SearchInv, ParseFollows, FillFails
  PROVE  PassInv'
<1>1. /\ Parsing /\ phase' = "returned" /\ job' = job /\ base' = base /\ records' = records
      /\ result' = [error |-> P!IoError, last_record_end |-> P!NoOffset]
  BY DEF FillFails, Return, Parsing, driver
<1>2. result'.error = P!IoError
  BY <1>1
<1> QED BY <1>1, <1>2, ReturnsEarly

(* Where validation stops short of what is filled, the text stops.         *)
LEMMA ValidStops ==
  ASSUME DriverInv, TextInv, ParseFollows, phase = "validate",
         ValidLength(Fresh) < Len(Fresh)
  PROVE  LET q == total_consumed + validated + ValidLength(Fresh)
         IN  /\ config.text /\ q \in Nat /\ base <= q
             /\ StopsAt(Fresh, ValidLength(Fresh)) /\ TextIn(job.bytes, base, q)
             /\ \A k \in 1..2 : ValidLength(Fresh) + k <= Len(Fresh) =>
                  job.bytes[q + k] = Fresh[ValidLength(Fresh) + k]
             /\ q + (Len(Fresh) - ValidLength(Fresh)) <= Len(job.bytes)
<1> DEFINE n == ValidLength(Fresh)
           seen == total_consumed + validated
           q == seen + n
           J == job.bytes
           F == Fresh
<1>1. /\ F \in Seq(STRING) /\ Len(F) \in Nat /\ validated + Len(F) <= Len(buf)
      /\ \A k \in 1..Len(F) : F[k] = buf[validated + k]
  BY FreshIs
<1>2. config.text /\ n = ValidUpTo(F) /\ n < Len(F)
  BY DEF ValidLength
<1>3. n \in 0..Len(F)
  BY <1>1, ValidLengthIs
<1>4. /\ total_consumed \in Nat /\ validated \in Nat /\ pos \in Nat /\ pos <= validated
      /\ Len(buf) \in Nat /\ base \in Nat /\ Len(J) \in Nat
      /\ total_consumed + Len(buf) <= Len(J)
      /\ \A k \in (pos + 1)..Len(buf) : buf[k] = J[total_consumed + k]
  BY DriverFacts
<1>5. base <= total_consumed /\ TextIn(J, base, seen)
  BY <1>2, TextFacts DEF Parsing
<1>6. TextIn(F, 0, n) /\ StopsAt(F, n)
  BY <1>1, <1>2, ValidUpToStops
<1> HIDE DEF n, F, J
<1>7. /\ seen \in Nat /\ n \in Nat /\ q \in Nat /\ base <= seen /\ seen <= q /\ base <= q
      /\ q + (Len(F) - n) <= Len(J) /\ 0 - seen \in Int
  BY <1>1, <1>3, <1>4, <1>5
<1>8. ASSUME NEW k \in 1..Len(F)
      PROVE  J[seen + k] = F[k]
  <2>1. validated + k \in (pos + 1)..Len(buf) /\ total_consumed + (validated + k) = seen + k
    BY <1>1, <1>4
  <2> QED BY <1>1, <1>4, <2>1
<1>9. TextIn(J, seen, q)
  <2>1. \A k \in (0 + 1)..n : k \in 1..Len(F) /\ k - (0 - seen) = seen + k
    BY <1>1, <1>3, <1>7
  <2>2. \A k \in (0 + 1)..n : J[k - (0 - seen)] = F[k]
    BY <1>8, <2>1
  <2>3. 0 \in Int /\ n \in Int /\ 0 - (0 - seen) = seen /\ n - (0 - seen) = q
    BY <1>7
  <2> DEFINE m == 0 - seen
  <2>4. m \in Int
    BY <1>7
  <2> HIDE DEF m, seen, q
  <2>5. TextIn(J, 0 - m, n - m)
    BY <1>6, <2>2, <2>3, <2>4, TextMoves DEF m
  <2> QED BY <2>3, <2>5 DEF m
<1>10. TextIn(J, base, q)
  <2>1. base \in Int /\ seen \in Int /\ q \in Int
    BY <1>4, <1>7
  <2> HIDE DEF seen, q
  <2> QED BY <1>5, <1>7, <1>9, <2>1, TextJoins
<1>11. \A k \in 1..2 : n + k <= Len(F) => J[q + k] = F[n + k]
  <2>1. ASSUME NEW k \in 1..2, n + k <= Len(F)  PROVE J[q + k] = F[n + k]
    <3>1. n + k \in 1..Len(F) /\ seen + (n + k) = q + k
      BY <1>1, <1>7, <2>1, SMTT(30)
    <3> QED BY <1>8, <3>1
  <2> QED BY <2>1
<1> QED BY <1>2, <1>6, <1>7, <1>10, <1>11 DEF n, F, J

LEMMA TextRejected ==
  ASSUME DriverInv, SearchInv, TextInv, ParseFollows, RejectText(ValidLength(Fresh))
  PROVE  PassInv'
<1> DEFINE n == ValidLength(Fresh)
           q == total_consumed + validated + n
           e == P!Error("Utf8", q)
           J == job.bytes
           F == Fresh
<1>1. /\ Parsing /\ phase = "validate" /\ n < Len(F) /\ ~CutOff(F, n)
      /\ phase' = "returned" /\ job' = job /\ base' = base /\ records' = records
      /\ result' = [error |-> e, last_record_end |-> P!NoOffset]
  BY DEF RejectText, Return, Parsing, driver
<1>2. /\ config.text /\ q \in Nat /\ base <= q /\ StopsAt(F, n) /\ TextIn(J, base, q)
      /\ \A k \in 1..2 : n + k <= Len(F) => J[q + k] = F[n + k]
      /\ q + (Len(F) - n) <= Len(J)
  BY <1>1, ValidStops
<1>3. F \in Seq(STRING) /\ Len(F) \in Nat /\ n \in 0..Len(F)
  BY FreshIs, ValidLengthIs
<1>4. job \in Jobs /\ base \in Nat /\ Len(J) \in Nat
  BY DriverFacts
<1> HIDE DEF n, q, F, J
<1>5. /\ F[n + 1] = "t" \/ F[n + 1] = "h"
      /\ F[n + 1] = "h" => n + 1 = Len(F) \/ F[n + 2] # "t"
      /\ F[n + 1] = "h" => n # Len(F) - 1
  BY <1>1, <1>2 DEF StopsAt, CutOff
<1>6. /\ n + 1 <= Len(F) /\ q < Len(J) /\ 1 \in 1..2 /\ 2 \in 1..2
      /\ n # Len(F) - 1 => n + 2 <= Len(F) /\ n + 1 # Len(F)
  BY <1>1, <1>2, <1>3, <1>4
<1>7. J[q + 1] = F[n + 1] /\ (n # Len(F) - 1 => J[q + 2] = F[n + 2])
  BY <1>2, <1>6
<1>8. StopsAt(J, q)
  BY <1>5, <1>6, <1>7 DEF StopsAt
<1>9. FirstInvalid = q
  BY <1>2, <1>4, <1>8, FirstInvalidIs DEF J
<1>10. result'.error = e /\ e.kind = "Utf8" /\ e.at = q
  BY <1>1 DEF P!Error
<1> QED BY <1>1, <1>9, <1>10, ReturnsEarly

LEMMA TailRejected ==
  ASSUME DriverInv, SearchInv, TextInv, ParseFollows, RejectTail
  PROVE  PassInv'
<1> DEFINE q == total_consumed + validated
           e == P!Error("Utf8", q)
           J == job.bytes
<1>1. /\ Parsing /\ phase = "finish" /\ Len(buf) > validated
      /\ phase' = "returned" /\ job' = job /\ base' = base /\ records' = records
      /\ result' = [error |-> e, last_record_end |-> P!NoOffset]
  BY DEF RejectTail, Return, Parsing, driver
<1>2. /\ total_consumed \in Nat /\ validated \in Nat /\ pos \in Nat /\ pos <= validated
      /\ Len(buf) \in Nat /\ base \in Nat /\ Len(J) \in Nat /\ job \in Jobs
      /\ \A k \in (pos + 1)..Len(buf) : buf[k] = J[total_consumed + k]
  BY DriverFacts
<1>3. NothingAhead
  BY <1>1 DEF ParseFollows
<1>4. Len(buf) # validated
  BY <1>1, <1>2
<1>5. /\ total_consumed + Len(buf) = Len(J) /\ config.text
      /\ Len(buf) = validated + 1 /\ buf[Len(buf)] = "h"
  BY <1>3, <1>4 DEF NothingAhead
<1>6. base <= total_consumed /\ TextIn(J, base, q)
  BY <1>1, <1>5, TextFacts
<1> HIDE DEF J
<1>7. /\ q \in Nat /\ base <= q /\ q < Len(J) /\ q + 1 = Len(J)
      /\ validated + 1 \in (pos + 1)..Len(buf) /\ total_consumed + (validated + 1) = q + 1
  BY <1>2, <1>5, <1>6
<1>8. J[q + 1] = "h"
  BY <1>2, <1>5, <1>7
<1>9. StopsAt(J, q)
  BY <1>7, <1>8 DEF StopsAt
<1> HIDE DEF q
<1>10. FirstInvalid = q
  BY <1>2, <1>5, <1>6, <1>7, <1>9, FirstInvalidIs DEF J
<1>11. result'.error = e /\ e.kind = "Utf8" /\ e.at = q
  BY <1>1 DEF P!Error
<1> QED BY <1>1, <1>10, <1>11, ReturnsEarly

(* Validation makes progress, or the file has ended.                       *)
LEMMA ValidationEnds ==
  ASSUME DriverInv, TextInv, ParseFollows, Validate(ValidLength(Fresh)), ValidLength(Fresh) = 0
  PROVE  NothingAhead
<1> DEFINE F == Fresh
<1>1. phase = "validate" /\ (0 = Len(F) \/ CutOff(F, 0))
  BY DEF Validate
<1>2. /\ F \in Seq(STRING) /\ Len(F) \in Nat
      /\ \A k \in 1..Len(F) : F[k] = buf[validated + k]
      /\ validated + Len(F) = Len(buf) \/ Len(F) >= MaxSequence
  BY FreshIs
<1>3. MaxSequence \in Nat /\ MaxSequence >= 2
  BY WindowsAssumption
<1>4. validated \in Nat /\ Len(buf) \in Nat /\ total_consumed \in Nat
  BY DriverFacts
<1>5. AheadFilled
  BY <1>1 DEF ParseFollows, Parsing
<1>6. Len(F) # 0 => config.text
  BY DEF ValidLength
<1> HIDE DEF F
<1>7. Len(F) # 0 => Len(F) = 1 /\ F[1] = "h"
  <2>1. ASSUME Len(F) # 0  PROVE Len(F) = 1 /\ F[1] = "h"
    <3>1. 0 = Len(F) - 1 /\ F[0 + 1] = "h"
      BY <1>1, <2>1 DEF CutOff
    <3>2. Len(F) = 1 /\ 0 + 1 = 1
      BY <1>2, <3>1
    <3> QED BY <3>1, <3>2
  <2> QED BY <2>1
<1>8. /\ validated + Len(F) = Len(buf) /\ ~(Len(buf) >= validated + MaxSequence)
      /\ Len(F) = 0 => Len(buf) = validated
      /\ Len(F) = 1 => Len(buf) = validated + 1
  <2>1. Len(F) = 0 \/ Len(F) = 1
    BY <1>7
  <2>2. ~(Len(F) >= MaxSequence)
    BY <1>3, <2>1
  <2>3. validated + Len(F) = Len(buf)
    BY <1>2, <2>2
  <2>4. Len(F) = 0 => Len(buf) = validated
    BY <1>4, <2>3
  <2>5. Len(F) = 1 => Len(buf) = validated + 1
    BY <1>4, <2>3
  <2>6. ~(Len(buf) >= validated + MaxSequence)
    BY <1>3, <1>4, <2>1, <2>4, <2>5
  <2> QED BY <2>3, <2>4, <2>5, <2>6
<1>9. total_consumed + Len(buf) = Len(job.bytes)
  BY <1>5, <1>8 DEF AheadFilled
<1>10. Len(F) = 1 => buf[Len(buf)] = "h"
  <2>1. ASSUME Len(F) = 1  PROVE buf[Len(buf)] = "h"
    <3>1. 1 \in 1..Len(F)
      BY <2>1
    <3> QED BY <1>2, <1>7, <1>8, <2>1, <3>1
  <2> QED BY <2>1
<1> QED BY <1>6, <1>7, <1>8, <1>9, <1>10 DEF NothingAhead

LEMMA ValidatedFollowed ==
  ASSUME DriverInv, TextInv, ParseFollows, Validate(ValidLength(Fresh))
  PROVE  PassInv'
<1> DEFINE i == total_consumed + pos
           s == ParseRun[i]
           n == ValidLength(Fresh)
<1>1. /\ Parsing /\ phase = "validate" /\ validated' = validated + n
      /\ phase' = IF n = 0 THEN "finish" ELSE "step"
      /\ job' = job /\ base' = base /\ total_consumed' = total_consumed /\ pos' = pos
      /\ buf' = buf /\ record_end' = record_end /\ st' = st /\ records' = records
  BY DEF Validate, EndOfInput, Parsing, reader
<1>2. /\ base <= total_consumed
      /\ ~s.done /\ s.error = P!NoError /\ s.state = st.state
      /\ s.record_in_start = st.record_in_start /\ s.field_in_start = st.field_in_start
      /\ s.last_record_end = st.last_record_end
      /\ Spells(buf, st.field_start, st.write_pos, s.field)
      /\ SpellsAll(buf, st.spans, s.fields)
      /\ Accepted(records, s.records) /\ records \in Seq(PureRecords)
  BY <1>1, PassFacts
<1>3. pos = validated /\ record_end = st.last_record_end
  BY <1>1 DEF ParseFollows
<1>4. n = 0 => NothingAhead
  BY ValidationEnds
<1>5. validated \in Nat
  BY DriverFacts
<1>6. i = total_consumed' + pos' /\ s = ParseRun[i] /\ Parsing'
  BY <1>1 DEF Parsing
<1> HIDE DEF i, s, n
<1>7. CASE n = 0
  <2>1. phase' = "finish" /\ validated' = validated
    BY <1>1, <1>5, <1>7
  <2>2. NothingAhead'
    BY <1>1, <1>4, <1>7, <2>1 DEF NothingAhead, config
  <2>3. phase' # "step" /\ phase' # "validate"
    BY <2>1
  <2> QED BY <1>1, <1>2, <1>3, <1>6, <2>1, <2>2, <2>3, PassGoesOn
<1>8. CASE n # 0
  <2>1. phase' = "step" /\ phase' # "validate" /\ phase' # "finish"
    BY <1>1, <1>8
  <2> QED BY <1>1, <1>2, <1>6, <2>1, PassGoesOn
<1> QED BY <1>7, <1>8

(* What a suspended scan leaves behind moves to the buffer's front.        *)
LEMMA AllSpelledMove ==
  ASSUME NEW b, NEW c, NEW n \in Nat, NEW s \in Steppers, SpansInOrder(s),
         NEW spans, Len(spans) = Len(s.spans),
         \A k \in 1..Len(s.spans) : /\ n <= s.spans[k].off
                                    /\ spans[k].off = s.spans[k].off - n
                                    /\ spans[k].end = s.spans[k].end - n,
         NEW fields, SpellsAll(b, s.spans, fields),
         \A k \in (n + 1)..s.field_start : c[k - n] = b[k]
  PROVE  SpellsAll(c, spans, fields)
<1>1. /\ Len(s.spans) = Len(fields) /\ s.field_start \in Nat
      /\ \A k \in 1..Len(s.spans) : /\ s.spans[k].off \in Nat /\ s.spans[k].end \in Nat
                                    /\ s.spans[k].end <= s.field_start
  BY SpansOf DEF SpellsAll
<1>2. \A k \in 1..Len(fields) : Spells(b, s.spans[k].off, s.spans[k].end, Handed(fields[k]))
  BY DEF SpellsAll
<1>3. ASSUME NEW k \in 1..Len(fields)
      PROVE  Spells(c, spans[k].off, spans[k].end, Handed(fields[k]))
  <2> DEFINE from == s.spans[k].off
             to == s.spans[k].end
             field == Handed(fields[k])
  <2>1. from \in Nat /\ to \in Nat /\ to <= s.field_start /\ Spells(b, from, to, field)
    BY <1>1, <1>2
  <2>2. n <= from /\ spans[k].off = from - n /\ spans[k].end = to - n
    BY <1>1
  <2> HIDE DEF from, to, field
  <2>3. \A j \in (from + 1)..to : j \in (n + 1)..s.field_start
    BY <1>1, <2>1, <2>2
  <2>4. \A j \in (from + 1)..to : c[j - n] = b[j]
    BY <2>3
  <2>5. from \in Int /\ to \in Int /\ n \in Int
    BY <2>1
  <2>6. Spells(c, from - n, to - n, field)
    BY <2>1, <2>4, <2>5, SpelledMoves
  <2> QED BY <2>2, <2>6 DEF field
<1> QED BY <1>1, <1>3 DEF SpellsAll

LEMMA SuspendFollowed ==
  ASSUME DriverInv, ParseFollows, Suspend(Consumable(st, pos))
  PROVE  PassInv'
<1> DEFINE i  == total_consumed + pos
           s  == ParseRun[i]
           n  == Consumable(st, pos)
           fs == st.field_start
           wp == st.write_pos
<1>1. /\ Parsing /\ phase = "step" /\ pos >= validated
      /\ buf' = SubSeq(buf, n + 1, Len(buf)) /\ st' = Shifted(st, n)
      /\ total_consumed' = total_consumed + n /\ validated' = validated - n /\ pos' = pos - n
      /\ record_end' = st.last_record_end /\ phase' = "fill"
      /\ job' = job /\ base' = base /\ records' = records
  BY DEF Suspend, Parsing
<1>2. /\ base <= total_consumed /\ s \in PureSteppers
      /\ ~s.done /\ s.error = P!NoError /\ s.state = st.state
      /\ s.record_in_start = st.record_in_start /\ s.field_in_start = st.field_in_start
      /\ s.last_record_end = st.last_record_end
      /\ Spells(buf, fs, wp, s.field)
      /\ SpellsAll(buf, st.spans, s.fields)
      /\ Accepted(records, s.records) /\ records \in Seq(PureRecords)
  BY <1>1, PassFacts
<1>3. /\ buf \in Seq(STRING) /\ Len(buf) \in Nat /\ total_consumed \in Nat /\ base \in Nat
      /\ st \in Steppers /\ SpansInOrder(st) /\ fs \in Nat /\ wp \in Nat
      /\ st.record_buf_start \in Nat /\ st.record_buf_start <= fs
      /\ fs <= wp /\ wp <= pos /\ pos <= validated
      /\ validated <= Len(buf) /\ validated \in Nat /\ pos \in Nat
  BY DriverFacts
<1>4. /\ n \in Nat /\ n <= pos
      /\ n <= st.record_buf_start \/ (st.spans = <<>> /\ fs = wp /\ wp <= n)
  BY ConsumableIs
<1> HIDE DEF n, i, s
<1>5. /\ Shifted(st, n).field_start = Minus(fs, n) /\ Shifted(st, n).write_pos = Minus(wp, n)
      /\ Shifted(st, n).state = st.state
      /\ Shifted(st, n).record_in_start = st.record_in_start
      /\ Shifted(st, n).field_in_start = st.field_in_start
      /\ Shifted(st, n).last_record_end = st.last_record_end
      /\ Len(Shifted(st, n).spans) = Len(st.spans)
      /\ \A k \in 1..Len(st.spans) : /\ n <= st.spans[k].off
                                     /\ Shifted(st, n).spans[k].off = st.spans[k].off - n
                                     /\ Shifted(st, n).spans[k].end = st.spans[k].end - n
  BY <1>3, <1>4, ShiftedIs
<1>6. \A k \in (n + 1)..Len(buf) : buf'[k - n] = buf[k]
  <2>1. n <= Len(buf)
    BY <1>3, <1>4
  <2>2. \A k \in 1..(Len(buf) - n) : SubSeq(buf, n + 1, Len(buf))[k] = buf[n + k]
    BY <1>3, <1>4, <2>1, Slice
  <2>3. ASSUME NEW k \in (n + 1)..Len(buf)
        PROVE  k - n \in 1..(Len(buf) - n) /\ n + (k - n) = k
    BY <1>3, <1>4
  <2> QED BY <1>1, <2>2, <2>3
<1> HIDE DEF fs, wp
<1>7. Spells(buf', st'.field_start, st'.write_pos, s.field)
  <2>1. CASE n <= st.record_buf_start
    <3>1. n <= fs /\ n <= wp /\ fs \in Int /\ wp \in Int /\ n \in Int
      BY <1>3, <1>4, <2>1
    <3>2. Minus(fs, n) = fs - n /\ Minus(wp, n) = wp - n
      BY <1>3, <1>4, <3>1, MinusIs
    <3>3. \A k \in (fs + 1)..wp : k \in (n + 1)..Len(buf)
      BY <1>3, <1>4, <3>1
    <3>4. \A k \in (fs + 1)..wp : buf'[k - n] = buf[k]
      BY <1>6, <3>3
    <3>5. Spells(buf', fs - n, wp - n, s.field)
      BY <1>2, <3>1, <3>4, SpelledMoves
    <3> QED BY <1>1, <1>5, <3>2, <3>5
  <2>2. CASE ~(n <= st.record_buf_start)
    <3>1. fs = wp /\ wp - fs = 0
      BY <1>3, <1>4, <2>2
    <3>2. Len(s.field) = 0
      BY <1>2, <3>1 DEF Spells
    <3>3. Minus(fs, n) \in Nat /\ Minus(wp, n) = Minus(fs, n)
      BY <1>3, <1>4, <3>1, MinusIs
    <3> DEFINE at == Minus(fs, n)
    <3>4. Spells(buf', at, at, s.field)
      <4> HIDE DEF at
      <4>1. at - at = 0
        BY <3>3 DEF at
      <4> QED BY <3>2, <4>1 DEF Spells
    <3> QED BY <1>1, <1>5, <3>3, <3>4
  <2> QED BY <2>1, <2>2
<1>8. SpellsAll(buf', st'.spans, s.fields)
  <2> DEFINE spans == Shifted(st, n).spans
  <2>1. \A k \in (n + 1)..st.field_start : k \in (n + 1)..Len(buf)
    BY <1>3, <1>4 DEF fs
  <2>2. \A k \in (n + 1)..st.field_start : buf'[k - n] = buf[k]
    BY <1>6, <2>1
  <2>3. /\ Len(spans) = Len(st.spans)
        /\ \A k \in 1..Len(st.spans) : /\ n <= st.spans[k].off
                                       /\ spans[k].off = st.spans[k].off - n
                                       /\ spans[k].end = st.spans[k].end - n
    BY <1>5
  <2> HIDE DEF spans
  <2>4. SpellsAll(buf', spans, s.fields)
    BY <1>2, <1>3, <1>4, <2>2, <2>3, AllSpelledMove
  <2> QED BY <1>1, <2>4 DEF spans
<1>9. /\ base <= total_consumed' /\ i = total_consumed' + pos' /\ pos' = validated'
  BY <1>1, <1>2, <1>3, <1>4 DEF i
<1>10. /\ s = ParseRun[i] /\ Parsing' /\ record_end' = st'.last_record_end
       /\ phase' # "validate" /\ phase' # "finish"
  BY <1>1, <1>5 DEF s, Parsing
<1> QED BY <1>1, <1>2, <1>5, <1>7, <1>8, <1>9, <1>10, PassGoesOn

-----------------------------------------------------------------------------
(* The end of the file.                                                    *)
LEMMA AtTheEnd ==
  ASSUME DriverInv, ParseFollows, Finishing
  PROVE  LET n == Len(job.bytes)
             s == ParseRun[n]
         IN  /\ n \in Nat /\ total_consumed + pos = n /\ total_consumed + validated = n
             /\ WholeParse = P!Finalize(config, Reader, s)
             /\ record_end = s.last_record_end
             /\ s \in PureSteppers /\ s.error = P!NoError /\ s.state = st.state /\ ~s.done
             /\ s.record_in_start = st.record_in_start /\ s.field_in_start = st.field_in_start
             /\ Spells(buf, st.field_start, st.write_pos, s.field)
             /\ SpellsAll(buf, st.spans, s.fields)
             /\ Accepted(records, s.records) /\ records \in Seq(PureRecords)
<1> DEFINE n == Len(job.bytes)
<1>1. phase = "finish" /\ Len(buf) = validated /\ Parsing
  BY DEF Finishing, Parsing
<1>2. pos = validated /\ record_end = st.last_record_end /\ NothingAhead
  BY <1>1 DEF ParseFollows
<1>3. n \in Nat /\ total_consumed + pos = n /\ total_consumed + validated = n
  BY <1>1, <1>2, DriverFacts DEF NothingAhead
<1>4. LET i == total_consumed + pos
          s == ParseRun[i]
      IN  /\ base \in Nat /\ base <= n
          /\ s \in PureSteppers /\ ~s.done /\ s.error = P!NoError /\ s.state = st.state
          /\ s.record_in_start = st.record_in_start /\ s.field_in_start = st.field_in_start
          /\ s.last_record_end = st.last_record_end
          /\ Spells(buf, st.field_start, st.write_pos, s.field)
          /\ SpellsAll(buf, st.spans, s.fields)
          /\ Accepted(records, s.records) /\ records \in Seq(PureRecords)
  BY <1>1, PassFacts
<1>5. WholeParse = P!Finalize(config, Reader, ParseRun[n])
  BY <1>3, <1>4, DriverFacts, WholeParseIs
<1> QED BY <1>2, <1>3, <1>4, <1>5

LEMMA FinishedOutside ==
  ASSUME DriverInv, SearchInv, ParseFollows, UNCHANGED search, FinishOutside
  PROVE  PassInv'
<1> DEFINE n == Len(job.bytes)
           s == ParseRun[n]
<1>1. /\ Finishing /\ Parsing /\ st.state \in {"RecordStart", "InComment"}
      /\ phase' = "returned" /\ job' = job /\ base' = base /\ records' = records
      /\ result' = [error |-> P!NoError, last_record_end |-> record_end]
  BY DEF FinishOutside, Finishing, Return, Parsing, driver
<1>2. /\ WholeParse = P!Finalize(config, Reader, s) /\ record_end = s.last_record_end
      /\ s \in PureSteppers /\ s.error = P!NoError /\ s.state = st.state
      /\ Accepted(records, s.records) /\ records \in Seq(PureRecords)
  BY <1>1, AtTheEnd
<1>3. job \in Jobs
  BY DriverFacts
<1> HIDE DEF s
<1>4. WholeParse = s
  BY <1>1, <1>2, <1>3, PureFinalize
<1>5. result'.error = P!NoError /\ result'.last_record_end = record_end
  BY <1>1
<1> QED BY <1>1, <1>2, <1>4, <1>5, ReturnsTheWhole

LEMMA FinishedQuoted ==
  ASSUME DriverInv, SearchInv, ParseFollows, UNCHANGED search, FinishQuoted
  PROVE  PassInv'
<1> DEFINE n == Len(job.bytes)
           s == ParseRun[n]
           e == P!Error("UnclosedQuote", st.field_in_start)
<1>1. /\ Finishing /\ Parsing /\ st.state \in {"InQuotedField", "InEscapedQuote"}
      /\ phase' = "returned" /\ job' = job /\ base' = base /\ records' = records
      /\ result' = [error |-> e, last_record_end |-> P!NoOffset]
  BY DEF FinishQuoted, Finishing, Return, Parsing, driver
<1>2. /\ WholeParse = P!Finalize(config, Reader, s)
      /\ s \in PureSteppers /\ s.state = st.state /\ s.field_in_start = st.field_in_start
      /\ Accepted(records, s.records) /\ records \in Seq(PureRecords)
  BY <1>1, AtTheEnd
<1>3. job \in Jobs
  BY DriverFacts
<1> HIDE DEF s
<1>4. WholeParse = P!Stop(s, e)
  BY <1>1, <1>2, <1>3, PureFinalize
<1>5. e \in PureErrors /\ e # P!NoError
  <2>1. "UnclosedQuote" \in Kinds
    BY DEF Kinds
  <2>2. st.field_in_start \in Int
    BY <1>2, PureTypes
  <2>3. e \in PureErrors /\ e.kind = "UnclosedQuote" /\ P!NoError.kind = "none"
    BY <2>1, <2>2, ErrorsAre
  <2> HIDE DEF e
  <2> QED BY <2>3
<1>6. result'.error = e /\ result'.last_record_end = P!NoOffset
  BY <1>1
<1> HIDE DEF e
<1>7. WholeParse.records = s.records /\ WholeParse.error = e
  BY <1>2, <1>4, <1>5, PureStop
<1> QED BY <1>1, <1>2, <1>5, <1>6, <1>7, ReturnsTheWhole

LEMMA LastRecordIs ==
  ASSUME DriverInv
  PROVE  /\ LastRecord \in Steppers /\ SpansInOrder(LastRecord)
         /\ LastRecord.field_start = pos
         /\ LastRecord.record_in_start = st.record_in_start
         /\ LastRecord.spans = Append(st.spans, FieldSpan(buf, st))
<1>1. /\ st \in Steppers /\ pos \in Nat /\ total_consumed \in Nat /\ SpansInOrder(st)
      /\ st.record_buf_start <= st.field_start /\ st.field_start <= st.write_pos
      /\ st.write_pos <= pos
  BY DriverFacts
<1>2. /\ PushField(buf, st, pos) \in Steppers /\ SpansInOrder(PushField(buf, st, pos))
      /\ PushField(buf, st, pos).field_start = pos
      /\ PushField(buf, st, pos).record_in_start = st.record_in_start
      /\ PushField(buf, st, pos).spans = Append(st.spans, FieldSpan(buf, st))
  BY <1>1, PushFieldIs
<1> QED BY <1>2 DEF LastRecord

(* The record in flight is the last one, without a terminator.             *)
LEMMA FinishedRecord ==
  ASSUME DriverInv, SearchInv, ParseFollows, UNCHANGED search, FinishRecord
  PROVE  PassInv'
<1> DEFINE n == Len(job.bytes)
           s == ParseRun[n]
           pushed == P!PushField(s, n)
           record == [at |-> pushed.record_in_start, fields |-> pushed.fields]
           handed == [at |-> LastRecord.record_in_start, fields |-> Fields(buf, LastRecord)]
           e == EmitError(buf, LastRecord)
           w == WholeParse
<1>1. /\ Finishing /\ Parsing /\ st.state \in {"FieldStart", "InField", "AfterClosingQuote"}
      /\ phase' = "returned" /\ job' = job /\ base' = base
      /\ e = P!NoError =>
           /\ records' = Emitted(buf, LastRecord)
           /\ result' = [error |-> P!NoError, last_record_end |-> total_consumed + validated]
      /\ e # P!NoError =>
           /\ records' = records
           /\ result' = [error |-> e, last_record_end |-> P!NoOffset]
  BY DEF FinishRecord, Finishing, Return, Parsing, driver
<1>2. /\ n \in Nat /\ total_consumed + pos = n /\ total_consumed + validated = n
      /\ w = P!Finalize(config, Reader, s)
      /\ s \in PureSteppers /\ s.error = P!NoError /\ s.state = st.state /\ ~s.done
      /\ s.record_in_start = st.record_in_start
      /\ Spells(buf, st.field_start, st.write_pos, s.field)
      /\ SpellsAll(buf, st.spans, s.fields)
      /\ Accepted(records, s.records) /\ records \in Seq(PureRecords)
  BY <1>1, AtTheEnd
<1>3. /\ job \in Jobs /\ st \in Steppers /\ st.field_start <= st.write_pos
      /\ buf \in Seq(STRING) /\ pos <= Len(buf)
  BY DriverFacts
<1>4. /\ LastRecord \in Steppers /\ SpansInOrder(LastRecord)
      /\ LastRecord.field_start = pos
      /\ LastRecord.record_in_start = st.record_in_start
      /\ LastRecord.spans = Append(st.spans, FieldSpan(buf, st))
  BY LastRecordIs
<1> HIDE DEF s, w
<1>5. n \in Int
  BY <1>2
<1>6. w = P!EmitRecord(config, pushed, n)
  BY <1>1, <1>2, <1>3, PureFinalize
<1> HIDE DEF n
<1>7. s.field \in Seq(STRING) /\ s.fields \in Seq(Seq(STRING)) /\ s.records \in Seq(PureRecords)
  BY <1>2, PureTypes
<1>8. /\ pushed \in PureSteppers /\ pushed.fields = Append(s.fields, s.field)
      /\ pushed.record_in_start = s.record_in_start /\ pushed.records = s.records
      /\ pushed.error = s.error
  <2> HIDE DEF pushed
  <2> QED BY <1>2, <1>5, PurePush DEF pushed
<1> HIDE DEF pushed
<1>9. SpellsAll(buf, LastRecord.spans, pushed.fields)
  BY <1>2, <1>3, <1>4, <1>7, <1>8, PushSpells
<1>10. /\ e = ErrorOf(pushed)
       /\ record \in PureRecords /\ handed \in PureRecords /\ handed = AsTrimmed(record)
  BY <1>2, <1>3, <1>4, <1>8, <1>9, EmitsTheSame
<1>11. Emitted(buf, LastRecord) = Append(records, handed)
  BY DEF Emitted
<1> HIDE DEF e, handed
<1>12. /\ ErrorOf(pushed) \in PureErrors
       /\ ErrorOf(pushed) # P!NoError => w = P!Stop(pushed, ErrorOf(pushed))
       /\ ErrorOf(pushed) = P!NoError =>
            /\ w.records = Append(pushed.records, record)
            /\ w.last_record_end = n /\ w.error = pushed.error
  BY <1>5, <1>6, <1>8, PureEmit
<1> HIDE DEF record
<1>13. CASE e # P!NoError
  <2>1. w.records = s.records /\ w.error = e
    BY <1>8, <1>10, <1>12, <1>13, PureStop
  <2>2. result'.error = e /\ result'.last_record_end = P!NoOffset /\ records' = records
    BY <1>1, <1>13
  <2> QED BY <1>1, <1>2, <1>13, <2>1, <2>2, ReturnsTheWhole DEF w
<1>14. CASE e = P!NoError
  <2>1. w.records = Append(s.records, record) /\ w.error = P!NoError /\ w.last_record_end = n
    BY <1>2, <1>8, <1>10, <1>12, <1>14
  <2>2. result'.error = P!NoError /\ result'.last_record_end = n /\ records' = Append(records, handed)
    BY <1>1, <1>2, <1>11, <1>14
  <2>3. Accepted(Append(records, handed), Append(s.records, record))
    BY <1>2, <1>7, <1>10, OneMoreAccepted
  <2>4. Append(records, handed) \in Seq(PureRecords)
    BY <1>2, <1>10, AppendProperties
  <2> QED BY <1>1, <2>1, <2>2, <2>3, <2>4, ReturnsTheWhole DEF w
<1> QED BY <1>13, <1>14

LEMMA ParseIsFollowed ==
  ASSUME DriverInv, SearchInv, TextInv, ParseFollows, Parse, UNCHANGED search
  PROVE  PassInv'
<1> DEFINE cell == Transition(config, st.state, Byte)
<1>1. CASE \E filled \in Fills(validated + MaxSequence) : Fill(filled)
  BY <1>1, FillFollowed
<1>2. CASE FillFails
  BY <1>2, FailedFillReturns
<1>3. CASE Validate(ValidLength(Fresh))
  BY <1>3, ValidatedFollowed
<1>4. CASE RejectText(ValidLength(Fresh))
  BY <1>4, TextRejected
<1>5. CASE SkipEmptyLine
  BY <1>5, LineFollowed
<1>6. CASE StopOnEmptyLine
  BY <1>6, LastLineFollowed
<1>7. CASE Take(cell)
  BY <1>7, TakenFollowed
<1>8. CASE RejectQuote(cell)
  BY <1>8, QuoteRejected
<1>9. CASE EndField(cell)
  BY <1>9, EndedFieldFollowed
<1>10. CASE EndRecord(cell)
  BY <1>10, EndedRecordFollowed
<1>11. CASE RejectRecord(cell)
  BY <1>11, RecordRejected
<1>12. CASE Suspend(Consumable(st, pos))
  BY <1>12, SuspendFollowed
<1>13. CASE RejectTail
  BY <1>13, TailRejected
<1>14. CASE FinishOutside
  BY <1>14, FinishedOutside
<1>15. CASE FinishQuoted
  BY <1>15, FinishedQuoted
<1>16. CASE FinishRecord
  BY <1>16, FinishedRecord
<1> QED BY <1>1, <1>2, <1>3, <1>4, <1>5, <1>6, <1>7, <1>8, <1>9, <1>10, <1>11, <1>12, <1>13,
           <1>14, <1>15, <1>16 DEF Parse, StepByte

-----------------------------------------------------------------------------
(* The search hands nothing out, and returns what that search returns.     *)
LEMMA SearchHasNoRecords ==
  ASSUME DriverInv, Searching
  PROVE  /\ records = <<>> /\ records \in Seq(PureRecords)
         /\ \A whole : SameRecords(whole)
BY DEF DriverInv, NotBegun, SameRecords

LEMMA SearchGoesOn ==
  ASSUME DriverInv, PassInv, Searching, Searching', records' = records, record_end' = record_end
  PROVE  PassInv'
<1>1. records' \in Seq(PureRecords)
  BY SearchHasNoRecords
<1> QED BY <1>1
    DEF PassInv, NoEndYet, ParseFollows, Searching, Parsing, RefillsAreInvisible

LEMMA SearchReturns ==
  ASSUME DriverInv, Searching, phase' = "returned", job' = job, records' = records,
         \/ result'.error = P!IoError
         \/ /\ result'.error = Whole.error /\ Whole.records = <<>>
            /\ record_start' = Whole.record_start
            /\ result'.last_record_end = Whole.record_end
  PROVE  PassInv'
<1>1. records = <<>> /\ records' \in Seq(PureRecords)
  BY SearchHasNoRecords
<1>2. Whole' = Whole
  BY DEF Whole, config, Reader
<1>3. SameRecords(Whole.records)'
  BY <1>1 DEF SameRecords
<1>4. Len(records') = Len(<<>>)
  BY <1>1
<1>5. AgreesWith(Whole)'
  BY <1>2, <1>3, <1>4 DEF AgreesWith
<1> QED BY <1>1, <1>5, PassReturns

LEMMA WholeOfTheScan ==
  /\ Found.state \in InteriorStates => Whole = P!NoRecord
  /\ Found.state = "Error" => Whole = P!Failed(P!Error("InvalidQuote", Found.at))
  /\ FoundIt => Whole = P!ParseFromBoundary(config, Reader, record_start)
<1>1. Whole = P!ParseScanned(config, Reader, Found)
  BY DEF Whole, P!Parse, Found
<1> QED BY <1>1 DEF P!ParseScanned, FoundIt, InteriorStates

(* The chunk ends in the middle of a record.                               *)
LEMMA NothingIsFound ==
  ASSUME DriverInv, SearchInv, FindNothing
  PROVE  PassInv'
<1>1. /\ phase = "scan" /\ Searching /\ ~InChunk /\ (AtEof \/ remaining = 0)
      /\ phase' = "returned" /\ job' = job /\ records' = records /\ record_start' = record_start
      /\ result' = [error |-> P!NoError, last_record_end |-> P!NoOffset]
  BY DEF FindNothing, Searching, Return, search
<1>2. /\ job.find # "No" /\ record_start = P!NoOffset /\ dfa_state \in InteriorStates
      /\ total_consumed <= SearchEnd
      /\ SearchRun[total_consumed].state = dfa_state
           \/ SearchRun[total_consumed].state = "RecordStart"
  BY <1>1 DEF SearchInv, ScanFollows
<1>3. /\ total_consumed \in Nat /\ Len(job.bytes) \in Nat /\ job.limit \in Nat
      /\ remaining = 0 <=> job.limit <= total_consumed
      /\ AtEof <=> total_consumed = Len(job.bytes)
  BY <1>1, SearchFacts
<1>4. job \in Jobs /\ SearchEnd \in Nat /\ SearchEnd <= job.limit /\ SearchEnd <= Len(job.bytes)
  BY DriverFacts, JobFacts
<1>5. total_consumed = SearchEnd
  <2>1. CASE AtEof
    <3>1. total_consumed = Len(job.bytes)
      BY <1>3, <2>1
    <3> QED BY <1>2, <1>3, <1>4, <3>1
  <2>2. CASE remaining = 0
    <3>1. job.limit <= total_consumed
      BY <1>3, <2>2
    <3> QED BY <1>2, <1>3, <1>4, <3>1
  <2> QED BY <1>1, <2>1, <2>2
<1>6. Found.state \in InteriorStates
  BY <1>2, <1>4, <1>5, FoundIs DEF InteriorStates
<1>7. Whole = P!NoRecord
  BY <1>6, WholeOfTheScan
<1>8. /\ Whole.error = P!NoError /\ Whole.records = <<>> /\ Whole.record_start = P!NoOffset
      /\ Whole.record_end = P!NoOffset
  BY <1>7 DEF P!NoRecord, P!PassResult
<1>9. result'.error = P!NoError /\ result'.last_record_end = P!NoOffset
  BY <1>1
<1> QED BY <1>1, <1>2, <1>8, <1>9, SearchReturns

LEMMA ScanRejected ==
  ASSUME DriverInv, SearchInv, phase = "scan", InChunk,
         RejectScan(Transition(SearchConfig, dfa_state, buf[1]))
  PROVE  PassInv'
<1> DEFINE cell == Transition(SearchConfig, dfa_state, buf[1])
           at   == total_consumed + 1
           e    == P!Error("InvalidQuote", total_consumed)
<1>1. /\ total_consumed \in Nat /\ at \in 1..SearchEnd
      /\ SearchRun[at] = P!ScanTaking(cell, job.find = "Strict", total_consumed)
  BY SameByteSameCell
<1>2. /\ StrictlyRejected(cell) \/ cell.next = "Error"
      /\ phase' = "returned" /\ job' = job /\ records' = records /\ record_start' = record_start
      /\ result' = [error |-> e, last_record_end |-> P!NoOffset]
  BY DEF RejectScan, Return, search
<1> HIDE DEF cell, at
<1>3. SearchRun[at].state = "Error" /\ SearchRun[at].at = total_consumed
  BY <1>1, <1>2 DEF P!ScanTaking, StrictlyRejected
<1>4. job \in Jobs /\ job.find # "No" /\ record_start = P!NoOffset
  BY DEF DriverInv, Types, SearchInv, ScanFollows
<1>5. SearchEnd \in Nat
  BY <1>4, JobFacts
<1>6. Found = SearchRun[at]
  <2>1. /\ ScanRunOf(SearchRun, PureConfig, job.find = "Strict", Reader, PureState, SearchEnd)
        /\ Found = SearchRun[SearchEnd]
    BY <1>4, FoundIs
  <2>2. at \in 0..SearchEnd
    BY <1>1
  <2>3. SearchRun[at].state \in P!ScanOutcomes
    BY <1>3 DEF P!ScanOutcomes
  <2>4. SearchRun[SearchEnd] = SearchRun[at]
    BY <1>5, <2>1, <2>2, <2>3, ScanStays
  <2> QED BY <2>1, <2>4
<1>7. Whole = P!Failed(e)
  BY <1>3, <1>6, WholeOfTheScan
<1> HIDE DEF e
<1>8. /\ Whole.error = e /\ Whole.records = <<>> /\ Whole.record_start = P!NoOffset
      /\ Whole.record_end = P!NoOffset
  BY <1>7 DEF P!Failed, P!PassResult
<1>9. result'.error = e /\ result'.last_record_end = P!NoOffset /\ Searching
  BY <1>2 DEF Searching
<1> QED BY <1>2, <1>4, <1>8, <1>9, SearchReturns

(* Empty lines up to the chunk's end and beyond.                           *)
LEMMA LinesOutlast ==
  ASSUME DriverInv, SearchInv, LinesOutlastChunk
  PROVE  PassInv'
<1> DEFINE at == total_consumed
<1>1. /\ phase = "skip" /\ Searching /\ AtTerminator /\ remaining = 0
      /\ phase' = "returned" /\ job' = job /\ records' = records /\ record_start' = record_start
      /\ result' = [error |-> P!NoError, last_record_end |-> at]
  BY DEF LinesOutlastChunk, Searching, Return, search
<1>2. /\ FoundIt /\ record_start \in Nat /\ record_start <= at /\ at <= job.limit
      /\ \A i \in record_start..(at - 1) : job.bytes[i + 1] \in Terminators(config)
  BY <1>1 DEF SearchInv, SkipFollows, FoundIt
<1>3. /\ at \in Nat /\ job.limit \in Nat /\ Len(job.bytes) \in Nat
      /\ remaining = 0 <=> job.limit <= at
      /\ buf # <<>> => at < Len(job.bytes) /\ buf[1] = job.bytes[at + 1]
  BY <1>1, SearchFacts
<1>4. /\ at = job.limit /\ at < Len(job.bytes) /\ at <= Len(job.bytes)
      /\ job.bytes[at + 1] \in Terminators(config)
  BY <1>1, <1>2, <1>3 DEF AtTerminator
<1>5. job \in Jobs
  BY DriverFacts
<1> HIDE DEF at
<1>6. Skipped.at = at /\ ~Skipped.failed /\ Skipped.outlasts
  BY <1>2, <1>3, <1>4, <1>5, SkippedIs
<1>7. Whole = P!ParseFromBoundary(config, Reader, record_start)
  BY <1>2, WholeOfTheScan
<1>8. Whole = P!PassResult(record_start, at, <<>>, P!NoError)
  BY <1>6, <1>7 DEF P!ParseFromBoundary, Skipped
<1>9. /\ Whole.error = P!NoError /\ Whole.records = <<>> /\ Whole.record_start = record_start
      /\ Whole.record_end = at
  BY <1>8 DEF P!PassResult
<1>10. result'.error = P!NoError /\ result'.last_record_end = at
  BY <1>1
<1> QED BY <1>1, <1>9, <1>10, SearchReturns

(* The parse begins as the other does.                                     *)
LEMMA BothBegin ==
  ASSUME phase' = "fill", base' = total_consumed', pos' = 0, validated' = 0, total_consumed' \in Nat,
         NEW s, s = (ParseRun[total_consumed + pos])',
         ~s.done, s.error = P!NoError, s.state = st'.state,
         s.record_in_start = st'.record_in_start, s.field_in_start = st'.field_in_start,
         s.last_record_end = st'.last_record_end, record_end' = st'.last_record_end,
         st'.field_start = 0, st'.write_pos = 0, s.field = <<>>,
         st'.spans = <<>>, s.fields = <<>>, records' = <<>>, s.records = <<>>
  PROVE  PassInv'
<1>1. Spells(buf', 0, 0, <<>>)
  BY NothingSpelled
<1>2. Spells(buf, st.field_start, st.write_pos, s.field)'
  BY <1>1 DEF Spells
<1>3. SpellsAll(buf, st.spans, s.fields)'
  BY DEF SpellsAll
<1>4. Accepted(records, s.records)'
  BY DEF Accepted
<1>5. Follows(s)'
  BY <1>2, <1>3, <1>4 DEF Follows
<1>6. Follows(ParseRun[total_consumed + pos])'
  BY <1>5
<1>7. (base <= total_consumed)' /\ pos' = validated' /\ phase' # "validate" /\ phase' # "finish"
  OBVIOUS
<1>8. <<>> \in Seq(PureRecords)
  OBVIOUS
<1>9. ParseFollows'
  BY <1>6, <1>7, <1>8 DEF ParseFollows
<1> QED BY <1>9 DEF PassInv, NoEndYet, Searching, RefillsAreInvisible

LEMMA ParseBegins ==
  ASSUME DriverInv, PassInv, LinesSkipped
  PROVE  PassInv'
<1>1. Searching /\ phase = "skip" /\ job' = job /\ buf' = buf
  BY DEF LinesSkipped, Searching, reader
<1>2. record_end = P!NoOffset
  BY <1>1 DEF PassInv, NoEndYet
<1>3. records = <<>> /\ records \in Seq(PureRecords) /\ pos = 0 /\ validated = 0
  BY <1>1, SearchHasNoRecords DEF DriverInv, NotBegun
<1>4. CASE phase' = "simd"
  <2>1. records' = records
    BY <1>4 DEF LinesSkipped, Begin
  <2> QED BY <1>3, <1>4, <2>1
      DEF PassInv, ParseFollows, NoEndYet, Searching, Parsing, RefillsAreInvisible
<1>5. CASE phase' # "simd"
  <2> DEFINE from == total_consumed
             s == P!NewStepper(from)
             n == Len(job.bytes)
  <2>1. /\ phase' = "fill" /\ base' = from /\ total_consumed' = from /\ st' = NewStepper(from)
        /\ validated' = validated /\ pos' = pos /\ record_end' = record_end /\ records' = records
    BY <1>5 DEF LinesSkipped, Begin
  <2>2. from \in Nat /\ n \in Nat /\ from <= n /\ from + 0 = from
    BY <1>1, SearchFacts
  <2>3. ParseRun' = CHOOSE f : StepRunOf(f, config, Reader, from, n)
    BY <1>1, <2>1 DEF ParseRun, config, Reader
  <2>4. StepRunOf(ParseRun', config, Reader, from, n)
    BY <2>2, <2>3, StepToIs
  <2>5. ParseRun'[from] = s
    BY <2>2, <2>4, StepRunIs
  <2>6. /\ s.state = "RecordStart" /\ s.fields = <<>> /\ s.field = <<>>
        /\ s.record_in_start = from /\ s.field_in_start = from /\ s.records = <<>>
        /\ s.last_record_end = P!NoOffset /\ s.error = P!NoError /\ ~s.done
    <3> HIDE DEF s, from
    <3> QED BY <2>2, PureStart DEF s
  <2>7. /\ st'.state = "RecordStart" /\ st'.field_start = 0 /\ st'.write_pos = 0
        /\ st'.spans = <<>> /\ st'.last_record_end = P!NoOffset
        /\ st'.record_in_start = from /\ st'.field_in_start = from
    BY <2>1 DEF NewStepper
  <2>8. base' = total_consumed' /\ pos' = 0 /\ validated' = 0 /\ records' = <<>>
        /\ record_end' = P!NoOffset /\ total_consumed' \in Nat
    BY <1>2, <1>3, <2>1, <2>2
  <2>9. s = (ParseRun[total_consumed + pos])'
    BY <2>1, <2>2, <2>5, <2>8
  <2> HIDE DEF s, from
  <2> QED BY <2>1, <2>6, <2>7, <2>8, <2>9, BothBegin
<1> QED BY <1>4, <1>5

LEMMA SearchIsFollowed ==
  ASSUME DriverInv, SearchInv, PassInv,
         \/ \E filled \in Fills(1) : Refill(filled)
         \/ SearchFails \/ FindNothing \/ Scan
         \/ SkipLines \/ LinesOutlastChunk \/ LeadSkipped \/ LinesSkipped
  PROVE  PassInv'
<1>1. CASE (\E filled \in Fills(1) : Refill(filled)) \/ SkipLines \/ LeadSkipped
  <2>1. Searching /\ Searching' /\ records' = records /\ record_end' = record_end
    BY <1>1 DEF Refill, SkipLines, LeadSkipped, ConsumeByte, Searching, driver
  <2> QED BY <2>1, SearchGoesOn
<1>2. CASE SearchFails
  <2>1. /\ Searching /\ phase' = "returned" /\ job' = job /\ records' = records
        /\ result' = [error |-> P!IoError, last_record_end |-> P!NoOffset]
    BY <1>2 DEF SearchFails, Return
  <2>2. result'.error = P!IoError
    BY <2>1
  <2> QED BY <2>1, <2>2, SearchReturns
<1>3. CASE FindNothing
  BY <1>3, NothingIsFound
<1>4. CASE Scan
  <2> DEFINE cell == Transition(SearchConfig, dfa_state, buf[1])
  <2>1. phase = "scan" /\ InChunk /\ (ScanOn(cell) \/ FindRecord(cell) \/ RejectScan(cell))
    BY <1>4 DEF Scan
  <2>2. CASE RejectScan(cell)
    BY <2>1, <2>2, ScanRejected
  <2>3. CASE ScanOn(cell) \/ FindRecord(cell)
    <3> HIDE DEF cell
    <3>1. Searching /\ Searching' /\ records' = records /\ record_end' = record_end
      BY <2>1, <2>3 DEF ScanOn, FindRecord, ConsumeByte, Searching, driver
    <3> QED BY <3>1, SearchGoesOn
  <2> QED BY <2>1, <2>2, <2>3
<1>5. CASE LinesOutlastChunk
  BY <1>5, LinesOutlast
<1>6. CASE LinesSkipped
  BY <1>6, ParseBegins
<1> QED BY <1>1, <1>2, <1>3, <1>4, <1>5, <1>6

LEMMA PassStarts ==
  Init => PassInv
<1> SUFFICES ASSUME Init  PROVE PassInv
  OBVIOUS
<1>1. /\ records = <<>> /\ record_end = P!NoOffset /\ phase \in {"lead", "scan", "skip"}
  BY DEF Init, FirstPhase
<1>2. <<>> \in Seq(PureRecords)
  OBVIOUS
<1> QED BY <1>1, <1>2 DEF PassInv, ParseFollows, Parsing, NoEndYet, RefillsAreInvisible

LEMMA PassStands ==
  ASSUME PassInv, UNCHANGED passVars
  PROVE  PassInv'
<1>1. /\ job' = job /\ phase' = phase /\ buf' = buf /\ base' = base /\ validated' = validated
      /\ pos' = pos /\ total_consumed' = total_consumed /\ record_end' = record_end /\ st' = st
      /\ records' = records /\ result' = result /\ record_start' = record_start
  BY DEF passVars, vars, reader, driver, search
<1>2. /\ ParseRun' = ParseRun /\ Whole' = Whole /\ FirstInvalid' = FirstInvalid
      /\ \A fields : Handed(fields)' = Handed(fields)
      /\ \A record : AsTrimmed(record)' = AsTrimmed(record)
  BY <1>1, SameParse
<1>3. ASSUME NEW s  PROVE Follows(s)' <=> Follows(s)
  BY <1>1, <1>2 DEF Follows, Spells, SpellsAll, Accepted
<1>4. ParseFollows'
  BY <1>1, <1>2, <1>3 DEF PassInv, ParseFollows, Parsing, AheadFilled, NothingAhead, config
<1>5. AgreesWith(Whole)' <=> AgreesWith(Whole)
  BY <1>1, <1>2 DEF AgreesWith, SameRecords
<1>6. RefillsAreInvisible'
  BY <1>1, <1>5 DEF PassInv, RefillsAreInvisible, Whole
<1>7. NoEndYet'
  BY <1>1 DEF PassInv, NoEndYet, Searching
<1> QED BY <1>4, <1>6, <1>7 DEF PassInv

LEMMA PassStays ==
  DriverInv /\ SearchInv /\ TextInv /\ PassInv /\ [Next]_passVars => PassInv'
<1>1. ASSUME DriverInv, SearchInv, TextInv, PassInv, Parse, UNCHANGED search  PROVE PassInv'
  BY <1>1, ParseIsFollowed DEF PassInv
<1> QED BY <1>1, SearchIsFollowed, PassStands DEF Next

(* Everywhere in a pass the stepper is that of a parse of the whole file,  *)
(* with spans of the buffer for its fields.                                *)
THEOREM PassIsRight == Spec => []PassInv
<1>1. Init => PassInv
  BY PassStarts
<1> QED BY <1>1, PassStays, DriverIsRight, SearchIsRight, TextIsRight, PTL DEF Spec

(* A pass hands out the records, and returns the result, of one that reads *)
(* the file at once, wherever its buffer was refilled; or it stops sooner, *)
(* at the first byte that cannot be read or is not text (driver.rs).       *)
THEOREM RefillsChangeNothing == Spec => []RefillsAreInvisible
<1>1. PassInv => RefillsAreInvisible
  BY DEF PassInv
<1> QED BY <1>1, PassIsRight, PTL

=============================================================================
