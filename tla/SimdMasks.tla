----------------------------- MODULE SimdMasks ------------------------------
(***************************************************************************)
(* The bit masks of the SIMD chunk parser: one vector at a time            *)
(* (src/parser/simd/bitmask.rs), across vectors (scan.rs), and the check   *)
(* of the field count (fieldcount.rs).                                     *)
(*                                                                         *)
(* A mask is the set of its lanes.  A dialect is a record as in Dfa.       *)
(***************************************************************************)
EXTENDS Integers, Sequences, FiniteSetsExt

CONSTANT VectorBytes  \* 64

D == INSTANCE Dfa

Lanes == 0..(VectorBytes - 1)
Pad == "pad"  \* neutral_pad: a byte without a role

Msb(mask) == VectorBytes - 1 \in mask
Lsb(mask) == 0 \in mask
Bit(flag, lane) == IF flag THEN {lane} ELSE {}

(* << 1 with a carry into bit 0, and >> 1 with the next vector's bit 0.    *)
ShiftUp(mask, carry) == ({i + 1 : i \in mask} \cap Lanes) \cup Bit(carry, 0)
ShiftDown(mask, next) == ({i - 1 : i \in mask} \cap Lanes) \cup Bit(next, VectorBytes - 1)

(* extend_offsets.                                                         *)
Offsets(mask, base) ==
  LET offsets[n \in 0..VectorBytes] ==
        IF n = 0 THEN <<>>
        ELSE IF n - 1 \in mask THEN Append(offsets[n - 1], base + n - 1) ELSE offsets[n - 1]
  IN  offsets[VectorBytes]

-----------------------------------------------------------------------------
(* One vector.                                                             *)
EqMask(v, b) == {i \in Lanes : v[i] = b}

MatchStructural(c, v) ==
  [delim |-> EqMask(v, c.delimiter),
   term  |-> UNION {EqMask(v, b) : b \in D!Terminators(c)},
   quote |-> EqMask(v, c.quote)]

TerminatorRunStarts(t, prev_is_term) == t \ ShiftUp(t, prev_is_term)
TerminatorRunEnds(t, next_is_term) == t \ ShiftDown(t, next_is_term)

(* Inside quotes: the opening one is inside, the closing one outside.      *)
XorPrefixSumOf(q, bits) == {i \in bits : Cardinality({j \in q : j <= i}) % 2 = 1}
XorPrefixSum(q) == XorPrefixSumOf(q, Lanes)

(* xor_prefix_sum_scalar: q ^= q << 1, q ^= q << 2, q ^= q << 4, ..., of   *)
(* the word `bits`, until the shift is as wide as the word.                *)
Doubled(q, bits) ==
  [word |-> SymDiff(q.word, {i + q.shift : i \in q.word} \cap bits), shift |-> 2 * q.shift]

XorPrefixSumScalar(q, bits) ==
  LET width == Cardinality(bits)
      after[n \in 0..width] ==
        IF n = 0 THEN [word |-> q, shift |-> 1] ELSE Doubled(after[n - 1], bits)
  IN  after[Min({n \in 0..width : after[n].shift >= width})].word

InQuotes(quote, carry) ==
  IF carry THEN Lanes \ XorPrefixSum(quote) ELSE XorPrefixSum(quote)

FieldBegins(d_struct, quote, carry) ==
  LET b_init == ShiftUp(d_struct, carry.d_struct)
      qb     == b_init \cap quote
  IN  [mask  |-> (b_init \ qb) \cup ShiftUp(qb, carry.qb),
       carry |-> [d_struct |-> Msb(d_struct), qb |-> Msb(qb)]]

FieldEnds(d_struct, quote, m, next_d_struct, prev_qe) ==
  LET qe == (quote \ m) \cap ShiftDown(d_struct, next_d_struct)
  IN  [mask |-> (d_struct \ ShiftUp(qe, prev_qe)) \cup qe, carry |-> Msb(qe)]

CharsToRemove(quote, m, b, e, next_b, next_q, doubled_quotes) ==
  ((quote \cap m) \ ShiftDown(b, next_b))
  \cup ((quote \ m) \ (e \cup IF doubled_quotes THEN ShiftDown(quote, next_q) ELSE {}))

-----------------------------------------------------------------------------
(* Across vectors.  A vector is held back until the next one's bit 0 is    *)
(* known; NoVector where there is none.                                    *)
NoVector == [none |-> TRUE]
NewScanner ==
  [in_quotes |-> FALSE, begins |-> [d_struct |-> FALSE, qb |-> FALSE],
   ends |-> FALSE, prev_term |-> FALSE, pending |-> NoVector]

EndOfInput == [delim |-> {}, term |-> {}, quote |-> {}, any |-> FALSE]
Lookahead(s, m) ==
  [delim |-> s.delim \ m, term |-> s.term \ m, quote |-> s.quote, any |-> TRUE]

DeriveBLsb(carry, next_quote) == (carry.d_struct /\ ~next_quote) \/ carry.qb

Output(b, e, r, d_struct, term) ==
  [b |-> b, e |-> e, r |-> r, d_struct |-> d_struct, term |-> term]

(* Scanner::resolve.                                                       *)
ResolveQuoted(c, scanner, prev, next) ==
  LET delim     == prev.structural.delim \ prev.m
      term      == prev.structural.term \ prev.m
      quote     == prev.structural.quote
      run_end   == TerminatorRunEnds(term, Lsb(next.term))
      run_start == TerminatorRunStarts(term, scanner.prev_term)
      begins    == FieldBegins(delim \cup run_end, quote, scanner.begins)
      next_d    == Lsb(next.delim) \/ (Lsb(next.term) /\ ~Msb(term))
      ends      == FieldEnds(delim \cup run_start, quote, prev.m, next_d, scanner.ends)
      next_b    == next.any /\ DeriveBLsb(begins.carry, Lsb(next.quote))
      r         == CharsToRemove(quote, prev.m, begins.mask, ends.mask, next_b,
                                 Lsb(next.quote), D!DoubledQuotes(c))
  IN  [out |-> Output(begins.mask, ends.mask, r, delim \cup run_end, run_end),
       scanner |-> [scanner EXCEPT !.begins = begins.carry, !.ends = ends.carry,
                                   !.prev_term = Msb(term)]]

(* Scanner::resolve_unquoted, for a vector that no quote has a part in.    *)
ResolveUnquoted(scanner, prev, next) ==
  LET term      == prev.structural.term
      run_end   == TerminatorRunEnds(term, Lsb(next.term))
      run_start == TerminatorRunStarts(term, scanner.prev_term)
      d_struct  == prev.structural.delim \cup run_end
  IN  [out |-> Output(ShiftUp(d_struct, scanner.begins.d_struct) \cup Bit(scanner.begins.qb, 0),
                      (prev.structural.delim \cup run_start) \ Bit(scanner.ends, 0),
                      {}, d_struct, run_end),
       scanner |-> [scanner EXCEPT !.begins = [d_struct |-> Msb(d_struct), qb |-> FALSE],
                                   !.ends = FALSE, !.prev_term = Msb(term)]]

Resolve(c, scanner, prev, next) ==
  IF prev.structural.quote = {} /\ prev.m = {}
  THEN ResolveUnquoted(scanner, prev, next)
  ELSE ResolveQuoted(c, scanner, prev, next)

(* Scanner::step and finalize: [out, scanner], `out` being NoVector where  *)
(* nothing was held back.                                                  *)
Release(c, scanner, next) ==
  IF scanner.pending = NoVector THEN [out |-> NoVector, scanner |-> scanner]
  ELSE Resolve(c, scanner, scanner.pending, next)

Held(released, s, m) ==
  [out |-> released.out,
   scanner |-> [released.scanner EXCEPT !.pending = [structural |-> s, m |-> m],
                                        !.in_quotes = Msb(m)]]

ScannerStep(c, scanner, v) ==
  LET s == MatchStructural(c, v)
      m == InQuotes(s.quote, scanner.in_quotes)
  IN  Held(Release(c, scanner, Lookahead(s, m)), s, m)

ScannerFinalize(c, scanner) ==
  LET released == Release(c, scanner, EndOfInput)
  IN  [released EXCEPT !.scanner.pending = NoVector]

-----------------------------------------------------------------------------
(* The field count.  `phase` is how many boundaries of the record in       *)
(* flight have been seen; a verdict is [ok, phase].                        *)
Rank(i, d_struct) == Cardinality({j \in d_struct : j < i})

(* verify_by_terminators: the k-th terminator is the boundary that ends    *)
(* the k-th record.                                                        *)
VerifyByTerminators(n, phase, d_struct, term) ==
  LET t     == term \cap d_struct
      count == Cardinality(d_struct)
      after == IF t = {} THEN phase + count
               ELSE Cardinality({j \in d_struct : \A i \in t : i < j})
  IN  [ok    |-> after < n /\ \A i \in t : Rank(i, d_struct) = n - 1 - phase + n * Rank(i, t),
       phase |-> after]

(* verify_pext: the boundaries, as a word of delimiters and terminators,   *)
(* against the word the phase calls for.                                   *)
Pext(src, mask) == {Rank(i, mask) : i \in src \cap mask}

(* pext_scalar: the lowest bit of the mask is looked up and cleared.       *)
PextScalar(src, mask) ==
  LET left[out_pos \in 0..Cardinality(mask)] ==
        IF out_pos = 0 THEN mask
        ELSE LET before == left[out_pos - 1] IN before \ {Min(before)}
  IN  {out_pos \in 0..(Cardinality(mask) - 1) : Min(left[out_pos]) \in src}

(* A variant: a vector without a terminator forgets the phase.             *)
PhaseForgotten(phase, count, p) ==
  IF p = {} THEN count ELSE Cardinality({k \in 0..(count - 1) : \A i \in p : i < k})

PhaseAfter(phase, count, p) ==
  IF p = {} THEN phase + count
  ELSE Cardinality({k \in 0..(count - 1) : \A i \in p : i < k})

ExpectedPattern(n, phase, count) == {i \in 0..(count - 1) : (i + phase) % n = n - 1}

VerifyPext(n, phase, d_struct, term) ==
  LET count == Cardinality(d_struct)
      p     == Pext(term, d_struct)
  IN  [ok    |-> p = ExpectedPattern(n, phase, count),
       phase |-> PhaseAfter(phase, count, p)]

(* locate_bad_record: the start of the first record from `from` on that    *)
(* has another number of fields.                                           *)
WalkByte(c, n, w, byte, next) ==
  IF w.found THEN w
  ELSE IF byte = c.quote THEN [w EXCEPT !.in_quotes = ~@, !.run = FALSE]
  ELSE IF w.in_quotes THEN w
  ELSE IF byte = c.delimiter THEN [w EXCEPT !.fields = @ + 1, !.run = FALSE]
  ELSE IF byte \notin D!Terminators(c) THEN [w EXCEPT !.run = FALSE]
  ELSE IF w.run THEN [w EXCEPT !.start = next]
  ELSE IF w.fields # n THEN [w EXCEPT !.found = TRUE]
  ELSE [w EXCEPT !.start = next, !.fields = 1, !.run = TRUE]

LocateBadRecord(c, b, from, n) ==
  LET walk[i \in from..Len(b)] ==
        IF i = from
        THEN [start |-> from, fields |-> 1, in_quotes |-> FALSE, run |-> FALSE, found |-> FALSE]
        ELSE WalkByte(c, n, walk[i - 1], b[i], i)
  IN  walk[Len(b)].start

-----------------------------------------------------------------------------
(* What both steppers do alike.                                            *)
IsTerm(c, b, offset) == b[offset + 1] \in D!Terminators(c)
Minus(offset, n) == IF offset >= n THEN offset - n ELSE 0  \* saturating_sub

(* A vector of the buffer; the first one, padded in front up to an aligned *)
(* address; the tail, padded behind, with a terminator after its last byte *)
(* unless that is one.                                                     *)
Vector(b, cursor) == [i \in Lanes |-> b[cursor + i + 1]]
PrologueVector(b, misalign) ==
  [i \in Lanes |-> IF i < misalign THEN Pad ELSE b[i - misalign + 1]]

NeedsVirtualTerm(c, b) == Len(b) > 0 /\ ~IsTerm(c, b, Len(b) - 1)
HasTail(c, b, cursor) == cursor < Len(b) \/ NeedsVirtualTerm(c, b)
PrimaryTerminator(c) == IF c.terminator = "CRLF" THEN "n" ELSE c.terminator
TailVector(c, b, cursor) ==
  [i \in Lanes |->
     IF cursor + i < Len(b) THEN b[cursor + i + 1]
     ELSE IF cursor + i = Len(b) /\ NeedsVirtualTerm(c, b) THEN PrimaryTerminator(c) ELSE Pad]

(* A variant: the record's own terminator, whichever side it is on.        *)
HandoffRunStart(run_start, remaining, stop) == run_start

(* The terminator a chunk's work ends on: the first at or past its end.    *)
Handoff(run_start, remaining, stop) == IF stop THEN Max({remaining, run_start}) ELSE run_start

=============================================================================
