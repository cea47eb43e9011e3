---------------------------- MODULE SimdProofs -----------------------------
(***************************************************************************)
(* Proofs about module SimdParser: for vectors of any width, inputs,       *)
(* refills and batches of any size, and dialects with and without quotes.  *)
(*                                                                         *)
(* The masks of a vector are read lane by lane, as an automaton over the   *)
(* bytes would: what the byte of a lane is (Kinds), and what the lanes     *)
(* before it have come to (the states of After).  A byte is a begin or an  *)
(* end of a field by these two and by what the next byte is.               *)
(*                                                                         *)
(* The last part is about words of any width: what the scalar primitives   *)
(* compute, and the two counts of fields.                                  *)
(***************************************************************************)
EXTENDS SimdParser, FiniteSetTheorems, WellFoundedInduction, SequenceTheorems, TLAPS

-----------------------------------------------------------------------------
(* A set of natural numbers has a least element: the proofs about loops,   *)
(* and about operators defined by CHOOSE, rest on it.                      *)
LEMMA LeastElement ==
  ASSUME NEW T \in SUBSET Nat, T # {}
  PROVE  \E x \in T : \A y \in T : x <= y
<1> DEFINE R == OpToRel(<, Nat)
<1>1. IsWellFoundedOn(R, Nat)
  BY NatLessThanWellFounded, Zenon
<1>2. \A x, y \in Nat : x < y => <<x, y>> \in R
  BY Zenon DEF OpToRel
<1> HIDE DEF R
<1>3. PICK x \in T : \A y \in T : ~(<<y, x>> \in R)
  BY <1>1, WFMin
<1>4. ASSUME NEW y \in T  PROVE x <= y
  <2>1. x \in Nat /\ y \in Nat
    OBVIOUS
  <2>2. ~(y < x)
    BY <1>2, <1>3, <2>1
  <2> QED BY <2>1, <2>2
<1> QED BY <1>3, <1>4

(* And a last one, if they are bounded.                                    *)
LEMMA GreatestElement ==
  ASSUME NEW n \in Nat, NEW T \in SUBSET (0..n), T # {}
  PROVE  \E x \in T : \A y \in T : y <= x
<1> DEFINE Mirrored == {k \in Nat : n - k \in T}
<1>1. Mirrored \in SUBSET Nat
  OBVIOUS
<1>2. PICK t \in T : TRUE
  OBVIOUS
<1>3. n - t \in Nat /\ n - (n - t) = t
  OBVIOUS
<1>4. Mirrored # {}
  BY <1>2, <1>3
<1> HIDE DEF Mirrored
<1>5. PICK k \in Mirrored : \A j \in Mirrored : k <= j
  BY <1>1, <1>4, LeastElement
<1>6. n - k \in T /\ k \in Nat
  BY <1>5 DEF Mirrored
<1>7. ASSUME NEW y \in T  PROVE y <= n - k
  <2>1. y \in 0..n
    OBVIOUS
  <2>2. n - y \in Nat /\ n - (n - y) = y
    BY <2>1
  <2>3. n - y \in Mirrored
    BY <2>2 DEF Mirrored
  <2>4. k <= n - y
    BY <1>5, <2>3
  <2> QED BY <1>6, <2>1, <2>4
<1> QED BY <1>6, <1>7

(* A part of a sequence.                                                   *)
LEMMA Slice ==
  ASSUME NEW S, NEW s \in Seq(S), NEW from \in Nat, NEW to \in Nat,
         from <= to, to <= Len(s)
  PROVE  /\ SubSeq(s, from + 1, to) \in Seq(S)
         /\ Len(SubSeq(s, from + 1, to)) = to - from
         /\ \A i \in 1..(to - from) : SubSeq(s, from + 1, to)[i] = s[from + i]
<1>1. Len(s) \in Nat /\ \A i \in 1..Len(s) : s[i] \in S
  OBVIOUS
<1>2. \A i \in (from + 1)..to : s[i] \in S
  BY <1>1
<1>3. /\ SubSeq(s, from + 1, to) \in Seq(S)
      /\ Len(SubSeq(s, from + 1, to)) = IF from + 1 <= to THEN to - (from + 1) + 1 ELSE 0
      /\ \A i \in 1..(to - (from + 1) + 1) :
           SubSeq(s, from + 1, to)[i] = s[(from + 1) + i - 1]
  <2>1. from + 1 \in Int /\ to \in Int
    OBVIOUS
  <2> QED BY <1>2, <2>1, SubSeqProperties
<1>4. (IF from + 1 <= to THEN to - (from + 1) + 1 ELSE 0) = to - from
  OBVIOUS
<1>5. to - (from + 1) + 1 = to - from /\ \A i \in Int : (from + 1) + i - 1 = from + i
  OBVIOUS
<1> QED BY <1>3, <1>4, <1>5

-----------------------------------------------------------------------------
(* A place in a sequence of offsets.                                       *)
LEMMA NatAt ==
  ASSUME NEW o, o \in Seq(Nat)
  PROVE  Len(o) \in Nat /\ \A k \in 1..Len(o) : o[k] \in Nat
OBVIOUS

-----------------------------------------------------------------------------
(* The byte of a lane: a delimiter or a terminator outside of quotes, an   *)
(* opening or a closing quote, or anything else.                           *)
Kinds == {"delim", "term", "open", "close", "text"}

(* Before a lane: in a field; behind a delimiter, or behind a run of       *)
(* terminators; behind a quote that such a boundary is followed by; behind *)
(* a closing quote that a boundary follows; in a run of terminators.       *)
States == {"field", "delimited", "terminated", "opened", "closed", "run"}
Fresh == {"delimited", "terminated"}

After(s, kind, next) ==
  CASE kind = "delim" -> "delimited"
    [] kind = "term" -> IF next = "term" THEN "run" ELSE "terminated"
    [] kind \in {"open", "close"} ->
         IF s \in Fresh THEN "opened"
         ELSE IF kind = "close" /\ next \in {"delim", "term"} THEN "closed" ELSE "field"
    [] OTHER -> "field"

Begins(s, kind) == s = "opened" \/ (s \in Fresh /\ kind \notin {"open", "close"})
EndsField(s, kind, next) ==
  \/ s # "closed" /\ (kind = "delim" \/ (kind = "term" /\ s \notin {"run", "terminated"}))
  \/ kind = "close" /\ next \in {"delim", "term"}

(* What can come of which: quotes are paired, and the state has looked one *)
(* byte ahead.                                                             *)
Fits(s, kind) ==
  /\ s \in States /\ kind \in Kinds
  /\ s \in Fresh => kind # "close"
  /\ s = "terminated" => kind # "term"
  /\ s = "closed" => kind \in {"delim", "term"}
  /\ s = "run" => kind = "term"
Paired(kind, next) == kind \in {"delim", "term"} => next # "close"

LEMMA FitsOn ==
  ASSUME NEW s, NEW kind, NEW next \in Kinds, Fits(s, kind), Paired(kind, next)
  PROVE  Fits(After(s, kind, next), next)
BY DEF Fits, Paired, After, Kinds, States, Fresh

-----------------------------------------------------------------------------
(* Begins and ends of fields, in step: each field is over before the next  *)
(* begins, and one is open just when the state says so.                    *)
Woven(b, e, s, p) ==
  /\ b \in Seq(Nat) /\ e \in Seq(Nat)
  /\ Len(b) = Len(e) + (IF s = "field" THEN 1 ELSE 0)
  /\ \A k \in 1..Len(e) : b[k] <= e[k] /\ e[k] < p
  /\ \A k \in 1..Len(b) : b[k] < p \/ b[k] = 0
  /\ \A k \in 1..Len(e) : k + 1 <= Len(b) => e[k] < b[k + 1]
  /\ s \in {"closed", "run"} => Len(e) # 0

Grown(offsets, p, grows) == IF grows THEN Append(offsets, p) ELSE offsets

(* Padding in front of the buffer is neither.                              *)
InFront(s, kind, p) == p < 0 => s = "field" /\ kind = "text"

Grew(o, x, p) == x \in Seq(Nat) /\ Len(x) = Len(o) + 1 /\ x[Len(o) + 1] = p
                 /\ \A k \in 1..Len(o) : x[k] = o[k]

LEMMA GrownIs ==
  ASSUME NEW o \in Seq(Nat), NEW p, NEW grows, grows => p \in Nat
  PROVE  IF grows THEN Grew(o, Grown(o, p, grows), p) ELSE Grown(o, p, grows) = o
<1>1. CASE grows
  <2>1. Grown(o, p, grows) = Append(o, p)
    BY <1>1 DEF Grown
  <2>2. Grew(o, Append(o, p), p)
    BY <1>1 DEF Grew
  <2> QED BY <1>1, <2>1, <2>2
<1>2. CASE ~grows
  BY <1>2 DEF Grown
<1> QED BY <1>1, <1>2

LEMMA WovenOn ==
  ASSUME NEW b, NEW e, NEW s, NEW p \in Int, NEW kind, NEW next \in Kinds,
         Woven(b, e, s, p), Fits(s, kind), InFront(s, kind, p)
  PROVE  Woven(Grown(b, p, Begins(s, kind)), Grown(e, p, EndsField(s, kind, next)),
               After(s, kind, next), p + 1)
<1> DEFINE begins == Begins(s, kind)
           ends == EndsField(s, kind, next)
           bb == Grown(b, p, begins)
           ee == Grown(e, p, ends)
           t == After(s, kind, next)
<1>1. /\ b \in Seq(Nat) /\ e \in Seq(Nat) /\ Len(b) \in Nat /\ Len(e) \in Nat
      /\ Len(b) = Len(e) + (IF s = "field" THEN 1 ELSE 0)
      /\ \A k \in 1..Len(e) : b[k] <= e[k] /\ e[k] < p
      /\ \A k \in 1..Len(b) : b[k] < p \/ b[k] = 0
      /\ \A k \in 1..Len(e) : k + 1 <= Len(b) => e[k] < b[k + 1]
  BY DEF Woven
<1>2. /\ begins => s # "field" /\ p \in Nat
      /\ ends => p \in Nat
  BY DEF InFront, Begins, EndsField, Fresh
<1>3. /\ ends => s = "field" \/ begins
      /\ ends <=> (s = "field" \/ begins) /\ t # "field"
      /\ t = "field" <=> (s = "field" \/ begins) /\ ~ends
  BY DEF Fits, Begins, EndsField, After, Kinds, States, Fresh
<1>4. t \in {"closed", "run"} => ends \/ s \in {"closed", "run"}
  BY DEF Fits, Begins, EndsField, After, Kinds, States, Fresh
<1>12. IF begins THEN Grew(b, bb, p) ELSE bb = b
  BY <1>1, <1>2, GrownIs
<1>13. IF ends THEN Grew(e, ee, p) ELSE ee = e
  BY <1>1, <1>2, GrownIs
<1> HIDE DEF begins, ends, t
<1>5. /\ bb \in Seq(Nat) /\ \A k \in 1..Len(b) : bb[k] = b[k]
      /\ begins => Len(bb) = Len(b) + 1 /\ bb[Len(b) + 1] = p
      /\ ~begins => Len(bb) = Len(b)
  BY <1>1, <1>12 DEF Grew
<1>6. /\ ee \in Seq(Nat) /\ \A k \in 1..Len(e) : ee[k] = e[k]
      /\ ends => Len(ee) = Len(e) + 1 /\ ee[Len(e) + 1] = p
      /\ ~ends => Len(ee) = Len(e)
  BY <1>1, <1>13 DEF Grew
<1> HIDE DEF bb, ee
<1>7. Len(bb) = Len(ee) + (IF t = "field" THEN 1 ELSE 0)
  BY <1>1, <1>2, <1>3, <1>5, <1>6
<1>8. ASSUME NEW k \in 1..Len(bb)  PROVE bb[k] < p + 1 \/ bb[k] = 0
  <2>1. CASE k \in 1..Len(b)
    <3>1. bb[k] = b[k]
      BY <1>5, <2>1
    <3>2. b[k] \in Nat
      BY <1>1, <2>1
    <3> QED BY <1>1, <2>1, <3>1, <3>2
  <2>2. CASE k \notin 1..Len(b)
    <3>1. begins
      BY <1>1, <1>5, <2>2
    <3> QED BY <1>1, <1>2, <1>5, <2>2, <3>1
  <2> QED BY <2>1, <2>2
<1>9. ASSUME NEW k \in 1..Len(ee)  PROVE bb[k] <= ee[k] /\ ee[k] < p + 1
  <2>1. CASE k <= Len(e)
    <3>1. k \in 1..Len(e) /\ k \in 1..Len(b)
      BY <1>1, <2>1
    <3>2. ee[k] = e[k] /\ bb[k] = b[k]
      BY <1>5, <1>6, <3>1
    <3>3. e[k] \in Nat /\ b[k] <= e[k] /\ e[k] < p
      BY <1>1, <3>1
    <3> QED BY <3>2, <3>3
  <2>2. CASE k > Len(e)
    <3>1. ends /\ k = Len(e) + 1 /\ ee[k] = p
      BY <1>1, <1>6, <2>2
    <3>2. k \in 1..Len(bb)
      BY <1>1, <1>2, <1>3, <1>5, <3>1
    <3>3. bb[k] \in Nat /\ p \in Nat
      BY <1>2, <1>5, <3>1, <3>2
    <3> QED BY <1>8, <3>1, <3>2, <3>3
  <2> QED BY <1>1, <2>1, <2>2
<1>10. ASSUME NEW k \in 1..Len(ee), k + 1 <= Len(bb)  PROVE ee[k] < bb[k + 1]
  <2>1. k \in 1..Len(e)
    <3>1. Len(b) \in Nat /\ Len(e) \in Nat /\ Len(b) = Len(e) + (IF s = "field" THEN 1 ELSE 0)
      BY <1>1
    <3>2. Len(bb) = (IF begins THEN Len(b) + 1 ELSE Len(b))
          /\ Len(ee) = (IF ends THEN Len(e) + 1 ELSE Len(e))
      BY <1>5, <1>6
    <3> QED BY <1>2, <1>3, <1>10, <3>1, <3>2
  <2>2. ee[k] = e[k] /\ e[k] < p
    BY <1>1, <1>6, <2>1
  <2>3. CASE k + 1 <= Len(b)
    BY <1>1, <1>5, <2>1, <2>2, <2>3
  <2>4. CASE k + 1 > Len(b)
    <3>1. begins
      BY <1>1, <1>5, <1>10, <2>1, <2>4
    <3>2. k + 1 = Len(b) + 1
      <4>1. Len(bb) = Len(b) + 1 /\ Len(b) \in Nat
        BY <1>1, <1>5, <3>1
      <4> QED BY <1>10, <2>1, <2>4, <4>1
    <3> QED BY <1>5, <2>2, <3>1, <3>2
  <2> QED BY <1>1, <2>1, <2>3, <2>4
<1>11. t \in {"closed", "run"} => Len(ee) # 0
  BY <1>1, <1>4, <1>6 DEF Woven
<1> QED BY <1>5, <1>6, <1>7, <1>8, <1>9, <1>10, <1>11 DEF Woven, bb, ee, t, begins, ends

-----------------------------------------------------------------------------
(* Between two records.  The offset p is that of a byte in the buffer; the *)
(* n-th field of a record, and none but it, ends at a run of terminators.  *)
TermAt(c, bytes, p) == bytes[p + 1] \in P!Terminators(c)
QuoteAt(c, bytes, p) == bytes[p + 1] = c.quote
Multiple(n, k) == \E j \in Nat : k = j * n

(* All from the end of a field to here are terminators, but for its        *)
(* closing quote.                                                          *)
RunFrom(c, bytes, end, to) ==
  \E start \in {end, end + 1} :
    /\ start <= to /\ \A p \in start..to : TermAt(c, bytes, p)
    /\ start = end + 1 => QuoteAt(c, bytes, end)

(* A run, and behind it, with a quote or without, the next record.         *)
RecordGap(c, bytes, end, begin) ==
  \E to \in Nat : to < begin /\ RunFrom(c, bytes, end, to) /\ ~TermAt(c, bytes, to + 1)

(* Where the next field is still to begin: the k-th has ended at `end`.    *)
Behind(c, bytes, end, k, s, p) ==
  /\ s = "run" => RunFrom(c, bytes, end, p - 1)
  /\ s = "closed" => end = p - 1 /\ QuoteAt(c, bytes, end)
  /\ s = "delimited" => ~Multiple(c.field_count, k)
  /\ s = "terminated" => RunFrom(c, bytes, end, p - 1) /\ ~TermAt(c, bytes, p)
  /\ s = "opened" => /\ QuoteAt(c, bytes, p - 1)
                     /\ Multiple(c.field_count, k) => RunFrom(c, bytes, end, p - 2)

Apart(c, bytes, b, e) ==
  \A k \in 1..Len(e) :
    Multiple(c.field_count, k) /\ k + 1 <= Len(b) => RecordGap(c, bytes, e[k], b[k + 1])

Gaps(c, bytes, b, e, s, p) ==
  /\ Apart(c, bytes, b, e)
  /\ s # "field" /\ Len(e) # 0 => Behind(c, bytes, e[Len(e)], Len(e), s, p)

(* How many fields have both ends of the boundary behind them.             *)
Complete(s, ends) == IF s \in {"run", "closed"} THEN ends - 1 ELSE ends
Boundary(kind, next) == kind = "delim" \/ (kind = "term" /\ next # "term")

LEMMA CompleteOn ==
  ASSUME NEW b, NEW e, NEW s, NEW p \in Int, NEW kind, NEW next \in Kinds,
         Woven(b, e, s, p), Fits(s, kind), InFront(s, kind, p)
  PROVE  Complete(After(s, kind, next), Len(Grown(e, p, EndsField(s, kind, next))))
           = IF Boundary(kind, next) THEN Complete(s, Len(e)) + 1 ELSE Complete(s, Len(e))
<1> DEFINE ends == EndsField(s, kind, next)
           ee == Grown(e, p, ends)
<1>1. e \in Seq(Nat) /\ Len(e) \in Nat
  BY DEF Woven
<1>2. ends => p \in Nat
  BY DEF InFront, EndsField
<1>3. IF ends THEN Grew(e, ee, p) ELSE ee = e
  BY <1>1, <1>2, GrownIs
<1>4. Len(ee) = IF ends THEN Len(e) + 1 ELSE Len(e)
  BY <1>3 DEF Grew
<1> HIDE DEF ee
<1>5. Complete(After(s, kind, next), IF ends THEN Len(e) + 1 ELSE Len(e))
        = IF Boundary(kind, next) THEN Complete(s, Len(e)) + 1 ELSE Complete(s, Len(e))
  BY <1>1 DEF Fits, EndsField, After, Complete, Boundary, Kinds, States, Fresh
<1> QED BY <1>4, <1>5 DEF ee

(* What the buffer has at the byte of a lane and behind it.                *)
ByteIs(c, bytes, p, kind, next) ==
  p >= 0 =>
    /\ kind = "term" => TermAt(c, bytes, p)
    /\ kind \in {"open", "close"} => QuoteAt(c, bytes, p)
    /\ kind = "term" /\ next # "term" => ~TermAt(c, bytes, p + 1)

(* The verdict on a boundary, which is the k-th.                           *)
Counted(n, k, kind, next) ==
  Boundary(kind, next) => (kind = "term" <=> Multiple(n, k))

LEMMA RunOn ==
  ASSUME NEW c, NEW bytes, NEW b, NEW e, NEW s, NEW p \in Int, NEW kind, NEW next \in Kinds,
         Woven(b, e, s, p), Gaps(c, bytes, b, e, s, p), Fits(s, kind), InFront(s, kind, p),
         ByteIs(c, bytes, p, kind, next), kind = "term"
  PROVE  LET ee == Grown(e, p, EndsField(s, kind, next))
         IN  Len(ee) # 0 /\ RunFrom(c, bytes, ee[Len(ee)], p)
<1> DEFINE ends == EndsField(s, kind, next)
           ee == Grown(e, p, ends)
<1>1. p \in Nat /\ TermAt(c, bytes, p)
  BY DEF InFront, ByteIs
<1>2. e \in Seq(Nat) /\ Len(e) \in Nat
  BY DEF Woven
<1>3. IF ends THEN Grew(e, ee, p) ELSE ee = e
  BY <1>1, <1>2, GrownIs
<1>4. CASE ends
  <2>1. Len(ee) # 0 /\ ee[Len(ee)] = p
    BY <1>2, <1>3, <1>4 DEF Grew
  <2> HIDE DEF ee
  <2>2. RunFrom(c, bytes, p, p)
    BY <1>1 DEF RunFrom
  <2> QED BY <2>1, <2>2 DEF ee
<1>5. CASE ~ends
  <2>1. s \in {"closed", "run"} /\ ee = e /\ Len(e) # 0
    BY <1>3, <1>5 DEF EndsField, Fits, States, Woven
  <2> HIDE DEF ee
  <2>2. Behind(c, bytes, e[Len(e)], Len(e), s, p) /\ e[Len(e)] \in Nat
    BY <1>2, <2>1 DEF Gaps
  <2>3. CASE s = "closed"
    <3>1. e[Len(e)] = p - 1 /\ QuoteAt(c, bytes, p - 1)
      BY <2>2, <2>3 DEF Behind
    <3>2. p = (p - 1) + 1 /\ \A q \in p..p : q = p
      BY <1>1
    <3>3. RunFrom(c, bytes, p - 1, p)
      BY <1>1, <3>1, <3>2 DEF RunFrom
    <3> QED BY <2>1, <3>1, <3>3 DEF ee
  <2>4. CASE s = "run"
    <3>1. RunFrom(c, bytes, e[Len(e)], p - 1)
      BY <2>2, <2>4 DEF Behind
    <3>2. PICK start \in {e[Len(e)], e[Len(e)] + 1} :
            /\ start <= p - 1 /\ \A q \in start..(p - 1) : TermAt(c, bytes, q)
            /\ start = e[Len(e)] + 1 => QuoteAt(c, bytes, e[Len(e)])
      BY <3>1 DEF RunFrom
    <3>3. start \in Nat /\ start <= p
      BY <1>1, <2>2, <3>2
    <3>4. \A q \in start..p : q \in start..(p - 1) \/ q = p
      BY <1>1, <3>3
    <3>5. \A q \in start..p : TermAt(c, bytes, q)
      BY <1>1, <3>2, <3>4
    <3>6. RunFrom(c, bytes, e[Len(e)], p)
      BY <3>2, <3>3, <3>5 DEF RunFrom
    <3> QED BY <2>1, <3>6 DEF ee
  <2> QED BY <2>1, <2>3, <2>4
<1> QED BY <1>4, <1>5

LEMMA GapAtBegin ==
  ASSUME NEW c, NEW bytes, NEW end \in Nat, NEW k, NEW s, NEW p \in Nat,
         Behind(c, bytes, end, k, s, p), s \in Fresh \cup {"opened"},
         Multiple(c.field_count, k), c.quote \notin P!Terminators(c)
  PROVE  RecordGap(c, bytes, end, p)
<1>1. CASE s = "terminated"
  <2>1. RunFrom(c, bytes, end, p - 1) /\ ~TermAt(c, bytes, p)
    BY <1>1 DEF Behind
  <2>2. p - 1 \in Nat /\ (p - 1) + 1 = p /\ p - 1 < p
    BY <2>1 DEF RunFrom
  <2> QED BY <2>1, <2>2 DEF RecordGap
<1>2. CASE s = "opened"
  <2>1. RunFrom(c, bytes, end, p - 2) /\ QuoteAt(c, bytes, p - 1)
    BY <1>2 DEF Behind
  <2>2. p - 2 \in Nat /\ (p - 2) + 1 = p - 1 /\ p - 2 < p
    BY <2>1 DEF RunFrom
  <2>3. ~TermAt(c, bytes, p - 1)
    BY <2>1 DEF TermAt, QuoteAt
  <2> QED BY <2>1, <2>2, <2>3 DEF RecordGap
<1>3. s # "delimited"
  BY DEF Behind
<1> QED BY <1>1, <1>2, <1>3 DEF Fresh

LEMMA GapsOn ==
  ASSUME NEW c, NEW bytes, NEW b, NEW e, NEW s, NEW p \in Int, NEW kind, NEW next \in Kinds,
         c.quote \notin P!Terminators(c),
         Woven(b, e, s, p), Gaps(c, bytes, b, e, s, p), Fits(s, kind), InFront(s, kind, p),
         ByteIs(c, bytes, p, kind, next),
         Counted(c.field_count, Complete(s, Len(e)) + 1, kind, next)
  PROVE  Gaps(c, bytes, Grown(b, p, Begins(s, kind)), Grown(e, p, EndsField(s, kind, next)),
              After(s, kind, next), p + 1)
<1> DEFINE begins == Begins(s, kind)
           ends == EndsField(s, kind, next)
           bb == Grown(b, p, begins)
           ee == Grown(e, p, ends)
           t == After(s, kind, next)
           n == c.field_count
<1>1. /\ b \in Seq(Nat) /\ e \in Seq(Nat) /\ Len(b) \in Nat /\ Len(e) \in Nat
      /\ Len(b) = Len(e) + (IF s = "field" THEN 1 ELSE 0)
  BY DEF Woven
<1>2. /\ begins => s \in Fresh \cup {"opened"} /\ s # "field" /\ p \in Nat
      /\ ends => p \in Nat
  BY DEF InFront, Begins, EndsField, Fresh
<1>3. IF begins THEN Grew(b, bb, p) ELSE bb = b
  BY <1>1, <1>2, GrownIs
<1>4. IF ends THEN Grew(e, ee, p) ELSE ee = e
  BY <1>1, <1>2, GrownIs
<1>5. Woven(bb, ee, t, p + 1)
  BY WovenOn
<1>6. Complete(t, Len(ee))
        = IF Boundary(kind, next) THEN Complete(s, Len(e)) + 1 ELSE Complete(s, Len(e))
  BY CompleteOn
<1>7. kind = "term" => Len(ee) # 0 /\ RunFrom(c, bytes, ee[Len(ee)], p)
  BY RunOn
<1> HIDE DEF bb, ee, begins, ends
<1>8. /\ Len(ee) \in Nat /\ Len(bb) \in Nat
      /\ Len(bb) = Len(ee) + (IF t = "field" THEN 1 ELSE 0)
  BY <1>5 DEF Woven
<1>9. /\ \A k \in 1..Len(b) : bb[k] = b[k]
      /\ \A k \in 1..Len(e) : ee[k] = e[k]
      /\ begins => Len(bb) = Len(b) + 1 /\ bb[Len(b) + 1] = p
      /\ ~begins => Len(bb) = Len(b)
      /\ ends => Len(ee) = Len(e) + 1 /\ ee[Len(e) + 1] = p
      /\ ~ends => ee = e
  BY <1>3, <1>4 DEF Grew
<1>10. ASSUME NEW k \in 1..Len(ee), Multiple(n, k), k + 1 <= Len(bb)
       PROVE  RecordGap(c, bytes, ee[k], bb[k + 1])
  <2>1. k \in 1..Len(e)
    <3>1. Len(bb) <= Len(b) + 1 /\ Len(bb) <= Len(e) + 1
      BY <1>1, <1>2, <1>9
    <3> QED BY <1>1, <1>8, <1>10, <3>1
  <2>2. ee[k] = e[k]
    BY <1>9, <2>1
  <2>3. CASE k + 1 <= Len(b)
    <3>1. RecordGap(c, bytes, e[k], b[k + 1])
      BY <1>10, <2>1, <2>3 DEF Gaps, Apart
    <3>2. k + 1 \in 1..Len(b)
      BY <1>1, <2>1, <2>3
    <3> QED BY <1>9, <2>2, <3>1, <3>2
  <2>4. CASE k + 1 > Len(b)
    <3>1. begins
      BY <1>1, <1>9, <1>10, <2>1, <2>4
    <3>2. k = Len(e) /\ k + 1 = Len(b) + 1
      BY <1>1, <1>2, <1>9, <1>10, <2>1, <2>4, <3>1
    <3>3. Behind(c, bytes, e[k], k, s, p)
      BY <1>1, <1>2, <2>1, <3>1, <3>2 DEF Gaps
    <3>4. e[k] \in Nat
      BY <1>1, <2>1
    <3>5. RecordGap(c, bytes, e[k], p)
      BY <1>2, <1>10, <3>1, <3>3, <3>4, GapAtBegin
    <3> QED BY <1>9, <2>2, <3>1, <3>2, <3>5
  <2> QED BY <1>1, <2>1, <2>3, <2>4
<1>11. ASSUME t # "field", Len(ee) # 0
       PROVE  Behind(c, bytes, ee[Len(ee)], Len(ee), t, p + 1)
  <2> DEFINE x == ee[Len(ee)]
  <2>1. p \in Int /\ (p + 1) - 1 = p /\ (p + 1) - 2 = p - 1
    OBVIOUS
  <2>2. kind # "text"
    BY <1>11 DEF After
  <2>3. p >= 0
    BY <2>2 DEF InFront
  <2>4. CASE kind = "delim"
    <3>1. t = "delimited" /\ Boundary(kind, next)
      BY <2>4 DEF After, Boundary
    <3>2. Len(ee) = Complete(s, Len(e)) + 1
      BY <1>6, <3>1 DEF Complete
    <3>3. ~Multiple(n, Len(ee))
      BY <2>4, <3>1, <3>2 DEF Counted
    <3> QED BY <3>1, <3>3 DEF Behind
  <2>5. CASE kind = "term"
    <3>1. RunFrom(c, bytes, x, p) /\ t \in {"run", "terminated"}
      BY <1>7, <2>5 DEF After
    <3>2. t = "terminated" => ~TermAt(c, bytes, p + 1)
      BY <2>3, <2>5 DEF After, ByteIs
    <3> HIDE DEF x
    <3>3. Behind(c, bytes, x, Len(ee), t, p + 1)
      BY <2>1, <3>1, <3>2 DEF Behind
    <3> QED BY <3>3 DEF x
  <2>6. CASE kind \in {"open", "close"}
    <3>1. QuoteAt(c, bytes, p)
      BY <2>3, <2>6 DEF ByteIs
    <3>2. CASE s \in Fresh
      <4>1. t = "opened" /\ ~ends
        BY <2>6, <3>2 DEF After, Fits, EndsField, ends
      <4>2. ee = e
        BY <1>9, <4>1
      <4>3. Behind(c, bytes, e[Len(e)], Len(e), s, p)
        BY <1>11, <3>2, <4>2 DEF Gaps, Fresh
      <4>4. Multiple(n, Len(e)) => RunFrom(c, bytes, e[Len(e)], p - 1)
        BY <3>2, <4>3 DEF Behind, Fresh
      <4> QED BY <2>1, <3>1, <4>1, <4>2, <4>4 DEF Behind
    <3>3. CASE s \notin Fresh
      <4>1. t = "closed" /\ ends
        BY <1>11, <2>6, <3>3 DEF After, EndsField, ends
      <4>2. x = p
        BY <1>9, <4>1
      <4> HIDE DEF x
      <4>3. Behind(c, bytes, x, Len(ee), t, p + 1)
        BY <2>1, <3>1, <4>1, <4>2 DEF Behind
      <4> QED BY <4>3 DEF x
    <3> QED BY <3>2, <3>3
  <2> QED BY <2>2, <2>4, <2>5, <2>6 DEF Fits, Kinds
<1>12. Apart(c, bytes, bb, ee)
  BY <1>10 DEF Apart
<1> QED BY <1>11, <1>12 DEF Gaps, bb, ee, begins, ends


-----------------------------------------------------------------------------
(* Masks, lane by lane.                                                    *)
Width == VectorBytes
Lane == 0..(Width - 1)

LEMMA WidthType == Width \in Nat /\ Width # 0 /\ Width - 1 \in Nat
BY VectorAssumption DEF Width

LEMMA Up ==
  ASSUME NEW mask \in SUBSET Lane, NEW carry, NEW i \in Lane
  PROVE  i \in Index!ShiftUp(mask, carry) <=> IF i = 0 THEN carry ELSE i - 1 \in mask
<1>1. Index!Lanes = Lane
  BY DEF Index!Lanes, Lane, Width
<1>2. i \in Index!ShiftUp(mask, carry)
        <=> i \in {j + 1 : j \in mask} \/ i \in Index!Bit(carry, 0)
  BY <1>1 DEF Index!ShiftUp
<1>3. i \in {j + 1 : j \in mask} <=> i # 0 /\ i - 1 \in mask
  BY WidthType DEF Lane
<1>4. i \in Index!Bit(carry, 0) <=> carry /\ i = 0
  BY DEF Index!Bit
<1> QED BY <1>2, <1>3, <1>4

LEMMA Down ==
  ASSUME NEW mask \in SUBSET Lane, NEW next, NEW i \in Lane
  PROVE  i \in Index!ShiftDown(mask, next) <=> IF i = Width - 1 THEN next ELSE i + 1 \in mask
<1>1. Index!Lanes = Lane /\ VectorBytes = Width
  BY DEF Index!Lanes, Lane, Width
<1>2. i \in Index!ShiftDown(mask, next)
        <=> i \in {j - 1 : j \in mask} \/ i \in Index!Bit(next, Width - 1)
  BY <1>1 DEF Index!ShiftDown
<1>3. i \in {j - 1 : j \in mask} <=> i # Width - 1 /\ i + 1 \in mask
  BY WidthType DEF Lane
<1>4. i \in Index!Bit(next, Width - 1) <=> next /\ i = Width - 1
  BY DEF Index!Bit
<1> QED BY <1>2, <1>3, <1>4

-----------------------------------------------------------------------------
(* What the masks of a vector v, with the lanes m in quotes, make of a     *)
(* lane.                                                                   *)
Dialect(c) ==
  /\ c.field_count \in Nat \ {0}
  /\ c.delimiter \notin P!Terminators(c) /\ c.quote \notin P!Terminators(c)
  /\ c.delimiter # c.quote
  /\ Masks!Pad \notin {c.delimiter, c.quote} \cup P!Terminators(c)

KindAt(c, v, m, i) ==
  IF i \in m THEN IF v[i] = c.quote THEN "open" ELSE "text"
  ELSE IF v[i] = c.delimiter THEN "delim"
  ELSE IF v[i] \in P!Terminators(c) THEN "term"
  ELSE IF v[i] = c.quote THEN "close"
  ELSE "text"

(* The kinds of the lanes, and of the first one of the next vector.        *)
KindsOf(c, v, m, w, o) ==
  [i \in 0..Width |-> IF i < Width THEN KindAt(c, v, m, i) ELSE KindAt(c, w, o, 0)]

DelimLanes(K) == {i \in Lane : K[i] = "delim"}
TermLanes(K) == {i \in Lane : K[i] = "term"}
QuoteLanes(K) == {i \in Lane : K[i] \in {"open", "close"}}

LEMMA LanesOfKinds ==
  ASSUME NEW c, Dialect(c), NEW v, NEW m, NEW w, NEW o
  PROVE  LET K == KindsOf(c, v, m, w, o)
             s == Index!MatchStructural(c, v)
             t == Index!MatchStructural(c, w)
         IN  /\ DelimLanes(K) = s.delim \ m /\ TermLanes(K) = s.term \ m
             /\ QuoteLanes(K) = s.quote /\ {i \in Lane : K[i] = "open"} = s.quote \cap m
             /\ 0 \in t.delim \ o <=> K[Width] = "delim"
             /\ 0 \in t.term \ o <=> K[Width] = "term"
             /\ \A i \in 0..Width : K[i] \in Kinds
<1> DEFINE K == KindsOf(c, v, m, w, o)
           s == Index!MatchStructural(c, v)
           t == Index!MatchStructural(c, w)
           terms(x) == {i \in Lane : x[i] \in P!Terminators(c)}
<1>1. Index!Lanes = Lane
  BY DEF Index!Lanes, Lane, Width
<1>2. ASSUME NEW x
      PROVE  UNION {Index!EqMask(x, b) : b \in Index!D!Terminators(c)} = terms(x)
  <2>1. Index!D!Terminators(c) = P!Terminators(c)
    BY DEF Index!D!Terminators, P!Terminators
  <2> QED BY <1>1, <2>1 DEF Index!EqMask
<1>3. ASSUME NEW x
      PROVE  Index!MatchStructural(c, x)
               = [delim |-> {i \in Lane : x[i] = c.delimiter}, term |-> terms(x),
                  quote |-> {i \in Lane : x[i] = c.quote}]
  BY <1>1, <1>2 DEF Index!MatchStructural, Index!EqMask
<1>4. /\ s.delim = {i \in Lane : v[i] = c.delimiter} /\ s.term = terms(v)
      /\ s.quote = {i \in Lane : v[i] = c.quote}
      /\ t.delim = {i \in Lane : w[i] = c.delimiter} /\ t.term = terms(w)
  BY <1>3
<1>5. \A i \in Lane : i \in 0..Width /\ K[i] = KindAt(c, v, m, i)
  BY WidthType DEF Lane, KindsOf
<1>6. K[Width] = KindAt(c, w, o, 0) /\ 0 \in Lane
  BY WidthType DEF KindsOf, Lane
<1>7. \A i \in 0..Width : i \in Lane \/ i = Width
  BY WidthType DEF Lane
<1> HIDE DEF K, s, t
<1>8. \A x, y, i : KindAt(c, x, y, i) \in Kinds
  BY DEF KindAt, Kinds
<1>9. DelimLanes(K) = s.delim \ m /\ TermLanes(K) = s.term \ m
  BY <1>4, <1>5 DEF KindAt, DelimLanes, TermLanes, Dialect
<1>10. QuoteLanes(K) = s.quote /\ {i \in Lane : K[i] = "open"} = s.quote \cap m
  BY <1>4, <1>5 DEF KindAt, QuoteLanes, Dialect
<1>11. 0 \in t.delim \ o <=> K[Width] = "delim"
  BY <1>4, <1>6 DEF KindAt, Dialect
<1>12. 0 \in t.term \ o <=> K[Width] = "term"
  BY <1>4, <1>6 DEF KindAt, Dialect
<1>13. \A i \in 0..Width : K[i] \in Kinds
  BY <1>5, <1>6, <1>7, <1>8
<1> QED BY <1>9, <1>10, <1>11, <1>12, <1>13 DEF K, s, t

(* The scanner's carries, as the state before the first lane; the states   *)
(* before the others.                                                      *)
StateOf(sc) ==
  IF sc.begins.d_struct THEN IF sc.prev_term THEN "terminated" ELSE "delimited"
  ELSE IF sc.begins.qb THEN "opened"
  ELSE IF sc.ends THEN "closed"
  ELSE IF sc.prev_term THEN "run"
  ELSE "field"

Carried(sc) ==
  /\ sc.begins.qb => ~sc.begins.d_struct /\ ~sc.ends /\ ~sc.prev_term
  /\ sc.ends => ~sc.begins.d_struct /\ ~sc.prev_term

BoundaryBefore(sc, K, i) ==
  IF i = 0 THEN sc.begins.d_struct ELSE Boundary(K[i - 1], K[i])
OpenedBefore(sc, K, i) ==
  IF i = 0 THEN sc.begins.qb
  ELSE K[i - 1] \in {"open", "close"} /\ BoundaryBefore(sc, K, i - 1)
ClosedBefore(sc, K, i) ==
  IF i = 0 THEN sc.ends ELSE K[i - 1] = "close" /\ K[i] \in {"delim", "term"}
TermBefore(sc, K, i) == IF i = 0 THEN sc.prev_term ELSE K[i - 1] = "term"

StateAt(sc, K, i) ==
  IF BoundaryBefore(sc, K, i) THEN IF TermBefore(sc, K, i) THEN "terminated" ELSE "delimited"
  ELSE IF OpenedBefore(sc, K, i) THEN "opened"
  ELSE IF ClosedBefore(sc, K, i) THEN "closed"
  ELSE IF TermBefore(sc, K, i) THEN "run"
  ELSE "field"

(* The kinds of the lanes can follow on each other and on the carries.     *)
Legible(sc, K) ==
  /\ \A i \in 0..Width : K[i] \in Kinds
  /\ \A i \in Lane : Paired(K[i], K[i + 1])
  /\ Carried(sc) /\ Fits(StateOf(sc), K[0])

LEMMA LaneNext ==
  ASSUME NEW i \in Lane
  PROVE  /\ i \in 0..Width /\ i + 1 \in 0..Width /\ i + 1 # 0 /\ (i + 1) - 1 = i
         /\ i # 0 => i - 1 \in Lane /\ (i - 1) + 1 = i
         /\ i # Width - 1 => i + 1 \in Lane
         /\ 0 \in Lane /\ i \in Nat
BY WidthType DEF Lane

LEMMA StatesFollow ==
  ASSUME NEW sc, NEW K, Legible(sc, K), NEW i \in Lane
  PROVE  /\ StateAt(sc, K, 0) = StateOf(sc)
         /\ StateAt(sc, K, i + 1) = After(StateAt(sc, K, i), K[i], K[i + 1])
<1>1. /\ i \in 0..Width /\ i + 1 \in 0..Width /\ i + 1 # 0 /\ (i + 1) - 1 = i
  BY LaneNext
<1>2. K[i] \in Kinds /\ K[i + 1] \in Kinds
  BY <1>1 DEF Legible
<1>3. StateAt(sc, K, i) \in Fresh <=> BoundaryBefore(sc, K, i)
  BY DEF StateAt, Fresh
<1> DEFINE here == BoundaryBefore(sc, K, i)
<1>4. /\ BoundaryBefore(sc, K, i + 1) <=> Boundary(K[i], K[i + 1])
      /\ OpenedBefore(sc, K, i + 1) <=> K[i] \in {"open", "close"} /\ here
      /\ ClosedBefore(sc, K, i + 1) <=> K[i] = "close" /\ K[i + 1] \in {"delim", "term"}
      /\ TermBefore(sc, K, i + 1) <=> K[i] = "term"
  BY <1>1 DEF BoundaryBefore, OpenedBefore, ClosedBefore, TermBefore
<1>5. StateAt(sc, K, i + 1)
        = IF Boundary(K[i], K[i + 1]) THEN IF K[i] = "term" THEN "terminated" ELSE "delimited"
          ELSE IF K[i] \in {"open", "close"} /\ here THEN "opened"
          ELSE IF K[i] = "close" /\ K[i + 1] \in {"delim", "term"} THEN "closed"
          ELSE IF K[i] = "term" THEN "run" ELSE "field"
  BY <1>4 DEF StateAt
<1> HIDE DEF here
<1>6. StateAt(sc, K, i) \in Fresh <=> here
  BY <1>3 DEF here
<1>7. StateAt(sc, K, i + 1) = After(StateAt(sc, K, i), K[i], K[i + 1])
  BY <1>2, <1>5, <1>6 DEF After, Boundary, Kinds
<1>8. StateAt(sc, K, 0) = StateOf(sc)
  BY DEF StateAt, StateOf, BoundaryBefore, OpenedBefore, ClosedBefore, TermBefore
<1> QED BY <1>7, <1>8

LEMMA FitsAt ==
  ASSUME NEW sc, NEW K, Legible(sc, K)
  PROVE  \A i \in 0..Width : Fits(StateAt(sc, K, i), K[i])
<1> DEFINE T == {i \in 0..Width : ~Fits(StateAt(sc, K, i), K[i])}
<1>1. ASSUME NEW x \in T, \A y \in T : x <= y  PROVE FALSE
  <2>1. x \in 0..Width /\ ~Fits(StateAt(sc, K, x), K[x]) /\ Width \in Nat /\ 0 \in Lane
    BY WidthType DEF Lane
  <2>2. CASE x = 0
    <3>1. StateAt(sc, K, 0) = StateOf(sc)
      BY <2>1, StatesFollow
    <3> QED BY <2>1, <2>2, <3>1 DEF Legible
  <2>3. CASE x # 0
    <3>1. x - 1 \in Lane /\ x - 1 \in 0..Width /\ ~(x <= x - 1) /\ (x - 1) + 1 = x
      BY <2>1, <2>3 DEF Lane
    <3>2. Fits(StateAt(sc, K, x - 1), K[x - 1])
      BY <1>1, <3>1
    <3>3. StateAt(sc, K, x) = After(StateAt(sc, K, x - 1), K[x - 1], K[x])
      BY <3>1, StatesFollow
    <3>4. Paired(K[x - 1], K[x]) /\ K[x] \in Kinds
      BY <2>1, <3>1 DEF Legible
    <3> QED BY <2>1, <3>2, <3>3, <3>4, FitsOn
  <2> QED BY <2>2, <2>3
<1>2. T = {}
  <2>1. T \in SUBSET Nat
    BY WidthType
  <2> HIDE DEF T
  <2> QED BY <1>1, <2>1, LeastElement
<1> QED BY <1>2

(* Never two carries at once.                                              *)
LEMMA CarriedAt ==
  ASSUME NEW sc, NEW K, Legible(sc, K), NEW i \in 0..Width
  PROVE  /\ OpenedBefore(sc, K, i) => /\ ~BoundaryBefore(sc, K, i)
                                      /\ ~ClosedBefore(sc, K, i) /\ ~TermBefore(sc, K, i)
         /\ ClosedBefore(sc, K, i) => ~BoundaryBefore(sc, K, i) /\ ~TermBefore(sc, K, i)
<1>1. CASE i = 0
  BY <1>1 DEF Legible, Carried, OpenedBefore, BoundaryBefore, ClosedBefore, TermBefore
<1>2. CASE i # 0
  <2>1. i - 1 \in 0..Width
    BY <1>2, WidthType
  <2>2. Fits(StateAt(sc, K, i - 1), K[i - 1])
    BY <2>1, FitsAt
  <2>3. BoundaryBefore(sc, K, i - 1) => K[i - 1] # "close"
    BY <2>2 DEF Fits, StateAt, Fresh
  <2> QED BY <1>2, <2>3 DEF OpenedBefore, BoundaryBefore, ClosedBefore, TermBefore, Boundary
<1> QED BY <1>1, <1>2

LEMMA LaneBegins ==
  ASSUME NEW sc, NEW K, Legible(sc, K), NEW i \in Lane
  PROVE  Begins(StateAt(sc, K, i), K[i])
           <=> \/ BoundaryBefore(sc, K, i) /\ i \notin QuoteLanes(K)
               \/ OpenedBefore(sc, K, i)
<1>1. OpenedBefore(sc, K, i) => ~BoundaryBefore(sc, K, i)
  BY LaneNext, CarriedAt
<1>2. i \in QuoteLanes(K) <=> K[i] \in {"open", "close"}
  BY DEF QuoteLanes
<1> QED BY <1>1, <1>2 DEF Begins, StateAt, Fresh

(* The last lane of a field: the end of its closing quote, or else the     *)
(* first byte of its delimiter.                                            *)
QuotedEnd(K, i) == K[i] = "close" /\ K[i + 1] \in {"delim", "term"}
PlainEnd(sc, K, i) == K[i] = "delim" \/ (K[i] = "term" /\ ~TermBefore(sc, K, i))

LEMMA LaneEnds ==
  ASSUME NEW sc, NEW K, Legible(sc, K), NEW i \in Lane
  PROVE  EndsField(StateAt(sc, K, i), K[i], K[i + 1])
           <=> (PlainEnd(sc, K, i) /\ ~ClosedBefore(sc, K, i)) \/ QuotedEnd(K, i)
<1>1. /\ OpenedBefore(sc, K, i) => /\ ~BoundaryBefore(sc, K, i)
                                   /\ ~ClosedBefore(sc, K, i) /\ ~TermBefore(sc, K, i)
      /\ ClosedBefore(sc, K, i) => ~BoundaryBefore(sc, K, i) /\ ~TermBefore(sc, K, i)
  BY LaneNext, CarriedAt
<1>2. StateAt(sc, K, i) = "closed" <=> ClosedBefore(sc, K, i)
  BY <1>1 DEF StateAt
<1>3. StateAt(sc, K, i) \in {"run", "terminated"} <=> TermBefore(sc, K, i)
  BY <1>1 DEF StateAt
<1> QED BY <1>2, <1>3 DEF EndsField, PlainEnd, QuotedEnd

(* What Resolve is given, and what it makes of it.                         *)
Shows(prev, next, K) ==
  /\ prev.structural.delim \ prev.m = DelimLanes(K)
  /\ prev.structural.term \ prev.m = TermLanes(K)
  /\ prev.structural.quote = QuoteLanes(K)
  /\ prev.structural.quote \cap prev.m = {i \in Lane : K[i] = "open"}
  /\ 0 \in next.delim <=> K[Width] = "delim"
  /\ 0 \in next.term <=> K[Width] = "term"

BeginLanes(sc, K) == {i \in Lane : Begins(StateAt(sc, K, i), K[i])}
EndLanes(sc, K) == {i \in Lane : EndsField(StateAt(sc, K, i), K[i], K[i + 1])}
BoundaryLanes(K) == {i \in Lane : Boundary(K[i], K[i + 1])}
RunEndLanes(K) == {i \in Lane : K[i] = "term" /\ K[i + 1] # "term"}
RunStartLanes(sc, K) == {i \in Lane : K[i] = "term" /\ ~TermBefore(sc, K, i)}

LEMMA RunLanes ==
  ASSUME NEW sc, NEW K, NEW prev, NEW next, Shows(prev, next, K)
  PROVE  /\ Index!TerminatorRunEnds(TermLanes(K), Index!Lsb(next.term)) = RunEndLanes(K)
         /\ Index!TerminatorRunStarts(TermLanes(K), sc.prev_term) = RunStartLanes(sc, K)
         /\ DelimLanes(K) \cup RunEndLanes(K) = BoundaryLanes(K)
<1>1. TermLanes(K) \in SUBSET Lane
  BY DEF TermLanes
<1>2. ASSUME NEW i \in Lane
      PROVE  i \in Index!TerminatorRunEnds(TermLanes(K), Index!Lsb(next.term))
               <=> i \in RunEndLanes(K)
  <2>1. i \in Index!ShiftDown(TermLanes(K), Index!Lsb(next.term))
          <=> IF i = Width - 1 THEN Index!Lsb(next.term) ELSE i + 1 \in TermLanes(K)
    BY <1>1, Down
  <2>2. i = Width - 1 => i + 1 = Width
    BY WidthType
  <2>3. i # Width - 1 => i + 1 \in Lane
    BY LaneNext
  <2> QED BY <2>1, <2>2, <2>3
          DEF Index!TerminatorRunEnds, Index!Lsb, TermLanes, RunEndLanes, Shows
<1>3. ASSUME NEW i \in Lane
      PROVE  i \in Index!TerminatorRunStarts(TermLanes(K), sc.prev_term)
               <=> i \in RunStartLanes(sc, K)
  <2>1. i \in Index!ShiftUp(TermLanes(K), sc.prev_term)
          <=> IF i = 0 THEN sc.prev_term ELSE i - 1 \in TermLanes(K)
    BY <1>1, Up
  <2>2. i # 0 => i - 1 \in Lane
    BY LaneNext
  <2> QED BY <2>1, <2>2 DEF Index!TerminatorRunStarts, TermLanes, RunStartLanes, TermBefore
<1>4. /\ Index!TerminatorRunEnds(TermLanes(K), Index!Lsb(next.term)) \in SUBSET Lane
      /\ Index!TerminatorRunStarts(TermLanes(K), sc.prev_term) \in SUBSET Lane
      /\ RunEndLanes(K) \in SUBSET Lane /\ RunStartLanes(sc, K) \in SUBSET Lane
  BY <1>1 DEF Index!TerminatorRunEnds, Index!TerminatorRunStarts, RunEndLanes, RunStartLanes
<1>5. DelimLanes(K) \cup RunEndLanes(K) = BoundaryLanes(K)
  BY DEF DelimLanes, RunEndLanes, BoundaryLanes, Boundary
<1> QED BY <1>2, <1>3, <1>4, <1>5

LEMMA BeginMask ==
  ASSUME NEW sc, NEW K, Legible(sc, K)
  PROVE  LET begins == Index!FieldBegins(BoundaryLanes(K), QuoteLanes(K), sc.begins)
         IN  /\ begins.mask = BeginLanes(sc, K)
             /\ begins.carry.d_struct <=> BoundaryBefore(sc, K, Width)
             /\ begins.carry.qb <=> OpenedBefore(sc, K, Width)
<1> DEFINE d == BoundaryLanes(K)
           quote == QuoteLanes(K)
           b_init == Index!ShiftUp(d, sc.begins.d_struct)
           qb == b_init \cap quote
           up == Index!ShiftUp(qb, sc.begins.qb)
           begins == Index!FieldBegins(d, quote, sc.begins)
<1>1. /\ begins.mask = (b_init \ qb) \cup up
      /\ begins.carry.d_struct = Index!Msb(d) /\ begins.carry.qb = Index!Msb(qb)
  BY DEF Index!FieldBegins
<1>2. d \in SUBSET Lane /\ quote \in SUBSET Lane /\ qb \in SUBSET Lane
  BY DEF BoundaryLanes, QuoteLanes
<1>3. ASSUME NEW i \in Lane  PROVE i \in b_init <=> BoundaryBefore(sc, K, i)
  <2>1. i \in b_init <=> IF i = 0 THEN sc.begins.d_struct ELSE i - 1 \in d
    BY <1>2, Up
  <2>2. i # 0 => i - 1 \in Lane /\ (i - 1) + 1 = i
    BY LaneNext
  <2> QED BY <2>1, <2>2 DEF BoundaryBefore, BoundaryLanes
<1>4. ASSUME NEW i \in Lane
      PROVE  i \in qb <=> K[i] \in {"open", "close"} /\ BoundaryBefore(sc, K, i)
  BY <1>3 DEF QuoteLanes
<1>5. ASSUME NEW i \in Lane  PROVE i \in up <=> OpenedBefore(sc, K, i)
  <2>1. i \in up <=> IF i = 0 THEN sc.begins.qb ELSE i - 1 \in qb
    BY <1>2, Up
  <2>2. i # 0 => i - 1 \in Lane
    BY LaneNext
  <2> HIDE DEF qb, up
  <2> QED BY <1>4, <2>1, <2>2 DEF OpenedBefore
<1>6. b_init \in SUBSET Lane /\ up \in SUBSET Lane
  <2>1. Index!Lanes = Lane /\ 0 \in Lane
    BY WidthType DEF Index!Lanes, Lane, Width
  <2> QED BY <2>1 DEF Index!ShiftUp, Index!Bit
<1>7. begins.mask = BeginLanes(sc, K)
  <2> HIDE DEF b_init, up, begins
  <2>1. ASSUME NEW i \in Lane  PROVE i \in begins.mask <=> i \in BeginLanes(sc, K)
    <3>1. i \in begins.mask <=> (BoundaryBefore(sc, K, i) /\ i \notin quote) \/ OpenedBefore(sc, K, i)
      BY <1>1, <1>3, <1>5
    <3> QED BY <3>1, LaneBegins DEF BeginLanes
  <2>2. begins.mask \in SUBSET Lane /\ BeginLanes(sc, K) \in SUBSET Lane
    BY <1>1, <1>6 DEF BeginLanes
  <2> QED BY <2>1, <2>2
<1>8. Width - 1 \in Lane /\ (Width - 1) + 1 = Width /\ Width # 0 /\ VectorBytes = Width
  BY WidthType DEF Lane, Width
<1>9. begins.carry.d_struct <=> BoundaryBefore(sc, K, Width)
  BY <1>1, <1>8 DEF Index!Msb, BoundaryBefore, BoundaryLanes
<1>10. begins.carry.qb <=> OpenedBefore(sc, K, Width)
  <2> HIDE DEF qb, begins
  <2> QED BY <1>1, <1>4, <1>8 DEF Index!Msb, OpenedBefore
<1> QED BY <1>7, <1>9, <1>10

NextBoundary(next, K) ==
  Index!Lsb(next.delim) \/ (Index!Lsb(next.term) /\ ~Index!Msb(TermLanes(K)))

LEMMA EndMask ==
  ASSUME NEW sc, NEW K, Legible(sc, K), NEW prev, NEW next, Shows(prev, next, K)
  PROVE  LET d == DelimLanes(K) \cup RunStartLanes(sc, K)
             ends == Index!FieldEnds(d, prev.structural.quote, prev.m, NextBoundary(next, K), sc.ends)
         IN  /\ ends.mask = EndLanes(sc, K)
             /\ ends.carry <=> ClosedBefore(sc, K, Width)
<1> DEFINE d == DelimLanes(K) \cup RunStartLanes(sc, K)
           quote == prev.structural.quote
           m == prev.m
           nd == NextBoundary(next, K)
           down == Index!ShiftDown(d, nd)
           qe == (quote \ m) \cap down
           up == Index!ShiftUp(qe, sc.ends)
           ends == Index!FieldEnds(d, quote, m, nd, sc.ends)
<1>1. ends.mask = (d \ up) \cup qe /\ ends.carry = Index!Msb(qe)
  BY DEF Index!FieldEnds
<1>2. d \in SUBSET Lane /\ qe \in SUBSET Lane
  BY DEF DelimLanes, RunStartLanes, Shows, QuoteLanes
<1>3. Width - 1 \in Lane /\ (Width - 1) + 1 = Width /\ Width # 0 /\ VectorBytes = Width
  BY WidthType DEF Lane, Width
<1>4. \A i \in Lane : i \in d <=> PlainEnd(sc, K, i)
  BY DEF DelimLanes, RunStartLanes, PlainEnd
<1>5. ASSUME NEW i \in Lane
      PROVE  i \in quote \ m <=> K[i] = "close"
  <2>1. i \in quote <=> K[i] \in {"open", "close"}
    BY DEF Shows, QuoteLanes
  <2>2. i \in quote \cap m <=> K[i] = "open"
    BY DEF Shows
  <2> QED BY <2>1, <2>2
<1>6. ASSUME NEW i \in Lane, K[i] = "close"
      PROVE  i \in down <=> K[i + 1] \in {"delim", "term"}
  <2>1. i \in down <=> IF i = Width - 1 THEN nd ELSE i + 1 \in d
    BY <1>2, Down
  <2>2. CASE i = Width - 1
    <3>1. i + 1 = Width /\ Index!Msb(TermLanes(K)) <=> FALSE
      BY <1>3, <1>6, <2>2 DEF Index!Msb, TermLanes
    <3>2. nd <=> K[Width] \in {"delim", "term"}
      BY <1>3, <2>2, <1>6 DEF NextBoundary, Index!Lsb, Shows, Index!Msb, TermLanes
    <3> HIDE DEF nd, down
    <3>3. i + 1 = Width
      BY <1>3, <2>2
    <3> QED BY <2>1, <2>2, <3>2, <3>3
  <2>3. CASE i # Width - 1
    <3>1. i + 1 \in Lane /\ (i + 1) - 1 = i /\ i + 1 # 0
      BY <2>3, LaneNext
    <3>2. PlainEnd(sc, K, i + 1) <=> K[i + 1] \in {"delim", "term"}
      BY <1>6, <3>1 DEF PlainEnd, TermBefore
    <3>3. i \in down <=> i + 1 \in d
      BY <2>1, <2>3
    <3> HIDE DEF d, down
    <3> QED BY <1>4, <3>1, <3>2, <3>3
  <2> QED BY <2>2, <2>3
<1>7. ASSUME NEW i \in Lane  PROVE i \in qe <=> QuotedEnd(K, i)
  <2> HIDE DEF quote, m, down
  <2> QED BY <1>5, <1>6 DEF QuotedEnd
<1>8. ASSUME NEW i \in Lane  PROVE i \in up <=> ClosedBefore(sc, K, i)
  <2>1. i \in up <=> IF i = 0 THEN sc.ends ELSE i - 1 \in qe
    BY <1>2, Up
  <2>2. i # 0 => i - 1 \in Lane /\ (i - 1) + 1 = i
    BY LaneNext
  <2> HIDE DEF qe, up
  <2> QED BY <1>7, <2>1, <2>2 DEF ClosedBefore, QuotedEnd
<1>9. ends.mask = EndLanes(sc, K)
  <2> HIDE DEF d, qe, up, ends
  <2>1. ASSUME NEW i \in Lane  PROVE i \in ends.mask <=> i \in EndLanes(sc, K)
    <3>1. i \in ends.mask <=> (PlainEnd(sc, K, i) /\ ~ClosedBefore(sc, K, i)) \/ QuotedEnd(K, i)
      BY <1>1, <1>4, <1>7, <1>8
    <3> QED BY <3>1, LaneEnds DEF EndLanes
  <2>2. ends.mask \in SUBSET Lane /\ EndLanes(sc, K) \in SUBSET Lane
    BY <1>1, <1>2 DEF EndLanes
  <2> QED BY <2>1, <2>2
<1>10. ends.carry <=> ClosedBefore(sc, K, Width)
  <2> HIDE DEF qe, ends
  <2> QED BY <1>1, <1>3, <1>7 DEF Index!Msb, ClosedBefore, QuotedEnd
<1> QED BY <1>9, <1>10

(* What a vector and the carries before it come to.                        *)
Resolved(sc, K, res) ==
  /\ res.out.b = BeginLanes(sc, K) /\ res.out.e = EndLanes(sc, K)
  /\ res.out.d_struct = BoundaryLanes(K) /\ res.out.term = RunEndLanes(K)
  /\ res.out.r \in SUBSET QuoteLanes(K)
  /\ res.scanner.begins.d_struct <=> BoundaryBefore(sc, K, Width)
  /\ res.scanner.begins.qb <=> OpenedBefore(sc, K, Width)
  /\ res.scanner.ends <=> ClosedBefore(sc, K, Width)
  /\ res.scanner.prev_term <=> TermBefore(sc, K, Width)

ScannerShape(sc) ==
  sc = [in_quotes |-> sc.in_quotes, begins |-> sc.begins, ends |-> sc.ends,
        prev_term |-> sc.prev_term, pending |-> sc.pending]

LEMMA QuotedResolves ==
  ASSUME NEW c, NEW sc, ScannerShape(sc), NEW K, Legible(sc, K),
         NEW prev, NEW next, Shows(prev, next, K)
  PROVE  LET res == Index!ResolveQuoted(c, sc, prev, next)
         IN  Resolved(sc, K, res) /\ ScannerShape(res.scanner) /\ res.out # Index!NoVector
<1> DEFINE res == Index!ResolveQuoted(c, sc, prev, next)
           quote == prev.structural.quote
           begins == Index!FieldBegins(BoundaryLanes(K), QuoteLanes(K), sc.begins)
           ends == Index!FieldEnds(DelimLanes(K) \cup RunStartLanes(sc, K), quote, prev.m,
                                   NextBoundary(next, K), sc.ends)
           next_b == next.any /\ Index!DeriveBLsb(begins.carry, Index!Lsb(next.quote))
           r == Index!CharsToRemove(quote, prev.m, begins.mask, ends.mask, next_b,
                                    Index!Lsb(next.quote), Index!D!DoubledQuotes(c))
<1>1. /\ Index!TerminatorRunEnds(TermLanes(K), Index!Lsb(next.term)) = RunEndLanes(K)
      /\ Index!TerminatorRunStarts(TermLanes(K), sc.prev_term) = RunStartLanes(sc, K)
      /\ DelimLanes(K) \cup RunEndLanes(K) = BoundaryLanes(K)
  BY RunLanes
<1>2. /\ prev.structural.delim \ prev.m = DelimLanes(K)
      /\ prev.structural.term \ prev.m = TermLanes(K) /\ quote = QuoteLanes(K)
  BY DEF Shows
<1>3. NextBoundary(next, K)
        = (Index!Lsb(next.delim) \/ (Index!Lsb(next.term) /\ ~Index!Msb(TermLanes(K))))
  BY DEF NextBoundary
<1>4. /\ res.out = Index!Output(begins.mask, ends.mask, r, BoundaryLanes(K), RunEndLanes(K))
      /\ res.scanner = [sc EXCEPT !.begins = begins.carry, !.ends = ends.carry,
                                  !.prev_term = Index!Msb(TermLanes(K))]
  BY <1>1, <1>2, <1>3 DEF Index!ResolveQuoted
<1>5. r \in SUBSET QuoteLanes(K)
  BY <1>2 DEF Index!CharsToRemove
<1>6. /\ begins.mask = BeginLanes(sc, K)
      /\ begins.carry.d_struct <=> BoundaryBefore(sc, K, Width)
      /\ begins.carry.qb <=> OpenedBefore(sc, K, Width)
  BY BeginMask
<1>7. ends.mask = EndLanes(sc, K) /\ (ends.carry <=> ClosedBefore(sc, K, Width))
  BY EndMask
<1>8. Index!Msb(TermLanes(K)) <=> TermBefore(sc, K, Width)
  BY WidthType DEF Index!Msb, TermLanes, TermBefore, Lane, Width
<1> HIDE DEF res, begins, ends, r
<1>9. /\ res.out.b = begins.mask /\ res.out.e = ends.mask /\ res.out.r = r
      /\ res.out.d_struct = BoundaryLanes(K) /\ res.out.term = RunEndLanes(K)
  BY <1>4 DEF Index!Output
<1>10. /\ res.scanner.begins = begins.carry /\ res.scanner.ends = ends.carry
       /\ res.scanner.prev_term = Index!Msb(TermLanes(K))
       /\ ScannerShape(res.scanner)
  BY <1>4 DEF ScannerShape
<1>11. res.out # Index!NoVector
  BY <1>4 DEF Index!Output, Index!NoVector
<1>12. Resolved(sc, K, res)
  BY <1>5, <1>6, <1>7, <1>8, <1>9, <1>10 DEF Resolved
<1> QED BY <1>10, <1>11, <1>12 DEF res

LEMMA UnquotedResolves ==
  ASSUME NEW sc, ScannerShape(sc), NEW K, Legible(sc, K),
         NEW prev, NEW next, Shows(prev, next, K),
         prev.structural.quote = {}, prev.m = {}
  PROVE  LET res == Index!ResolveUnquoted(sc, prev, next)
         IN  Resolved(sc, K, res) /\ ScannerShape(res.scanner) /\ res.out # Index!NoVector
<1> DEFINE res == Index!ResolveUnquoted(sc, prev, next)
           d == BoundaryLanes(K)
           plain == DelimLanes(K) \cup RunStartLanes(sc, K)
           b == Index!ShiftUp(d, sc.begins.d_struct) \cup Index!Bit(sc.begins.qb, 0)
           e == plain \ Index!Bit(sc.ends, 0)
<1>1. /\ Index!TerminatorRunEnds(TermLanes(K), Index!Lsb(next.term)) = RunEndLanes(K)
      /\ Index!TerminatorRunStarts(TermLanes(K), sc.prev_term) = RunStartLanes(sc, K)
      /\ DelimLanes(K) \cup RunEndLanes(K) = d
  BY RunLanes
<1>2. /\ prev.structural.delim = DelimLanes(K) /\ prev.structural.term = TermLanes(K)
      /\ QuoteLanes(K) = {}
  BY DEF Shows
<1>3. /\ res.out = Index!Output(b, e, {}, d, RunEndLanes(K))
      /\ res.scanner = [sc EXCEPT !.begins = [d_struct |-> Index!Msb(d), qb |-> FALSE],
                                  !.ends = FALSE, !.prev_term = Index!Msb(TermLanes(K))]
  BY <1>1, <1>2 DEF Index!ResolveUnquoted
<1>4. \A i \in Lane : K[i] \notin {"open", "close"} /\ i \notin QuoteLanes(K)
  BY <1>2 DEF QuoteLanes
<1>5. Width - 1 \in Lane /\ (Width - 1) + 1 = Width /\ Width # 0 /\ VectorBytes = Width
      /\ 0 \in Lane
  BY WidthType DEF Lane, Width
<1>6. \A i \in Lane : i # 0 => ~OpenedBefore(sc, K, i) /\ ~ClosedBefore(sc, K, i)
  BY <1>4, LaneNext DEF OpenedBefore, ClosedBefore
<1>7. d \in SUBSET Lane /\ plain \in SUBSET Lane
  BY DEF BoundaryLanes, DelimLanes, RunStartLanes
<1>8. ASSUME NEW i \in Lane  PROVE i \in b <=> i \in BeginLanes(sc, K)
  <2>1. i \in Index!ShiftUp(d, sc.begins.d_struct)
          <=> IF i = 0 THEN sc.begins.d_struct ELSE i - 1 \in d
    BY <1>7, Up
  <2>2. i # 0 => i - 1 \in Lane /\ (i - 1) + 1 = i
    BY LaneNext
  <2>3. i \in Index!ShiftUp(d, sc.begins.d_struct) <=> BoundaryBefore(sc, K, i)
    BY <2>1, <2>2 DEF BoundaryBefore, BoundaryLanes
  <2>4. i \in Index!Bit(sc.begins.qb, 0) <=> OpenedBefore(sc, K, i)
    BY <1>6 DEF Index!Bit, OpenedBefore
  <2>5. i \in BeginLanes(sc, K) <=> BoundaryBefore(sc, K, i) \/ OpenedBefore(sc, K, i)
    BY <1>4, LaneBegins DEF BeginLanes
  <2> QED BY <2>3, <2>4, <2>5
<1>9. ASSUME NEW i \in Lane  PROVE i \in e <=> i \in EndLanes(sc, K)
  <2>1. i \in Index!Bit(sc.ends, 0) <=> ClosedBefore(sc, K, i)
    BY <1>6 DEF Index!Bit, ClosedBefore
  <2>2. i \in plain <=> PlainEnd(sc, K, i)
    BY DEF DelimLanes, RunStartLanes, PlainEnd
  <2>3. ~QuotedEnd(K, i)
    BY <1>4 DEF QuotedEnd
  <2>4. i \in EndLanes(sc, K) <=> PlainEnd(sc, K, i) /\ ~ClosedBefore(sc, K, i)
    BY <2>3, LaneEnds DEF EndLanes
  <2> QED BY <2>1, <2>2, <2>4
<1>10. b \in SUBSET Lane /\ e \in SUBSET Lane
  <2>1. Index!Lanes = Lane
    BY DEF Index!Lanes, Lane, Width
  <2> QED BY <1>5, <1>7, <2>1 DEF Index!ShiftUp, Index!Bit
<1>11. b = BeginLanes(sc, K) /\ e = EndLanes(sc, K)
  BY <1>8, <1>9, <1>10 DEF BeginLanes, EndLanes
<1>12. Index!Msb(TermLanes(K)) <=> TermBefore(sc, K, Width)
  BY <1>5 DEF Index!Msb, TermLanes, TermBefore
<1>13. Index!Msb(d) <=> BoundaryBefore(sc, K, Width)
  BY <1>5 DEF Index!Msb, BoundaryLanes, BoundaryBefore
<1>14. ~OpenedBefore(sc, K, Width) /\ ~ClosedBefore(sc, K, Width)
  BY <1>4, <1>5 DEF OpenedBefore, ClosedBefore
<1> HIDE DEF res, b, e
<1>15. /\ res.out.b = b /\ res.out.e = e /\ res.out.r = {}
       /\ res.out.d_struct = d /\ res.out.term = RunEndLanes(K)
  BY <1>3 DEF Index!Output
<1>16. /\ res.scanner.begins.d_struct = Index!Msb(d) /\ res.scanner.begins.qb = FALSE
       /\ res.scanner.ends = FALSE /\ res.scanner.prev_term = Index!Msb(TermLanes(K))
       /\ ScannerShape(res.scanner)
  <2> DEFINE carry == [d_struct |-> Index!Msb(d), qb |-> FALSE]
             last == Index!Msb(TermLanes(K))
  <2>1. res.scanner = [sc EXCEPT !.begins = carry, !.ends = FALSE, !.prev_term = last]
    BY <1>3
  <2>2. carry.d_struct = Index!Msb(d) /\ carry.qb = FALSE
    OBVIOUS
  <2> HIDE DEF carry, last, d
  <2>3. /\ res.scanner.begins = carry /\ res.scanner.ends = FALSE
        /\ res.scanner.prev_term = last
    BY <2>1 DEF ScannerShape
  <2>4. ScannerShape(res.scanner)
    BY <2>1 DEF ScannerShape
  <2> QED BY <2>2, <2>3, <2>4 DEF last, d
<1>17. res.out # Index!NoVector
  BY <1>3 DEF Index!Output, Index!NoVector
<1>18. Resolved(sc, K, res)
  BY <1>11, <1>12, <1>13, <1>14, <1>15, <1>16 DEF Resolved
<1> QED BY <1>16, <1>17, <1>18 DEF res

LEMMA Resolves ==
  ASSUME NEW c, NEW sc, ScannerShape(sc), NEW K, Legible(sc, K),
         NEW prev, NEW next, Shows(prev, next, K)
  PROVE  LET res == Index!Resolve(c, sc, prev, next)
         IN  Resolved(sc, K, res) /\ ScannerShape(res.scanner) /\ res.out # Index!NoVector
<1>1. CASE prev.structural.quote = {} /\ prev.m = {}
  <2>1. Index!Resolve(c, sc, prev, next) = Index!ResolveUnquoted(sc, prev, next)
    BY <1>1 DEF Index!Resolve
  <2> QED BY <1>1, <2>1, UnquotedResolves
<1>2. CASE ~(prev.structural.quote = {} /\ prev.m = {})
  <2>1. Index!Resolve(c, sc, prev, next) = Index!ResolveQuoted(c, sc, prev, next)
    BY <1>2 DEF Index!Resolve
  <2> QED BY <2>1, QuotedResolves
<1> QED BY <1>1, <1>2

LEMMA ResolvedState ==
  ASSUME NEW sc, NEW K, Legible(sc, K), NEW res, Resolved(sc, K, res)
  PROVE  StateOf(res.scanner) = StateAt(sc, K, Width) /\ Carried(res.scanner)
<1>1. Width \in 0..Width
  BY WidthType
<1> QED BY <1>1, CarriedAt DEF Resolved, StateOf, StateAt, Carried

-----------------------------------------------------------------------------
(* Quotes, from one lane to the next: what is outside of them stays        *)
(* outside up to the next quote, and no further.                           *)
PairedQuotes(quote, m) ==
  \A i \in Lane : i # 0 /\ i - 1 \notin m => (i \in m <=> i \in quote)

LEMMA QuotesBefore ==
  ASSUME NEW q \in SUBSET Lane, NEW i \in Lane
  PROVE  /\ Cardinality({j \in q : j <= i}) \in Nat
         /\ i = 0 => Cardinality({j \in q : j <= i}) = IF i \in q THEN 1 ELSE 0
         /\ i # 0 => Cardinality({j \in q : j <= i})
                       = Cardinality({j \in q : j <= i - 1}) + IF i \in q THEN 1 ELSE 0
<1> DEFINE A == {j \in q : j <= i}
           B == {j \in q : j <= i - 1}
<1>1. IsFiniteSet(Lane)
  BY WidthType, FS_Interval DEF Lane
<1>2. IsFiniteSet(A) /\ IsFiniteSet(B)
  BY <1>1, FS_Subset
<1>3. i \in Nat /\ \A j \in q : j \in Nat
  BY WidthType DEF Lane
<1>4. A = IF i \in q THEN B \cup {i} ELSE B
  <2>1. \A j \in q : j <= i <=> j <= i - 1 \/ j = i
    BY <1>3
  <2> QED BY <2>1
<1>5. i \notin B
  BY <1>3
<1>6. i = 0 => B = {}
  <2>1. i = 0 => \A j \in q : ~(j <= i - 1)
    BY <1>3
  <2> QED BY <2>1
<1> HIDE DEF A, B
<1>7. Cardinality(A) = Cardinality(B) + IF i \in q THEN 1 ELSE 0
  <2>1. Cardinality(B) \in Nat
    BY <1>2, FS_CardinalityType
  <2>2. Cardinality(B \cup {i}) = Cardinality(B) + 1
    BY <1>2, <1>5, FS_AddElement
  <2> QED BY <1>4, <2>1, <2>2
<1>8. Cardinality(A) \in Nat /\ Cardinality(B) \in Nat
  BY <1>2, FS_CardinalityType
<1>9. i = 0 => Cardinality(B) = 0
  BY <1>6, FS_EmptySet
<1> QED BY <1>7, <1>8, <1>9 DEF A, B

LEMMA SameCardinality ==
  ASSUME NEW S
  PROVE  Index!Cardinality(S) = Cardinality(S)
BY DEF Index!Cardinality, Cardinality

LEMMA InQuotesPairs ==
  ASSUME NEW quote \in SUBSET Lane, NEW carry
  PROVE  LET m == Index!InQuotes(quote, carry)
         IN  /\ m \in SUBSET Lane /\ PairedQuotes(quote, m)
             /\ ~carry => (0 \in m <=> 0 \in quote)
<1> DEFINE count(i) == Cardinality({j \in quote : j <= i})
           x == Index!XorPrefixSum(quote)
           m == Index!InQuotes(quote, carry)
<1>1. Index!Lanes = Lane
  BY DEF Index!Lanes, Lane, Width
<1>2. x \in SUBSET Lane /\ \A i \in Lane : i \in x <=> count(i) % 2 = 1
  <2>1. x = {i \in Index!Lanes : Cardinality({j \in quote : j <= i}) % 2 = 1}
    BY SameCardinality DEF Index!XorPrefixSum, Index!XorPrefixSumOf
  <2>2. x = {i \in Lane : count(i) % 2 = 1}
    BY <1>1, <2>1
  <2> HIDE DEF x, count
  <2> QED BY <2>2
<1>3. \A i \in Lane : /\ count(i) \in Nat
                      /\ i = 0 => count(i) = IF i \in quote THEN 1 ELSE 0
                      /\ i # 0 => count(i) = count(i - 1) + IF i \in quote THEN 1 ELSE 0
  BY QuotesBefore
<1>4. m = IF carry THEN Lane \ x ELSE x
  BY <1>1 DEF Index!InQuotes
<1> HIDE DEF count, x, m
<1>5. ASSUME NEW i \in Lane, i # 0
      PROVE  i \in x <=> (IF i \in quote THEN i - 1 \notin x ELSE i - 1 \in x)
  <2>1. i - 1 \in Lane
    BY <1>5, LaneNext
  <2>2. count(i) \in Nat /\ count(i - 1) \in Nat
    BY <1>3, <2>1
  <2>3. count(i) = count(i - 1) + IF i \in quote THEN 1 ELSE 0
    BY <1>3, <1>5
  <2>4. (i \in x <=> count(i) % 2 = 1) /\ (i - 1 \in x <=> count(i - 1) % 2 = 1)
    BY <1>2, <2>1
  <2>5. \A k \in Nat : (k + 1) % 2 = 1 <=> ~(k % 2 = 1)
    OBVIOUS
  <2> QED BY <2>2, <2>3, <2>4, <2>5
<1>6. PairedQuotes(quote, m)
  <2>1. \A i \in Lane : i # 0 => i - 1 \in Lane
    BY LaneNext
  <2> QED BY <1>4, <1>5, <2>1 DEF PairedQuotes
<1>7. 0 \in Lane /\ (0 \in x <=> 0 \in quote)
  <2>1. 0 \in Lane
    BY WidthType DEF Lane
  <2>2. 1 % 2 = 1 /\ ~(0 % 2 = 1)
    OBVIOUS
  <2> QED BY <1>2, <1>3, <2>1, <2>2
<1> QED BY <1>2, <1>4, <1>6, <1>7 DEF m

-----------------------------------------------------------------------------
(* The offsets of the lanes in a mask, put behind others one lane at a     *)
(* time.                                                                   *)
OffsetRunOf(f, mask, base, k) ==
  f = [n \in 0..k |->
         IF n = 0 THEN <<>>
         ELSE IF n - 1 \in mask THEN Append(f[n - 1], base + n - 1) ELSE f[n - 1]]

LEMMA OffsetRunExists ==
  ASSUME NEW mask, NEW base, NEW n \in Nat
  PROVE  \E f : OffsetRunOf(f, mask, base, n)
<1> DEFINE Runs(k) == \E f : OffsetRunOf(f, mask, base, k)
           T == {k \in Nat : ~Runs(k)}
           Next1(p, i) == IF i - 1 \in mask THEN Append(p, base + i - 1) ELSE p
<1>1. \A f, k : OffsetRunOf(f, mask, base, k)
                <=> f = [i \in 0..k |-> IF i = 0 THEN <<>> ELSE Next1(f[i - 1], i)]
  BY Zenon DEF OffsetRunOf
<1> HIDE DEF Next1
<1>2. ASSUME NEW x \in T, \A y \in T : x <= y  PROVE FALSE
  <2>1. x \in Nat /\ ~Runs(x)
    BY <1>2
  <2>2. CASE x = 0
    <3> DEFINE f == [i \in 0..0 |-> <<>>]
    <3>1. f = [i \in 0..0 |-> IF i = 0 THEN <<>> ELSE Next1(f[i - 1], i)]
      OBVIOUS
    <3> HIDE DEF f
    <3> QED BY <1>1, <2>1, <2>2, <3>1
  <2>3. CASE x # 0
    <3>1. x - 1 \in Nat /\ x - 1 \notin T
      BY <1>2, <2>1, <2>3
    <3>2. Runs(x - 1)
      BY <3>1
    <3>3. PICK f : f = [i \in 0..(x - 1) |-> IF i = 0 THEN <<>> ELSE Next1(f[i - 1], i)]
      BY <1>1, <3>2
    <3> DEFINE g == [i \in 0..x |-> IF i = x THEN Next1(f[i - 1], i) ELSE f[i]]
               h == [i \in 0..x |-> IF i = 0 THEN <<>> ELSE Next1(g[i - 1], i)]
    <3>4. ASSUME NEW i \in 0..x  PROVE g[i] = h[i]
      <4>1. i # 0 => i - 1 \in 0..(x - 1) /\ i - 1 \in 0..x /\ i - 1 # x
        BY <2>1
      <4>2. i # 0 => g[i - 1] = f[i - 1]
        BY <4>1
      <4>3. i # x => i \in 0..(x - 1)
        BY <2>1
      <4>4. i # x => f[i] = IF i = 0 THEN <<>> ELSE Next1(f[i - 1], i)
        BY <3>3, <4>3
      <4> QED BY <2>3, <4>2, <4>4
    <3>5. g = h
      BY <3>4
    <3> HIDE DEF g
    <3> QED BY <1>1, <2>1, <3>5
  <2> QED BY <2>2, <2>3
<1>3. T = {}
  <2>1. T \in SUBSET Nat
    OBVIOUS
  <2> HIDE DEF T
  <2> QED BY <1>2, <2>1, LeastElement
<1> QED BY <1>3

LEMMA OffsetsRun ==
  ASSUME NEW mask, NEW base \in Int
  PROVE  \E f : /\ f[0] = <<>> /\ f[Width] = Index!Offsets(mask, base)
                /\ Cursor!Offsets(mask, base) = Index!Offsets(mask, base)
                /\ \A i \in Lane :
                     f[i + 1] = IF i \in mask THEN Append(f[i], base + i) ELSE f[i]
<1> DEFINE f == CHOOSE g : OffsetRunOf(g, mask, base, VectorBytes)
<1>1. OffsetRunOf(f, mask, base, VectorBytes)
  BY OffsetRunExists, VectorAssumption, Zenon
<1>2. Index!Offsets(mask, base) = f[VectorBytes]
  BY Zenon DEF OffsetRunOf, Index!Offsets
<1>3. Cursor!Offsets(mask, base) = f[VectorBytes]
  BY Zenon DEF OffsetRunOf, Cursor!Offsets
<1> HIDE DEF f
<1>4. \A n \in 0..VectorBytes :
        f[n] = IF n = 0 THEN <<>>
               ELSE IF n - 1 \in mask THEN Append(f[n - 1], base + n - 1) ELSE f[n - 1]
  BY <1>1, Zenon DEF OffsetRunOf
<1>5. ASSUME NEW i \in Lane
      PROVE  f[i + 1] = IF i \in mask THEN Append(f[i], base + i) ELSE f[i]
  <2>1. i + 1 \in 0..VectorBytes /\ i + 1 # 0 /\ (i + 1) - 1 = i /\ base + (i + 1) - 1 = base + i
    BY LaneNext DEF Width, Lane
  <2> QED BY <1>4, <2>1
<1>6. 0 \in 0..VectorBytes /\ Width = VectorBytes
  BY VectorAssumption DEF Width
<1> QED BY <1>2, <1>3, <1>4, <1>5, <1>6

GrowsBy(F, o, mask, base) ==
  /\ F[0] = o
  /\ \A i \in 0..Width : F[i] \in Seq(Nat)
  /\ \A i \in Lane : F[i + 1] = IF i \in mask THEN Append(F[i], base + i) ELSE F[i]

LEMMA ConcatAppended ==
  ASSUME NEW S, NEW s \in Seq(S), NEW t \in Seq(S), NEW x \in S
  PROVE  s \o Append(t, x) = Append(s \o t, x)
<1>1. <<x>> \in Seq(S) /\ s \o t \in Seq(S)
  BY ConcatProperties
<1>2. s \o (t \o <<x>>) = (s \o t) \o <<x>>
  BY <1>1, ConcatAssociative
<1> QED BY <1>1, <1>2, AppendIsConcat

LEMMA OffsetsGrow ==
  ASSUME NEW o \in Seq(Nat), NEW mask \in SUBSET Lane, NEW base \in Int,
         \A i \in mask : base + i \in Nat
  PROVE  \E F : /\ GrowsBy(F, o, mask, base) /\ F[Width] = o \o Index!Offsets(mask, base)
                /\ Cursor!Offsets(mask, base) = Index!Offsets(mask, base)
<1>1. PICK f :
        /\ f[0] = <<>> /\ f[Width] = Index!Offsets(mask, base)
        /\ Cursor!Offsets(mask, base) = Index!Offsets(mask, base)
        /\ \A i \in Lane : f[i + 1] = IF i \in mask THEN Append(f[i], base + i) ELSE f[i]
  BY OffsetsRun
<1> DEFINE T == {i \in 0..Width : f[i] \notin Seq(Nat)}
           F == [i \in 0..Width |-> o \o f[i]]
<1>2. ASSUME NEW x \in T, \A y \in T : x <= y  PROVE FALSE
  <2>1. x \in 0..Width /\ f[x] \notin Seq(Nat)
    BY <1>2
  <2>2. x # 0
    <3>1. <<>> \in Seq(Nat) /\ f[0] = <<>>
      BY <1>1
    <3> QED BY <2>1, <3>1
  <2>3. x - 1 \in Lane /\ x - 1 \in 0..Width /\ ~(x <= x - 1) /\ (x - 1) + 1 = x
    BY <2>1, <2>2, WidthType DEF Lane
  <2>4. f[x - 1] \in Seq(Nat)
    BY <1>2, <2>3
  <2>5. f[x] = IF x - 1 \in mask THEN Append(f[x - 1], base + (x - 1)) ELSE f[x - 1]
    BY <1>1, <2>3
  <2>6. x - 1 \in mask => base + (x - 1) \in Nat
    OBVIOUS
  <2> HIDE DEF T
  <2> QED BY <2>1, <2>4, <2>5, <2>6
<1>3. \A i \in 0..Width : f[i] \in Seq(Nat)
  <2>1. T \in SUBSET Nat
    BY WidthType
  <2> HIDE DEF T
  <2>2. T = {}
    BY <1>2, <2>1, LeastElement
  <2> QED BY <2>2 DEF T
<1>4. \A i \in 0..Width : F[i] = o \o f[i] /\ F[i] \in Seq(Nat)
  BY <1>3, ConcatProperties
<1>5. 0 \in 0..Width /\ Width \in 0..Width /\ F[0] = o
  BY <1>1, <1>4, WidthType
<1>6. ASSUME NEW i \in Lane
      PROVE  F[i + 1] = IF i \in mask THEN Append(F[i], base + i) ELSE F[i]
  <2>1. i \in 0..Width /\ i + 1 \in 0..Width
    BY LaneNext
  <2>2. F[i] = o \o f[i] /\ F[i + 1] = o \o f[i + 1] /\ f[i] \in Seq(Nat)
    BY <1>3, <1>4, <2>1
  <2>3. i \in mask => o \o Append(f[i], base + i) = Append(o \o f[i], base + i)
    <3>1. SUFFICES ASSUME i \in mask
                   PROVE  o \o Append(f[i], base + i) = Append(o \o f[i], base + i)
      OBVIOUS
    <3>2. base + i \in Nat /\ f[i] \in Seq(Nat)
      BY <2>2, <3>1
    <3> DEFINE t == f[i]
               x == base + i
    <3>3. t \in Seq(Nat) /\ x \in Nat /\ o \in Seq(Nat)
      BY <3>2
    <3> HIDE DEF t, x, F, T
    <3>4. o \o Append(t, x) = Append(o \o t, x)
      BY <3>3, ConcatAppended
    <3> QED BY <3>4 DEF t, x
  <2> HIDE DEF F
  <2> QED BY <1>1, <2>2, <2>3
<1>7. F[Width] = o \o Index!Offsets(mask, base)
  BY <1>1, <1>4, <1>5
<1> HIDE DEF F
<1>8. GrowsBy(F, o, mask, base)
  BY <1>4, <1>5, <1>6 DEF GrowsBy
<1> QED BY <1>1, <1>7, <1>8

(* Offsets in order, from `lo` on and below `hi`, stay so.                 *)
Within(o, lo, hi) ==
  o \in Seq(Nat) /\ Ascending(o) /\ \A k \in 1..Len(o) : lo <= o[k] /\ o[k] < hi

LEMMA WithinOn ==
  ASSUME NEW o, NEW lo \in Nat, NEW p \in Int, Within(o, lo, p),
         NEW x, x = o \/ (p \in Nat /\ lo <= p /\ x = Append(o, p))
  PROVE  Within(x, lo, p + 1)
<1>1. o \in Seq(Nat) /\ Len(o) \in Nat /\ \A k \in 1..Len(o) : lo <= o[k] /\ o[k] < p /\ o[k] \in Nat
  BY DEF Within
<1>2. \A k \in 2..Len(o) : o[k - 1] < o[k]
  BY DEF Within, Ascending
<1>3. CASE x = o
  BY <1>1, <1>2, <1>3 DEF Within, Ascending
<1>4. CASE p \in Nat /\ lo <= p /\ x = Append(o, p)
  <2>1. Grew(o, x, p)
    BY <1>1, <1>4 DEF Grew
  <2>2. /\ x \in Seq(Nat) /\ Len(x) = Len(o) + 1 /\ x[Len(o) + 1] = p
        /\ \A k \in 1..Len(o) : x[k] = o[k]
    BY <2>1 DEF Grew
  <2>3. \A k \in 1..Len(x) : k \in 1..Len(o) \/ k = Len(o) + 1
    BY <1>1, <2>2
  <2>4. \A k \in 1..Len(x) : lo <= x[k] /\ x[k] < p + 1
    BY <1>1, <1>4, <2>2, <2>3
  <2>5. ASSUME NEW k \in 2..Len(x)  PROVE x[k - 1] < x[k]
    <3>4. k - 1 \in 1..Len(o)
      <4>1. Len(x) = Len(o) + 1 /\ Len(o) \in Nat
        BY <1>1, <2>2
      <4> QED BY <2>5, <4>1
    <3>1. k - 1 \in 1..Len(o) /\ x[k - 1] = o[k - 1] /\ o[k - 1] < p
      BY <1>1, <2>2, <3>4
    <3>2. CASE k = Len(o) + 1
      BY <2>2, <3>1, <3>2
    <3>3. CASE k # Len(o) + 1
      <4>1. k \in 2..Len(o) /\ k \in 1..Len(o)
        BY <1>1, <2>2, <3>3
      <4> QED BY <1>2, <2>2, <3>1, <4>1
    <3> QED BY <3>2, <3>3
  <2> QED BY <2>2, <2>4, <2>5 DEF Within, Ascending
<1> QED BY <1>3, <1>4

LEMMA OffsetsWithin ==
  ASSUME NEW o, NEW mask \in SUBSET Lane, NEW base \in Int, NEW lo \in Nat,
         Within(o, lo, base), \A i \in mask : base + i \in Nat /\ lo <= base + i
  PROVE  /\ Within(o \o Index!Offsets(mask, base), lo, base + Width)
         /\ Cursor!Offsets(mask, base) = Index!Offsets(mask, base)
<1>1. o \in Seq(Nat)
  BY DEF Within
<1>2. PICK F : /\ GrowsBy(F, o, mask, base) /\ F[Width] = o \o Index!Offsets(mask, base)
               /\ Cursor!Offsets(mask, base) = Index!Offsets(mask, base)
  BY <1>1, OffsetsGrow
<1> DEFINE T == {i \in 0..Width : ~Within(F[i], lo, base + i)}
<1>3. ASSUME NEW x \in T, \A y \in T : x <= y  PROVE FALSE
  <2>1. x \in 0..Width /\ ~Within(F[x], lo, base + x)
    BY <1>3
  <2>2. x # 0
    <3>1. F[0] = o /\ base + 0 = base
      BY <1>2 DEF GrowsBy
    <3> QED BY <2>1, <3>1
  <2>3. x - 1 \in Lane /\ x - 1 \in 0..Width /\ ~(x <= x - 1) /\ (x - 1) + 1 = x
    BY <2>1, <2>2, WidthType DEF Lane
  <2>4. Within(F[x - 1], lo, base + (x - 1))
    BY <1>3, <2>3
  <2>5. F[x] = IF x - 1 \in mask THEN Append(F[x - 1], base + (x - 1)) ELSE F[x - 1]
    BY <1>2, <2>3 DEF GrowsBy
  <2>6. base + (x - 1) \in Int /\ (base + (x - 1)) + 1 = base + x
    BY <2>3 DEF Lane
  <2>7. Within(F[x], lo, (base + (x - 1)) + 1)
    BY <2>4, <2>5, <2>6, WithinOn
  <2> QED BY <2>1, <2>6, <2>7
<1>4. Width \in 0..Width /\ Width \in Nat
  BY WidthType
<1>5. T = {}
  <2>1. T \in SUBSET Nat
    BY <1>4
  <2> HIDE DEF T
  <2> QED BY <1>3, <2>1, LeastElement
<1> QED BY <1>2, <1>4, <1>5

(* Parts of such a sequence, and what consuming `n` bytes makes of it.     *)
LEMMA WithinTail ==
  ASSUME NEW o, NEW lo \in Nat, NEW hi \in Int, Within(o, lo, hi), NEW n \in 0..Len(o)
  PROVE  LET x == SubSeq(o, n + 1, Len(o))
         IN  /\ x \in Seq(Nat) /\ Len(x) = Len(o) - n /\ \A k \in 1..Len(x) : x[k] = o[n + k]
             /\ n # 0 => Within(x, o[n] + 1, hi)
             /\ Within(x, lo, hi)
<1> DEFINE x == SubSeq(o, n + 1, Len(o))
<1>1. /\ o \in Seq(Nat) /\ Len(o) \in Nat
      /\ \A k \in 1..Len(o) : lo <= o[k] /\ o[k] < hi /\ o[k] \in Nat
      /\ \A k \in 2..Len(o) : o[k - 1] < o[k]
  BY DEF Within, Ascending
<1>2. n \in Nat /\ n <= Len(o)
  BY <1>1
<1>3. /\ x \in Seq(Nat) /\ Len(x) = Len(o) - n
      /\ \A i \in 1..(Len(o) - n) : x[i] = o[n + i]
  <2> DEFINE to == Len(o)
  <2>1. o \in Seq(Nat) /\ to \in Nat /\ n \in Nat /\ n <= to /\ to <= Len(o)
    BY <1>1, <1>2
  <2> HIDE DEF to
  <2>2. /\ SubSeq(o, n + 1, to) \in Seq(Nat) /\ Len(SubSeq(o, n + 1, to)) = to - n
        /\ \A i \in 1..(to - n) : SubSeq(o, n + 1, to)[i] = o[n + i]
    BY <2>1, Slice
  <2> QED BY <2>2 DEF to
<1> HIDE DEF x
<1>4. \A k \in 1..Len(x) : n + k \in 1..Len(o) /\ x[k] = o[n + k]
  BY <1>1, <1>2, <1>3
<1>5. ASSUME NEW k \in 2..Len(x)  PROVE x[k - 1] < x[k]
  <2>1. k \in 1..Len(x) /\ k - 1 \in 1..Len(x) /\ n + k \in 2..Len(o) /\ (n + k) - 1 = n + (k - 1)
    BY <1>1, <1>2, <1>3
  <2> QED BY <1>1, <1>4, <2>1
<1>6. Within(x, lo, hi)
  BY <1>1, <1>3, <1>4, <1>5 DEF Within, Ascending
<1>7. ASSUME n # 0  PROVE Within(x, o[n] + 1, hi)
  <2> DEFINE T == {k \in 1..Len(x) : ~(o[n] < x[k])}
  <2>5. o[n] \in Nat
    BY <1>1, <1>2, <1>7
  <2>6. \A k \in 1..Len(x) : x[k] \in Nat
    BY <1>3
  <2>1. ASSUME NEW k \in T, \A j \in T : k <= j  PROVE FALSE
    <3>1. k \in 1..Len(x) /\ ~(o[n] < x[k])
      BY <2>1
    <3>2. CASE k = 1
      <4>1. n + 1 \in 2..Len(o) /\ (n + 1) - 1 = n /\ x[1] = o[n + 1]
        BY <1>2, <1>3, <1>4, <1>7, <3>1, <3>2
      <4> QED BY <1>1, <3>1, <3>2, <4>1
    <3>3. CASE k # 1
      <4>1. k - 1 \in 1..Len(x) /\ k \in 2..Len(x) /\ ~(k <= k - 1)
        BY <1>3, <3>1, <3>3
      <4>2. o[n] < x[k - 1]
        BY <2>1, <4>1
      <4>3. x[k - 1] < x[k] /\ x[k - 1] \in Nat /\ x[k] \in Nat /\ o[n] \in Nat
        BY <1>5, <2>5, <2>6, <3>1, <4>1
      <4> QED BY <3>1, <4>2, <4>3
    <3> QED BY <3>2, <3>3
  <2>2. T = {}
    <3>1. T \in SUBSET Nat
      BY <1>1, <1>3
    <3> HIDE DEF T
    <3> QED BY <2>1, <3>1, LeastElement
  <2>3. \A k \in 1..Len(x) : o[n] < x[k] /\ x[k] < hi
    BY <1>6, <2>2 DEF Within
  <2>4. \A k \in 1..Len(x) : o[n] + 1 <= x[k] /\ x[k] < hi
    BY <2>3, <2>5, <2>6
  <2> QED BY <1>6, <2>4 DEF Within
<1> QED BY <1>3, <1>4, <1>6, <1>7 DEF x

Lowered(o, n) == [k \in DOMAIN o |-> Masks!Minus(o[k], n)]

LEMMA LoweredIs ==
  ASSUME NEW o \in Seq(Nat), NEW n \in Nat, \A k \in 1..Len(o) : n <= o[k]
  PROVE  /\ Lowered(o, n) \in Seq(Nat) /\ Len(Lowered(o, n)) = Len(o)
         /\ \A k \in 1..Len(o) : Lowered(o, n)[k] = o[k] - n
<1>1. Len(o) \in Nat /\ DOMAIN o = 1..Len(o) /\ \A k \in 1..Len(o) : o[k] \in Nat
  OBVIOUS
<1>2. \A k \in 1..Len(o) : Masks!Minus(o[k], n) = o[k] - n /\ o[k] - n \in Nat
  BY <1>1 DEF Masks!Minus
<1>3. Lowered(o, n) = [k \in 1..Len(o) |-> o[k] - n]
  BY <1>1, <1>2 DEF Lowered
<1>4. [k \in 1..Len(o) |-> o[k] - n] \in [1..Len(o) -> Nat]
  BY <1>2
<1>5. Lowered(o, n) \in Seq(Nat) /\ DOMAIN Lowered(o, n) = 1..Len(o)
  BY <1>1, <1>3, <1>4
<1> QED BY <1>1, <1>3, <1>5

LEMMA WithinLowered ==
  ASSUME NEW o, NEW lo \in Nat, NEW hi \in Int, Within(o, lo, hi), NEW n \in 0..lo
  PROVE  Within(Lowered(o, n), lo - n, hi - n)
<1>1. /\ o \in Seq(Nat) /\ Len(o) \in Nat
      /\ \A k \in 1..Len(o) : lo <= o[k] /\ o[k] < hi /\ o[k] \in Nat
      /\ \A k \in 2..Len(o) : o[k - 1] < o[k]
  BY DEF Within, Ascending
<1>2. n \in Nat /\ \A k \in 1..Len(o) : n <= o[k]
  BY <1>1
<1>3. /\ Lowered(o, n) \in Seq(Nat) /\ Len(Lowered(o, n)) = Len(o)
      /\ \A k \in 1..Len(o) : Lowered(o, n)[k] = o[k] - n
  BY <1>1, <1>2, LoweredIs
<1>4. \A k \in 2..Len(o) : k \in 1..Len(o) /\ k - 1 \in 1..Len(o)
  BY <1>1
<1>5. Ascending(Lowered(o, n))
  <2>1. ASSUME NEW k \in 2..Len(o)  PROVE Lowered(o, n)[k - 1] < Lowered(o, n)[k]
    <3>1. o[k - 1] < o[k] /\ o[k - 1] \in Nat /\ o[k] \in Nat
      BY <1>1, <1>4
    <3>2. Lowered(o, n)[k - 1] = o[k - 1] - n /\ Lowered(o, n)[k] = o[k] - n
      BY <1>3, <1>4
    <3> QED BY <1>2, <3>1, <3>2
  <2> QED BY <1>3, <2>1 DEF Ascending
<1>6. \A k \in 1..Len(o) : lo - n <= Lowered(o, n)[k] /\ Lowered(o, n)[k] < hi - n
  BY <1>1, <1>2, <1>3
<1> QED BY <1>3, <1>5, <1>6 DEF Within

-----------------------------------------------------------------------------
(* The stepper for dialects without a quote, at position p.                *)
CursorShape(s) ==
  s = [pending |-> s.pending, phase |-> s.phase,
       needs_align_prologue |-> s.needs_align_prologue, bounds |-> s.bounds,
       cell_start |-> s.cell_start, has_runs |-> s.has_runs,
       last_record_end |-> s.last_record_end]

(* The vector held back: bytes in front of the buffer have no role.        *)
CursorHeld(s, base) ==
  /\ s.pending = [delim |-> s.pending.delim, term |-> s.pending.term, base |-> base]
  /\ s.pending.delim \in SUBSET Lane /\ s.pending.term \in SUBSET Lane
  /\ \A i \in s.pending.delim \cup s.pending.term : base + i >= 0

CursorReady(s, base) ==
  /\ CursorHeld(s, base)
  /\ Within(s.bounds, s.cell_start, base)
  /\ s.cell_start = 0 \/ s.cell_start <= base

CursorFresh(s, p) == p = 0 /\ s.bounds = <<>> /\ s.cell_start = 0

CursorInv(s, p) ==
  /\ CursorShape(s) /\ s.cell_start \in Nat /\ p \in Nat
  /\ IF s.pending = Cursor!NoVector THEN CursorFresh(s, p) ELSE CursorReady(s, p - Width)

LEMMA NeverNoVector ==
  ASSUME NEW d, NEW t, NEW base
  PROVE  [delim |-> d, term |-> t, base |-> base] # Cursor!NoVector
BY DEF Cursor!NoVector

(* Taking over the vector held back leaves room for the next.              *)
CursorPublished(x, s, q) ==
  /\ x = [ok |-> x.ok, st |-> x.st] /\ CursorShape(x.st) /\ x.st.cell_start = s.cell_start
  /\ Within(x.st.bounds, s.cell_start, q)
  /\ s.cell_start = 0 \/ s.cell_start <= q

LEMMA CursorPublishes ==
  ASSUME NEW c, NEW s, NEW p \in Nat, CursorInv(s, p), NEW mask,
         NEW q \in Int, IF s.pending = Cursor!NoVector THEN q <= 0 ELSE q = p
  PROVE  CursorPublished(Cursor!Publish(c, s, Cursor!Lsb(mask)), s, q)
<1> DEFINE x == Cursor!Publish(c, s, Cursor!Lsb(mask))
           held == s.pending
           run_end == Cursor!TerminatorRunEnds(held.term, Cursor!Lsb(mask))
           d == held.delim \cup run_end
           verdict == Cursor!VerifyPext(c.field_count, s.phase, d, run_end)
           runs == s.has_runs \/ run_end # held.term
           bounds == s.bounds \o Cursor!Offsets(d, held.base)
<1>1. CASE held = Cursor!NoVector
  <2>1. x = [ok |-> TRUE, st |-> s]
    BY <1>1 DEF Cursor!Publish
  <2> HIDE DEF x
  <2>2. s.bounds = <<>> /\ s.cell_start = 0 /\ CursorShape(s)
    BY <1>1 DEF CursorInv, CursorFresh
  <2>3. Within(<<>>, 0, q)
    BY DEF Within, Ascending
  <2> QED BY <2>1, <2>2, <2>3 DEF x, CursorPublished
<1>2. CASE held # Cursor!NoVector
  <2>1. x = [ok |-> verdict.ok,
             st |-> [s EXCEPT !.phase = verdict.phase, !.has_runs = runs, !.bounds = bounds]]
    BY <1>2 DEF Cursor!Publish
  <2> HIDE DEF verdict, runs
  <2>2. /\ CursorShape(s) /\ s.cell_start \in Nat /\ q = p
        /\ CursorHeld(s, p - Width) /\ Within(s.bounds, s.cell_start, p - Width)
        /\ s.cell_start = 0 \/ s.cell_start <= p - Width
    BY <1>2 DEF CursorInv, CursorReady
  <2>3. held.base = p - Width /\ p - Width \in Int /\ (p - Width) + Width = p
    BY <2>2, WidthType DEF CursorHeld
  <2>4. d \in SUBSET Lane /\ \A i \in d : (p - Width) + i >= 0
    BY <2>2 DEF CursorHeld, Cursor!TerminatorRunEnds
  <2>5. \A i \in d : (p - Width) + i \in Nat /\ s.cell_start <= (p - Width) + i
    <3>1. \A i \in d : i \in Nat
      BY <2>4, WidthType DEF Lane
    <3> QED BY <2>2, <2>3, <2>4, <3>1
  <2> HIDE DEF d
  <2>6. /\ Within(s.bounds \o Index!Offsets(d, p - Width), s.cell_start, (p - Width) + Width)
        /\ Cursor!Offsets(d, p - Width) = Index!Offsets(d, p - Width)
    BY <2>2, <2>3, <2>4, <2>5, OffsetsWithin
  <2>7. Within(bounds, s.cell_start, p)
    BY <2>3, <2>6
  <2> HIDE DEF bounds, x
  <2>8. /\ x.st = [s EXCEPT !.phase = verdict.phase, !.has_runs = runs, !.bounds = bounds]
        /\ x = [ok |-> x.ok, st |-> x.st]
    BY <2>1
  <2>9. x.st.bounds = bounds /\ x.st.cell_start = s.cell_start /\ CursorShape(x.st)
    BY <2>2, <2>8 DEF CursorShape
  <2>10. s.cell_start = 0 \/ s.cell_start <= p
    BY <2>2, WidthType
  <2> QED BY <1>2, <2>2, <2>7, <2>8, <2>9, <2>10 DEF x, CursorPublished
<1> QED BY <1>1, <1>2

LEMMA CursorScans ==
  ASSUME NEW c, Dialect(c), NEW s, NEW p \in Nat, CursorInv(s, p), NEW v,
         NEW q \in Int, IF s.pending = Cursor!NoVector THEN q <= 0 ELSE q = p,
         q + Width \in Nat, \A i \in Lane : q + i < 0 => v[i] = Masks!Pad
  PROVE  LET x == Cursor!ScanVector(c, s, v, q)
         IN  CursorInv(x.st, q + Width) /\ x.st.pending # Cursor!NoVector
<1> DEFINE t == Cursor!MatchStructural(c, v)
           y == Cursor!Publish(c, s, Cursor!Lsb(t.term))
           x == Cursor!ScanVector(c, s, v, q)
           held == [delim |-> t.delim, term |-> t.term, base |-> q]
<1>1. x = [y EXCEPT !.st.pending = held]
  BY DEF Cursor!ScanVector, Cursor!Hold
<1>2. /\ y = [ok |-> y.ok, st |-> y.st] /\ CursorShape(y.st) /\ y.st.cell_start = s.cell_start
      /\ Within(y.st.bounds, s.cell_start, q)
      /\ s.cell_start = 0 \/ s.cell_start <= q
  <2>1. CursorPublished(y, s, q)
    BY CursorPublishes
  <2> HIDE DEF y
  <2> QED BY <2>1 DEF CursorPublished
<1>3. t.delim \in SUBSET Lane /\ t.term \in SUBSET Lane
      /\ \A i \in t.delim \cup t.term : q + i >= 0
  <2>1. Cursor!Lanes = Lane /\ Cursor!D!Terminators(c) = P!Terminators(c)
    BY DEF Cursor!Lanes, Lane, Width, Cursor!D!Terminators, P!Terminators
  <2>2. /\ t.delim = {i \in Lane : v[i] = c.delimiter}
        /\ t.term = UNION {{i \in Lane : v[i] = b} : b \in P!Terminators(c)}
    BY <2>1 DEF Cursor!MatchStructural, Cursor!EqMask
  <2> HIDE DEF t
  <2>3. \A i \in t.delim \cup t.term : i \in Lane /\ v[i] # Masks!Pad
    BY <2>2 DEF Dialect
  <2>4. \A i \in Lane : q + i \in Int
    BY WidthType DEF Lane
  <2> QED BY <2>3, <2>4
<1> HIDE DEF t, y
<1>4. x.st = [y.st EXCEPT !.pending = held]
  BY <1>1, <1>2
<1> HIDE DEF x
<1>5. /\ CursorShape(x.st) /\ x.st.pending = held /\ x.st.bounds = y.st.bounds
      /\ x.st.cell_start = s.cell_start
  BY <1>2, <1>4 DEF CursorShape
<1>6. held # Cursor!NoVector
  BY NeverNoVector
<1>7. CursorHeld(x.st, q)
  BY <1>3, <1>5 DEF CursorHeld
<1>8. s.cell_start \in Nat /\ (q + Width) - Width = q
  BY WidthType DEF CursorInv
<1>9. CursorReady(x.st, q)
  BY <1>2, <1>5, <1>7 DEF CursorReady
<1> QED BY <1>5, <1>6, <1>8, <1>9 DEF x, CursorInv

LEMMA CursorFlushes ==
  ASSUME NEW c, Dialect(c), NEW s, NEW p \in Nat, CursorInv(s, p),
         NEW b, NEW left, NEW total
  PROVE  LET f == Cursor!FlushRecords(c, s, b, left, total)
         IN  ~f.stop => CursorInv(f.st, p) /\ f.buf = b /\ f.st.pending = s.pending
<1> DEFINE n == c.field_count
           avail == Len(s.bounds) \div n
           past == {k \in 1..avail : s.bounds[k * n] >= left}
           count == IF past = {} THEN avail ELSE Cursor!Min(past)
           f == Cursor!FlushRecords(c, s, b, left, total)
           last == avail * n
<1>1. n \in Nat /\ n # 0
  BY DEF Dialect
<1>2. /\ s.bounds \in Seq(Nat) /\ s.cell_start \in Nat
      /\ s.pending = Cursor!NoVector => s.bounds = <<>>
      /\ s.pending # Cursor!NoVector =>
           CursorReady(s, p - Width) /\ Within(s.bounds, s.cell_start, p - Width)
  <2>1. <<>> \in Seq(Nat)
    OBVIOUS
  <2> QED BY <2>1 DEF CursorInv, CursorReady, CursorFresh, Within
<1>3. Len(s.bounds) \in Nat
  BY <1>2
<1>4. avail \in Nat /\ last \in Nat /\ last <= Len(s.bounds) /\ (avail # 0 => last >= 1)
  <2>1. \A x \in Nat : x \div n \in Nat /\ (x \div n) * n <= x
    BY <1>1
  <2>2. avail \in Nat /\ last <= Len(s.bounds)
    BY <1>3, <2>1
  <2> HIDE DEF avail
  <2>3. \A x \in Nat : x * n \in Nat /\ (x # 0 => x * n >= 1)
    BY <1>1
  <2> QED BY <2>2, <2>3
<1>5. CASE avail = 0
  <2>1. f = Cursor!Nothing(s, b)
    BY <1>5 DEF Cursor!FlushRecords
  <2>2. f.st = s /\ f.buf = b
    BY <2>1 DEF Cursor!Nothing
  <2> QED BY <2>2
<1>6. CASE avail # 0 /\ past # {}
  <2>1. f = Cursor!Flushed(c, s, b, total, left, count, past # {})
    BY <1>6 DEF Cursor!FlushRecords
  <2>2. f.stop = (past # {})
    BY <2>1 DEF Cursor!Flushed
  <2> QED BY <1>6, <2>2
<1>7. CASE avail # 0 /\ past = {}
  <2> DEFINE run_start == IF s.has_runs THEN Cursor!End(c, s, b, last) ELSE s.bounds[last]
             end == total + Cursor!Handoff(run_start, left, past # {})
             bounds == SubSeq(s.bounds, last + 1, Len(s.bounds))
             z == s.bounds[last] + 1
  <2>1. f = Cursor!Flushed(c, s, b, total, left, avail, past # {})
    BY <1>7 DEF Cursor!FlushRecords
  <2>2. /\ f.st = [s EXCEPT !.bounds = bounds, !.cell_start = z, !.last_record_end = end]
        /\ f.buf = b
    BY <2>1 DEF Cursor!Flushed
  <2>3. last \in 0..Len(s.bounds) /\ last # 0 /\ last \in 1..Len(s.bounds)
    BY <1>3, <1>4, <1>7
  <2>4. s.bounds # <<>>
    BY <1>2, <2>3
  <2>5. CursorReady(s, p - Width) /\ Within(s.bounds, s.cell_start, p - Width)
    BY <1>2, <2>4
  <2>6. p - Width \in Int
    BY WidthType
  <2> HIDE DEF last
  <2>7. Within(bounds, z, p - Width)
    BY <1>2, <2>3, <2>5, <2>6, WithinTail
  <2>8. s.bounds[last] < p - Width /\ s.bounds[last] \in Nat
    BY <1>2, <2>3, <2>5 DEF Within
  <2>9. z \in Nat /\ z <= p - Width
    BY <2>6, <2>8
  <2> HIDE DEF bounds, z, end, f
  <2>10. /\ CursorShape(f.st) /\ f.st.pending = s.pending /\ f.st.bounds = bounds
         /\ f.st.cell_start = z
    BY <2>2 DEF CursorShape, CursorInv
  <2>11. CursorReady(f.st, p - Width)
    BY <2>5, <2>7, <2>9, <2>10 DEF CursorReady, CursorHeld
  <2>12. s.pending # Cursor!NoVector
    BY <1>2, <2>4
  <2> QED BY <2>2, <2>9, <2>10, <2>11, <2>12 DEF CursorInv, f
<1> QED BY <1>5, <1>6, <1>7

LEMMA CursorShifts ==
  ASSUME NEW s, NEW p \in Nat, CursorInv(s, p)
  PROVE  LET n == s.cell_start
         IN  n <= p /\ CursorInv(Cursor!Shifted(s, n), p - n)
<1> DEFINE n == s.cell_start
           x == Cursor!Shifted(s, n)
           held == IF s.pending = Cursor!NoVector THEN s.pending
                   ELSE [delim |-> s.pending.delim, term |-> s.pending.term,
                         base |-> Cursor!ShiftedBase(s.pending.base, n)]
<1>1. CursorShape(s) /\ n \in Nat
  BY DEF CursorInv
<1>2. \A a : Cursor!Minus(a, n) = Masks!Minus(a, n)
  BY DEF Cursor!Minus, Masks!Minus
<1>3. Cursor!Minus(n, n) = 0
  BY <1>1 DEF Cursor!Minus
<1>4. x = [s EXCEPT !.cell_start = 0, !.bounds = Lowered(s.bounds, n), !.pending = held]
  <2> DEFINE low == [k \in DOMAIN s.bounds |-> Cursor!Minus(s.bounds[k], n)]
  <2>1. x = [s EXCEPT !.cell_start = Cursor!Minus(n, n), !.bounds = low, !.pending = held]
    BY DEF Cursor!Shifted
  <2>2. low = Lowered(s.bounds, n)
    BY <1>2 DEF Lowered
  <2> HIDE DEF low, held
  <2> QED BY <1>3, <2>1, <2>2
<1> HIDE DEF x
<1>5. /\ CursorShape(x) /\ x.cell_start = 0 /\ x.bounds = Lowered(s.bounds, n)
      /\ x.pending = held
  BY <1>1, <1>4 DEF CursorShape
<1>6. CASE s.pending = Cursor!NoVector
  <2>1. p = 0 /\ s.bounds = <<>> /\ n = 0
    BY <1>6 DEF CursorInv, CursorFresh
  <2>2. Lowered(<<>>, 0) = <<>>
    BY DEF Lowered
  <2>3. x.pending = Cursor!NoVector /\ CursorFresh(x, 0)
    BY <1>5, <1>6, <2>1, <2>2 DEF CursorFresh
  <2> QED BY <1>5, <2>1, <2>3 DEF CursorInv, x
<1>7. CASE s.pending # Cursor!NoVector
  <2> DEFINE base == p - Width
  <2>1. /\ CursorHeld(s, base) /\ Within(s.bounds, n, base) /\ (n = 0 \/ n <= base)
    BY <1>7 DEF CursorInv, CursorReady
  <2>2. base \in Int /\ n <= p /\ p - n \in Nat /\ (p - n) - Width = base - n
    BY <1>1, <2>1, WidthType
  <2> HIDE DEF base
  <2>3. Cursor!ShiftedBase(base, n) = base - n
    BY <1>1, <2>1, <2>2 DEF Cursor!ShiftedBase, Cursor!Minus
  <2>4. held = [delim |-> s.pending.delim, term |-> s.pending.term, base |-> base - n]
    BY <1>7, <2>1, <2>3 DEF CursorHeld
  <2>5. held # Cursor!NoVector
    BY <2>4, NeverNoVector
  <2> HIDE DEF held
  <2>6. \A i \in s.pending.delim \cup s.pending.term : i \in Lane /\ base + i >= 0
    BY <2>1 DEF CursorHeld
  <2>7. \A i \in s.pending.delim \cup s.pending.term : (base - n) + i >= 0
    <3>1. \A i \in Lane : i \in Nat
      BY WidthType DEF Lane
    <3> QED BY <1>1, <2>1, <2>2, <2>6, <3>1
  <2>8. /\ held.delim = s.pending.delim /\ held.term = s.pending.term
    BY <2>4
  <2>9. CursorHeld(x, base - n)
    BY <1>5, <2>1, <2>4, <2>7, <2>8 DEF CursorHeld
  <2>10. Within(Lowered(s.bounds, n), 0, base - n)
    <3>1. n \in 0..n /\ n - n = 0
      BY <1>1
    <3>2. Within(Lowered(s.bounds, n), n - n, base - n)
      BY <1>1, <2>1, <2>2, <3>1, WithinLowered
    <3> QED BY <3>1, <3>2
  <2>11. CursorReady(x, base - n)
    BY <1>5, <2>9, <2>10 DEF CursorReady
  <2> QED BY <1>5, <2>2, <2>5, <2>11 DEF CursorInv, x
<1> QED BY <1>6, <1>7

-----------------------------------------------------------------------------
(* The count of fields.  The rank of a boundary is how many are before it. *)
RankIn(d, i) == Cardinality({j \in d : j < i})

LEMMA RanksOf ==
  ASSUME NEW w \in Nat, NEW d \in SUBSET (0..(w - 1))
  PROVE  /\ IsFiniteSet(d) /\ Cardinality(d) \in Nat
         /\ RankIn(d, 0) = 0 /\ RankIn(d, w) = Cardinality(d)
         /\ \A i \in Nat : RankIn(d, i) \in Nat
         /\ \A i \in 0..(w - 1) : RankIn(d, i + 1) = RankIn(d, i) + IF i \in d THEN 1 ELSE 0
         /\ \A i \in d : \A k \in Nat : i < k => RankIn(d, i) < RankIn(d, k)
         /\ \A k \in 0..(Cardinality(d) - 1) : \E i \in d : RankIn(d, i) = k
<1> DEFINE below(i) == {j \in d : j < i}
<1>1. \A j \in d : j \in Nat /\ j < w
  OBVIOUS
<1>2. IsFiniteSet(d)
  <2>1. IsFiniteSet(0..(w - 1))
    BY FS_Interval
  <2> QED BY <2>1, FS_Subset
<1>3. \A i : IsFiniteSet(below(i)) /\ Cardinality(below(i)) \in Nat
             /\ RankIn(d, i) = Cardinality(below(i))
  <2>1. ASSUME NEW i
        PROVE  IsFiniteSet(below(i)) /\ Cardinality(below(i)) \in Nat
               /\ RankIn(d, i) = Cardinality(below(i))
    <3>1. below(i) \in SUBSET d
      OBVIOUS
    <3>2. RankIn(d, i) = Cardinality(below(i))
      BY DEF RankIn
    <3> HIDE DEF below
    <3>3. IsFiniteSet(below(i))
      BY <1>2, <3>1, FS_Subset
    <3> QED BY <3>2, <3>3, FS_CardinalityType
  <2> QED BY <2>1
<1>4. RankIn(d, 0) = 0
  <2>1. below(0) = {}
    <3>1. \A j \in d : ~(j < 0)
      BY <1>1
    <3> QED BY <3>1
  <2> HIDE DEF below
  <2> QED BY <1>3, <2>1, FS_EmptySet
<1>5. RankIn(d, w) = Cardinality(d)
  <2>1. below(w) = d
    BY <1>1
  <2> HIDE DEF below
  <2> QED BY <1>3, <2>1
<1>6. ASSUME NEW i \in 0..(w - 1)
      PROVE  RankIn(d, i + 1) = RankIn(d, i) + IF i \in d THEN 1 ELSE 0
  <2>1. i \in Nat
    OBVIOUS
  <2>2. \A j \in d : j < i + 1 <=> j < i \/ j = i
    BY <1>1, <2>1
  <2>3. below(i + 1) = IF i \in d THEN below(i) \cup {i} ELSE below(i)
    BY <2>2
  <2>4. i \notin below(i)
    BY <2>1
  <2> HIDE DEF below
  <2>5. CASE i \in d
    <3>1. Cardinality(below(i) \cup {i}) = Cardinality(below(i)) + 1
      BY <1>3, <2>4, FS_AddElement
    <3> QED BY <1>3, <2>3, <2>5, <3>1
  <2>6. CASE i \notin d
    BY <1>3, <2>3, <2>6
  <2> QED BY <2>5, <2>6
<1>7. ASSUME NEW i \in d, NEW k \in Nat, i < k
      PROVE  RankIn(d, i) < RankIn(d, k)
  <2>1. below(i) \cup {i} \in SUBSET below(k) /\ i \notin below(i)
    <3>1. i \in Nat /\ ~(i < i)
      BY <1>1
    <3>2. \A j \in d : j < i => j < k
      BY <1>1, <1>7, <3>1
    <3> QED BY <1>7, <3>1, <3>2
  <2> HIDE DEF below
  <2>2. Cardinality(below(i) \cup {i}) = Cardinality(below(i)) + 1
    BY <1>3, <2>1, FS_AddElement
  <2>3. Cardinality(below(i) \cup {i}) <= Cardinality(below(k))
    BY <1>3, <2>1, FS_Subset
  <2>4. Cardinality(below(i)) \in Nat /\ Cardinality(below(k)) \in Nat
    BY <1>3
  <2> QED BY <1>3, <2>2, <2>3, <2>4
<1>8. \A i \in Nat : RankIn(d, i) \in Nat
  BY <1>3
<1> HIDE DEF below
<1>9. ASSUME NEW k \in 0..(Cardinality(d) - 1)
      PROVE  \E i \in d : RankIn(d, i) = k
  <2> DEFINE T == {i \in Nat : k < RankIn(d, i)}
  <2>1. w \in T /\ k \in Nat
    BY <1>5, <1>8
  <2>2. T \in SUBSET Nat
    OBVIOUS
  <2> HIDE DEF T
  <2>3. PICK x \in T : \A y \in T : x <= y
    BY <2>1, <2>2, LeastElement
  <2>4. x \in Nat /\ x <= w /\ k < RankIn(d, x)
    BY <2>1, <2>2, <2>3 DEF T
  <2>5. x # 0
    BY <1>4, <2>1, <2>4
  <2>6. x - 1 \in 0..(w - 1) /\ (x - 1) + 1 = x /\ ~(x <= x - 1) /\ x - 1 \in Nat
    BY <2>4, <2>5
  <2>7. RankIn(d, x - 1) <= k
    BY <1>8, <2>1, <2>3, <2>6 DEF T
  <2>8. RankIn(d, x) = RankIn(d, x - 1) + IF x - 1 \in d THEN 1 ELSE 0
    BY <1>6, <2>6
  <2>9. x - 1 \in d /\ RankIn(d, x - 1) = k
    BY <1>8, <2>1, <2>4, <2>6, <2>7, <2>8
  <2> QED BY <2>9
<1>10. Cardinality(d) \in Nat
  BY <1>2, FS_CardinalityType
<1> QED BY <1>2, <1>4, <1>5, <1>6, <1>7, <1>8, <1>9, <1>10

(* The boundaries of a vector.                                             *)
LEMMA RankOn ==
  ASSUME NEW d \in SUBSET Lane
  PROVE  /\ RankIn(d, 0) = 0 /\ RankIn(d, Width) = Cardinality(d)
         /\ \A i \in 0..Width : RankIn(d, i) \in Nat
         /\ \A i \in Lane : RankIn(d, i + 1) = RankIn(d, i) + IF i \in d THEN 1 ELSE 0
         /\ \A i \in d : \A k \in d : RankIn(d, i) = RankIn(d, k) => i = k
         /\ \A i \in d : RankIn(d, i) < Cardinality(d)
<1>1. Width \in Nat /\ d \in SUBSET (0..(Width - 1))
  BY WidthType DEF Lane
<1>2. /\ RankIn(d, 0) = 0 /\ RankIn(d, Width) = Cardinality(d)
      /\ \A i \in Nat : RankIn(d, i) \in Nat
      /\ \A i \in 0..(Width - 1) :
           RankIn(d, i + 1) = RankIn(d, i) + IF i \in d THEN 1 ELSE 0
      /\ \A i \in d : \A k \in Nat : i < k => RankIn(d, i) < RankIn(d, k)
  BY <1>1, RanksOf
<1>3. ASSUME NEW i \in d, NEW k \in d, RankIn(d, i) = RankIn(d, k)  PROVE i = k
  <2>1. i \in Nat /\ k \in Nat /\ RankIn(d, i) \in Nat /\ RankIn(d, k) \in Nat
    BY <1>1, <1>2
  <2>2. ~(i < k) /\ ~(k < i)
    BY <1>2, <1>3, <2>1
  <2> QED BY <2>1, <2>2
<1>4. \A i \in d : RankIn(d, i) < Cardinality(d)
  BY <1>1, <1>2
<1>5. \A i \in 0..Width : RankIn(d, i) \in Nat
  BY <1>2
<1> QED BY <1>2, <1>3, <1>4, <1>5 DEF Lane

LEMMA Division ==
  ASSUME NEW n \in Nat \ {0}
  PROVE  \A y \in Nat : \E j \in Nat : \E k \in 0..(n - 1) : y = j * n + k /\ y % n = k
<1> DEFINE T == {y \in Nat : ~(\E j \in Nat : \E k \in 0..(n - 1) : y = j * n + k)}
<1>1. ASSUME NEW y \in T, \A x \in T : y <= x  PROVE FALSE
  <2>1. y \in Nat /\ n \in Nat
    OBVIOUS
  <2>2. CASE y < n
    <3>1. y \in 0..(n - 1) /\ 0 \in Nat /\ y = 0 * n + y
      BY <2>1, <2>2
    <3> QED BY <3>1
  <2>3. CASE ~(y < n)
    <3>1. y - n \in Nat /\ ~(y <= y - n)
      BY <2>1, <2>3
    <3>2. y - n \notin T
      BY <1>1, <3>1
    <3>3. PICK j \in Nat : \E k \in 0..(n - 1) : y - n = j * n + k
      BY <3>1, <3>2
    <3>4. PICK k \in 0..(n - 1) : y - n = j * n + k
      BY <3>3
    <3>5. (j + 1) * n = j * n + n /\ j + 1 \in Nat
      OBVIOUS
    <3>6. y = (j + 1) * n + k
      BY <2>1, <3>4, <3>5
    <3> QED BY <3>5, <3>6
  <2> QED BY <2>2, <2>3
<1>2. T = {}
  <2>1. T \in SUBSET Nat
    OBVIOUS
  <2> HIDE DEF T
  <2> QED BY <1>1, <2>1, LeastElement
<1>3. \A y \in Nat : \A j \in Nat : \A k \in 0..(n - 1) : y = j * n + k => y % n = k
  OBVIOUS
<1> QED BY <1>2, <1>3

(* A verdict that stands puts a record's end at every n-th boundary, and   *)
(* the phase in step with their number.                                    *)
Verified(n, before, d, term, after) ==
  /\ \A i \in d : i \in term <=> (RankIn(d, i) + before) % n = n - 1
  /\ after \in Nat
  /\ \E j \in Int : before + Cardinality(d) = j * n + after

LEMMA Verdict ==
  ASSUME NEW n \in Nat \ {0}, NEW before \in Nat,
         NEW d \in SUBSET Lane, NEW term \in SUBSET d,
         Index!VerifyPext(n, before, d, term).ok
  PROVE  Verified(n, before, d, term, Index!VerifyPext(n, before, d, term).phase)
<1> DEFINE v == Index!VerifyPext(n, before, d, term)
           count == Cardinality(d)
           p == {RankIn(d, i) : i \in term}
           pattern == {i \in 0..(count - 1) : (i + before) % n = n - 1}
<1>1. v.ok
  OBVIOUS
<1>2. /\ \A i \in 0..Width : RankIn(d, i) \in Nat
      /\ \A i \in d : \A k \in d : RankIn(d, i) = RankIn(d, k) => i = k
      /\ \A i \in d : RankIn(d, i) < count
      /\ count = RankIn(d, Width)
  BY RankOn
<1>3. count \in Nat
  BY <1>2, WidthType
<1>4. \A i \in d : i \in 0..Width
  BY WidthType DEF Lane
<1>5. \A i : Index!Rank(i, d) = RankIn(d, i)
  BY SameCardinality DEF Index!Rank, RankIn
<1>6. Index!Pext(term, d) = p
  <2>1. term \cap d = term
    OBVIOUS
  <2> QED BY <1>5, <2>1 DEF Index!Pext
<1>7. Index!Cardinality(d) = count
  BY SameCardinality
<1>8. /\ v.ok = (p = pattern) /\ v.phase = Index!PhaseAfter(before, count, p)
  BY <1>6, <1>7 DEF Index!VerifyPext, Index!ExpectedPattern
<1>9. p = pattern
  BY <1>1, <1>8
<1> HIDE DEF v, count
<1>10. ASSUME NEW i \in d
       PROVE  i \in term <=> (RankIn(d, i) + before) % n = n - 1
  <2>1. RankIn(d, i) \in 0..(count - 1)
    BY <1>2, <1>3, <1>4
  <2>2. RankIn(d, i) \in pattern <=> (RankIn(d, i) + before) % n = n - 1
    BY <2>1
  <2>3. RankIn(d, i) \in p <=> i \in term
    BY <1>2
  <2> HIDE DEF p, pattern
  <2> QED BY <1>9, <2>2, <2>3
<1>11. CASE p = {}
  <2>1. v.phase = before + count
    BY <1>8, <1>11 DEF Index!PhaseAfter
  <2>2. before + count = 0 * n + v.phase /\ 0 \in Int
    BY <1>3, <2>1
  <2>3. v.phase \in Nat
    BY <1>3, <2>1
  <2> QED BY <1>10, <2>2, <2>3 DEF Verified, v, count
<1>12. CASE p # {}
  <2>1. p \in SUBSET (0..(count - 1))
    BY <1>9
  <2>2. count - 1 \in Nat
    BY <1>3, <1>12, <2>1
  <2> HIDE DEF p
  <2>3. PICK t \in p : \A y \in p : y <= t
    BY <1>12, <2>1, <2>2, GreatestElement
  <2>4. t \in 0..(count - 1) /\ (t + before) % n = n - 1
    BY <1>9, <2>3
  <2> DEFINE behind == {k \in 0..(count - 1) : \A i \in p : i < k}
  <2>5. behind = (t + 1)..(count - 1)
    <3>1. \A y \in p : y \in Nat
      BY <2>1
    <3>2. ASSUME NEW k \in 0..(count - 1)
          PROVE  (\A i \in p : i < k) <=> t < k
      BY <2>3, <2>4, <3>1
    <3>3. \A k : k \in (t + 1)..(count - 1) <=> k \in 0..(count - 1) /\ t < k
      BY <1>3, <2>4
    <3> QED BY <3>2, <3>3
  <2>6. Cardinality(behind) = count - 1 - t
    <3> HIDE DEF behind
    <3>1. t + 1 \in Int /\ count - 1 \in Int
      BY <1>3, <2>4
    <3>2. Cardinality((t + 1)..(count - 1))
            = IF t + 1 > count - 1 THEN 0 ELSE (count - 1) - (t + 1) + 1
      BY <3>1, FS_Interval
    <3> QED BY <1>3, <2>4, <2>5, <3>2
  <2>7. v.phase = count - 1 - t
    <3>1. v.phase = Index!Cardinality(behind)
      BY <1>8, <1>12 DEF Index!PhaseAfter
    <3> HIDE DEF behind
    <3> QED BY <2>6, <3>1, SameCardinality
  <2> DEFINE y == t + before
  <2>8. y \in Nat /\ y % n = n - 1
    BY <2>4
  <2>9. PICK j0 \in Nat : y = j0 * n + (n - 1)
    <3> HIDE DEF y, v, p, behind
    <3>1. PICK j0 \in Nat : \E k \in 0..(n - 1) : y = j0 * n + k /\ y % n = k
      BY <2>8, Division
    <3> QED BY <2>8, <3>1
  <2>10. before + count = (y + 1) + v.phase
    BY <1>3, <2>4, <2>7
  <2>11. j0 + 1 \in Int /\ (j0 + 1) * n = y + 1
    <3> HIDE DEF y
    <3>1. (j0 + 1) * n = j0 * n + n
      OBVIOUS
    <3> QED BY <2>9, <3>1
  <2> HIDE DEF y
  <2>12. \E k \in Int : before + count = k * n + v.phase
    BY <2>10, <2>11
  <2>13. v.phase \in Nat
    BY <1>3, <2>4, <2>7
  <2> QED BY <1>10, <2>12, <2>13 DEF Verified, v, count
<1> QED BY <1>11, <1>12

-----------------------------------------------------------------------------
(* Fields that are begun and ended in step, with a record's end at every   *)
(* n-th: what a vector adds to them, lane by lane.                         *)
Tracks(c, bytes, b, e, s, p, before) ==
  /\ Woven(b, e, s, p) /\ Gaps(c, bytes, b, e, s, p)
  /\ before \in Nat /\ \E q \in Int : Complete(s, Len(e)) = q * c.field_count + before

Reads(c, bytes, base, K) ==
  \A i \in Lane : /\ ByteIs(c, bytes, base + i, K[i], K[i + 1])
                  /\ base + i < 0 => K[i] = "text"

LEMMA FrontAt ==
  ASSUME NEW c, NEW bytes, NEW sc, NEW K, Legible(sc, K), NEW base \in Int,
         Reads(c, bytes, base, K), base < 0 => StateOf(sc) = "field"
  PROVE  \A i \in Lane : InFront(StateAt(sc, K, i), K[i], base + i)
<1> DEFINE T == {i \in Lane : base + i < 0 /\ StateAt(sc, K, i) # "field"}
<1>1. ASSUME NEW x \in T, \A y \in T : x <= y  PROVE FALSE
  <2>1. x \in Lane /\ base + x < 0 /\ StateAt(sc, K, x) # "field" /\ x \in Nat
    BY LaneNext
  <2>2. CASE x = 0
    BY <2>1, <2>2, StatesFollow
  <2>3. CASE x # 0
    <3>1. x - 1 \in Lane /\ (x - 1) + 1 = x /\ base + (x - 1) < 0 /\ ~(x <= x - 1)
      BY <2>1, <2>3, LaneNext
    <3>2. StateAt(sc, K, x - 1) = "field"
      BY <1>1, <3>1
    <3>3. StateAt(sc, K, x) = After(StateAt(sc, K, x - 1), K[x - 1], K[x])
      BY <3>1, StatesFollow
    <3>4. K[x - 1] = "text"
      BY <3>1 DEF Reads
    <3> QED BY <2>1, <3>3, <3>4 DEF After
  <2> QED BY <2>2, <2>3
<1>2. T = {}
  <2>1. T \in SUBSET Nat
    BY WidthType DEF Lane
  <2> HIDE DEF T
  <2> QED BY <1>1, <2>1, LeastElement
<1> QED BY <1>2 DEF InFront, Reads

LEMMA GrownLanes ==
  ASSUME NEW F, NEW o, NEW mask, NEW base, GrowsBy(F, o, mask, base), NEW i \in Lane,
         NEW s, NEW kind
  PROVE  (i \in mask <=> Begins(s, kind)) => F[i + 1] = Grown(F[i], base + i, Begins(s, kind))
BY DEF GrowsBy, Grown

LEMMA GrownEnds ==
  ASSUME NEW F, NEW o, NEW mask, NEW base, GrowsBy(F, o, mask, base), NEW i \in Lane,
         NEW s, NEW kind, NEW next
  PROVE  (i \in mask <=> EndsField(s, kind, next))
           => F[i + 1] = Grown(F[i], base + i, EndsField(s, kind, next))
BY DEF GrowsBy, Grown

(* The verdict at a lane.                                                  *)
LEMMA CountedAt ==
  ASSUME NEW c, Dialect(c), NEW K, NEW i \in Lane, NEW before \in Nat,
         i \in BoundaryLanes(K) =>
           (i \in RunEndLanes(K)
              <=> (RankIn(BoundaryLanes(K), i) + before) % c.field_count = c.field_count - 1),
         NEW q \in Int, NEW done \in Int, done + 1 > 0,
         done = (q * c.field_count + before) + RankIn(BoundaryLanes(K), i)
  PROVE  Counted(c.field_count, done + 1, K[i], K[i + 1])
<1> DEFINE n == c.field_count
           y == RankIn(BoundaryLanes(K), i) + before
           here == Boundary(K[i], K[i + 1])
<1>1. n \in Nat \ {0} /\ y \in Nat
  <2>1. BoundaryLanes(K) \in SUBSET Lane
    BY DEF BoundaryLanes
  <2>2. RankIn(BoundaryLanes(K), i) \in Nat
    BY <2>1, RankOn, LaneNext
  <2> QED BY <2>2 DEF Dialect
<1>2. done + 1 = q * n + (y + 1)
  <2> DEFINE qn == q * n
  <2>1. qn \in Int
    BY <1>1
  <2>2. BoundaryLanes(K) \in SUBSET Lane
    BY DEF BoundaryLanes
  <2>3. RankIn(BoundaryLanes(K), i) \in Nat /\ done = (qn + before) + RankIn(BoundaryLanes(K), i)
    BY <2>2, RankOn, LaneNext
  <2> HIDE DEF qn
  <2> QED BY <2>1, <2>3 DEF qn
<1> HIDE DEF y
<1>3. PICK j \in Nat : \E k \in 0..(n - 1) : y = j * n + k /\ y % n = k
  BY <1>1, Division
<1>4. PICK k \in 0..(n - 1) : y = j * n + k /\ y % n = k
  BY <1>3
<1>5. Multiple(n, done + 1) <=> k = n - 1
  <2>1. (q + j) * n = q * n + j * n /\ q * n \in Int /\ j * n \in Int
    BY <1>1
  <2>2. done + 1 = (q + j) * n + (k + 1)
    BY <1>1, <1>2, <1>4, <2>1
  <2>3. ASSUME k = n - 1  PROVE Multiple(n, done + 1)
    <3>1. ((q + j) + 1) * n = (q + j) * n + n /\ q + j \in Int
      BY <1>1
    <3>2. done + 1 = ((q + j) + 1) * n
      BY <1>1, <2>1, <2>2, <2>3, <3>1
    <3>3. (q + j) + 1 \in Nat
      <4> DEFINE w == (q + j) + 1
      <4>1. w \in Int /\ w * n > 0
        BY <3>2
      <4> HIDE DEF w
      <4>2. w > 0
        BY <1>1, <4>1
      <4> QED BY <4>1, <4>2 DEF w
    <3> QED BY <3>2, <3>3 DEF Multiple
  <2>4. ASSUME Multiple(n, done + 1)  PROVE k = n - 1
    <3>1. PICK w \in Nat : done + 1 = w * n
      BY <2>4 DEF Multiple
    <3> DEFINE x == w - (q + j)
    <3>2. x * n = w * n - (q + j) * n /\ x \in Int
      BY <1>1
    <3>3. x * n = k + 1
      BY <2>1, <2>2, <3>1, <3>2
    <3> HIDE DEF x
    <3>4. x > 0 /\ ~(x >= 2)
      <4>1. k + 1 \in 1..n /\ n > 0
        BY <1>1
      <4>2. x >= 2 => x * n >= 2 * n
        BY <1>1, <3>2
      <4>3. x <= 0 => x * n <= 0
        BY <1>1, <3>2
      <4> QED BY <1>1, <3>2, <3>3, <4>1, <4>2, <4>3
    <3>5. x = 1
      BY <3>2, <3>4
    <3> QED BY <1>1, <3>3, <3>5
  <2> QED BY <2>3, <2>4
<1>6. here <=> i \in BoundaryLanes(K)
  BY DEF BoundaryLanes
<1>7. here => (K[i] = "term" <=> i \in RunEndLanes(K))
  BY DEF Boundary, RunEndLanes
<1>8. here => (i \in RunEndLanes(K) <=> y % n = n - 1)
  BY <1>6 DEF y
<1> QED BY <1>4, <1>5, <1>7, <1>8 DEF Counted

(* The fields as they are before a lane.                                   *)
TracksAt(c, bytes, b, e, s, p, done) ==
  Woven(b, e, s, p) /\ Gaps(c, bytes, b, e, s, p) /\ Complete(s, Len(e)) = done

LEMMA LaneRuns ==
  ASSUME NEW c, Dialect(c), NEW bytes, NEW K, NEW i \in Lane,
         NEW s, Fits(s, K[i]), K[i + 1] \in Kinds, NEW p \in Int, InFront(s, K[i], p),
         NEW b, NEW e, NEW x, NEW y,
         x = Grown(b, p, Begins(s, K[i])), y = Grown(e, p, EndsField(s, K[i], K[i + 1])),
         ByteIs(c, bytes, p, K[i], K[i + 1]),
         NEW before \in Nat, NEW q \in Int,
         i \in BoundaryLanes(K) =>
           (i \in RunEndLanes(K)
              <=> (RankIn(BoundaryLanes(K), i) + before) % c.field_count = c.field_count - 1),
         TracksAt(c, bytes, b, e, s, p,
                  (q * c.field_count + before) + RankIn(BoundaryLanes(K), i))
  PROVE  TracksAt(c, bytes, x, y, After(s, K[i], K[i + 1]), p + 1,
                  (q * c.field_count + before) + RankIn(BoundaryLanes(K), i + 1))
<1> DEFINE d == BoundaryLanes(K)
           done == (q * c.field_count + before) + RankIn(d, i)
           t == After(s, K[i], K[i + 1])
<1>1. Woven(b, e, s, p) /\ Gaps(c, bytes, b, e, s, p) /\ Complete(s, Len(e)) = done
  BY DEF TracksAt
<1>2. Len(e) \in Nat /\ (s \in {"closed", "run"} => Len(e) # 0)
  BY <1>1 DEF Woven
<1>3. done \in Int /\ done + 1 > 0
  BY <1>1, <1>2 DEF Complete
<1>4. Counted(c.field_count, done + 1, K[i], K[i + 1])
  BY <1>3, CountedAt
<1>5. c.quote \notin P!Terminators(c)
  BY DEF Dialect
<1>6. Complete(s, Len(e)) + 1 = done + 1
  BY <1>1
<1>7. Counted(c.field_count, Complete(s, Len(e)) + 1, K[i], K[i + 1])
  BY <1>4, <1>6
<1>8. Woven(x, y, t, p + 1)
  BY <1>1, WovenOn
<1>9. Gaps(c, bytes, x, y, t, p + 1)
  BY <1>1, <1>5, <1>7, GapsOn
<1>10. Complete(t, Len(y))
         = IF Boundary(K[i], K[i + 1]) THEN Complete(s, Len(e)) + 1 ELSE Complete(s, Len(e))
  BY <1>1, CompleteOn
<1>11. d \in SUBSET Lane
  BY DEF BoundaryLanes
<1>12. RankIn(d, i + 1) = RankIn(d, i) + IF i \in d THEN 1 ELSE 0
  BY <1>11, RankOn
<1>13. RankIn(d, i) \in Nat /\ q * c.field_count + before \in Int
  <2>1. c.field_count \in Nat
    BY DEF Dialect
  <2>2. q * c.field_count + before \in Int
    BY <2>1
  <2> QED BY <1>11, <2>2, RankOn, LaneNext
<1>14. i \in d <=> Boundary(K[i], K[i + 1])
  BY DEF BoundaryLanes
<1> HIDE DEF d, t
<1>15. Complete(t, Len(y)) = (q * c.field_count + before) + RankIn(d, i + 1)
  <2> DEFINE qn == q * c.field_count + before
  <2>1. qn \in Int
    BY <1>13
  <2>2. Complete(s, Len(e)) = qn + RankIn(d, i)
    BY <1>1
  <2> HIDE DEF qn
  <2>3. Complete(t, Len(y)) = qn + RankIn(d, i + 1)
    BY <1>10, <1>12, <1>13, <1>14, <2>1, <2>2
  <2> QED BY <2>3 DEF qn
<1> QED BY <1>8, <1>9, <1>15 DEF TracksAt, d, t

LEMMA VectorRuns ==
  ASSUME NEW c, Dialect(c), NEW bytes, NEW sc, NEW K, Legible(sc, K), NEW base \in Int,
         Reads(c, bytes, base, K), base < 0 => StateOf(sc) = "field",
         NEW b, NEW e, NEW before, Tracks(c, bytes, b, e, StateOf(sc), base, before),
         Index!VerifyPext(c.field_count, before, BoundaryLanes(K), RunEndLanes(K)).ok
  PROVE  Tracks(c, bytes, b \o Index!Offsets(BeginLanes(sc, K), base),
                e \o Index!Offsets(EndLanes(sc, K), base), StateAt(sc, K, Width), base + Width,
                Index!VerifyPext(c.field_count, before, BoundaryLanes(K), RunEndLanes(K)).phase)
<1> DEFINE n == c.field_count
           d == BoundaryLanes(K)
           v == Index!VerifyPext(n, before, d, RunEndLanes(K))
<1>1. /\ Woven(b, e, StateOf(sc), base) /\ Gaps(c, bytes, b, e, StateOf(sc), base)
      /\ before \in Nat /\ \E q \in Int : Complete(StateOf(sc), Len(e)) = q * n + before
  BY DEF Tracks
<1>2. PICK q \in Int : Complete(StateOf(sc), Len(e)) = q * n + before
  BY <1>1
<1>3. n \in Nat \ {0} /\ d \in SUBSET Lane /\ RunEndLanes(K) \in SUBSET d
  BY DEF Dialect, BoundaryLanes, RunEndLanes, Boundary
<1>4. /\ \A i \in d : i \in RunEndLanes(K) <=> (RankIn(d, i) + before) % n = n - 1
      /\ v.phase \in Nat
      /\ \E j \in Int : before + Cardinality(d) = j * n + v.phase
  <2>1. Verified(n, before, d, RunEndLanes(K), v.phase)
    BY <1>1, <1>3, Verdict
  <2> HIDE DEF v, d
  <2> QED BY <2>1 DEF Verified
<1> HIDE DEF v, d
<1>5. \A i \in Lane : InFront(StateAt(sc, K, i), K[i], base + i)
  BY FrontAt
<1>6. \A i \in Lane : base + i \in Int /\ (base + i) + 1 = base + (i + 1)
  BY LaneNext
<1>7. \A i \in BeginLanes(sc, K) : base + i \in Nat
  <2>1. ASSUME NEW i \in Lane, Begins(StateAt(sc, K, i), K[i])  PROVE base + i >= 0
    BY <1>5, <1>6, <2>1 DEF InFront, Begins, Fresh
  <2> QED BY <1>6, <2>1 DEF BeginLanes
<1>8. \A i \in EndLanes(sc, K) : base + i \in Nat
  <2>1. ASSUME NEW i \in Lane, EndsField(StateAt(sc, K, i), K[i], K[i + 1])  PROVE base + i >= 0
    BY <1>5, <1>6, <2>1 DEF InFront, EndsField
  <2> QED BY <1>6, <2>1 DEF EndLanes
<1>9. b \in Seq(Nat) /\ e \in Seq(Nat)
  BY <1>1 DEF Woven
<1>10. BeginLanes(sc, K) \in SUBSET Lane /\ EndLanes(sc, K) \in SUBSET Lane
  BY DEF BeginLanes, EndLanes
<1>11. PICK F : /\ GrowsBy(F, b, BeginLanes(sc, K), base)
                /\ F[Width] = b \o Index!Offsets(BeginLanes(sc, K), base)
  BY <1>7, <1>9, <1>10, OffsetsGrow
<1>12. PICK G : /\ GrowsBy(G, e, EndLanes(sc, K), base)
                /\ G[Width] = e \o Index!Offsets(EndLanes(sc, K), base)
  BY <1>8, <1>9, <1>10, OffsetsGrow
<1> DEFINE Here(i) == TracksAt(c, bytes, F[i], G[i], StateAt(sc, K, i), base + i,
                               (q * n + before) + RankIn(d, i))
           T == {i \in 0..Width : ~Here(i)}
<1>13. ASSUME NEW x \in T, \A y \in T : x <= y  PROVE FALSE
  <2>1. x \in 0..Width /\ ~Here(x)
    BY <1>13
  <2>2. CASE x = 0
    <3>1. F[0] = b /\ G[0] = e
      BY <1>11, <1>12 DEF GrowsBy
    <3>2. StateAt(sc, K, 0) = StateOf(sc) /\ base + 0 = base
      BY StatesFollow, WidthType DEF Lane
    <3>3. RankIn(d, 0) = 0 /\ (q * n + before) + 0 = q * n + before
      <4>1. q * n \in Int /\ before \in Int
        BY <1>1, <1>3
      <4>2. RankIn(d, 0) = 0
        BY <1>1, <1>3, RankOn
      <4> DEFINE product == q * n
      <4> HIDE DEF product
      <4>3. (product + before) + 0 = product + before
        BY <4>1 DEF product
      <4> QED BY <4>2, <4>3 DEF product
    <3>4. Here(0)
      BY <1>1, <1>2, <3>1, <3>2, <3>3 DEF TracksAt
    <3> QED BY <2>1, <2>2, <3>4
  <2>3. CASE x # 0
    <3> DEFINE i == x - 1
    <3>1. i \in Lane /\ i \in 0..Width /\ ~(x <= i) /\ i + 1 = x
      BY <2>1, <2>3, WidthType DEF Lane
    <3> HIDE DEF i
    <3>2. Here(i)
      BY <1>13, <3>1
    <3> DEFINE s == StateAt(sc, K, i)
               p == base + i
    <3>3. Fits(s, K[i]) /\ K[i + 1] \in Kinds /\ p \in Int /\ InFront(s, K[i], p)
      BY <1>5, <1>6, <2>1, <3>1, FitsAt DEF Legible
    <3>4. F[i + 1] = Grown(F[i], p, Begins(s, K[i]))
      <4>1. i \in BeginLanes(sc, K) <=> Begins(s, K[i])
        BY <3>1 DEF BeginLanes
      <4> QED BY <1>11, <3>1, <4>1, GrownLanes
    <3>5. G[i + 1] = Grown(G[i], p, EndsField(s, K[i], K[i + 1]))
      <4>1. i \in EndLanes(sc, K) <=> EndsField(s, K[i], K[i + 1])
        BY <3>1 DEF EndLanes
      <4> QED BY <1>12, <3>1, <4>1, GrownEnds
    <3>6. ByteIs(c, bytes, p, K[i], K[i + 1])
      BY <3>1 DEF Reads
    <3>7. i \in d => (i \in RunEndLanes(K) <=> (RankIn(d, i) + before) % n = n - 1)
      BY <1>4
    <3>8. TracksAt(c, bytes, F[i + 1], G[i + 1], After(s, K[i], K[i + 1]), p + 1,
                   (q * n + before) + RankIn(d, i + 1))
      <4>1. TracksAt(c, bytes, F[i], G[i], s, p, (q * n + before) + RankIn(d, i))
        BY <3>2
      <4> HIDE DEF s, p, Here, T
      <4> QED BY <1>1, <3>1, <3>3, <3>4, <3>5, <3>6, <3>7, <4>1, LaneRuns DEF d
    <3>9. After(s, K[i], K[i + 1]) = StateAt(sc, K, i + 1) /\ p + 1 = base + (i + 1)
      BY <1>6, <3>1, StatesFollow
    <3>10. Here(i + 1)
      <4> HIDE DEF s, p
      <4> QED BY <3>8, <3>9
    <3> QED BY <2>1, <3>1, <3>10
  <2> QED BY <2>2, <2>3
<1>14. Width \in 0..Width
  BY WidthType
<1>15. T = {}
  <2>1. T \in SUBSET Nat
    BY WidthType
  <2> HIDE DEF T
  <2> QED BY <1>13, <2>1, LeastElement
<1>16. Here(Width)
  BY <1>14, <1>15
<1> DEFINE bb == b \o Index!Offsets(BeginLanes(sc, K), base)
           ee == e \o Index!Offsets(EndLanes(sc, K), base)
           z == StateAt(sc, K, Width)
<1>17. TracksAt(c, bytes, bb, ee, z, base + Width, (q * n + before) + RankIn(d, Width))
  BY <1>11, <1>12, <1>16
<1> HIDE DEF bb, ee, z
<1>18. PICK j \in Int : before + Cardinality(d) = j * n + v.phase
  BY <1>4
<1>19. Complete(z, Len(ee)) = (q + j) * n + v.phase /\ q + j \in Int
  <2>1. RankIn(d, Width) = Cardinality(d) /\ Cardinality(d) \in Nat
    BY <1>3, <1>14, RankOn
  <2>2. Complete(z, Len(ee)) = (q * n + before) + Cardinality(d)
    BY <1>17, <2>1 DEF TracksAt
  <2>3. (q + j) * n = q * n + j * n /\ q * n \in Int /\ j * n \in Int
    BY <1>3
  <2> DEFINE qn == q * n
             jn == j * n
             sum == (q + j) * n
             count == Cardinality(d)
  <2>4. /\ sum = qn + jn /\ qn \in Int /\ jn \in Int /\ count \in Nat /\ before \in Nat
        /\ v.phase \in Nat /\ before + count = jn + v.phase
        /\ Complete(z, Len(ee)) = (qn + before) + count
    BY <1>1, <1>4, <1>18, <2>1, <2>2, <2>3
  <2> HIDE DEF qn, jn, sum, count
  <2>5. Complete(z, Len(ee)) = sum + v.phase
    BY <2>4
  <2> QED BY <2>5 DEF sum
<1>20. Woven(bb, ee, z, base + Width) /\ Gaps(c, bytes, bb, ee, z, base + Width)
  BY <1>17 DEF TracksAt
<1> QED BY <1>4, <1>19, <1>20 DEF Tracks, bb, ee, z, v, d

(* Where the offsets come from.                                            *)
LEMMA OffsetsAre ==
  ASSUME NEW o \in Seq(Nat), NEW mask \in SUBSET Lane, NEW base \in Int,
         \A i \in mask : base + i \in Nat
  PROVE  LET x == o \o Index!Offsets(mask, base)
         IN  /\ x \in Seq(Nat)
             /\ \A k \in 1..Len(x) : \/ \E j \in 1..Len(o) : x[k] = o[j]
                                     \/ \E i \in mask : x[k] = base + i
<1> DEFINE Good(x) == \A k \in 1..Len(x) : \/ \E j \in 1..Len(o) : x[k] = o[j]
                                           \/ \E i \in mask : x[k] = base + i
<1>1. PICK F : GrowsBy(F, o, mask, base) /\ F[Width] = o \o Index!Offsets(mask, base)
  BY OffsetsGrow
<1> DEFINE T == {i \in 0..Width : ~Good(F[i])}
<1>2. ASSUME NEW x \in T, \A y \in T : x <= y  PROVE FALSE
  <2>1. x \in 0..Width /\ ~Good(F[x])
    BY <1>2
  <2>2. Good(o)
    OBVIOUS
  <2>3. F[0] = o
    BY <1>1 DEF GrowsBy
  <2>4. x # 0
    BY <2>1, <2>2, <2>3
  <2> DEFINE i == x - 1
  <2>5. i \in Lane /\ i \in 0..Width /\ ~(x <= i) /\ i + 1 = x
    BY <2>1, <2>4, WidthType DEF Lane
  <2> HIDE DEF i
  <2>6. Good(F[i]) /\ F[i] \in Seq(Nat) /\ F[i + 1] \in Seq(Nat)
    <3>1. i \notin T
      <4> HIDE DEF T
      <4> QED BY <1>2, <2>5
    <3>2. F[i] \in Seq(Nat) /\ F[i + 1] \in Seq(Nat)
      <4> HIDE DEF T, Good
      <4> QED BY <1>1, <2>1, <2>5 DEF GrowsBy
    <3> HIDE DEF Good
    <3>3. Good(F[i])
      BY <2>5, <3>1
    <3> QED BY <3>2, <3>3
  <2>7. F[i + 1] = IF i \in mask THEN Append(F[i], base + i) ELSE F[i]
    BY <1>1, <2>5 DEF GrowsBy
  <2>8. CASE i \in mask
    <3>1. base + i \in Nat /\ F[i + 1] = Append(F[i], base + i)
      BY <2>7, <2>8
    <3>2. Grew(F[i], F[i + 1], base + i)
      BY <2>6, <3>1 DEF Grew
    <3>3. \A k \in 1..Len(F[i + 1]) : k \in 1..Len(F[i]) \/ k = Len(F[i]) + 1
      BY <2>6, <3>2 DEF Grew
    <3>4. ASSUME NEW k \in 1..Len(F[i + 1])
          PROVE  \/ \E j \in 1..Len(o) : F[i + 1][k] = o[j]
                 \/ \E a \in mask : F[i + 1][k] = base + a
      BY <2>6, <2>8, <3>2, <3>3 DEF Grew
    <3>5. Good(F[i + 1])
      BY <3>4
    <3> QED BY <2>1, <2>5, <3>5
  <2>9. CASE i \notin mask
    BY <2>1, <2>5, <2>6, <2>7, <2>9
  <2> QED BY <2>8, <2>9
<1>3. Width \in 0..Width
  BY WidthType
<1>4. T = {}
  <2>1. T \in SUBSET Nat
    BY WidthType
  <2> HIDE DEF T
  <2> QED BY <1>2, <2>1, LeastElement
<1>5. Good(F[Width]) /\ F[Width] \in Seq(Nat)
  <2> HIDE DEF Good
  <2> QED BY <1>1, <1>3, <1>4 DEF GrowsBy
<1> QED BY <1>1, <1>5

-----------------------------------------------------------------------------
(* The stepper for dialects with a quote.                                  *)
HeldVector(bytes, base) ==
  [i \in Lane |-> IF base + i >= 0 THEN bytes[base + i + 1] ELSE Masks!Pad]

(* A vector is held back, behind the carries of those before it.           *)
IndexHeld(c, sc, v) ==
  /\ ScannerShape(sc) /\ Carried(sc)
  /\ sc.pending = [structural |-> Index!MatchStructural(c, v), m |-> sc.pending.m]
  /\ sc.pending.m \in SUBSET Lane
  /\ PairedQuotes(Index!EqMask(v, c.quote), sc.pending.m)
  /\ sc.in_quotes <=> Width - 1 \in sc.pending.m
  /\ Fits(StateOf(sc), KindAt(c, v, sc.pending.m, 0))

LEMMA EqMaskIs ==
  ASSUME NEW v, NEW x
  PROVE  Index!EqMask(v, x) = {i \in Lane : v[i] = x}
BY DEF Index!EqMask, Index!Lanes, Lane, Width

LEMMA HeldLegible ==
  ASSUME NEW c, Dialect(c), NEW sc, NEW v, IndexHeld(c, sc, v), NEW w, NEW o,
         o = Index!InQuotes(Index!EqMask(w, c.quote), sc.in_quotes)
  PROVE  LET K == KindsOf(c, v, sc.pending.m, w, o)
         IN  /\ Legible(sc, K)
             /\ Shows(sc.pending, Index!Lookahead(Index!MatchStructural(c, w), o), K)
<1> DEFINE m == sc.pending.m
           K == KindsOf(c, v, m, w, o)
           s == Index!MatchStructural(c, v)
           t == Index!MatchStructural(c, w)
<1>1. /\ DelimLanes(K) = s.delim \ m /\ TermLanes(K) = s.term \ m
      /\ QuoteLanes(K) = s.quote /\ {i \in Lane : K[i] = "open"} = s.quote \cap m
      /\ 0 \in t.delim \ o <=> K[Width] = "delim"
      /\ 0 \in t.term \ o <=> K[Width] = "term"
      /\ \A i \in 0..Width : K[i] \in Kinds
  BY LanesOfKinds
<1>2. \A i \in Lane : i \in 0..Width /\ K[i] = KindAt(c, v, m, i)
  BY WidthType DEF Lane, KindsOf
<1>3. K[Width] = KindAt(c, w, o, 0) /\ 0 \in Lane
  BY WidthType DEF KindsOf, Lane
<1> HIDE DEF K
<1>4. sc.pending.structural = s
  BY DEF IndexHeld
<1>5. Shows(sc.pending, Index!Lookahead(t, o), K)
  <2>1. Index!Lookahead(t, o).delim = t.delim \ o /\ Index!Lookahead(t, o).term = t.term \ o
    BY DEF Index!Lookahead
  <2> HIDE DEF s, t
  <2> QED BY <1>1, <1>4, <2>1 DEF Shows
<1>6. ASSUME NEW i \in Lane  PROVE Paired(K[i], K[i + 1])
  <2>1. SUFFICES ASSUME K[i] \in {"delim", "term"}, K[i + 1] = "close"  PROVE FALSE
    BY DEF Paired
  <2>2. i \notin m
    BY <1>2, <2>1 DEF KindAt
  <2>3. CASE i = Width - 1
    <3>1. i + 1 = Width
      BY <2>3, WidthType
    <3>2. 0 \notin o /\ w[0] = c.quote
      BY <1>3, <2>1, <3>1 DEF KindAt
    <3>3. ~sc.in_quotes
      BY <2>2, <2>3 DEF IndexHeld
    <3> DEFINE quote == {j \in Lane : w[j] = c.quote}
    <3>4. quote \in SUBSET Lane /\ o = Index!InQuotes(quote, sc.in_quotes) /\ 0 \in quote
      BY <1>3, <3>2, EqMaskIs
    <3> HIDE DEF quote
    <3>5. ~sc.in_quotes => (0 \in o <=> 0 \in quote)
      BY <3>4, InQuotesPairs
    <3> QED BY <3>2, <3>3, <3>4, <3>5
  <2>4. CASE i # Width - 1
    <3>1. i + 1 \in Lane /\ i + 1 # 0 /\ (i + 1) - 1 = i
      BY <2>4, LaneNext
    <3>2. i + 1 \notin m /\ v[i + 1] = c.quote
      BY <1>2, <2>1, <3>1 DEF KindAt
    <3>3. i + 1 \in Index!EqMask(v, c.quote)
      BY <3>1, <3>2, EqMaskIs
    <3> QED BY <2>2, <3>1, <3>2, <3>3 DEF IndexHeld, PairedQuotes
  <2> QED BY <2>3, <2>4
<1>7. Fits(StateOf(sc), K[0]) /\ Carried(sc)
  BY <1>2, <1>3 DEF IndexHeld
<1> QED BY <1>1, <1>5, <1>6, <1>7 DEF Legible, K

(* The bytes of the vectors are those of the buffer.                       *)
LEMMA HeldReads ==
  ASSUME NEW c, Dialect(c), NEW sc, NEW bytes, NEW base \in Int, base + Width \in Nat,
         IndexHeld(c, sc, HeldVector(bytes, base)), NEW o,
         o = Index!InQuotes(Index!EqMask(HeldVector(bytes, base + Width), c.quote), sc.in_quotes)
  PROVE  Reads(c, bytes, base, KindsOf(c, HeldVector(bytes, base), sc.pending.m,
                                       HeldVector(bytes, base + Width), o))
<1> DEFINE m == sc.pending.m
           v == HeldVector(bytes, base)
           w == HeldVector(bytes, base + Width)
           K == KindsOf(c, v, m, w, o)
<1>1. \A i \in Lane : i \in Int /\ i \in 0..Width /\ K[i] = KindAt(c, v, m, i)
                      /\ v[i] = IF base + i >= 0 THEN bytes[base + i + 1] ELSE Masks!Pad
  BY WidthType DEF Lane, KindsOf, HeldVector
<1>2. K[Width] = KindAt(c, w, o, 0) /\ 0 \in Lane /\ w[0] = bytes[base + Width + 1]
  BY WidthType DEF KindsOf, Lane, HeldVector
<1>3. PairedQuotes(Index!EqMask(v, c.quote), m)
  BY DEF IndexHeld
<1>4. sc.in_quotes <=> Width - 1 \in m
  BY DEF IndexHeld
<1> HIDE DEF K, v, w
<1>5. ASSUME NEW i \in Lane, base + i < 0  PROVE K[i] = "text"
  <2>1. v[i] = Masks!Pad
    BY <1>1, <1>5
  <2> QED BY <1>1, <2>1 DEF KindAt, Dialect
<1>6. ASSUME NEW i \in Lane, base + i >= 0  PROVE ByteIs(c, bytes, base + i, K[i], K[i + 1])
  <2>1. v[i] = bytes[(base + i) + 1] /\ K[i] = KindAt(c, v, m, i)
    BY <1>1, <1>6
  <2>2. K[i] = "term" => TermAt(c, bytes, base + i)
    BY <2>1 DEF KindAt, TermAt
  <2>3. K[i] \in {"open", "close"} => QuoteAt(c, bytes, base + i)
    BY <2>1 DEF KindAt, QuoteAt
  <2>4. ASSUME K[i] = "term", K[i + 1] # "term"  PROVE ~TermAt(c, bytes, (base + i) + 1)
    <3>1. i \notin m
      BY <2>1, <2>4 DEF KindAt
    <3>2. CASE i = Width - 1
      <4>1. i + 1 = Width /\ (base + i) + 2 = base + Width + 1 /\ ((base + i) + 1) + 1 = (base + i) + 2
        BY <3>2, WidthType
      <4> DEFINE quote == {j \in Lane : w[j] = c.quote}
      <4>2. quote \in SUBSET Lane /\ o = Index!InQuotes(quote, sc.in_quotes)
        BY EqMaskIs DEF w
      <4>3. 0 \in quote <=> w[0] = c.quote
        BY <1>2
      <4> HIDE DEF quote
      <4>4. ~sc.in_quotes => (0 \in o <=> 0 \in quote)
        BY <4>2, InQuotesPairs
      <4>5. 0 \in o => w[0] = c.quote
        BY <1>4, <3>1, <3>2, <4>3, <4>4
      <4>6. KindAt(c, w, o, 0) # "term"
        BY <1>2, <2>4, <4>1
      <4>7. w[0] \notin P!Terminators(c)
        BY <4>5, <4>6 DEF KindAt, Dialect
      <4> QED BY <1>2, <4>1, <4>7 DEF TermAt
    <3>3. CASE i # Width - 1
      <4>1. i + 1 \in Lane /\ i + 1 # 0 /\ (i + 1) - 1 = i /\ base + (i + 1) >= 0
            /\ base + (i + 1) = (base + i) + 1
        BY <1>1, <1>6, <3>3, LaneNext
      <4>2. v[i + 1] = bytes[((base + i) + 1) + 1] /\ K[i + 1] = KindAt(c, v, m, i + 1)
        BY <1>1, <4>1
      <4>3. i + 1 \in m => v[i + 1] = c.quote
        BY <1>3, <3>1, <4>1, EqMaskIs DEF PairedQuotes
      <4>4. v[i + 1] \notin P!Terminators(c)
        BY <2>4, <4>2, <4>3 DEF KindAt, Dialect
      <4> QED BY <4>2, <4>4 DEF TermAt
    <3> QED BY <3>2, <3>3
  <2> QED BY <2>2, <2>3, <2>4 DEF ByteIs
<1>7. \A i \in Lane : base + i \in Int
  BY <1>1
<1>8. \A i \in Lane : base + i < 0 => ByteIs(c, bytes, base + i, K[i], K[i + 1])
  BY <1>7 DEF ByteIs
<1>9. \A i \in Lane : base + i < 0 \/ base + i >= 0
  BY <1>7
<1> QED BY <1>5, <1>6, <1>8, <1>9 DEF Reads, K, v, w

IndexShape(s) ==
  s = [scanner |-> s.scanner, phase |-> s.phase,
       needs_align_prologue |-> s.needs_align_prologue,
       b_offs |-> s.b_offs, e_offs |-> s.e_offs, r_offs |-> s.r_offs,
       record_buf_start |-> s.record_buf_start, last_record_end |-> s.last_record_end]

(* Nothing of the record in flight lies in front of where it starts, and   *)
(* the bytes to go are quotes.                                             *)
IndexBehind(c, s, bytes, base) ==
  /\ s.record_buf_start = 0 \/ s.record_buf_start <= base
  /\ \A k \in 1..Len(s.b_offs) : s.record_buf_start <= s.b_offs[k]
  /\ Within(s.r_offs, s.record_buf_start, base)
  /\ \A k \in 1..Len(s.r_offs) : QuoteAt(c, bytes, s.r_offs[k])

IndexReady(c, s, bytes, base) ==
  /\ IndexHeld(c, s.scanner, HeldVector(bytes, base))
  /\ Tracks(c, bytes, s.b_offs, s.e_offs, StateOf(s.scanner), base, s.phase)
  /\ base < 0 => StateOf(s.scanner) = "field"
  /\ IndexBehind(c, s, bytes, base)

IndexFresh(s, p) ==
  /\ p = 0 /\ s.scanner = Index!NewScanner /\ s.phase = 0
  /\ s.b_offs = <<0>> /\ s.e_offs = <<>> /\ s.r_offs = <<>> /\ s.record_buf_start = 0

IndexInv(c, s, bytes, p) ==
  /\ IndexShape(s) /\ s.record_buf_start \in Nat /\ p \in Nat
  /\ IF s.scanner.pending = Index!NoVector THEN IndexFresh(s, p)
     ELSE IndexReady(c, s, bytes, p - Width)

LEMMA NeverNoPending ==
  ASSUME NEW a, NEW m
  PROVE  [structural |-> a, m |-> m] # Index!NoVector
BY DEF Index!NoVector

LEMMA ResolveShape ==
  ASSUME NEW c, NEW sc, NEW prev, NEW next
  PROVE  LET res == Index!Resolve(c, sc, prev, next)
         IN  res = [out |-> res.out, scanner |-> res.scanner]
BY DEF Index!Resolve, Index!ResolveQuoted, Index!ResolveUnquoted

(* What a step of the scanner holds back.                                  *)
LEMMA StepHolds ==
  ASSUME NEW c, Dialect(c), NEW sc, ScannerShape(sc), Carried(sc), NEW w, NEW old,
         ScannerShape(old), NEW out,
         NEW o, o = Index!InQuotes(Index!EqMask(w, c.quote), old.in_quotes),
         Fits(StateOf(sc), KindAt(c, w, o, 0))
  PROVE  LET y == Index!Held([out |-> out, scanner |-> sc], Index!MatchStructural(c, w), o)
         IN  /\ y = [out |-> out, scanner |-> y.scanner]
             /\ IndexHeld(c, y.scanner, w)
             /\ StateOf(y.scanner) = StateOf(sc)
             /\ y.scanner.pending # Index!NoVector
<1> DEFINE t == Index!MatchStructural(c, w)
           y == Index!Held([out |-> out, scanner |-> sc], t, o)
           z == [sc EXCEPT !.pending = [structural |-> t, m |-> o], !.in_quotes = Index!Msb(o)]
<1> HIDE DEF t
<1>1. y = [out |-> out, scanner |-> z]
  BY DEF Index!Held
<1>2. /\ z.pending = [structural |-> t, m |-> o] /\ z.in_quotes = Index!Msb(o)
      /\ z.begins = sc.begins /\ z.ends = sc.ends /\ z.prev_term = sc.prev_term
      /\ ScannerShape(z)
  <2> DEFINE k == [structural |-> t, m |-> o]
             q == Index!Msb(o)
  <2>1. z = [sc EXCEPT !.pending = k, !.in_quotes = q]
    OBVIOUS
  <2> HIDE DEF k, q, z
  <2>2. /\ z.pending = k /\ z.in_quotes = q
        /\ z.begins = sc.begins /\ z.ends = sc.ends /\ z.prev_term = sc.prev_term
        /\ ScannerShape(z)
    BY <2>1 DEF ScannerShape
  <2> QED BY <2>2 DEF k, q
<1> DEFINE quote == {j \in Lane : w[j] = c.quote}
<1>3. Index!EqMask(w, c.quote) = quote /\ quote \in SUBSET Lane
  BY EqMaskIs
<1> HIDE DEF quote, z
<1>4. o \in SUBSET Lane /\ PairedQuotes(quote, o)
  BY <1>3, InQuotesPairs
<1>5. z.in_quotes <=> Width - 1 \in o
  BY <1>2 DEF Index!Msb, Width
<1>6. StateOf(z) = StateOf(sc) /\ Carried(z)
  BY <1>2 DEF StateOf, Carried
<1>7. z.pending.m = o /\ z.pending # Index!NoVector
  BY <1>2, NeverNoPending
<1>8. IndexHeld(c, z, w)
  BY <1>2, <1>3, <1>4, <1>5, <1>6, <1>7 DEF IndexHeld, t
<1> QED BY <1>1, <1>6, <1>7, <1>8 DEF t

(* The first vector.                                                       *)
LEMMA IndexBegins ==
  ASSUME NEW c, Dialect(c), NEW s, NEW p \in Nat, NEW bytes, IndexInv(c, s, bytes, p),
         s.scanner.pending = Index!NoVector,
         NEW q \in Int, q <= 0, q + Width \in Nat, NEW cursor
  PROVE  LET x == Index!ScanVector(c, s, HeldVector(bytes, q), cursor)
         IN  /\ x.ok /\ IndexInv(c, x.st, bytes, q + Width)
             /\ x.st.scanner.pending # Index!NoVector
<1> DEFINE w == HeldVector(bytes, q)
           sc == s.scanner
           o == Index!InQuotes(Index!EqMask(w, c.quote), sc.in_quotes)
           y == Index!Held([out |-> Index!NoVector, scanner |-> sc],
                           Index!MatchStructural(c, w), o)
           x == Index!ScanVector(c, s, w, cursor)
<1>1. /\ IndexShape(s) /\ sc = Index!NewScanner /\ s.phase = 0 /\ s.b_offs = <<0>>
      /\ s.e_offs = <<>> /\ s.r_offs = <<>> /\ s.record_buf_start = 0
  BY DEF IndexInv, IndexFresh
<1>2. ScannerShape(sc) /\ Carried(sc) /\ StateOf(sc) = "field"
  BY <1>1 DEF Index!NewScanner, ScannerShape, Carried, StateOf
<1>3. Index!ScannerStep(c, sc, w) = y
  <2>1. Index!EqMask(w, c.quote) = Index!MatchStructural(c, w).quote
    BY DEF Index!MatchStructural
  <2> QED BY <2>1 DEF Index!ScannerStep, Index!Release
<1>4. Fits(StateOf(sc), KindAt(c, w, o, 0))
  <2>1. KindAt(c, w, o, 0) \in Kinds
    BY DEF KindAt, Kinds
  <2> QED BY <1>2, <2>1 DEF Fits, States, Fresh
<1> HIDE DEF w
<1>5. /\ y = [out |-> Index!NoVector, scanner |-> y.scanner]
      /\ IndexHeld(c, y.scanner, w) /\ StateOf(y.scanner) = "field"
      /\ y.scanner.pending # Index!NoVector
  BY <1>2, <1>4, StepHolds
<1>6. x = Index!Publish(c, s, y, cursor - VectorBytes)
  BY <1>3 DEF Index!ScanVector
<1> HIDE DEF y, o, sc
<1>7. x = [ok |-> TRUE, st |-> [s EXCEPT !.scanner = y.scanner]]
  <2>1. y.out = Index!NoVector
    BY <1>5
  <2> QED BY <1>6, <2>1 DEF Index!Publish
<1> HIDE DEF x
<1>8. /\ x.st.scanner = y.scanner /\ x.st.phase = 0 /\ x.st.b_offs = <<0>>
      /\ x.st.e_offs = <<>> /\ x.st.r_offs = <<>> /\ x.st.record_buf_start = 0
      /\ IndexShape(x.st) /\ x.ok
  BY <1>1, <1>7 DEF IndexShape
<1>9. Tracks(c, bytes, <<0>>, <<>>, "field", q, 0)
  <2>1. Woven(<<0>>, <<>>, "field", q)
    BY DEF Woven
  <2>2. Gaps(c, bytes, <<0>>, <<>>, "field", q)
    BY DEF Gaps, Apart
  <2>3. Complete("field", Len(<<>>)) = 0 * c.field_count + 0
    BY DEF Complete, Dialect
  <2> QED BY <2>1, <2>2, <2>3 DEF Tracks
<1>10. IndexBehind(c, x.st, bytes, q)
  <2>1. Within(<<>>, 0, q)
    BY DEF Within, Ascending
  <2>2. \A k \in 1..Len(<<0>>) : 0 <= <<0>>[k]
    OBVIOUS
  <2>3. \A k \in 1..Len(<<>>) : FALSE
    OBVIOUS
  <2> QED BY <1>8, <2>1, <2>2, <2>3 DEF IndexBehind
<1>11. IndexReady(c, x.st, bytes, q)
  BY <1>5, <1>8, <1>9, <1>10 DEF IndexReady, w
<1>12. (q + Width) - Width = q
  BY WidthType
<1> QED BY <1>5, <1>8, <1>11, <1>12 DEF IndexInv, x, w

(* The offsets of a vector join those before it.                           *)
LEMMA BehindGrows ==
  ASSUME NEW c, NEW bytes, NEW base \in Int, NEW start \in Nat, start = 0 \/ start <= base,
         NEW o \in Seq(Nat), \A k \in 1..Len(o) : start <= o[k],
         NEW mask \in SUBSET Lane, \A i \in mask : base + i \in Nat
  PROVE  LET x == o \o Index!Offsets(mask, base)
         IN  \A k \in 1..Len(x) : start <= x[k]
<1> DEFINE x == o \o Index!Offsets(mask, base)
<1>1. \A k \in 1..Len(x) : \/ \E j \in 1..Len(o) : x[k] = o[j]
                           \/ \E i \in mask : x[k] = base + i
  BY OffsetsAre
<1>2. \A i \in mask : start <= base + i
  <2>1. \A i \in mask : i \in Nat
    BY WidthType DEF Lane
  <2> QED BY <2>1
<1> HIDE DEF x
<1>3. \A k \in 1..Len(x) : start <= x[k]
  BY <1>1, <1>2
<1> QED BY <1>3 DEF x

LEMMA RemovedGrow ==
  ASSUME NEW c, NEW bytes, NEW base \in Int, NEW start \in Nat, start = 0 \/ start <= base,
         NEW o, Within(o, start, base), \A k \in 1..Len(o) : QuoteAt(c, bytes, o[k]),
         NEW mask \in SUBSET Lane, \A i \in mask : base + i \in Nat /\ QuoteAt(c, bytes, base + i)
  PROVE  LET x == o \o Index!Offsets(mask, base)
         IN  Within(x, start, base + Width) /\ \A k \in 1..Len(x) : QuoteAt(c, bytes, x[k])
<1> DEFINE x == o \o Index!Offsets(mask, base)
<1>1. \A i \in mask : base + i \in Nat /\ start <= base + i
  <2>1. \A i \in mask : i \in Nat
    BY WidthType DEF Lane
  <2> QED BY <2>1
<1>2. Within(x, start, base + Width)
  BY <1>1, OffsetsWithin
<1>3. o \in Seq(Nat)
  BY DEF Within
<1>4. \A k \in 1..Len(x) : \/ \E j \in 1..Len(o) : x[k] = o[j]
                           \/ \E i \in mask : x[k] = base + i
  BY <1>1, <1>3, OffsetsAre
<1> HIDE DEF x
<1>5. \A k \in 1..Len(x) : QuoteAt(c, bytes, x[k])
  BY <1>4
<1> QED BY <1>2, <1>5 DEF x

(* A vector behind one that was held back.                                 *)
LEMMA IndexFollows ==
  ASSUME NEW c, Dialect(c), NEW s, NEW p \in Nat, NEW bytes, IndexInv(c, s, bytes, p),
         s.scanner.pending # Index!NoVector,
         Index!ScanVector(c, s, HeldVector(bytes, p), p).ok
  PROVE  LET x == Index!ScanVector(c, s, HeldVector(bytes, p), p)
         IN  /\ IndexInv(c, x.st, bytes, p + Width)
             /\ x.st.scanner.pending # Index!NoVector
<1> DEFINE base == p - Width
           v == HeldVector(bytes, base)
           w == HeldVector(bytes, p)
           sc == s.scanner
           o == Index!InQuotes(Index!EqMask(w, c.quote), sc.in_quotes)
           t == Index!MatchStructural(c, w)
           next == Index!Lookahead(t, o)
           K == KindsOf(c, v, sc.pending.m, w, o)
           res == Index!Resolve(c, sc, sc.pending, next)
           y == Index!Held(res, t, o)
           x == Index!ScanVector(c, s, w, p)
<1>1. /\ IndexShape(s) /\ s.record_buf_start \in Nat
      /\ IndexHeld(c, sc, v)
      /\ Tracks(c, bytes, s.b_offs, s.e_offs, StateOf(sc), base, s.phase)
      /\ base < 0 => StateOf(sc) = "field"
      /\ IndexBehind(c, s, bytes, base)
  BY DEF IndexInv, IndexReady
<1>2. base \in Int /\ base + Width = p
  BY WidthType
<1>3. ScannerShape(sc)
  BY <1>1 DEF IndexHeld
<1> HIDE DEF v, base
<1>4. Legible(sc, K) /\ Shows(sc.pending, next, K)
  BY <1>1, HeldLegible
<1>5. Reads(c, bytes, base, K)
  <2>1. base + Width \in Nat /\ w = HeldVector(bytes, base + Width)
    BY <1>2
  <2> QED BY <1>1, <1>2, <2>1, HeldReads DEF v
<1>6. K[Width] = KindAt(c, w, o, 0)
  BY WidthType DEF KindsOf
<1>7. Index!ScannerStep(c, sc, w) = y
  <2>1. Index!EqMask(w, c.quote) = t.quote
    BY DEF Index!MatchStructural
  <2>2. o = Index!InQuotes(t.quote, sc.in_quotes)
    BY <2>1
  <2>3. Index!Release(c, sc, next) = res
    BY DEF Index!Release
  <2> HIDE DEF t, res, next
  <2>4. Index!ScannerStep(c, sc, w)
          = Index!Held(Index!Release(c, sc, Index!Lookahead(t, Index!InQuotes(t.quote, sc.in_quotes))),
                       t, Index!InQuotes(t.quote, sc.in_quotes))
    BY DEF Index!ScannerStep, t
  <2> QED BY <2>2, <2>3, <2>4 DEF next
<1> HIDE DEF K, next
<1>8. Resolved(sc, K, res) /\ ScannerShape(res.scanner) /\ res.out # Index!NoVector
  BY <1>3, <1>4, Resolves
<1>9. res = [out |-> res.out, scanner |-> res.scanner]
  BY ResolveShape
<1> HIDE DEF res
<1>10. StateOf(res.scanner) = StateAt(sc, K, Width) /\ Carried(res.scanner)
  BY <1>4, <1>8, ResolvedState
<1>11. Fits(StateOf(res.scanner), KindAt(c, w, o, 0))
  <2>1. Width \in 0..Width
    BY WidthType
  <2> QED BY <1>4, <1>6, <1>10, <2>1, FitsAt
<1>12. /\ y = [out |-> res.out, scanner |-> y.scanner]
       /\ IndexHeld(c, y.scanner, w)
       /\ StateOf(y.scanner) = StateAt(sc, K, Width)
       /\ y.scanner.pending # Index!NoVector
  <2> HIDE DEF w
  <2>1. LET z == Index!Held([out |-> res.out, scanner |-> res.scanner],
                            Index!MatchStructural(c, w), o)
        IN  /\ z = [out |-> res.out, scanner |-> z.scanner]
            /\ IndexHeld(c, z.scanner, w)
            /\ StateOf(z.scanner) = StateOf(res.scanner)
            /\ z.scanner.pending # Index!NoVector
    BY <1>3, <1>8, <1>10, <1>11, StepHolds
  <2> QED BY <1>9, <1>10, <2>1
<1> HIDE DEF o, w, t, y
<1> DEFINE verdict == Index!VerifyPext(c.field_count, s.phase, BoundaryLanes(K), RunEndLanes(K))
           b == s.b_offs \o Index!Offsets(BeginLanes(sc, K), base)
           e == s.e_offs \o Index!Offsets(EndLanes(sc, K), base)
           r == s.r_offs \o Index!Offsets(res.out.r, base)
<1>13. x = [ok |-> verdict.ok,
            st |-> [s EXCEPT !.scanner = y.scanner, !.phase = verdict.phase,
                             !.b_offs = b, !.e_offs = e, !.r_offs = r]]
  <2>1. x = Index!Publish(c, s, y, base)
    BY <1>7 DEF Index!ScanVector, base, Width
  <2>2. y.out = res.out /\ res.out # Index!NoVector
    BY <1>8, <1>12
  <2>3. /\ res.out.b = BeginLanes(sc, K) /\ res.out.e = EndLanes(sc, K)
        /\ res.out.d_struct = BoundaryLanes(K) /\ res.out.term = RunEndLanes(K)
    BY <1>8 DEF Resolved
  <2> HIDE DEF x
  <2> QED BY <2>1, <2>2, <2>3 DEF Index!Publish
<1>14. verdict.ok
  <2>1. x.ok
    BY DEF w
  <2> HIDE DEF x, verdict, b, e, r
  <2> QED BY <1>13, <2>1
<1>15. Tracks(c, bytes, b, e, StateAt(sc, K, Width), base + Width, verdict.phase)
  BY <1>1, <1>2, <1>4, <1>5, <1>14, VectorRuns
<1>16. res.out.r \in SUBSET Lane /\ \A i \in res.out.r : base + i \in Nat /\ QuoteAt(c, bytes, base + i)
  <2>1. res.out.r \in SUBSET QuoteLanes(K)
    BY <1>8 DEF Resolved
  <2>2. ASSUME NEW i \in QuoteLanes(K)
        PROVE  i \in Lane /\ base + i \in Nat /\ QuoteAt(c, bytes, base + i)
    <3>1. i \in Lane /\ K[i] \in {"open", "close"} /\ i \in Nat
      BY LaneNext DEF QuoteLanes
    <3>2. base + i >= 0
      BY <1>2, <1>5, <3>1 DEF Reads
    <3>3. ByteIs(c, bytes, base + i, K[i], K[i + 1])
      BY <1>5, <3>1 DEF Reads
    <3> QED BY <1>2, <3>1, <3>2, <3>3 DEF ByteIs
  <2> QED BY <2>1, <2>2
<1>17. s.record_buf_start = 0 \/ s.record_buf_start <= base
  BY <1>1 DEF IndexBehind
<1>18. Within(r, s.record_buf_start, p) /\ \A k \in 1..Len(r) : QuoteAt(c, bytes, r[k])
  <2>1. Within(s.r_offs, s.record_buf_start, base)
        /\ \A k \in 1..Len(s.r_offs) : QuoteAt(c, bytes, s.r_offs[k])
    BY <1>1 DEF IndexBehind
  <2> QED BY <1>1, <1>2, <1>16, <1>17, <2>1, RemovedGrow
<1>19. \A k \in 1..Len(b) : s.record_buf_start <= b[k]
  <2>1. \A i \in Lane : InFront(StateAt(sc, K, i), K[i], base + i)
    BY <1>1, <1>2, <1>4, <1>5, FrontAt
  <2>2. ASSUME NEW i \in Lane, Begins(StateAt(sc, K, i), K[i])  PROVE base + i \in Nat
    <3>1. base + i \in Int
      BY <1>2, LaneNext
    <3>2. base + i >= 0
      BY <2>1, <2>2, <3>1 DEF InFront, Begins, Fresh
    <3> QED BY <3>1, <3>2
  <2>3. BeginLanes(sc, K) \in SUBSET Lane /\ \A i \in BeginLanes(sc, K) : base + i \in Nat
    BY <2>2 DEF BeginLanes
  <2>4. s.b_offs \in Seq(Nat)
    BY <1>1 DEF Tracks, Woven
  <2>5. \A k \in 1..Len(s.b_offs) : s.record_buf_start <= s.b_offs[k]
    BY <1>1 DEF IndexBehind
  <2> QED BY <1>1, <1>2, <1>17, <2>3, <2>4, <2>5, BehindGrows
<1> HIDE DEF x, verdict, b, e, r, sc
<1>20. x.st = [s EXCEPT !.scanner = y.scanner, !.phase = verdict.phase,
                        !.b_offs = b, !.e_offs = e, !.r_offs = r]
  BY <1>13
<1>21. /\ x.st.scanner = y.scanner /\ x.st.phase = verdict.phase
       /\ x.st.b_offs = b /\ x.st.e_offs = e /\ x.st.r_offs = r
       /\ x.st.record_buf_start = s.record_buf_start /\ IndexShape(x.st)
  <2>1. IndexShape(s)
    BY <1>1
  <2> QED BY <1>20, <2>1, ZenonT(30) DEF IndexShape
<1>22. s.record_buf_start = 0 \/ s.record_buf_start <= p
  BY <1>1, <1>2, <1>17, WidthType
<1>23. IndexBehind(c, x.st, bytes, p)
  BY <1>18, <1>19, <1>21, <1>22 DEF IndexBehind
<1>24. Tracks(c, bytes, b, e, StateOf(y.scanner), p, verdict.phase)
  BY <1>2, <1>12, <1>15
<1>25. ~(p < 0)
  OBVIOUS
<1>26. IndexReady(c, x.st, bytes, p)
  BY <1>12, <1>21, <1>23, <1>24, <1>25 DEF IndexReady, w
<1>27. p + Width \in Nat /\ (p + Width) - Width = p
  BY WidthType
<1> QED BY <1>1, <1>12, <1>21, <1>26, <1>27 DEF IndexInv, x, w

LEMMA IndexScans ==
  ASSUME NEW c, Dialect(c), NEW s, NEW p \in Nat, NEW bytes, IndexInv(c, s, bytes, p),
         NEW q \in Int, NEW cursor,
         IF s.scanner.pending = Index!NoVector THEN q <= 0 ELSE q = p /\ cursor = p,
         q + Width \in Nat
  PROVE  LET x == Index!ScanVector(c, s, HeldVector(bytes, q), cursor)
         IN  /\ s.scanner.pending = Index!NoVector => x.ok
             /\ x.ok => /\ IndexInv(c, x.st, bytes, q + Width)
                        /\ x.st.scanner.pending # Index!NoVector
<1>1. CASE s.scanner.pending = Index!NoVector
  BY <1>1, IndexBegins
<1>2. CASE s.scanner.pending # Index!NoVector
  BY <1>2, IndexFollows
<1> QED BY <1>1, <1>2

-----------------------------------------------------------------------------
(* Other bytes that are the same from `lo` to before `hi`, `n` bytes        *)
(* further to the front.                                                   *)
Moves(bytes, other, n, lo, hi) ==
  \A q \in Int : lo <= q /\ q < hi => other[(q - n) + 1] = bytes[q + 1]

LEMMA ByteMoves ==
  ASSUME NEW c, NEW bytes, NEW other, NEW n \in Nat, NEW lo \in Int, NEW hi \in Int,
         Moves(bytes, other, n, lo, hi), NEW q \in Int, lo <= q, q < hi
  PROVE  /\ TermAt(c, other, q - n) <=> TermAt(c, bytes, q)
         /\ QuoteAt(c, other, q - n) <=> QuoteAt(c, bytes, q)
<1>1. other[(q - n) + 1] = bytes[q + 1]
  BY DEF Moves
<1> QED BY <1>1 DEF TermAt, QuoteAt

LEMMA RunMoves ==
  ASSUME NEW c, NEW bytes, NEW other, NEW n \in Nat, NEW lo \in Int, NEW hi \in Int,
         Moves(bytes, other, n, lo, hi), NEW end \in Int, lo <= end, NEW to \in Int, to < hi,
         RunFrom(c, bytes, end, to)
  PROVE  RunFrom(c, other, end - n, to - n)
<1>1. PICK start \in {end, end + 1} :
        /\ start <= to /\ \A p \in start..to : TermAt(c, bytes, p)
        /\ start = end + 1 => QuoteAt(c, bytes, end)
  BY DEF RunFrom
<1>2. start \in Int /\ start - n \in {end - n, (end - n) + 1} /\ start - n <= to - n
      /\ (start - n = (end - n) + 1 => start = end + 1)
  BY <1>1
<1>3. ASSUME NEW p \in (start - n)..(to - n)  PROVE TermAt(c, other, p)
  <2>1. p + n \in start..to /\ p + n \in Int /\ (p + n) - n = p /\ lo <= p + n /\ p + n < hi
    BY <1>1, <1>2
  <2>2. TermAt(c, bytes, p + n)
    BY <1>1, <2>1
  <2>3. TermAt(c, other, (p + n) - n)
    BY <2>1, <2>2, ByteMoves
  <2> QED BY <2>1, <2>3
<1>4. start = end + 1 => QuoteAt(c, other, end - n)
  <2>1. start = end + 1 => end < hi
    BY <1>1
  <2> QED BY <1>1, <2>1, ByteMoves
<1> QED BY <1>2, <1>3, <1>4 DEF RunFrom

LEMMA GapMoves ==
  ASSUME NEW c, NEW bytes, NEW other, NEW n \in Nat, NEW lo \in Int, n <= lo, NEW hi \in Int,
         Moves(bytes, other, n, lo, hi), NEW end \in Int, lo <= end, NEW begin \in Int, begin < hi,
         RecordGap(c, bytes, end, begin)
  PROVE  RecordGap(c, other, end - n, begin - n)
<1>1. PICK to \in Nat : to < begin /\ RunFrom(c, bytes, end, to) /\ ~TermAt(c, bytes, to + 1)
  BY DEF RecordGap
<1>2. end <= to
  BY <1>1 DEF RunFrom
<1>3. to - n \in Nat /\ to - n < begin - n /\ to < hi /\ to + 1 < hi /\ lo <= to + 1
      /\ to + 1 \in Int /\ (to + 1) - n = (to - n) + 1
  BY <1>1, <1>2
<1>4. RunFrom(c, other, end - n, to - n)
  <2>1. to \in Int
    OBVIOUS
  <2> QED BY <1>1, <1>3, <2>1, RunMoves
<1>5. ~TermAt(c, other, (to - n) + 1)
  <2>1. ~TermAt(c, other, (to + 1) - n)
    BY <1>1, <1>3, ByteMoves
  <2> QED BY <1>3, <2>1
<1> QED BY <1>3, <1>4, <1>5 DEF RecordGap

LEMMA BehindMoves ==
  ASSUME NEW c, NEW bytes, NEW other, NEW n \in Nat, NEW lo \in Int, NEW hi \in Int,
         Moves(bytes, other, n, lo, hi), NEW end \in Int, lo <= end, NEW p \in Int,
         end < p, p < hi, NEW k, NEW s, Behind(c, bytes, end, k, s, p)
  PROVE  Behind(c, other, end - n, k, s, p - n)
<1>1. /\ p - 1 \in Int /\ p - 2 \in Int /\ (p - n) - 1 = (p - 1) - n /\ (p - n) - 2 = (p - 2) - n
      /\ p - 1 < hi /\ p - 2 < hi /\ lo <= p - 1 /\ lo <= p /\ end < hi
  OBVIOUS
<1>2. RunFrom(c, bytes, end, p - 1) => RunFrom(c, other, end - n, (p - n) - 1)
  BY <1>1, RunMoves
<1>3. RunFrom(c, bytes, end, p - 2) => RunFrom(c, other, end - n, (p - n) - 2)
  BY <1>1, RunMoves
<1>4. QuoteAt(c, bytes, p - 1) => QuoteAt(c, other, (p - n) - 1)
  BY <1>1, ByteMoves
<1>5. ~TermAt(c, bytes, p) => ~TermAt(c, other, p - n)
  BY <1>1, ByteMoves
<1>6. QuoteAt(c, bytes, end) => QuoteAt(c, other, end - n)
  BY <1>1, ByteMoves
<1>7. end = p - 1 => end - n = (p - n) - 1
  OBVIOUS
<1> QED BY <1>2, <1>3, <1>4, <1>5, <1>6, <1>7 DEF Behind

(* What is known of begins and ends goes with the bytes.                   *)
LEMMA WovenMoves ==
  ASSUME NEW b, NEW e, NEW s, NEW p \in Int, Woven(b, e, s, p),
         NEW n \in Nat, \A k \in 1..Len(b) : n <= b[k]
  PROVE  Woven(Lowered(b, n), Lowered(e, n), s, p - n)
<1>1. /\ b \in Seq(Nat) /\ e \in Seq(Nat) /\ Len(b) \in Nat /\ Len(e) \in Nat
      /\ Len(b) = Len(e) + (IF s = "field" THEN 1 ELSE 0)
      /\ \A k \in 1..Len(e) : b[k] <= e[k] /\ e[k] < p
      /\ \A k \in 1..Len(b) : b[k] < p \/ b[k] = 0
      /\ \A k \in 1..Len(e) : k + 1 <= Len(b) => e[k] < b[k + 1]
      /\ s \in {"closed", "run"} => Len(e) # 0
  BY DEF Woven
<1>2. \A k \in 1..Len(e) : k \in 1..Len(b) /\ e[k] \in Nat /\ b[k] \in Nat
  <2>1. b \in Seq(Nat) /\ e \in Seq(Nat)
    BY <1>1
  <2>2. \A k \in 1..Len(e) : k \in 1..Len(b)
    BY <1>1
  <2> QED BY <2>1, <2>2, NatAt
<1>3. \A k \in 1..Len(e) : n <= e[k]
  <2>1. \A k \in 1..Len(e) : b[k] <= e[k]
    BY <1>1
  <2> QED BY <1>2, <2>1
<1>4. /\ Lowered(b, n) \in Seq(Nat) /\ Len(Lowered(b, n)) = Len(b)
      /\ \A k \in 1..Len(b) : Lowered(b, n)[k] = b[k] - n
  BY <1>1, LoweredIs
<1>5. /\ Lowered(e, n) \in Seq(Nat) /\ Len(Lowered(e, n)) = Len(e)
      /\ \A k \in 1..Len(e) : Lowered(e, n)[k] = e[k] - n
  BY <1>1, <1>3, LoweredIs
<1>6. \A k \in 1..Len(b) : b[k] \in Nat
  BY <1>1
<1> DEFINE x == Lowered(b, n)
           y == Lowered(e, n)
<1> HIDE DEF x, y
<1>7. ASSUME NEW k \in 1..Len(e)  PROVE x[k] <= y[k] /\ y[k] < p - n
  <2>1. b[k] <= e[k] /\ e[k] < p /\ e[k] \in Nat /\ b[k] \in Nat
    BY <1>1, <1>2
  <2>2. x[k] = b[k] - n /\ y[k] = e[k] - n
    BY <1>2, <1>4, <1>5 DEF x, y
  <2> QED BY <2>1, <2>2
<1>8. ASSUME NEW k \in 1..Len(b)  PROVE x[k] < p - n \/ x[k] = 0
  <2>1. (b[k] < p \/ b[k] = 0) /\ b[k] \in Nat /\ n <= b[k]
    BY <1>1, <1>6
  <2>2. x[k] = b[k] - n
    BY <1>4 DEF x
  <2> QED BY <2>1, <2>2
<1>9. ASSUME NEW k \in 1..Len(e), k + 1 <= Len(b)  PROVE y[k] < x[k + 1]
  <2>1. k + 1 \in 1..Len(b)
    BY <1>1, <1>9
  <2>2. e[k] < b[k + 1] /\ e[k] \in Nat /\ b[k + 1] \in Nat
    BY <1>1, <1>2, <1>6, <1>9, <2>1
  <2> QED BY <1>4, <1>5, <2>1, <2>2 DEF x, y
<1>10. x \in Seq(Nat) /\ y \in Seq(Nat) /\ Len(x) = Len(b) /\ Len(y) = Len(e)
  BY <1>4, <1>5 DEF x, y
<1>11. Woven(x, y, s, p - n)
  BY <1>1, <1>7, <1>8, <1>9, <1>10 DEF Woven
<1> QED BY <1>11 DEF x, y

LEMMA GapsMove ==
  ASSUME NEW c, NEW bytes, NEW other, NEW b, NEW e, NEW s, NEW p \in Int,
         Woven(b, e, s, p), Gaps(c, bytes, b, e, s, p),
         NEW n \in Nat, NEW lo \in Int, n <= lo, \A k \in 1..Len(b) : lo <= b[k],
         NEW hi \in Int, p < hi, Moves(bytes, other, n, lo, hi)
  PROVE  Gaps(c, other, Lowered(b, n), Lowered(e, n), s, p - n)
<1>1. /\ b \in Seq(Nat) /\ e \in Seq(Nat) /\ Len(b) \in Nat /\ Len(e) \in Nat
      /\ \A k \in 1..Len(e) : k \in 1..Len(b)
      /\ \A k \in 1..Len(e) : b[k] <= e[k] /\ e[k] < p
      /\ \A k \in 1..Len(b) : b[k] < p \/ b[k] = 0
      /\ \A k \in 1..Len(e) : k + 1 <= Len(b) => e[k] < b[k + 1]
  BY DEF Woven
<1>2. \A k \in 1..Len(b) : b[k] \in Nat /\ n <= b[k]
  BY <1>1
<1>3. \A k \in 1..Len(e) : e[k] \in Nat /\ lo <= e[k] /\ n <= e[k]
  <2>1. \A k \in 1..Len(e) : e[k] \in Nat /\ b[k] \in Nat /\ lo <= b[k] /\ b[k] <= e[k]
    <3>1. b \in Seq(Nat) /\ e \in Seq(Nat)
      BY <1>1
    <3>2. \A k \in 1..Len(e) : k \in 1..Len(b) /\ b[k] <= e[k]
      BY <1>1
    <3> QED BY <3>1, <3>2, NatAt
  <2> QED BY <2>1
<1>4. /\ Len(Lowered(b, n)) = Len(b) /\ \A k \in 1..Len(b) : Lowered(b, n)[k] = b[k] - n
  BY <1>1, <1>2, LoweredIs
<1>5. /\ Len(Lowered(e, n)) = Len(e) /\ \A k \in 1..Len(e) : Lowered(e, n)[k] = e[k] - n
  BY <1>1, <1>3, LoweredIs
<1>11. \A k \in 1..Len(b) : b[k] < p \/ b[k] = 0
  BY <1>1
<1>6. ASSUME NEW k \in 1..Len(e), Multiple(c.field_count, k), k + 1 <= Len(b)
      PROVE  RecordGap(c, other, e[k] - n, b[k + 1] - n)
  <2>1. RecordGap(c, bytes, e[k], b[k + 1])
    BY <1>6 DEF Gaps, Apart
  <2>2. k + 1 \in 1..Len(b)
    BY <1>1, <1>6
  <2>3. e[k] < b[k + 1] /\ b[k + 1] \in Nat /\ e[k] \in Nat /\ lo <= e[k]
    BY <1>1, <1>2, <1>3, <1>6, <2>2
  <2>4. b[k + 1] < p
    <3>1. b[k + 1] < p \/ b[k + 1] = 0
      BY <1>11, <2>2
    <3> QED BY <2>3, <3>1
  <2>5. b[k + 1] < hi
    BY <2>3, <2>4
  <2>6. e[k] \in Int /\ b[k + 1] \in Int
    BY <2>3
  <2> QED BY <2>1, <2>3, <2>5, <2>6, GapMoves
<1>7. Apart(c, other, Lowered(b, n), Lowered(e, n))
  <2>1. ASSUME NEW k \in 1..Len(Lowered(e, n)), Multiple(c.field_count, k),
               k + 1 <= Len(Lowered(b, n))
        PROVE  RecordGap(c, other, Lowered(e, n)[k], Lowered(b, n)[k + 1])
    <3>1. k \in 1..Len(e) /\ k + 1 <= Len(b) /\ k + 1 \in 1..Len(b)
      BY <1>1, <1>4, <1>5, <2>1
    <3>2. Lowered(e, n)[k] = e[k] - n /\ Lowered(b, n)[k + 1] = b[k + 1] - n
      BY <1>4, <1>5, <3>1
    <3> QED BY <1>6, <2>1, <3>1, <3>2
  <2> QED BY <2>1 DEF Apart
<1>8. ASSUME s # "field", Len(e) # 0
      PROVE  Behind(c, other, Lowered(e, n)[Len(e)], Len(e), s, p - n)
  <2>1. Len(e) \in 1..Len(e)
    BY <1>1, <1>8
  <2>2. Behind(c, bytes, e[Len(e)], Len(e), s, p)
    BY <1>8 DEF Gaps
  <2>3. e[Len(e)] \in Int /\ lo <= e[Len(e)] /\ e[Len(e)] < p
    BY <1>1, <1>3, <2>1
  <2>4. Behind(c, other, e[Len(e)] - n, Len(e), s, p - n)
    BY <2>2, <2>3, BehindMoves
  <2> QED BY <1>5, <2>1, <2>4
<1> QED BY <1>5, <1>7, <1>8 DEF Gaps

LEMMA HeldMoves ==
  ASSUME NEW bytes, NEW other, NEW n \in Nat, NEW lo \in Nat, n <= lo, NEW base \in Int,
         lo = 0 \/ lo <= base, Moves(bytes, other, n, lo, base + Width)
  PROVE  HeldVector(other, base - n) = HeldVector(bytes, base)
<1>1. ASSUME NEW i \in Lane
      PROVE  (IF (base - n) + i >= 0 THEN other[(base - n) + i + 1] ELSE Masks!Pad)
               = (IF base + i >= 0 THEN bytes[base + i + 1] ELSE Masks!Pad)
  <2>1. i \in Nat /\ i < Width /\ Width \in Nat
    BY WidthType DEF Lane
  <2>2. base + i \in Int /\ base + i < base + Width /\ (base - n) + i = (base + i) - n
        /\ (base - n) + i + 1 = ((base + i) - n) + 1 /\ base + i + 1 = (base + i) + 1
    BY <2>1
  <2>3. (base - n) + i >= 0 <=> base + i >= 0
    BY <2>1
  <2>4. base + i >= 0 => lo <= base + i
    BY <2>1
  <2>5. base + i >= 0 => other[((base + i) - n) + 1] = bytes[(base + i) + 1]
    BY <2>2, <2>4 DEF Moves
  <2> QED BY <2>2, <2>3, <2>5
<1> QED BY <1>1 DEF HeldVector

-----------------------------------------------------------------------------
(* Parts of the offsets.                                                   *)
Beyond(o, n) == SubSeq(o, n + 1, Len(o))

LEMMA BeyondIs ==
  ASSUME NEW o \in Seq(Nat), NEW n \in 0..Len(o)
  PROVE  /\ Beyond(o, n) \in Seq(Nat) /\ Len(Beyond(o, n)) = Len(o) - n
         /\ \A i \in 1..(Len(o) - n) : n + i \in 1..Len(o) /\ Beyond(o, n)[i] = o[n + i]
<1> DEFINE to == Len(o)
<1>1. to \in Nat /\ n \in Nat /\ n <= to /\ to <= Len(o)
  OBVIOUS
<1> HIDE DEF to
<1>2. /\ SubSeq(o, n + 1, to) \in Seq(Nat) /\ Len(SubSeq(o, n + 1, to)) = to - n
      /\ \A i \in 1..(to - n) : SubSeq(o, n + 1, to)[i] = o[n + i]
  BY <1>1, Slice
<1>3. \A i \in 1..(to - n) : n + i \in 1..to
  BY <1>1
<1> QED BY <1>2, <1>3 DEF Beyond, to

LEMMA AscendingOn ==
  ASSUME NEW o, NEW lo \in Nat, NEW hi \in Int, Within(o, lo, hi),
         NEW i \in 1..Len(o), NEW j \in 1..Len(o), i <= j
  PROVE  o[i] <= o[j] /\ (i < j => o[i] < o[j])
<1>1. o \in Seq(Nat) /\ Len(o) \in Nat /\ o[i] \in Nat /\ o[j] \in Nat
  BY DEF Within
<1>2. CASE i = j
  BY <1>1, <1>2
<1>3. CASE i # j
  <2> DEFINE x == SubSeq(o, i + 1, Len(o))
  <2>1. i \in 0..Len(o) /\ i # 0 /\ i \in Nat /\ j \in Nat /\ i < j
    BY <1>1, <1>3
  <2>2. /\ Len(x) = Len(o) - i /\ \A k \in 1..Len(x) : x[k] = o[i + k]
        /\ Within(x, o[i] + 1, hi)
    BY <2>1, WithinTail
  <2> HIDE DEF x
  <2>3. j - i \in 1..Len(x) /\ i + (j - i) = j
    BY <1>1, <2>1, <2>2
  <2>4. x[j - i] = o[j] /\ o[i] + 1 <= x[j - i]
    BY <2>2, <2>3 DEF Within
  <2> QED BY <1>1, <2>4
<1> QED BY <1>2, <1>3

LEMMA WovenAscends ==
  ASSUME NEW b, NEW e, NEW s, NEW p \in Int, Woven(b, e, s, p)
  PROVE  Ascending(b) /\ Within(e, 0, p)
<1>1. /\ b \in Seq(Nat) /\ e \in Seq(Nat) /\ Len(b) \in Nat /\ Len(e) \in Nat
      /\ Len(b) = Len(e) \/ Len(b) = Len(e) + 1
      /\ \A k \in 1..Len(e) : b[k] <= e[k] /\ e[k] < p
      /\ \A k \in 1..Len(e) : k + 1 <= Len(b) => e[k] < b[k + 1]
  BY DEF Woven
<1>2. ASSUME NEW k \in 2..Len(b)  PROVE b[k - 1] < b[k]
  <2>1. k - 1 \in 1..Len(e) /\ (k - 1) + 1 = k /\ k <= Len(b) /\ k \in 1..Len(b) /\ k - 1 \in 1..Len(b)
    BY <1>1
  <2>3. b[k - 1] <= e[k - 1] /\ e[k - 1] < b[(k - 1) + 1]
    BY <1>1, <2>1
  <2>4. b[k] \in Nat /\ b[k - 1] \in Nat /\ e[k - 1] \in Nat
    <3>1. b \in Seq(Nat) /\ e \in Seq(Nat)
      BY <1>1
    <3>2. \A j \in 1..Len(b) : b[j] \in Nat
      BY <3>1
    <3>3. \A j \in 1..Len(e) : e[j] \in Nat
      BY <3>1
    <3> QED BY <2>1, <3>2, <3>3
  <2>2. b[k - 1] <= e[k - 1] /\ e[k - 1] < b[k] /\ b[k] \in Nat /\ b[k - 1] \in Nat
        /\ e[k - 1] \in Nat
    BY <2>1, <2>3, <2>4
  <2> QED BY <2>2
<1>3. ASSUME NEW k \in 2..Len(e)  PROVE e[k - 1] < e[k]
  <2>1. k - 1 \in 1..Len(e) /\ (k - 1) + 1 = k /\ k <= Len(b) /\ k \in 1..Len(b) /\ k \in 1..Len(e)
    BY <1>1
  <2>3. b[k] <= e[k] /\ e[k - 1] < b[(k - 1) + 1]
    BY <1>1, <2>1
  <2>4. b[k] \in Nat /\ e[k] \in Nat /\ e[k - 1] \in Nat
    <3>1. b \in Seq(Nat) /\ e \in Seq(Nat)
      BY <1>1
    <3> QED BY <2>1, <3>1, NatAt
  <2>2. b[k] <= e[k] /\ e[k - 1] < b[k] /\ b[k] \in Nat /\ e[k] \in Nat /\ e[k - 1] \in Nat
    BY <2>1, <2>3, <2>4
  <2> QED BY <2>2
<1>4. \A k \in 1..Len(e) : 0 <= e[k]
  BY <1>1
<1> QED BY <1>1, <1>2, <1>3, <1>4 DEF Within, Ascending

LEMMA MultipleOn ==
  ASSUME NEW n \in Nat \ {0}, NEW m \in Nat, Multiple(n, m), NEW k \in Nat
  PROVE  Multiple(n, m + k) <=> Multiple(n, k)
<1>1. PICK a \in Nat : m = a * n
  BY DEF Multiple
<1>2. ASSUME Multiple(n, k)  PROVE Multiple(n, m + k)
  <2>1. PICK j \in Nat : k = j * n
    BY <1>2 DEF Multiple
  <2>2. m + k = (a + j) * n /\ a + j \in Nat
    BY <1>1, <2>1
  <2> QED BY <2>2 DEF Multiple
<1>3. ASSUME Multiple(n, m + k)  PROVE Multiple(n, k)
  <2>1. PICK j \in Nat : m + k = j * n
    BY <1>3 DEF Multiple
  <2> DEFINE x == j - a
  <2>2. x \in Int /\ x * n = j * n - a * n
    OBVIOUS
  <2>3. x * n = k
    <3> DEFINE jn == j * n
               an == a * n
    <3>1. jn \in Nat /\ an \in Nat /\ m = an /\ m + k = jn /\ x * n = jn - an
      BY <1>1, <2>1, <2>2
    <3> HIDE DEF jn, an, x
    <3> QED BY <3>1
  <2>4. x \in Nat
    <3>1. \A y \in Int : y < 0 => y * n < 0
      OBVIOUS
    <3> HIDE DEF x
    <3>2. ~(x < 0)
      BY <2>2, <2>3, <3>1
    <3> QED BY <2>2, <3>2
  <2> QED BY <2>3, <2>4 DEF Multiple
<1> QED BY <1>2, <1>3

(* Dropping whole records.                                                 *)
LEMMA WovenTail ==
  ASSUME NEW b, NEW e, NEW s, NEW p \in Int, Woven(b, e, s, p), NEW m \in 0..Len(e),
         s \in {"closed", "run"} => m < Len(e)
  PROVE  Woven(Beyond(b, m), Beyond(e, m), s, p)
<1> DEFINE x == Beyond(b, m)
           y == Beyond(e, m)
<1>1. /\ b \in Seq(Nat) /\ e \in Seq(Nat) /\ Len(b) \in Nat /\ Len(e) \in Nat
      /\ Len(b) = Len(e) + (IF s = "field" THEN 1 ELSE 0)
      /\ \A k \in 1..Len(e) : b[k] <= e[k] /\ e[k] < p
      /\ \A k \in 1..Len(b) : b[k] < p \/ b[k] = 0
      /\ \A k \in 1..Len(e) : k + 1 <= Len(b) => e[k] < b[k + 1]
      /\ s \in {"closed", "run"} => Len(e) # 0
  BY DEF Woven
<1>2. m \in 0..Len(b) /\ m \in Nat /\ m <= Len(e)
  BY <1>1
<1>3. /\ x \in Seq(Nat) /\ Len(x) = Len(b) - m
      /\ \A i \in 1..(Len(b) - m) : m + i \in 1..Len(b) /\ x[i] = b[m + i]
  BY <1>1, <1>2, BeyondIs
<1>4. /\ y \in Seq(Nat) /\ Len(y) = Len(e) - m
      /\ \A i \in 1..(Len(e) - m) : m + i \in 1..Len(e) /\ y[i] = e[m + i]
  BY <1>1, <1>2, BeyondIs
<1> HIDE DEF x, y
<1>5. ASSUME NEW k \in 1..Len(y)  PROVE x[k] <= y[k] /\ y[k] < p
  <2>1. k \in 1..(Len(e) - m) /\ k \in 1..(Len(b) - m)
    BY <1>1, <1>2, <1>4
  <2> QED BY <1>1, <1>3, <1>4, <2>1
<1>6. ASSUME NEW k \in 1..Len(x)  PROVE x[k] < p \/ x[k] = 0
  BY <1>1, <1>3
<1>7. ASSUME NEW k \in 1..Len(y), k + 1 <= Len(x)  PROVE y[k] < x[k + 1]
  <2>1. /\ k \in 1..(Len(e) - m) /\ k + 1 \in 1..(Len(b) - m) /\ m + (k + 1) = (m + k) + 1
        /\ (m + k) + 1 <= Len(b)
    <3>1. Len(b) \in Nat /\ Len(e) \in Nat /\ Len(x) = Len(b) - m /\ Len(y) = Len(e) - m
          /\ m \in Nat /\ k \in 1..Len(y) /\ k + 1 <= Len(x) /\ m <= Len(e)
      BY <1>1, <1>2, <1>3, <1>4, <1>7
    <3> QED BY <3>1
  <2>2. m + k \in 1..Len(e) /\ y[k] = e[m + k]
    BY <1>4, <2>1
  <2>3. x[k + 1] = b[m + (k + 1)]
    BY <1>3, <2>1
  <2>4. e[m + k] < b[(m + k) + 1]
    BY <1>1, <2>1, <2>2
  <2> QED BY <2>1, <2>2, <2>3, <2>4
<1>8. Len(x) = Len(y) + (IF s = "field" THEN 1 ELSE 0)
  BY <1>1, <1>2, <1>3, <1>4
<1>9. s \in {"closed", "run"} => Len(y) # 0
  BY <1>1, <1>2, <1>4
<1>10. Woven(x, y, s, p)
  BY <1>3, <1>4, <1>5, <1>6, <1>7, <1>8, <1>9 DEF Woven
<1> QED BY <1>10 DEF x, y

LEMMA GapsTail ==
  ASSUME NEW c, c.field_count \in Nat \ {0}, NEW bytes, NEW b, NEW e, NEW s, NEW p \in Int,
         Woven(b, e, s, p), Gaps(c, bytes, b, e, s, p), NEW m \in 0..Len(e),
         Multiple(c.field_count, m)
  PROVE  Gaps(c, bytes, Beyond(b, m), Beyond(e, m), s, p)
<1> DEFINE x == Beyond(b, m)
           y == Beyond(e, m)
           n == c.field_count
<1>1. /\ b \in Seq(Nat) /\ e \in Seq(Nat) /\ Len(b) \in Nat /\ Len(e) \in Nat
      /\ Len(b) = Len(e) + (IF s = "field" THEN 1 ELSE 0)
  BY DEF Woven
<1>2. m \in 0..Len(b) /\ m \in Nat /\ m <= Len(e)
  BY <1>1
<1>3. /\ Len(x) = Len(b) - m
      /\ \A i \in 1..(Len(b) - m) : m + i \in 1..Len(b) /\ x[i] = b[m + i]
  BY <1>1, <1>2, BeyondIs
<1>4. /\ Len(y) = Len(e) - m
      /\ \A i \in 1..(Len(e) - m) : m + i \in 1..Len(e) /\ y[i] = e[m + i]
  BY <1>1, <1>2, BeyondIs
<1> HIDE DEF x, y
<1>5. \A k \in Nat : Multiple(n, m + k) <=> Multiple(n, k)
  BY <1>2, MultipleOn
<1>6. ASSUME NEW k \in 1..Len(y), Multiple(n, k), k + 1 <= Len(x)
      PROVE  RecordGap(c, bytes, y[k], x[k + 1])
  <2>1. /\ k \in 1..(Len(e) - m) /\ k + 1 \in 1..(Len(b) - m) /\ m + (k + 1) = (m + k) + 1
        /\ (m + k) + 1 <= Len(b) /\ k \in Nat
    <3>1. Len(x) = Len(b) - m /\ Len(y) = Len(e) - m
      BY <1>3, <1>4
    <3>2. Len(b) \in Nat /\ Len(e) \in Nat /\ m \in Nat
      BY <1>1, <1>2
    <3> QED BY <1>6, <3>1, <3>2
  <2>2. m + k \in 1..Len(e) /\ y[k] = e[m + k] /\ x[k + 1] = b[(m + k) + 1]
    BY <1>3, <1>4, <2>1
  <2>3. Multiple(n, m + k)
    BY <1>5, <1>6, <2>1
  <2>4. RecordGap(c, bytes, e[m + k], b[(m + k) + 1])
    BY <2>1, <2>2, <2>3 DEF Gaps, Apart
  <2> QED BY <2>2, <2>4
<1>7. ASSUME s # "field", Len(y) # 0  PROVE Behind(c, bytes, y[Len(y)], Len(y), s, p)
  <2>1. Len(y) \in 1..(Len(e) - m) /\ m + Len(y) = Len(e) /\ Len(y) \in Nat /\ Len(e) # 0
    BY <1>1, <1>2, <1>4, <1>7
  <2>2. y[Len(y)] = e[Len(e)]
    BY <1>4, <2>1
  <2>3. Behind(c, bytes, e[Len(e)], Len(e), s, p)
    BY <1>7, <2>1 DEF Gaps
  <2>4. Multiple(n, Len(e)) <=> Multiple(n, Len(y))
    <3>1. Multiple(n, m + Len(y)) <=> Multiple(n, Len(y))
      BY <1>5, <2>1
    <3> QED BY <2>1, <3>1
  <2> QED BY <2>2, <2>3, <2>4 DEF Behind
<1>8. Gaps(c, bytes, x, y, s, p)
  BY <1>6, <1>7 DEF Gaps, Apart
<1> QED BY <1>8 DEF x, y

-----------------------------------------------------------------------------
(* The run of terminators behind a record.                                 *)
LEMMA IndexLeast ==
  ASSUME NEW S \in SUBSET Nat, S # {}
  PROVE  Index!Min(S) \in S /\ \A x \in S : Index!Min(S) <= x
<1>1. \E x \in S : \A y \in S : x <= y
  BY LeastElement
<1> QED BY <1>1 DEF Index!Min

LEMMA IndexGreatest ==
  ASSUME NEW n \in Nat, NEW S \in SUBSET (0..n), S # {}
  PROVE  Index!Max(S) \in S /\ \A x \in S : x <= Index!Max(S)
<1>1. \E x \in S : \A y \in S : y <= x
  BY GreatestElement
<1>2. \A x, y \in S : y <= x <=> x >= y
  OBVIOUS
<1>3. \E x \in S : \A y \in S : x >= y
  BY <1>1, <1>2
<1>4. Index!Max(S) \in S /\ \A y \in S : Index!Max(S) >= y
  BY <1>3 DEF Index!Max
<1> QED BY <1>2, <1>4

(* The first terminator from `from` on, and the last one of its run, which *)
(* ends before `p`.                                                        *)
RunBetween(c, bytes, from, start, end, p) ==
  /\ start \in Nat /\ end \in Nat /\ from <= start /\ start <= end /\ end + 1 < p
  /\ \A q \in from..(start - 1) : ~TermAt(c, bytes, q)
  /\ \A q \in start..end : TermAt(c, bytes, q)
  /\ ~TermAt(c, bytes, end + 1)

LEMMA TermEnds ==
  ASSUME NEW c, NEW bytes, NEW from \in Nat, NEW p \in Int, NEW left \in Nat,
         Index!TermOf(c, bytes, from, p, left).resolved,
         Index!TermOf(c, bytes, from, p, left).ended
  PROVE  \E start \in Nat :
           RunBetween(c, bytes, from, start, Index!TermOf(c, bytes, from, p, left).end, p)
<1> DEFINE t == Index!TermOf(c, bytes, from, p, left)
           cap == Index!Min({p, left + 1})
           starts == {q \in from..(p - 1) : TermAt(c, bytes, q)}
           start == Index!Min(starts)
           last == Index!Max({start, cap - 1})
           StopsAt(q) == /\ \A i \in start..q : TermAt(c, bytes, i)
                         /\ q + 1 < cap => ~TermAt(c, bytes, q + 1)
           end == CHOOSE q \in start..last : StopsAt(q)
<1>1. \A q : Index!IsTerm(c, bytes, q) <=> TermAt(c, bytes, q)
  BY DEF Index!IsTerm, TermAt, Index!D!Terminators, P!Terminators
<1>2. t = IF starts = {} THEN Index!Unresolved
          ELSE IF end + 1 < cap
               THEN [resolved |-> TRUE, start |-> start, ended |-> TRUE, end |-> end]
               ELSE IF cap < p
                    THEN [resolved |-> TRUE, start |-> start, ended |-> FALSE, end |-> end]
                    ELSE Index!Unresolved
  BY <1>1 DEF Index!TermOf
<1>3. t.resolved /\ t.ended
  OBVIOUS
<1>4. starts \in SUBSET Nat
  OBVIOUS
<1> HIDE DEF t, end, cap, start
<1>5. starts # {} /\ end + 1 < cap /\ t.end = end
  <2> HIDE DEF starts
  <2>1. ~Index!Unresolved.resolved
    BY DEF Index!Unresolved
  <2>2. CASE starts = {}
    BY <1>2, <1>3, <2>1, <2>2
  <2>3. CASE starts # {} /\ end + 1 < cap
    BY <1>2, <2>3
  <2>4. CASE starts # {} /\ ~(end + 1 < cap) /\ cap < p
    BY <1>2, <1>3, <2>4
  <2>5. CASE starts # {} /\ ~(end + 1 < cap) /\ ~(cap < p)
    BY <1>2, <1>3, <2>1, <2>5
  <2> QED BY <2>2, <2>3, <2>4, <2>5
<1>6. start \in starts /\ \A q \in starts : start <= q
  BY <1>4, <1>5, IndexLeast DEF start
<1>7. /\ start \in Nat /\ from <= start /\ start < p /\ TermAt(c, bytes, start) /\ p \in Nat
      /\ \A q \in from..(start - 1) : ~TermAt(c, bytes, q)
  BY <1>6
<1>8. cap \in Nat /\ cap <= p
  <2>1. {p, left + 1} \in SUBSET Nat /\ {p, left + 1} # {}
    BY <1>7
  <2>2. cap \in {p, left + 1} /\ \A x \in {p, left + 1} : cap <= x
    BY <2>1, IndexLeast DEF cap
  <2> QED BY <2>1, <2>2
<1>9. last \in Nat /\ start <= last /\ cap - 1 <= last
  <2> DEFINE S == {start, cap - 1}
  <2>1. CASE cap = 0
    <3>1. \A x \in S : start >= x
      BY <1>7, <2>1
    <3>2. \E x \in S : \A y \in S : x >= y
      BY <3>1
    <3>3. last \in S /\ \A y \in S : last >= y
      <4> HIDE DEF S
      <4> QED BY <3>2 DEF Index!Max, S
    <3> HIDE DEF last
    <3> QED BY <1>7, <2>1, <3>3
  <2>2. CASE cap # 0
    <3>1. S \in SUBSET (0..(start + cap)) /\ S # {} /\ start + cap \in Nat
      BY <1>7, <1>8, <2>2
    <3>2. last \in S /\ \A y \in S : y <= last
      BY <3>1, IndexGreatest
    <3> HIDE DEF last
    <3> QED BY <1>7, <1>8, <2>2, <3>2
  <2> QED BY <2>1, <2>2
<1> HIDE DEF last, starts
<1> DEFINE T == {q \in start..last : \A i \in start..q : TermAt(c, bytes, i)}
<1>10. \E q \in start..last : StopsAt(q)
  <2>1. T \in SUBSET (0..last)
    BY <1>7, <1>9
  <2>2. start \in T
    <3>1. start \in start..last /\ \A i \in start..start : i = start
      BY <1>7, <1>9
    <3> QED BY <1>7, <3>1
  <2> HIDE DEF T
  <2>3. PICK q \in T : \A y \in T : y <= q
    BY <1>9, <2>1, <2>2, GreatestElement
  <2>4. q \in start..last /\ \A i \in start..q : TermAt(c, bytes, i)
    BY DEF T
  <2>5. ASSUME q + 1 < cap, TermAt(c, bytes, q + 1)  PROVE FALSE
    <3>1. q + 1 \in start..last /\ ~(q + 1 <= q)
      BY <1>7, <1>8, <1>9, <2>4, <2>5
    <3>2. \A i \in start..(q + 1) : i \in start..q \/ i = q + 1
      BY <1>7, <2>4
    <3>3. \A i \in start..(q + 1) : TermAt(c, bytes, i)
      BY <2>4, <2>5, <3>2
    <3>4. q + 1 \in T
      BY <3>1, <3>3 DEF T
    <3> QED BY <2>3, <3>1, <3>4
  <2> QED BY <2>4, <2>5
<1>11. end \in start..last /\ StopsAt(end)
  <2> HIDE DEF StopsAt
  <2> QED BY <1>10 DEF end
<1>12. end \in Nat /\ start <= end /\ end + 1 < p
  <2>1. end \in start..last
    BY <1>11
  <2>2. end \in Nat /\ start <= end
    BY <1>7, <2>1
  <2> QED BY <1>5, <1>7, <1>8, <2>2
<1>13. RunBetween(c, bytes, from, start, end, p)
  BY <1>5, <1>7, <1>11, <1>12 DEF RunBetween
<1> QED BY <1>5, <1>7, <1>13 DEF t

(* A run that is known to go on from there is that one.                    *)
LEMMA SameRun ==
  ASSUME NEW c, c.quote \notin P!Terminators(c), NEW bytes, NEW from \in Nat, NEW p \in Int,
         NEW start, NEW end, RunBetween(c, bytes, from, start, end, p),
         NEW to \in Int, RunFrom(c, bytes, from, to)
  PROVE  start \in {from, from + 1} /\ to <= end /\ (~TermAt(c, bytes, to + 1) => to = end)
<1>1. /\ start \in Nat /\ end \in Nat /\ from <= start /\ start <= end
      /\ \A q \in from..(start - 1) : ~TermAt(c, bytes, q)
      /\ \A q \in start..end : TermAt(c, bytes, q)
      /\ ~TermAt(c, bytes, end + 1)
  BY DEF RunBetween
<1>2. PICK first \in {from, from + 1} :
        /\ first <= to /\ \A q \in first..to : TermAt(c, bytes, q)
        /\ first = from + 1 => QuoteAt(c, bytes, from)
  BY DEF RunFrom
<1>3. first \in Nat /\ TermAt(c, bytes, first)
  BY <1>2
<1>4. first = start
  <2>1. ~(first \in from..(start - 1))
    BY <1>1, <1>3
  <2>2. first >= start
    BY <1>1, <1>2, <1>3, <2>1
  <2>3. CASE first = from
    BY <1>1, <2>2, <2>3
  <2>4. CASE first = from + 1
    <3>1. ~TermAt(c, bytes, from)
      BY <1>2, <2>4 DEF TermAt, QuoteAt
    <3>2. start # from
      <4>1. start \in start..end
        BY <1>1
      <4>2. TermAt(c, bytes, start)
        BY <1>1, <4>1
      <4> QED BY <3>1, <4>2
    <3> QED BY <1>1, <2>2, <2>4, <3>2
  <2> QED BY <1>2, <2>3, <2>4
<1>5. to <= end
  <2>1. ASSUME ~(to <= end)  PROVE FALSE
    <3>1. end + 1 \in first..to
      BY <1>1, <1>4, <2>1
    <3> QED BY <1>1, <1>2, <3>1
  <2> QED BY <2>1
<1>6. ASSUME ~TermAt(c, bytes, to + 1)  PROVE to = end
  <2>1. ASSUME to < end  PROVE FALSE
    <3>1. to + 1 \in start..end
      BY <1>1, <1>2, <1>4, <2>1
    <3> QED BY <1>1, <1>6, <3>1
  <2> QED BY <1>1, <1>5, <2>1
<1> QED BY <1>2, <1>4, <1>5, <1>6

LEMMA RecordEnds ==
  ASSUME NEW c, Dialect(c), NEW bytes, NEW b, NEW e, NEW s \in States, NEW p \in Int,
         Woven(b, e, s, p), Gaps(c, bytes, b, e, s, p),
         NEW m \in 1..Len(e), Multiple(c.field_count, m),
         NEW start, NEW end, RunBetween(c, bytes, e[m], start, end, p)
  PROVE  /\ start \in {e[m], e[m] + 1}
         /\ m < Len(b) => end + 1 <= b[m + 1]
         /\ s \in {"closed", "run"} => m < Len(e)
<1>1. /\ b \in Seq(Nat) /\ e \in Seq(Nat) /\ Len(b) \in Nat /\ Len(e) \in Nat
      /\ Len(b) = Len(e) + (IF s = "field" THEN 1 ELSE 0)
  BY DEF Woven
<1>2. e[m] \in Nat /\ m \in Nat
  BY <1>1
<1>3. c.quote \notin P!Terminators(c)
  BY DEF Dialect
<1>4. start \in Nat /\ end \in Nat /\ e[m] <= start /\ start <= end /\ end + 1 < p
  BY DEF RunBetween
<1>5. CASE m < Len(b)
  <2>1. m + 1 \in 1..Len(b) /\ m + 1 <= Len(b)
    BY <1>1, <1>2, <1>5
  <2>2. RecordGap(c, bytes, e[m], b[m + 1])
    BY <2>1 DEF Gaps, Apart
  <2>3. PICK to \in Nat : /\ to < b[m + 1] /\ RunFrom(c, bytes, e[m], to)
                          /\ ~TermAt(c, bytes, to + 1)
    BY <2>2 DEF RecordGap
  <2>4. to \in Int
    OBVIOUS
  <2>5. start \in {e[m], e[m] + 1} /\ to = end
    BY <1>2, <1>3, <2>3, <2>4, SameRun
  <2>6. b[m + 1] \in Nat
    <3>1. b \in Seq(Nat)
      BY <1>1
    <3> QED BY <2>1, <3>1, NatAt
  <2>7. end + 1 <= b[m + 1]
    BY <1>4, <2>3, <2>5, <2>6
  <2>8. s \in {"closed", "run"} => m < Len(e)
    BY <1>1, <1>5
  <2> QED BY <2>5, <2>7, <2>8
<1>6. CASE ~(m < Len(b))
  <2>1. m = Len(e) /\ m = Len(b) /\ s # "field" /\ Len(e) # 0
    BY <1>1, <1>2, <1>6
  <2>2. Behind(c, bytes, e[m], m, s, p)
    BY <2>1 DEF Gaps
  <2>3. ~RunFrom(c, bytes, e[m], p - 1)
    <3>1. SUFFICES ASSUME RunFrom(c, bytes, e[m], p - 1)  PROVE FALSE
      OBVIOUS
    <3>2. p - 1 \in Int
      OBVIOUS
    <3>3. p - 1 <= end
      BY <1>2, <1>3, <3>1, <3>2, SameRun
    <3> QED BY <1>4, <3>3
  <2>4. e[m] # p - 1
    BY <1>4, <1>2
  <2>5. s = "opened"
    BY <2>1, <2>2, <2>3, <2>4 DEF Behind, States
  <2>6. RunFrom(c, bytes, e[m], p - 2) /\ p - 2 \in Int
    BY <2>2, <2>5 DEF Behind
  <2>7. start \in {e[m], e[m] + 1}
    BY <1>2, <1>3, <2>6, SameRun
  <2> QED BY <1>6, <2>5, <2>7
<1> QED BY <1>5, <1>6

(* The bytes to go behind a record are those of the next ones.             *)
LEMMA RemovedTail ==
  ASSUME NEW c, Dialect(c), NEW bytes, NEW r, NEW lo \in Nat, NEW p \in Int, Within(r, lo, p),
         \A k \in 1..Len(r) : QuoteAt(c, bytes, r[k]),
         NEW from \in Nat, NEW start, NEW end, RunBetween(c, bytes, from, start, end, p),
         start \in {from, from + 1}
  PROVE  LET beyond == {k \in DOMAIN r : r[k] > from}
             x == IF beyond = {} THEN <<>> ELSE SubSeq(r, Index!Min(beyond), Len(r))
         IN  Within(x, end + 1, p) /\ \A k \in 1..Len(x) : QuoteAt(c, bytes, x[k])
<1> DEFINE beyond == {k \in DOMAIN r : r[k] > from}
           x == IF beyond = {} THEN <<>> ELSE SubSeq(r, Index!Min(beyond), Len(r))
<1>1. r \in Seq(Nat) /\ Len(r) \in Nat /\ DOMAIN r = 1..Len(r)
  BY DEF Within
<1>2. /\ start \in Nat /\ end \in Nat /\ start <= end
      /\ \A q \in start..end : TermAt(c, bytes, q)
  BY DEF RunBetween
<1>3. CASE beyond = {}
  <2>1. x = <<>>
    BY <1>3
  <2> HIDE DEF x
  <2>2. Within(<<>>, end + 1, p)
    BY DEF Within, Ascending
  <2>3. \A k \in 1..Len(x) : FALSE
    BY <2>1
  <2> QED BY <2>1, <2>2, <2>3 DEF x
<1>4. CASE beyond # {}
  <2> DEFINE least == Index!Min(beyond)
             n == least - 1
  <2>1. beyond \in SUBSET Nat
    BY <1>1
  <2>2. least \in beyond
    BY <1>4, <2>1, IndexLeast
  <2>3. least \in 1..Len(r) /\ r[least] > from
    BY <1>1, <2>2
  <2>4. x = SubSeq(r, least, Len(r))
    BY <1>4
  <2> HIDE DEF least, beyond, x
  <2>5. n \in 0..Len(r) /\ n + 1 = least /\ n \in Nat
    BY <1>1, <2>3
  <2>6. x = SubSeq(r, n + 1, Len(r))
    BY <2>4, <2>5
  <2> HIDE DEF n
  <2>7. /\ Len(x) = Len(r) - n /\ \A k \in 1..Len(x) : x[k] = r[n + k]
        /\ Within(x, lo, p)
    BY <2>5, <2>6, WithinTail
  <2>8. ASSUME NEW k \in 1..Len(x)  PROVE QuoteAt(c, bytes, x[k]) /\ end + 1 <= x[k]
    <3>1. n + k \in 1..Len(r) /\ least <= n + k /\ x[k] = r[n + k]
      BY <1>1, <2>5, <2>7
    <3>2. r[least] <= r[n + k]
      BY <2>3, <3>1, AscendingOn
    <3>3. QuoteAt(c, bytes, x[k]) /\ x[k] \in Nat /\ r[least] \in Nat
      <4>1. r[n + k] \in Nat /\ r[least] \in Nat
        BY <1>1, <2>3, <3>1
      <4> QED BY <3>1, <4>1
    <3>4. from < x[k]
      BY <2>3, <3>1, <3>2, <3>3
    <3>5. start <= x[k]
      BY <1>2, <3>3, <3>4
    <3>6. ~TermAt(c, bytes, x[k])
      BY <3>3 DEF TermAt, QuoteAt, Dialect
    <3>7. ~(x[k] \in start..end)
      BY <1>2, <3>6
    <3> QED BY <1>2, <3>3, <3>5, <3>7
  <2>9. Within(x, end + 1, p)
    BY <2>7, <2>8 DEF Within
  <2>10. \A k \in 1..Len(x) : QuoteAt(c, bytes, x[k])
    BY <2>8
  <2> QED BY <2>9, <2>10 DEF x, beyond, least
<1> QED BY <1>3, <1>4

(* A record is dropped from what the stepper has.                          *)
LEMMA IndexDrops ==
  ASSUME NEW c, Dialect(c), NEW s, NEW bytes, NEW base \in Int, IndexReady(c, s, bytes, base),
         s.record_buf_start \in Nat,
         NEW m \in 1..Len(s.e_offs), Multiple(c.field_count, m), NEW start, NEW end,
         RunBetween(c, bytes, s.e_offs[m], start, end, base), NEW x,
         x.scanner = s.scanner, x.phase = s.phase,
         x.b_offs = Beyond(s.b_offs, m), x.e_offs = Beyond(s.e_offs, m),
         x.r_offs = LET beyond == {k \in DOMAIN s.r_offs : s.r_offs[k] > s.e_offs[m]}
                    IN  IF beyond = {} THEN <<>>
                        ELSE SubSeq(s.r_offs, Index!Min(beyond), Len(s.r_offs)),
         x.record_buf_start = end + 1
  PROVE  IndexReady(c, x, bytes, base) /\ end + 1 <= base
<1> DEFINE b == s.b_offs
           e == s.e_offs
           r == s.r_offs
           z == StateOf(s.scanner)
           n == c.field_count
<1>1. /\ IndexHeld(c, s.scanner, HeldVector(bytes, base))
      /\ Woven(b, e, z, base) /\ Gaps(c, bytes, b, e, z, base)
      /\ s.phase \in Nat /\ \E q \in Int : Complete(z, Len(e)) = q * n + s.phase
      /\ base < 0 => z = "field"
      /\ Within(r, s.record_buf_start, base)
      /\ \A k \in 1..Len(r) : QuoteAt(c, bytes, r[k])
  BY DEF IndexReady, Tracks, IndexBehind
<1> HIDE DEF z, n, b, e, r
<1>2. z \in States
  BY <1>1 DEF IndexHeld, Fits, z
<1>0. Woven(b, e, z, base)
  BY <1>1
<1>3. /\ b \in Seq(Nat) /\ e \in Seq(Nat) /\ Len(b) \in Nat /\ Len(e) \in Nat
      /\ Len(e) <= Len(b)
  BY <1>0 DEF Woven
<1>15. /\ \A k \in 1..Len(b) : b[k] \in Nat
       /\ \A k \in 1..Len(e) : e[k] \in Nat
  BY <1>3, NatAt
<1>4. e[m] \in Nat /\ m \in Nat /\ m \in 0..Len(e) /\ m \in 0..Len(b) /\ m \in 1..Len(e)
  <2>1. m \in 1..Len(e)
    BY DEF e
  <2> QED BY <1>3, <1>15, <2>1
<1>5. end \in Nat /\ end + 1 < base
  BY DEF RunBetween
<1>6. /\ start \in {e[m], e[m] + 1}
      /\ m < Len(b) => end + 1 <= b[m + 1]
      /\ z \in {"closed", "run"} => m < Len(e)
  BY <1>1, <1>2, RecordEnds DEF e, n
<1>7. Woven(x.b_offs, x.e_offs, z, base)
  BY <1>1, <1>4, <1>6, WovenTail DEF b, e
<1>8. Gaps(c, bytes, x.b_offs, x.e_offs, z, base)
  <2>1. c.field_count \in Nat \ {0}
    BY DEF Dialect
  <2> QED BY <1>1, <1>4, <2>1, GapsTail DEF b, e
<1>9. \E q \in Int : Complete(z, Len(x.e_offs)) = q * n + s.phase
  <2>1. Len(x.e_offs) = Len(e) - m
    BY <1>3, <1>4, BeyondIs DEF e
  <2>2. PICK q \in Int : Complete(z, Len(e)) = q * n + s.phase
    BY <1>1
  <2>3. PICK a \in Nat : m = a * n
    BY DEF Multiple, n
  <2>4. Complete(z, Len(e) - m) = Complete(z, Len(e)) - m
    BY <1>3, <1>4 DEF Complete
  <2>5. n \in Nat
    BY DEF Dialect, n
  <2> DEFINE y == q - a
             qn == q * n
             an == a * n
             yn == y * n
  <2>6. y \in Int /\ yn = qn - an /\ qn \in Int /\ an \in Int
    BY <2>5
  <2>7. Complete(z, Len(e)) = qn + s.phase /\ m = an
    BY <2>2, <2>3
  <2> HIDE DEF qn, an, yn, y
  <2>8. Complete(z, Len(x.e_offs)) = yn + s.phase
    BY <1>1, <2>1, <2>4, <2>6, <2>7
  <2> QED BY <2>6, <2>8 DEF yn
<1>10. Tracks(c, bytes, x.b_offs, x.e_offs, z, base, x.phase)
  BY <1>1, <1>7, <1>8, <1>9 DEF Tracks, n
<1>11. Within(x.r_offs, end + 1, base) /\ \A k \in 1..Len(x.r_offs) : QuoteAt(c, bytes, x.r_offs[k])
  <2> DEFINE beyond == {k \in DOMAIN r : r[k] > e[m]}
             y == IF beyond = {} THEN <<>> ELSE SubSeq(r, Index!Min(beyond), Len(r))
  <2>1. x.r_offs = y
    BY DEF r, e
  <2>2. RunBetween(c, bytes, e[m], start, end, base)
    BY DEF e
  <2>3. Within(y, end + 1, base) /\ \A k \in 1..Len(y) : QuoteAt(c, bytes, y[k])
    <3> DEFINE lo == s.record_buf_start
               f == e[m]
    <3>1. Within(r, lo, base) /\ lo \in Nat /\ \A k \in 1..Len(r) : QuoteAt(c, bytes, r[k])
      BY <1>1
    <3>2. f \in Nat /\ start \in {f, f + 1} /\ RunBetween(c, bytes, f, start, end, base)
      BY <1>4, <1>6, <2>2
    <3> HIDE DEF lo, f
    <3>3. LET later == {k \in DOMAIN r : r[k] > f}
              x1 == IF later = {} THEN <<>> ELSE SubSeq(r, Index!Min(later), Len(r))
          IN  Within(x1, end + 1, base) /\ \A k \in 1..Len(x1) : QuoteAt(c, bytes, x1[k])
      BY <3>1, <3>2, RemovedTail
    <3> QED BY <3>3 DEF f
  <2> HIDE DEF y
  <2> QED BY <2>1, <2>3
<1>12. ASSUME NEW k \in 1..Len(x.b_offs)  PROVE end + 1 <= x.b_offs[k]
  <2>1. /\ Len(x.b_offs) = Len(b) - m
        /\ \A i \in 1..(Len(b) - m) : m + i \in 1..Len(b) /\ x.b_offs[i] = b[m + i]
    BY <1>3, <1>4, BeyondIs DEF b
  <2>2. Ascending(b)
    BY <1>1, WovenAscends
  <2>3. m + k \in 1..Len(b) /\ x.b_offs[k] = b[m + k] /\ m < Len(b) /\ m + 1 \in 1..Len(b)
        /\ m + 1 <= m + k
    <3> DEFINE to == Len(x.b_offs)
    <3>1. to = Len(b) - m /\ k \in 1..to /\ Len(b) \in Nat /\ m \in Nat
      BY <1>3, <1>4, <2>1
    <3> HIDE DEF to
    <3>2. k \in 1..(Len(b) - m) /\ m < Len(b) /\ m + 1 \in 1..Len(b) /\ m + 1 <= m + k
      BY <3>1
    <3> QED BY <2>1, <3>2
  <2>4. b[m + 1] <= b[m + k]
    <3> DEFINE T == {j \in (m + 1)..Len(b) : ~(b[m + 1] <= b[j])}
    <3>1. ASSUME NEW j \in T, \A i \in T : j <= i  PROVE FALSE
      <4>1. j \in (m + 1)..Len(b) /\ ~(b[m + 1] <= b[j]) /\ j \in Nat
        BY <1>4, <3>1
      <4>2. b[m + 1] \in Nat /\ b[j] \in Nat
        <5>1. j \in 1..Len(b)
          BY <1>3, <1>4, <4>1
        <5> QED BY <1>15, <2>3, <5>1
      <4>3. j # m + 1
        BY <4>1, <4>2
      <4>4. j - 1 \in (m + 1)..Len(b) /\ ~(j <= j - 1) /\ j \in 2..Len(b) /\ j - 1 \in 1..Len(b)
        BY <1>3, <1>4, <4>1, <4>3
      <4>5. b[m + 1] <= b[j - 1]
        BY <3>1, <4>4
      <4>6. b[j - 1] < b[j] /\ b[j - 1] \in Nat
        <5>1. b[j - 1] < b[j]
          BY <2>2, <4>4 DEF Ascending
        <5> QED BY <1>15, <4>4, <5>1
      <4> QED BY <4>1, <4>2, <4>5, <4>6
    <3>2. T \in SUBSET Nat
      BY <1>3, <1>4
    <3>3. T = {}
      <4> HIDE DEF T
      <4> QED BY <3>1, <3>2, LeastElement
    <3>4. m + k \in (m + 1)..Len(b)
      BY <1>3, <1>4, <2>3
    <3> QED BY <3>3, <3>4
  <2>5. b[m + 1] \in Nat /\ b[m + k] \in Nat
    BY <1>15, <2>3
  <2> QED BY <1>5, <1>6, <2>3, <2>4, <2>5
<1>13. end + 1 <= base
  BY <1>5
<1>14. IndexBehind(c, x, bytes, base)
  BY <1>11, <1>12, <1>13 DEF IndexBehind
<1> QED BY <1>1, <1>10, <1>13, <1>14 DEF IndexReady, z

LEMMA ReadyMoves ==
  ASSUME NEW c, NEW s, NEW bytes, NEW base \in Int, IndexReady(c, s, bytes, base),
         s.record_buf_start \in Nat, NEW n \in Nat, n <= s.record_buf_start, NEW other,
         Moves(bytes, other, n, s.record_buf_start, base + Width), NEW x,
         x.scanner = s.scanner, x.phase = s.phase,
         x.b_offs = Lowered(s.b_offs, n), x.e_offs = Lowered(s.e_offs, n),
         x.r_offs = Lowered(s.r_offs, n), x.record_buf_start = s.record_buf_start - n
  PROVE  IndexReady(c, x, other, base - n)
<1> DEFINE lo == s.record_buf_start
           hi == base + Width
           b == s.b_offs
           e == s.e_offs
           r == s.r_offs
           z == StateOf(s.scanner)
<1>1. /\ IndexHeld(c, s.scanner, HeldVector(bytes, base))
      /\ Woven(b, e, z, base) /\ Gaps(c, bytes, b, e, z, base)
      /\ s.phase \in Nat /\ \E q \in Int : Complete(z, Len(e)) = q * c.field_count + s.phase
      /\ base < 0 => z = "field"
      /\ lo = 0 \/ lo <= base
      /\ \A k \in 1..Len(b) : lo <= b[k]
      /\ Within(r, lo, base)
      /\ \A k \in 1..Len(r) : QuoteAt(c, bytes, r[k])
  BY DEF IndexReady, Tracks, IndexBehind
<1>2. /\ lo \in Nat /\ n <= lo /\ hi \in Int /\ base < hi /\ n \in 0..lo
      /\ Moves(bytes, other, n, lo, hi)
  BY WidthType
<1>3. HeldVector(other, base - n) = HeldVector(bytes, base)
  BY <1>1, <1>2, HeldMoves
<1> HIDE DEF lo, b, e, r, z, hi
<1>4. b \in Seq(Nat) /\ e \in Seq(Nat) /\ Len(b) \in Nat
  BY <1>1 DEF Woven
<1>5. ASSUME NEW k \in 1..Len(b)  PROVE lo <= b[k] /\ n <= b[k] /\ b[k] \in Nat
  <2>1. b[k] \in Nat
    BY <1>4, NatAt
  <2>2. lo <= b[k]
    BY <1>1
  <2>3. lo \in Nat /\ n \in Nat /\ n <= lo
    BY <1>2
  <2> QED BY <2>1, <2>2, <2>3
<1>6. Woven(x.b_offs, x.e_offs, z, base - n)
  BY <1>1, <1>5, WovenMoves DEF b, e
<1>7. Gaps(c, other, x.b_offs, x.e_offs, z, base - n)
  <2>1. Gaps(c, other, Lowered(b, n), Lowered(e, n), z, base - n)
    BY <1>1, <1>2, GapsMove
  <2> QED BY <2>1 DEF b, e
<1>8. Len(x.e_offs) = Len(e)
  <2>1. Len(Lowered(e, n)) = Len(e)
    <3>1. Lowered(e, n) \in Seq(Nat)
      BY <1>6 DEF Woven, e
    <3>2. DOMAIN Lowered(e, n) = DOMAIN e
      BY DEF Lowered
    <3> QED BY <1>4, <3>1, <3>2
  <2> QED BY <2>1 DEF e
<1>9. Tracks(c, other, x.b_offs, x.e_offs, z, base - n, x.phase)
  BY <1>1, <1>6, <1>7, <1>8 DEF Tracks
<1>10. base - n < 0 => z = "field"
  BY <1>1, <1>2
<1>11. lo - n = 0 \/ lo - n <= base - n
  BY <1>1, <1>2
<1>12. ASSUME NEW k \in 1..Len(x.b_offs)  PROVE lo - n <= x.b_offs[k]
  <2>1. /\ Len(Lowered(b, n)) = Len(b)
        /\ \A j \in 1..Len(b) : Lowered(b, n)[j] = b[j] - n
    BY <1>4, <1>5, LoweredIs
  <2>2. k \in 1..Len(b) /\ x.b_offs[k] = b[k] - n
    BY <1>12, <2>1 DEF b
  <2> QED BY <1>2, <1>5, <2>2
<1>13. Within(x.r_offs, lo - n, base - n)
  BY <1>1, <1>2, WithinLowered DEF r
<1>14. ASSUME NEW k \in 1..Len(x.r_offs)  PROVE QuoteAt(c, other, x.r_offs[k])
  <2>1. r \in Seq(Nat) /\ \A j \in 1..Len(r) : lo <= r[j] /\ r[j] < base
    BY <1>1 DEF Within
  <2>2. \A j \in 1..Len(r) : r[j] \in Nat
    BY <2>1
  <2>3. \A j \in 1..Len(r) : n <= r[j]
    BY <1>2, <2>1, <2>2
  <2>4. /\ Len(Lowered(r, n)) = Len(r)
        /\ \A j \in 1..Len(r) : Lowered(r, n)[j] = r[j] - n
    BY <2>1, <2>3, LoweredIs
  <2>5. k \in 1..Len(r) /\ x.r_offs[k] = r[k] - n
    BY <1>14, <2>4 DEF r
  <2>6. r[k] \in Int /\ lo <= r[k] /\ r[k] < hi /\ QuoteAt(c, bytes, r[k])
    <3>1. r[k] \in Nat /\ lo <= r[k] /\ r[k] < base
      BY <2>1, <2>2, <2>5
    <3>2. QuoteAt(c, bytes, r[k])
      BY <1>1, <2>5
    <3>3. base \in Int /\ hi \in Int /\ base < hi
      BY <1>2
    <3> QED BY <3>1, <3>2, <3>3
  <2>7. lo \in Int
    BY <1>2
  <2>8. QuoteAt(c, other, r[k] - n)
    BY <1>2, <2>6, <2>7, ByteMoves
  <2> QED BY <2>5, <2>8
<1>15. IndexBehind(c, x, other, base - n)
  BY <1>11, <1>12, <1>13, <1>14 DEF IndexBehind, lo
<1> QED BY <1>1, <1>3, <1>9, <1>10, <1>15 DEF IndexReady, z

LEMMA LoweredNone ==
  ASSUME NEW o \in Seq(Nat)
  PROVE  Lowered(o, 0) = o
<1>1. \A k \in DOMAIN o : o[k] \in Nat
  OBVIOUS
<1>2. \A k \in DOMAIN o : Masks!Minus(o[k], 0) = o[k]
  BY <1>1 DEF Masks!Minus
<1>3. Lowered(o, 0) = [k \in DOMAIN o |-> o[k]]
  BY <1>2 DEF Lowered
<1> QED BY <1>3

(* Bytes that stay the same up to where the stepper has got.               *)
LEMMA IndexKept ==
  ASSUME NEW c, NEW s, NEW bytes, NEW p \in Nat, IndexInv(c, s, bytes, p), NEW other,
         s.scanner.pending # Index!NoVector =>
           Moves(bytes, other, 0, s.record_buf_start, p)
  PROVE  IndexInv(c, s, other, p)
<1>1. CASE s.scanner.pending = Index!NoVector
  BY <1>1 DEF IndexInv
<1>2. CASE s.scanner.pending # Index!NoVector
  <2> DEFINE base == p - Width
  <2>1. IndexReady(c, s, bytes, base) /\ s.record_buf_start \in Nat
    BY <1>2 DEF IndexInv
  <2>2. base \in Int /\ base + Width = p /\ base - 0 = base
    BY WidthType
  <2> HIDE DEF base
  <2>3. s.b_offs \in Seq(Nat) /\ s.e_offs \in Seq(Nat) /\ s.r_offs \in Seq(Nat)
    BY <2>1 DEF IndexReady, Tracks, Woven, IndexBehind, Within
  <2>4. /\ s.b_offs = Lowered(s.b_offs, 0) /\ s.e_offs = Lowered(s.e_offs, 0)
        /\ s.r_offs = Lowered(s.r_offs, 0)
    BY <2>3, LoweredNone
  <2>5. 0 \in Nat /\ 0 <= s.record_buf_start /\ s.record_buf_start = s.record_buf_start - 0
    BY <2>1
  <2>6. Moves(bytes, other, 0, s.record_buf_start, base + Width)
    BY <1>2, <2>2
  <2>7. IndexReady(c, s, other, base - 0)
    BY <2>1, <2>2, <2>4, <2>5, <2>6, ReadyMoves
  <2> QED BY <1>2, <2>2, <2>7 DEF IndexInv, base
<1> QED BY <1>1, <1>2

LEMMA IndexShifts ==
  ASSUME NEW c, NEW s, NEW bytes, NEW S, bytes \in Seq(S), NEW p \in Nat, p <= Len(bytes),
         IndexInv(c, s, bytes, p)
  PROVE  LET n == s.record_buf_start
         IN  /\ n <= p
             /\ IndexInv(c, Index!Shifted(s, n), SubSeq(bytes, n + 1, Len(bytes)), p - n)
<1> DEFINE n == s.record_buf_start
           x == Index!Shifted(s, n)
           other == SubSeq(bytes, n + 1, Len(bytes))
<1>1. IndexShape(s) /\ n \in Nat
  BY DEF IndexInv
<1>2. \A a : Index!Minus(a, n) = Masks!Minus(a, n)
  BY DEF Index!Minus, Masks!Minus
<1>3. Index!Minus(n, n) = 0 /\ n - n = 0
  BY <1>1 DEF Index!Minus
<1>4. x = [s EXCEPT !.record_buf_start = 0, !.b_offs = Lowered(s.b_offs, n),
                    !.e_offs = Lowered(s.e_offs, n), !.r_offs = Lowered(s.r_offs, n)]
  <2> DEFINE b == [k \in DOMAIN s.b_offs |-> Index!Minus(s.b_offs[k], n)]
             e == [k \in DOMAIN s.e_offs |-> Index!Minus(s.e_offs[k], n)]
             r == [k \in DOMAIN s.r_offs |-> Index!Minus(s.r_offs[k], n)]
  <2>1. x = [s EXCEPT !.record_buf_start = Index!Minus(n, n), !.b_offs = b, !.e_offs = e,
                      !.r_offs = r]
    BY DEF Index!Shifted
  <2>2. b = Lowered(s.b_offs, n) /\ e = Lowered(s.e_offs, n) /\ r = Lowered(s.r_offs, n)
    BY <1>2 DEF Lowered
  <2> HIDE DEF b, e, r, x
  <2> QED BY <1>3, <2>1, <2>2
<1> HIDE DEF x
<1>5. /\ IndexShape(x) /\ x.record_buf_start = 0 /\ x.scanner = s.scanner /\ x.phase = s.phase
      /\ x.b_offs = Lowered(s.b_offs, n) /\ x.e_offs = Lowered(s.e_offs, n)
      /\ x.r_offs = Lowered(s.r_offs, n)
  BY <1>1, <1>4 DEF IndexShape
<1>6. CASE s.scanner.pending = Index!NoVector
  <2>1. IndexFresh(s, p)
    BY <1>6 DEF IndexInv
  <2>2. n = 0 /\ p = 0 /\ p - n = 0
    BY <2>1 DEF IndexFresh
  <2>3. <<0>> \in Seq(Nat) /\ <<>> \in Seq(Nat)
    OBVIOUS
  <2>4. Lowered(<<0>>, 0) = <<0>> /\ Lowered(<<>>, 0) = <<>>
    BY <2>3, LoweredNone
  <2>5. x.b_offs = <<0>> /\ x.e_offs = <<>> /\ x.r_offs = <<>>
    BY <1>5, <2>1, <2>2, <2>4 DEF IndexFresh
  <2>6. IndexFresh(x, 0)
    BY <1>5, <2>1, <2>5 DEF IndexFresh
  <2>7. IndexInv(c, x, other, 0)
    BY <1>5, <1>6, <2>6 DEF IndexInv
  <2> QED BY <2>2, <2>7 DEF x
<1>7. CASE s.scanner.pending # Index!NoVector
  <2> DEFINE base == p - Width
  <2>1. IndexReady(c, s, bytes, base)
    BY <1>7 DEF IndexInv
  <2>2. n = 0 \/ n <= base
    BY <2>1 DEF IndexReady, IndexBehind
  <2>3. base \in Int /\ base + Width = p /\ n <= p /\ p - n \in Nat /\ (p - n) - Width = base - n
    BY <1>1, <2>2, WidthType
  <2> HIDE DEF base
  <2>4. Moves(bytes, other, n, n, base + Width)
    <3> DEFINE to == Len(bytes)
    <3>1. to \in Nat /\ n \in Nat /\ n <= to /\ to <= Len(bytes) /\ p <= to
      BY <1>1, <2>3
    <3> HIDE DEF to, n
    <3>2. \A i \in 1..(to - n) : SubSeq(bytes, n + 1, to)[i] = bytes[n + i]
      BY <3>1, Slice
    <3>3. ASSUME NEW q \in Int, n <= q, q < p
          PROVE  SubSeq(bytes, n + 1, to)[(q - n) + 1] = bytes[q + 1]
      <4> DEFINE i == (q - n) + 1
      <4>1. i \in 1..(to - n) /\ n + i = q + 1
        BY <3>1, <3>3
      <4> HIDE DEF i
      <4>2. SubSeq(bytes, n + 1, to)[i] = bytes[q + 1]
        BY <3>2, <4>1
      <4> QED BY <4>2 DEF i
    <3> QED BY <2>3, <3>3 DEF Moves, to, n
  <2>5. IndexReady(c, x, other, base - n)
    <3>1. n <= n /\ x.record_buf_start = s.record_buf_start - n
      BY <1>1, <1>3, <1>5
    <3> HIDE DEF other
    <3> QED BY <1>1, <1>5, <2>1, <2>3, <2>4, <3>1, ReadyMoves
  <2> QED BY <1>5, <1>7, <2>3, <2>5 DEF IndexInv, x
<1> QED BY <1>6, <1>7

(* Moving bytes of records together leaves those behind them alone.        *)
LEMMA CompactedIs ==
  ASSUME NEW c, NEW s, NEW S, NEW bytes \in Seq(S), NEW count
  PROVE  LET y == Index!Compacted(c, s, bytes, count)
         IN  /\ \E U : y \in Seq(U)
             /\ Len(y) = Len(bytes)
             /\ \A q \in 0..(Len(bytes) - 1) :
                  (\A k \in 1..(count * c.field_count) : ~(q < s.e_offs[k]))
                    => y[q + 1] = bytes[q + 1]
<1> DEFINE y == Index!Compacted(c, s, bytes, count)
           To(k) == Index!Field(s, bytes, k)
           Moved(i) == \E k \in Index!FieldOf(c, s, i - 1, count) :
                         i - s.b_offs[k] \in DOMAIN To(k)
           From(i) == LET k == CHOOSE k \in Index!FieldOf(c, s, i - 1, count) : TRUE
                      IN  To(k)[i - s.b_offs[k]]
           g(i) == IF Moved(i) THEN From(i) ELSE bytes[i]
           U == {g(i) : i \in 1..Len(bytes)}
<1>1. DOMAIN bytes = 1..Len(bytes) /\ Len(bytes) \in Nat
  OBVIOUS
<1>2. y = [i \in DOMAIN bytes |-> g(i)]
  BY DEF Index!Compacted
<1>3. \A i : Index!FieldOf(c, s, i, count)
               = {k \in 1..(count * c.field_count) : s.b_offs[k] <= i /\ i < s.e_offs[k]}
  BY DEF Index!FieldOf
<1> HIDE DEF To, From
<1>4. ASSUME NEW q \in 0..(Len(bytes) - 1),
             \A k \in 1..(count * c.field_count) : ~(q < s.e_offs[k])
      PROVE  g(q + 1) = bytes[q + 1]
  <2>1. Index!FieldOf(c, s, q, count) = {}
    BY <1>3, <1>4
  <2>2. (q + 1) - 1 = q
    OBVIOUS
  <2>3. ~Moved(q + 1)
    BY <2>1, <2>2
  <2> QED BY <2>3
<1> HIDE DEF y, g
<1>5. y = [i \in 1..Len(bytes) |-> g(i)]
  BY <1>1, <1>2
<1>6. [i \in 1..Len(bytes) |-> g(i)] \in [1..Len(bytes) -> U]
  OBVIOUS
<1> HIDE DEF U
<1>7. y \in Seq(U) /\ Len(y) = Len(bytes)
  BY <1>1, <1>5, <1>6
<1>8. \A q \in 0..(Len(bytes) - 1) : y[q + 1] = g(q + 1)
  BY <1>1, <1>5
<1> QED BY <1>4, <1>7, <1>8 DEF y

IndexFlushed(c, f, s, bytes, p) ==
  /\ IndexInv(c, f.st, f.buf, p) /\ f.st.scanner = s.scanner
  /\ Len(f.buf) = Len(bytes) /\ \E U : f.buf \in Seq(U)

(* Records, the last of which ends before what is held back.               *)
LEMMA RecordsFlush ==
  ASSUME NEW c, Dialect(c), NEW s, NEW p \in Nat, NEW S, NEW bytes \in Seq(S), p <= Len(bytes),
         IndexInv(c, s, bytes, p), s.scanner.pending # Index!NoVector,
         NEW count \in Nat \ {0}, count * c.field_count \in 1..Len(s.e_offs),
         NEW start, NEW term, term.ended,
         RunBetween(c, bytes, s.e_offs[count * c.field_count], start, term.end, p - Width),
         NEW total, NEW left, NEW stop
  PROVE  IndexFlushed(c, Index!Flushed(c, s, bytes, total, left, count, stop, term), s, bytes, p)
<1> DEFINE n == c.field_count
           m == count * n
           base == p - Width
           f == Index!Flushed(c, s, bytes, total, left, count, stop, term)
           anchor == total + Index!Handoff(term.start, left, stop)
           b == Beyond(s.b_offs, m)
           e == Beyond(s.e_offs, m)
           beyond == {k \in DOMAIN s.r_offs : s.r_offs[k] > s.e_offs[m]}
           r == IF beyond = {} THEN <<>> ELSE SubSeq(s.r_offs, Index!Min(beyond), Len(s.r_offs))
           y == Index!Compacted(c, s, bytes, count)
<1>1. /\ IndexShape(s) /\ s.record_buf_start \in Nat /\ IndexReady(c, s, bytes, base)
  BY DEF IndexInv
<1>2. /\ f.st = [s EXCEPT !.b_offs = b, !.e_offs = e, !.r_offs = r,
                          !.record_buf_start = term.end + 1, !.last_record_end = anchor]
      /\ f.buf = y
  <2>1. Index!Consumed(s, m) = [s EXCEPT !.b_offs = b, !.e_offs = e, !.r_offs = r]
    BY DEF Index!Consumed, Beyond
  <2>2. /\ f.st = [Index!Consumed(s, m) EXCEPT
                     !.record_buf_start = IF term.ended THEN term.end + 1 ELSE @,
                     !.last_record_end = anchor]
        /\ f.buf = y
    BY DEF Index!Flushed
  <2> HIDE DEF b, e, r, y, anchor, f, m
  <2> QED BY <1>1, <2>1, <2>2 DEF IndexShape
<1> HIDE DEF f, anchor
<1>3. /\ IndexShape(f.st) /\ f.st.scanner = s.scanner /\ f.st.phase = s.phase
      /\ f.st.b_offs = b /\ f.st.e_offs = e /\ f.st.r_offs = r
      /\ f.st.record_buf_start = term.end + 1
  <2> HIDE DEF b, e, r, y, m
  <2>1. IndexShape(s)
    BY <1>1
  <2>2. f.st = [s EXCEPT !.b_offs = b, !.e_offs = e, !.r_offs = r,
                         !.record_buf_start = term.end + 1, !.last_record_end = anchor]
    BY <1>2
  <2> HIDE DEF anchor
  <2> QED BY <2>1, <2>2, ZenonT(30) DEF IndexShape
<1>4. base \in Int /\ base < p
  BY WidthType
<1>5. Multiple(n, m) /\ m \in 1..Len(s.e_offs) /\ RunBetween(c, bytes, s.e_offs[m], start, term.end, base)
  BY DEF Multiple
<1> HIDE DEF m, base
<1>6. IndexReady(c, f.st, bytes, base) /\ term.end + 1 <= base
  BY <1>1, <1>3, <1>4, <1>5, IndexDrops
<1>7. term.end \in Nat /\ start \in Nat /\ s.e_offs[m] <= start /\ start <= term.end
  BY <1>5 DEF RunBetween
<1>8. IndexInv(c, f.st, bytes, p)
  BY <1>3, <1>6, <1>7 DEF IndexInv, base
<1> DEFINE eo == s.e_offs
           z == StateOf(s.scanner)
<1>9. Woven(s.b_offs, eo, z, base)
  BY <1>1 DEF IndexReady, Tracks
<1>10. Within(eo, 0, base) /\ eo \in Seq(Nat)
  BY <1>4, <1>9, WovenAscends DEF Within
<1>15. m \in 1..Len(eo)
  BY <1>5
<1>16. eo[m] <= start
  BY <1>7
<1> HIDE DEF eo
<1>17. \A j \in 1..Len(eo) : eo[j] \in Nat
  BY <1>10
<1>11. ASSUME NEW k \in 1..m  PROVE eo[k] <= term.end
  <2>1. k \in 1..Len(eo) /\ m \in 1..Len(eo) /\ k <= m
    BY <1>10, <1>15
  <2>2. eo[k] <= eo[m]
    BY <1>4, <1>10, <2>1, AscendingOn
  <2>3. eo[k] \in Nat /\ eo[m] \in Nat
    BY <1>17, <2>1
  <2> QED BY <1>7, <1>16, <2>2, <2>3
<1>12. /\ \E U : y \in Seq(U)
       /\ Len(y) = Len(bytes)
       /\ \A q \in 0..(Len(bytes) - 1) :
            (\A k \in 1..m : ~(q < s.e_offs[k])) => y[q + 1] = bytes[q + 1]
  BY CompactedIs DEF m
<1> HIDE DEF y
<1>13. Moves(bytes, y, 0, f.st.record_buf_start, p)
  <2>1. ASSUME NEW q \in Int, term.end + 1 <= q, q < p  PROVE y[(q - 0) + 1] = bytes[q + 1]
    <3>1. q \in 0..(Len(bytes) - 1) /\ (q - 0) + 1 = q + 1
      BY <1>7, <2>1
    <3>2. ASSUME NEW k \in 1..m  PROVE ~(q < s.e_offs[k])
      <4>1. k \in 1..Len(eo)
        BY <1>10, <1>15
      <4>2. eo[k] \in Nat /\ eo[k] <= term.end
        BY <1>11, <1>17, <4>1
      <4>3. ~(q < eo[k])
        BY <1>7, <2>1, <4>2
      <4> QED BY <4>3 DEF eo
    <3> QED BY <1>12, <3>1, <3>2
  <2> QED BY <1>3, <2>1 DEF Moves
<1>14. IndexInv(c, f.st, y, p)
  BY <1>8, <1>13, IndexKept
<1> QED BY <1>2, <1>3, <1>12, <1>14 DEF IndexFlushed, f

LEMMA OffsetsAreSeq ==
  ASSUME NEW c, NEW s, NEW bytes, NEW p, IndexInv(c, s, bytes, p)
  PROVE  s.b_offs \in Seq(Nat) /\ s.e_offs \in Seq(Nat)
<1>1. <<0>> \in Seq(Nat) /\ <<>> \in Seq(Nat)
  OBVIOUS
<1>2. CASE s.scanner.pending = Index!NoVector
  <2>1. s.b_offs = <<0>> /\ s.e_offs = <<>>
    BY <1>2 DEF IndexInv, IndexFresh
  <2> QED BY <1>1, <2>1
<1>3. CASE s.scanner.pending # Index!NoVector
  BY <1>3 DEF IndexInv, IndexReady, Tracks, Woven
<1> QED BY <1>2, <1>3

LEMMA IndexFlushes ==
  ASSUME NEW c, Dialect(c), NEW s, NEW p \in Nat, NEW S, NEW bytes \in Seq(S), p <= Len(bytes),
         IndexInv(c, s, bytes, p), NEW left \in Nat, NEW total,
         ~Index!FlushRecords(c, s, bytes, p - Width, left, total).stop
  PROVE  IndexFlushed(c, Index!FlushRecords(c, s, bytes, p - Width, left, total), s, bytes, p)
<1> DEFINE n == c.field_count
           base == p - Width
           size == Len(s.e_offs) \div n
           terms == [k \in 1..size |-> Index!TermOf(c, bytes, s.e_offs[k * n], base, left)]
           ready == {0} \cup {k \in DOMAIN terms : terms[k].resolved}
           avail == Index!Max(ready)
           take == IF left = 0 THEN [count |-> 1, stop |-> TRUE]
                   ELSE Index!Belonging(terms, avail, left)
           f == Index!FlushRecords(c, s, bytes, base, left, total)
<1>1. f = IF avail = 0 THEN Index!Nothing(s, bytes)
          ELSE Index!Flushed(c, s, bytes, total, left, take.count, take.stop, terms[take.count])
  BY Zenon DEF Index!FlushRecords
<1>2. n \in Nat \ {0}
  BY DEF Dialect
<1>3. Len(s.e_offs) \in Nat
  <2>1. s.e_offs \in Seq(Nat)
    BY OffsetsAreSeq
  <2> QED BY <2>1
<1>4. size \in Nat /\ size * n <= Len(s.e_offs)
  <2> DEFINE x == Len(s.e_offs)
  <2>1. PICK j \in Nat : \E k \in 0..(n - 1) : x = j * n + k
    BY <1>2, <1>3, Division
  <2>2. x \div n = j /\ j * n <= x
    <3>1. PICK k \in 0..(n - 1) : x = j * n + k
      BY <2>1
    <3> HIDE DEF x, n
    <3>2. \A y \in Nat : y = j * n + k => y \div n = j
      BY <1>2
    <3>3. j * n \in Nat
      BY <1>2
    <3> QED BY <1>2, <1>3, <3>1, <3>2, <3>3 DEF x
  <2> QED BY <2>1, <2>2
<1>5. base \in Int
  BY WidthType
<1>6. ~f.stop
  OBVIOUS
<1> HIDE DEF size, f
<1>7. DOMAIN terms = 1..size /\ ready \in SUBSET (0..size) /\ ready # {}
  <2>1. DOMAIN terms = 1..size
    OBVIOUS
  <2> HIDE DEF terms
  <2>2. \A k \in ready : k = 0 \/ k \in 1..size
    BY <2>1
  <2>3. \A k \in ready : k \in 0..size
    <3> HIDE DEF ready
    <3> QED BY <1>4, <2>2
  <2> QED BY <2>1, <2>3
<1>8. avail \in ready
  <2> HIDE DEF ready
  <2> QED BY <1>4, <1>7, IndexGreatest
<1>9. CASE avail = 0
  <2>1. f = Index!Nothing(s, bytes)
    BY <1>1, <1>9, Zenon
  <2>2. f.st = s /\ f.buf = bytes
    BY <2>1 DEF Index!Nothing
  <2> QED BY <2>2 DEF IndexFlushed, f
<1>10. CASE avail # 0
  <2>1. avail \in 1..size /\ terms[avail].resolved
    BY <1>7, <1>8, <1>10, Zenon
  <2> HIDE DEF avail, ready
  <2>2. f = Index!Flushed(c, s, bytes, total, left, take.count, take.stop, terms[take.count])
    BY <1>1, <1>10
  <2>3. ~take.stop
    <3>1. f.stop = take.stop
      BY <2>2, Zenon DEF Index!Flushed
    <3> QED BY <1>6, <3>1, Zenon
  <2>4. take.count = avail /\ terms[avail].ended
    <3>1. left # 0 /\ take = Index!Belonging(terms, avail, left)
      BY <2>3, Zenon
    <3> HIDE DEF take, terms
    <3> QED BY <2>3, <3>1 DEF Index!Belonging
  <2> DEFINE stop == take.stop
             term == terms[avail]
             m == avail * n
  <2>5. f = Index!Flushed(c, s, bytes, total, left, avail, stop, term)
    BY <2>2, <2>4
  <2> HIDE DEF take, stop
  <2>6. m \in 1..Len(s.e_offs)
    <3>1. avail \in Nat /\ avail >= 1 /\ avail <= size
      BY <1>4, <2>1
    <3>2. avail * n <= size * n /\ avail * n >= 1 /\ avail * n \in Nat
      <4> DEFINE d == size - avail
                 an == avail * n
                 dn == d * n
                 sn == size * n
      <4>1. d \in Nat /\ size = avail + d
        BY <1>4, <3>1
      <4>2. sn = an + dn /\ an \in Nat /\ dn \in Nat
        <5> HIDE DEF d
        <5>1. (avail + d) * n = avail * n + d * n /\ avail * n \in Nat /\ d * n \in Nat
          BY <1>2, <3>1, <4>1
        <5> QED BY <4>1, <5>1
      <4>3. an >= 1
        <5>1. \A x \in Nat : x >= 1 => x * n >= 1
          BY <1>2
        <5> QED BY <3>1, <5>1
      <4> HIDE DEF an, dn, sn
      <4>4. an <= sn /\ an >= 1 /\ an \in Nat
        BY <4>2, <4>3
      <4> QED BY <4>4 DEF an, sn
    <3> DEFINE sn == size * n
    <3>3. m <= sn /\ m >= 1 /\ m \in Nat /\ sn <= Len(s.e_offs) /\ sn \in Nat
      BY <1>2, <1>4, <3>2
    <3> HIDE DEF m, sn
    <3> QED BY <1>3, <3>3
  <2>7. term = Index!TermOf(c, bytes, s.e_offs[m], base, left)
    BY <2>1
  <2>8. s.scanner.pending # Index!NoVector
    <3>1. ASSUME s.scanner.pending = Index!NoVector  PROVE FALSE
      <4>1. Len(s.e_offs) = 0
        BY <3>1 DEF IndexInv, IndexFresh
      <4> HIDE DEF m
      <4> QED BY <2>6, <4>1
    <3> QED BY <3>1
  <2>9. s.e_offs[m] \in Nat
    <3>1. s.e_offs \in Seq(Nat)
      BY OffsetsAreSeq
    <3> HIDE DEF m
    <3> QED BY <2>6, <3>1
  <2> HIDE DEF term, terms
  <2> DEFINE from == s.e_offs[m]
  <2>10. PICK start \in Nat : RunBetween(c, bytes, from, start, term.end, base)
    <3>1. from \in Nat
      BY <2>9
    <3>2. term.resolved /\ term.ended
      BY <2>1, <2>4 DEF term
    <3> HIDE DEF from
    <3>3. Index!TermOf(c, bytes, from, base, left) = term
      BY <2>7 DEF from
    <3> QED BY <1>5, <3>1, <3>2, <3>3, TermEnds
  <2>11. avail \in Nat \ {0} /\ term.ended
    BY <1>4, <2>1, <2>4 DEF term
  <2>12. IndexFlushed(c, Index!Flushed(c, s, bytes, total, left, avail, stop, term), s, bytes, p)
    BY <2>6, <2>8, <2>10, <2>11, RecordsFlush
  <2> QED BY <2>5, <2>12, Zenon DEF f
<1> QED BY <1>9, <1>10, Zenon

-----------------------------------------------------------------------------
(* The driver's loop, with either stepper.                                 *)
StepperInv(c, s, bytes, p) ==
  IF c.quote # P!NoByte THEN IndexInv(c, s, bytes, p) ELSE CursorInv(s, p)

Driven ==
  /\ job \in Jobs /\ total_consumed \in Nat /\ remaining \in Nat
  /\ pos \in Nat /\ pos <= Len(buf) /\ \E S : buf \in Seq(S)
  /\ StepperInv(config, st, buf, pos)
DriverInv == phase # "returned" => Driven

LEMMA JobsDialect ==
  ASSUME NEW j \in Jobs
  PROVE  Dialect(j.config) /\ j.bytes \in Seq(STRING) /\ j.limit \in Nat
<1> DEFINE c == j.config
<1>1. /\ P!ValidDialect(c) /\ Backends!SimdSupports(c)
      /\ {P!NoByte, Masks!Pad} \cap ({c.delimiter} \cup P!Terminators(c)) = {}
      /\ c.quote # Masks!Pad
      /\ j.bytes \in Seq(STRING) /\ j.limit \in Nat
  BY JobsAssumption
<1> HIDE DEF c
<1>2. c.field_count \in Nat \ {0}
  <2>1. c.field_count \in 1..Backends!FixedMaxArity
    BY <1>1, Zenon DEF Backends!SimdSupports
  <2>2. c.field_count \in 1..63
    BY <2>1, Zenon DEF Backends!FixedMaxArity
  <2> QED BY <2>2
<1>3. /\ ({c.delimiter, c.quote, c.escape, c.comment} \ {P!NoByte}) \cap P!Terminators(c) = {}
      /\ c.delimiter # c.quote
  BY <1>1 DEF P!ValidDialect
<1>4. c.delimiter \notin P!Terminators(c) /\ c.quote \notin P!Terminators(c)
  BY <1>1, <1>3
<1>5. Dialect(c)
  BY <1>1, <1>2, <1>3, <1>4 DEF Dialect
<1> QED BY <1>1, <1>5 DEF c

LEMMA NoVectors == Index!NoVector = Cursor!NoVector
BY DEF Index!NoVector, Cursor!NoVector

(* Where the first vector lies.                                            *)
LEMMA FreshAt ==
  ASSUME NEW c, NEW s, NEW bytes, NEW p, StepperInv(c, s, bytes, p)
  PROVE  IF c.quote # P!NoByte THEN s.scanner.pending = Index!NoVector => p = 0
         ELSE s.pending = Cursor!NoVector => p = 0
BY DEF StepperInv, IndexInv, IndexFresh, CursorInv, CursorFresh

LEMMA StepperFlag ==
  ASSUME NEW c, NEW s, NEW bytes, NEW p, StepperInv(c, s, bytes, p), NEW flag,
         NEW x, x = [s EXCEPT !.needs_align_prologue = flag]
  PROVE  StepperInv(c, x, bytes, p)
<1>1. CASE c.quote # P!NoByte
  <2>1. IndexInv(c, s, bytes, p)
    BY <1>1 DEF StepperInv
  <2>2. /\ IndexShape(x) /\ x.scanner = s.scanner /\ x.phase = s.phase
        /\ x.b_offs = s.b_offs /\ x.e_offs = s.e_offs /\ x.r_offs = s.r_offs
        /\ x.record_buf_start = s.record_buf_start
    <3>1. IndexShape(s)
      BY <2>1 DEF IndexInv
    <3> QED BY <3>1 DEF IndexShape
  <2>3. IndexInv(c, x, bytes, p)
    BY <2>1, <2>2 DEF IndexInv, IndexFresh, IndexReady, IndexBehind
  <2> QED BY <1>1, <2>3 DEF StepperInv
<1>2. CASE ~(c.quote # P!NoByte)
  <2>1. CursorInv(s, p)
    BY <1>2 DEF StepperInv
  <2>2. /\ CursorShape(x) /\ x.pending = s.pending /\ x.bounds = s.bounds
        /\ x.cell_start = s.cell_start
    <3>1. CursorShape(s)
      BY <2>1 DEF CursorInv
    <3> QED BY <3>1 DEF CursorShape
  <2>3. CursorInv(x, p)
    BY <2>1, <2>2 DEF CursorInv, CursorFresh, CursorReady, CursorHeld
  <2> QED BY <1>2, <2>3 DEF StepperInv
<1> QED BY <1>1, <1>2

LEMMA VectorIsHeld ==
  ASSUME NEW bytes, NEW q \in Nat
  PROVE  Masks!Vector(bytes, q) = HeldVector(bytes, q)
<1>1. Masks!Lanes = Lane
  BY DEF Masks!Lanes, Lane, Width
<1>2. \A i \in Lane : q + i >= 0
  BY WidthType DEF Lane
<1>3. Masks!Vector(bytes, q) = [i \in Lane |-> bytes[q + i + 1]]
  BY <1>1 DEF Masks!Vector
<1> QED BY <1>2, <1>3 DEF HeldVector

LEMMA PrologueIsHeld ==
  ASSUME NEW bytes, NEW misalign \in Lane
  PROVE  Masks!PrologueVector(bytes, misalign) = HeldVector(bytes, -misalign)
<1>1. Masks!Lanes = Lane
  BY DEF Masks!Lanes, Lane, Width
<1>2. ASSUME NEW i \in Lane
      PROVE  /\ i < misalign <=> ~(-misalign + i >= 0)
             /\ i - misalign + 1 = -misalign + i + 1
  BY WidthType DEF Lane
<1>3. Masks!PrologueVector(bytes, misalign)
        = [i \in Lane |-> IF i < misalign THEN Masks!Pad ELSE bytes[i - misalign + 1]]
  BY <1>1 DEF Masks!PrologueVector
<1>4. \A i \in Lane : (IF i < misalign THEN Masks!Pad ELSE bytes[i - misalign + 1])
                        = (IF -misalign + i >= 0 THEN bytes[-misalign + i + 1] ELSE Masks!Pad)
  BY <1>2
<1> QED BY <1>3, <1>4 DEF HeldVector

(* A scan, at a position where there is a vector.                          *)
LEMMA StepperScans ==
  ASSUME NEW c, Dialect(c), NEW s, NEW bytes, NEW p \in Nat, StepperInv(c, s, bytes, p),
         NEW q \in Int, q + Width \in Nat, NEW cursor,
         IF IF c.quote # P!NoByte THEN s.scanner.pending = Index!NoVector
                                  ELSE s.pending = Cursor!NoVector
         THEN q <= 0 ELSE q = p /\ cursor = p,
         NEW x, x = IF c.quote # P!NoByte THEN Index!ScanVector(c, s, HeldVector(bytes, q), cursor)
                    ELSE Cursor!ScanVector(c, s, HeldVector(bytes, q), q)
  PROVE  /\ x.ok => StepperInv(c, x.st, bytes, q + Width)
         /\ (IF c.quote # P!NoByte THEN s.scanner.pending = Index!NoVector
             ELSE s.pending = Cursor!NoVector) => StepperInv(c, x.st, bytes, q + Width)
<1>1. CASE c.quote # P!NoByte
  <2>1. IndexInv(c, s, bytes, p)
    BY <1>1 DEF StepperInv
  <2>2. IF s.scanner.pending = Index!NoVector THEN q <= 0 ELSE q = p /\ cursor = p
    BY <1>1
  <2>3. x = Index!ScanVector(c, s, HeldVector(bytes, q), cursor)
    BY <1>1
  <2>4. /\ s.scanner.pending = Index!NoVector => x.ok
        /\ x.ok => IndexInv(c, x.st, bytes, q + Width)
    BY <2>1, <2>2, <2>3, IndexScans
  <2> QED BY <1>1, <2>4 DEF StepperInv
<1>2. CASE ~(c.quote # P!NoByte)
  <2>1. CursorInv(s, p)
    BY <1>2 DEF StepperInv
  <2>2. IF s.pending = Cursor!NoVector THEN q <= 0 ELSE q = p
    BY <1>2
  <2>3. x = Cursor!ScanVector(c, s, HeldVector(bytes, q), q)
    BY <1>2
  <2>4. \A i \in Lane : q + i < 0 => HeldVector(bytes, q)[i] = Masks!Pad
    <3>1. \A i \in Lane : q + i < 0 => ~(q + i >= 0)
      BY WidthType DEF Lane
    <3> QED BY <3>1 DEF HeldVector
  <2>5. CursorInv(x.st, q + Width)
    BY <2>1, <2>2, <2>3, <2>4, CursorScans
  <2> QED BY <1>2, <2>5 DEF StepperInv
<1> QED BY <1>1, <1>2

-----------------------------------------------------------------------------
(* A flush leaves the stepper as it has to be at position p.               *)
FlushKeeps(f, p) ==
  /\ StepperInv(config, f.st, f.buf, p)
  /\ Len(f.buf) = Len(buf) /\ \E U : f.buf \in Seq(U)

LEMMA NothingKeeps ==
  ASSUME Driven, NEW s, NEW p, StepperInv(config, s, buf, p)
  PROVE  FlushKeeps(Nothing(s), p) /\ ~Nothing(s).stop
<1>1. Nothing(s) = [st |-> s, buf |-> buf, records |-> <<>>, stop |-> FALSE]
  BY DEF Nothing, Index!Nothing
<1>2. Nothing(s).st = s /\ Nothing(s).buf = buf /\ Nothing(s).stop = FALSE
  BY <1>1
<1>3. \E U : buf \in Seq(U)
  BY DEF Driven
<1> QED BY <1>2, <1>3 DEF FlushKeeps

LEMMA FlushDoes ==
  ASSUME Driven, NEW s, NEW p \in Nat, p <= Len(buf), StepperInv(config, s, buf, p),
         ~Flush(s, p).stop
  PROVE  FlushKeeps(Flush(s, p), p)
<1>1. Dialect(config)
  BY JobsDialect DEF Driven, config
<1>2. PICK S : buf \in Seq(S)
  BY DEF Driven
<1>3. remaining \in Nat
  BY DEF Driven
<1>4. CASE config.quote # P!NoByte
  <2>1. IndexInv(config, s, buf, p)
    BY <1>4 DEF StepperInv
  <2>2. Flush(s, p) = Index!FlushRecords(config, s, buf, p - Width, remaining, total_consumed)
    BY <1>4 DEF Flush, Quoted, Width
  <2>3. ~Index!FlushRecords(config, s, buf, p - Width, remaining, total_consumed).stop
    BY <2>2
  <2>4. IndexFlushed(config, Flush(s, p), s, buf, p)
    BY <1>1, <1>2, <1>3, <2>1, <2>2, <2>3, IndexFlushes
  <2>5. /\ IndexInv(config, Flush(s, p).st, Flush(s, p).buf, p)
        /\ Len(Flush(s, p).buf) = Len(buf) /\ \E U : Flush(s, p).buf \in Seq(U)
    BY <2>4 DEF IndexFlushed
  <2> QED BY <1>4, <2>5 DEF FlushKeeps, StepperInv
<1>5. CASE ~(config.quote # P!NoByte)
  <2>1. CursorInv(s, p)
    BY <1>5 DEF StepperInv
  <2>2. Flush(s, p) = Cursor!FlushRecords(config, s, buf, remaining, total_consumed)
    BY <1>5 DEF Flush, Quoted
  <2>3. ~Cursor!FlushRecords(config, s, buf, remaining, total_consumed).stop
    BY <2>2
  <2>4. CursorInv(Flush(s, p).st, p) /\ Flush(s, p).buf = buf
    BY <1>1, <2>1, <2>2, <2>3, CursorFlushes
  <2> QED BY <1>2, <1>5, <2>4 DEF FlushKeeps, StepperInv
<1> QED BY <1>4, <1>5

-----------------------------------------------------------------------------
(* The consumed bytes go, and what has been read moves to the front.       *)
LEMMA StepperShifts ==
  ASSUME NEW s, NEW bytes, NEW S, bytes \in Seq(S), NEW p \in Nat, p <= Len(bytes),
         StepperInv(config, s, bytes, p)
  PROVE  /\ Consumable(s) \in Nat /\ Consumable(s) <= p
         /\ StepperInv(config, Shifted(s, Consumable(s)),
                       SubSeq(bytes, Consumable(s) + 1, Len(bytes)), p - Consumable(s))
<1>1. CASE config.quote # P!NoByte
  <2>1. IndexInv(config, s, bytes, p)
    BY <1>1 DEF StepperInv
  <2>2. Consumable(s) = s.record_buf_start /\ \A n : Shifted(s, n) = Index!Shifted(s, n)
    BY <1>1 DEF Consumable, Index!Consumable, Shifted, Quoted
  <2>3. s.record_buf_start \in Nat
    BY <2>1 DEF IndexInv
  <2>4. /\ s.record_buf_start <= p
        /\ IndexInv(config, Index!Shifted(s, s.record_buf_start),
                    SubSeq(bytes, s.record_buf_start + 1, Len(bytes)), p - s.record_buf_start)
    BY <2>1, IndexShifts
  <2> QED BY <1>1, <2>2, <2>3, <2>4 DEF StepperInv
<1>2. CASE ~(config.quote # P!NoByte)
  <2>1. CursorInv(s, p)
    BY <1>2 DEF StepperInv
  <2>2. Consumable(s) = s.cell_start /\ \A n : Shifted(s, n) = Cursor!Shifted(s, n)
    BY <1>2 DEF Consumable, Cursor!Consumable, Shifted, Quoted
  <2>3. s.cell_start \in Nat
    BY <2>1 DEF CursorInv
  <2>4. s.cell_start <= p /\ CursorInv(Cursor!Shifted(s, s.cell_start), p - s.cell_start)
    BY <2>1, CursorShifts
  <2> QED BY <1>2, <2>2, <2>3, <2>4 DEF StepperInv
<1> QED BY <1>1, <1>2

(* More bytes behind those that there are.                                 *)
LEMMA StepperRefills ==
  ASSUME NEW c, NEW s, NEW bytes, NEW S, bytes \in Seq(S), NEW p \in Nat, p <= Len(bytes),
         StepperInv(c, s, bytes, p), NEW T, NEW more, more \in Seq(T)
  PROVE  /\ StepperInv(c, s, bytes \o more, p) /\ p <= Len(bytes \o more)
         /\ bytes \o more \in Seq(S \cup T)
<1>1. /\ bytes \in Seq(S \cup T) /\ more \in Seq(S \cup T)
      /\ Len(bytes) \in Nat /\ Len(more) \in Nat
  OBVIOUS
<1>2. /\ bytes \o more \in Seq(S \cup T) /\ Len(bytes \o more) = Len(bytes) + Len(more)
      /\ \A i \in 1..(Len(bytes) + Len(more)) :
           (bytes \o more)[i] = IF i <= Len(bytes) THEN bytes[i] ELSE more[i - Len(bytes)]
  BY <1>1, ConcatProperties
<1>3. p <= Len(bytes \o more)
  BY <1>1, <1>2
<1>4. CASE c.quote # P!NoByte
  <2>1. IndexInv(c, s, bytes, p)
    BY <1>4 DEF StepperInv
  <2>2. s.record_buf_start \in Nat
    BY <2>1 DEF IndexInv
  <2>3. ASSUME NEW q \in Int, s.record_buf_start <= q, q < p
        PROVE  (bytes \o more)[(q - 0) + 1] = bytes[q + 1]
    <3>1. (q - 0) + 1 = q + 1 /\ q + 1 \in 1..(Len(bytes) + Len(more)) /\ q + 1 <= Len(bytes)
      BY <1>1, <2>2, <2>3
    <3> QED BY <1>2, <3>1
  <2>4. Moves(bytes, bytes \o more, 0, s.record_buf_start, p)
    BY <2>3 DEF Moves
  <2>5. IndexInv(c, s, bytes \o more, p)
    BY <2>1, <2>4, IndexKept
  <2> QED BY <1>2, <1>3, <1>4, <2>5 DEF StepperInv
<1>5. CASE ~(c.quote # P!NoByte)
  BY <1>2, <1>3, <1>5 DEF StepperInv
<1> QED BY <1>4, <1>5

-----------------------------------------------------------------------------
(* The driver's steps.                                                     *)
LEMMA DriverBegins == Init => Driven
<1> SUFFICES ASSUME Init PROVE Driven
  OBVIOUS
<1>1. /\ job \in Jobs /\ buf = <<>> /\ remaining = job.limit /\ pos = 0 /\ total_consumed = 0
      /\ st = IF config.quote # P!NoByte THEN Index!NewStepper ELSE Cursor!NewStepper
  BY DEF Init, Quoted
<1>2. remaining \in Nat
  BY <1>1, JobsDialect
<1>3. buf \in Seq(STRING) /\ Len(buf) = 0
  BY <1>1
<1>4. CASE config.quote # P!NoByte
  <2>1. st = Index!NewStepper
    BY <1>1, <1>4
  <2>2. IndexShape(st) /\ st.scanner = Index!NewScanner /\ st.phase = 0 /\ st.b_offs = <<0>>
        /\ st.e_offs = <<>> /\ st.r_offs = <<>> /\ st.record_buf_start = 0
    BY <2>1 DEF Index!NewStepper, IndexShape
  <2>3. st.scanner.pending = Index!NoVector
    BY <2>2 DEF Index!NewScanner
  <2>4. IndexInv(config, st, buf, pos)
    BY <1>1, <2>2, <2>3 DEF IndexInv, IndexFresh
  <2>5. StepperInv(config, st, buf, pos)
    BY <1>4, <2>4 DEF StepperInv
  <2> QED BY <1>1, <1>2, <1>3, <2>5 DEF Driven
<1>5. CASE ~(config.quote # P!NoByte)
  <2>1. st = Cursor!NewStepper
    BY <1>1, <1>5
  <2>2. CursorShape(st) /\ st.pending = Cursor!NoVector /\ st.bounds = <<>> /\ st.cell_start = 0
    BY <2>1 DEF Cursor!NewStepper, CursorShape
  <2>3. CursorInv(st, pos)
    BY <1>1, <2>2 DEF CursorInv, CursorFresh
  <2>4. StepperInv(config, st, buf, pos)
    BY <1>5, <2>3 DEF StepperInv
  <2> QED BY <1>1, <1>2, <1>3, <2>4 DEF Driven
<1> QED BY <1>4, <1>5

LEMMA DrivenOn ==
  ASSUME job \in Jobs, job' = job, total_consumed' \in Nat, remaining' \in Nat,
         pos' \in Nat, pos' <= Len(buf'), NEW S, buf' \in Seq(S),
         StepperInv(config, st', buf', pos')
  PROVE  Driven'
<1>1. config' = config
  BY DEF config
<1>2. StepperInv(config', st', buf', pos')
  BY <1>1
<1> QED BY <1>2 DEF Driven, StepperInv

LEMMA RefillKeeps ==
  ASSUME Driven, NEW n \in 1..BytesLeft, Refill(n)
  PROVE  Driven'
<1> DEFINE from == total_consumed + Len(buf)
           more == SubSeq(job.bytes, from + 1, from + n)
<1>1. job \in Jobs /\ total_consumed \in Nat /\ remaining \in Nat /\ pos \in Nat /\ pos <= Len(buf)
      /\ StepperInv(config, st, buf, pos)
  BY DEF Driven
<1>2. PICK S : buf \in Seq(S)
  BY DEF Driven
<1>3. job.bytes \in Seq(STRING)
  BY <1>1, JobsDialect
<1>4. n \in Nat /\ from \in Nat /\ from + n \in Nat /\ from <= from + n
      /\ from + n <= Len(job.bytes)
  <2>1. Len(buf) \in Nat /\ Len(job.bytes) \in Nat
    BY <1>2, <1>3
  <2>2. n \in 1..(Len(job.bytes) - from)
    BY DEF BytesLeft
  <2> QED BY <1>1, <2>1, <2>2
<1>5. buf' = buf \o more
  BY DEF Refill
<1>6. job' = job /\ remaining' = remaining /\ pos' = pos /\ total_consumed' = total_consumed
      /\ st' = st
  BY DEF Refill, driver
<1> HIDE DEF from
<1>7. more \in Seq(STRING)
  BY <1>3, <1>4, Slice
<1> HIDE DEF more
<1>8. StepperInv(config, st, buf', pos) /\ pos <= Len(buf') /\ buf' \in Seq(S \cup STRING)
  BY <1>1, <1>2, <1>5, <1>7, StepperRefills
<1> QED BY <1>1, <1>6, <1>8, DrivenOn

LEMMA PrologueKeeps ==
  ASSUME Driven, NEW misalign \in 0..(VectorBytes - 1), Prologue(misalign)
  PROVE  Driven'
<1>1. job \in Jobs /\ total_consumed \in Nat /\ remaining \in Nat /\ pos \in Nat /\ pos <= Len(buf)
      /\ StepperInv(config, st, buf, pos)
  BY DEF Driven
<1>2. PICK S : buf \in Seq(S)
  BY DEF Driven
<1>3. Dialect(config)
  BY <1>1, JobsDialect DEF config
<1>4. job' = job /\ remaining' = remaining /\ total_consumed' = total_consumed /\ buf' = buf
  BY DEF Prologue, reader
<1>5. pos = 0 /\ (IF config.quote # P!NoByte THEN st.scanner.pending = Index!NoVector
                  ELSE st.pending = Cursor!NoVector)
  BY DEF Prologue, WantsPrologue, Vectorless, Index!Vectorless, Cursor!Vectorless, Quoted
<1>6. CASE misalign = 0 \/ Len(buf) < Skip(misalign) + VectorBytes
  <2>1. PICK flag : st' = [st EXCEPT !.needs_align_prologue = flag]
    BY <1>6 DEF Prologue
  <2>2. pos' = pos
    BY <1>6 DEF Prologue
  <2>3. StepperInv(config, st', buf, pos)
    BY <1>1, <2>1, StepperFlag
  <2> QED BY <1>1, <1>2, <1>4, <2>2, <2>3, DrivenOn
<1>7. CASE ~(misalign = 0 \/ Len(buf) < Skip(misalign) + VectorBytes)
  <2> DEFINE x == ScannedPrologue(Masks!PrologueVector(buf, misalign), misalign)
             q == -misalign
  <2>1. st' = [x.st EXCEPT !.needs_align_prologue = FALSE] /\ pos' = Skip(misalign)
    BY <1>7 DEF Prologue
  <2>2. misalign \in Lane /\ Width = VectorBytes
    BY DEF Lane, Width
  <2>3. x = IF config.quote # P!NoByte THEN Index!ScanVector(config, st, HeldVector(buf, q), 0)
            ELSE Cursor!ScanVector(config, st, HeldVector(buf, q), q)
    BY <2>2, PrologueIsHeld DEF ScannedPrologue, Quoted
  <2>4. q \in Int /\ q <= 0 /\ q + Width \in Nat /\ q + Width = Skip(misalign)
    BY <2>2, WidthType DEF Lane, Skip
  <2>5. Skip(misalign) <= Len(buf)
    <3>1. Len(buf) \in Nat
      BY <1>2
    <3> QED BY <1>7, <2>2, <2>4, <3>1, WidthType
  <2> HIDE DEF x, q
  <2>6. StepperInv(config, x.st, buf, q + Width)
    BY <1>1, <1>3, <1>5, <2>3, <2>4, StepperScans
  <2>7. StepperInv(config, st', buf, pos')
    BY <2>1, <2>4, <2>6, StepperFlag
  <2> QED BY <1>1, <1>2, <1>4, <2>1, <2>4, <2>5, <2>7, DrivenOn
<1> QED BY <1>6, <1>7

LEMMA VectorKeeps ==
  ASSUME Driven, HasVector, NEW scanned, scanned = Scanned(Masks!Vector(buf, pos)), scanned.ok,
         NEW f, f = Batch(scanned.st), ScanVector(f)
  PROVE  Driven'
<1>1. job \in Jobs /\ total_consumed \in Nat /\ remaining \in Nat /\ pos \in Nat /\ pos <= Len(buf)
      /\ StepperInv(config, st, buf, pos)
  BY DEF Driven
<1>2. PICK S : buf \in Seq(S)
  BY DEF Driven
<1>3. Dialect(config)
  BY <1>1, JobsDialect DEF config
<1>4. job' = job /\ remaining' = remaining /\ total_consumed' = total_consumed
      /\ st' = f.st /\ buf' = f.buf /\ pos' = pos + VectorBytes /\ ~f.stop
  BY DEF ScanVector, Goes
<1>5. Width = VectorBytes /\ pos + Width \in Nat /\ pos + Width <= Len(buf) /\ pos \in Int
  BY <1>1, WidthType DEF Width, HasVector
<1>6. scanned = IF config.quote # P!NoByte
                THEN Index!ScanVector(config, st, HeldVector(buf, pos), pos)
                ELSE Cursor!ScanVector(config, st, HeldVector(buf, pos), pos)
  BY <1>1, VectorIsHeld DEF Scanned, Quoted
<1>7. IF IF config.quote # P!NoByte THEN st.scanner.pending = Index!NoVector
                                     ELSE st.pending = Cursor!NoVector
      THEN pos <= 0 ELSE pos = pos /\ pos = pos
  <2>1. IF config.quote # P!NoByte THEN st.scanner.pending = Index!NoVector => pos = 0
        ELSE st.pending = Cursor!NoVector => pos = 0
    BY <1>1, FreshAt
  <2> QED BY <2>1
<1>8. StepperInv(config, scanned.st, buf, pos + Width)
  BY <1>1, <1>3, <1>5, <1>6, <1>7, StepperScans
<1>9. FlushKeeps(f, pos + Width)
  <2>1. CASE f = Nothing(scanned.st)
    BY <1>8, <2>1, NothingKeeps
  <2>2. CASE f = Flush(scanned.st, pos + Width)
    BY <1>4, <1>5, <1>8, <2>2, FlushDoes
  <2> QED BY <1>5, <2>1, <2>2 DEF Batch
<1>10. PICK U : f.buf \in Seq(U)
  BY <1>9 DEF FlushKeeps
<1>11. StepperInv(config, f.st, f.buf, pos + Width) /\ Len(f.buf) = Len(buf)
  BY <1>9 DEF FlushKeeps
<1>12. /\ StepperInv(config, st', buf', pos') /\ pos' \in Nat /\ pos' <= Len(buf')
       /\ buf' \in Seq(U)
  BY <1>4, <1>5, <1>10, <1>11
<1> QED BY <1>1, <1>4, <1>12, DrivenOn

LEMMA SuspendKeeps ==
  ASSUME Driven, NEW f, f = Completed, Suspend(f)
  PROVE  Driven'
<1> DEFINE n == Consumable(f.st)
<1>1. job \in Jobs /\ total_consumed \in Nat /\ remaining \in Nat /\ pos \in Nat /\ pos <= Len(buf)
      /\ StepperInv(config, st, buf, pos)
  BY DEF Driven
<1>2. /\ job' = job /\ ~f.stop /\ buf' = SubSeq(f.buf, n + 1, Len(f.buf))
      /\ remaining' = Masks!Minus(remaining, n) /\ total_consumed' = total_consumed + n
      /\ pos' = pos - n /\ st' = Shifted(f.st, n)
  BY DEF Suspend, Goes
<1>3. FlushKeeps(f, pos)
  <2>1. CASE f = Nothing(st)
    BY <1>1, <2>1, NothingKeeps
  <2>2. CASE f = Flush(st, pos)
    BY <1>1, <1>2, <2>2, FlushDoes
  <2> QED BY <2>1, <2>2 DEF Completed
<1>4. PICK U : f.buf \in Seq(U)
  BY <1>3 DEF FlushKeeps
<1>5. StepperInv(config, f.st, f.buf, pos) /\ Len(f.buf) = Len(buf)
  BY <1>3 DEF FlushKeeps
<1>6. /\ n \in Nat /\ n <= pos
      /\ StepperInv(config, Shifted(f.st, n), SubSeq(f.buf, n + 1, Len(f.buf)), pos - n)
  BY <1>1, <1>4, <1>5, StepperShifts
<1> HIDE DEF n
<1>7. Len(f.buf) \in Nat /\ n <= Len(f.buf)
  BY <1>1, <1>4, <1>5, <1>6
<1>8. buf' \in Seq(U) /\ Len(buf') = Len(f.buf) - n
  BY <1>2, <1>4, <1>6, <1>7, Slice
<1>9. /\ remaining' \in Nat /\ total_consumed' \in Nat /\ pos' \in Nat /\ pos' <= Len(buf')
  <2>1. Masks!Minus(remaining, n) \in Nat
    BY <1>1, <1>6 DEF Masks!Minus
  <2> QED BY <1>1, <1>2, <1>5, <1>6, <1>7, <1>8, <2>1
<1>10. StepperInv(config, st', buf', pos')
  BY <1>2, <1>6
<1> QED BY <1>1, <1>2, <1>8, <1>9, <1>10, DrivenOn

LEMMA DriverSteps == DriverInv /\ [Next]_vars => DriverInv'
<1> SUFFICES ASSUME DriverInv, [Next]_vars PROVE DriverInv'
  OBVIOUS
<1> DEFINE Ended == phase' = "returned"
<1>1. Ended => DriverInv'
  BY DEF DriverInv
<1>2. (phase # "returned" => Driven' \/ Ended) /\ (phase = "returned" => Ended) => DriverInv'
  BY <1>1 DEF DriverInv
<1>3. phase # "returned" => Driven
  BY DEF DriverInv
<1>4. ASSUME NEW n \in 1..BytesLeft, Refill(n)  PROVE DriverInv'
  <2>1. phase # "returned"
    BY <1>4 DEF Refill
  <2> QED BY <1>2, <1>3, <1>4, <2>1, RefillKeeps
<1>5. ASSUME NEW misalign \in 0..(VectorBytes - 1), Prologue(misalign)  PROVE DriverInv'
  <2>1. phase # "returned"
    BY <1>5 DEF Prologue
  <2> QED BY <1>2, <1>3, <1>5, <2>1, PrologueKeeps
<1>6. CASE NoPrologue
  <2>1. phase # "returned" /\ job' = job /\ total_consumed' = total_consumed
        /\ remaining' = remaining /\ pos' = pos /\ buf' = buf /\ st' = st
    BY <1>6 DEF NoPrologue, reader, driver
  <2>2. Driven
    BY <1>3, <2>1
  <2>3. Driven'
    BY <2>1, <2>2 DEF Driven, config, StepperInv
  <2> QED BY <1>2, <2>1, <2>3
<1>7. ASSUME NEW end, NEW error, Return(error, end)  PROVE DriverInv'
  BY <1>1, <1>7 DEF Return
<1>8. ASSUME NEW f, Ends(f)  PROVE DriverInv'
  BY <1>7, <1>8 DEF Ends
<1>9. ASSUME NEW scanned, RejectVector(scanned)  PROVE DriverInv'
  BY <1>7, <1>9 DEF RejectVector
<1>10. ASSUME HasVector, NEW scanned, scanned = Scanned(Masks!Vector(buf, pos)), scanned.ok,
              NEW f, f = Batch(scanned.st), ScanVector(f)
       PROVE  DriverInv'
  <2>1. phase # "returned"
    BY <1>10 DEF HasVector
  <2>2. Driven
    BY <1>3, <2>1
  <2>3. Driven'
    BY <1>10, <2>2, VectorKeeps
  <2> QED BY <1>2, <2>1, <2>3
<1>11. ASSUME phase = "scan", NEW f, f = Completed, Suspend(f)  PROVE DriverInv'
  <2>1. phase # "returned"
    BY <1>11
  <2> QED BY <1>2, <1>3, <1>11, <2>1, SuspendKeeps
<1>12. CASE FinishEmpty
  BY <1>7, <1>12 DEF FinishEmpty
<1>13. ASSUME NEW drained, FinishUnclosed(drained)  PROVE DriverInv'
  BY <1>7, <1>13 DEF FinishUnclosed
<1>14. ASSUME NEW f, Finish(f)  PROVE DriverInv'
  BY <1>7, <1>8, <1>14 DEF Finish
<1>15. CASE UNCHANGED vars
  <2>1. phase' = phase /\ job' = job /\ total_consumed' = total_consumed
        /\ remaining' = remaining /\ pos' = pos /\ buf' = buf /\ st' = st
    BY <1>15 DEF vars, reader, driver
  <2>2. CASE phase = "returned"
    BY <1>1, <2>1, <2>2
  <2>3. CASE phase # "returned"
    <3>1. Driven
      BY <1>3, <2>3
    <3>2. Driven'
      BY <2>1, <3>1 DEF Driven, config, StepperInv
    <3> QED BY <1>2, <2>3, <3>2
  <2> QED BY <2>2, <2>3
<1> HIDE DEF Ended
<1> QED
  BY <1>4, <1>5, <1>6, <1>8, <1>9, <1>10, <1>11, <1>12, <1>13, <1>14, <1>15, Zenon DEF Next

-----------------------------------------------------------------------------
(* What a stepper has taken over is in order.                              *)
LEMMA WovenPairs ==
  ASSUME NEW b, NEW e, NEW s, NEW p \in Int, Woven(b, e, s, p)
  PROVE  /\ b \in Seq(Nat) /\ e \in Seq(Nat) /\ Len(b) >= Len(e)
         /\ \A k \in 1..Len(e) : b[k] <= e[k] /\ e[k] < p
<1>1. /\ b \in Seq(Nat) /\ e \in Seq(Nat) /\ Len(b) \in Nat /\ Len(e) \in Nat
      /\ Len(b) = Len(e) \/ Len(b) = Len(e) + 1
      /\ \A k \in 1..Len(e) : b[k] <= e[k] /\ e[k] < p
  BY DEF Woven
<1> QED BY <1>1

LEMMA FieldsAreInOrder ==
  ASSUME Driven, config.quote # P!NoByte
  PROVE  FieldsInOrder
<1>1. IndexInv(config, st, buf, pos) /\ pos \in Nat
  BY DEF Driven, StepperInv
<1>2. CASE st.scanner.pending = Index!NoVector
  <2>1. st.b_offs = <<0>> /\ st.e_offs = <<>> /\ st.r_offs = <<>>
    BY <1>1, <1>2 DEF IndexInv, IndexFresh
  <2>2. /\ Len(st.b_offs) = 1 /\ Len(st.e_offs) = 0 /\ Len(st.r_offs) = 0
        /\ DOMAIN st.e_offs = {} /\ DOMAIN st.r_offs = {}
    BY <2>1
  <2>3. 2..1 = {} /\ 2..0 = {}
    OBVIOUS
  <2>4. Ascending(st.b_offs) /\ Ascending(st.e_offs) /\ Ascending(st.r_offs)
    BY <2>2, <2>3 DEF Ascending
  <2> QED BY <2>2, <2>4 DEF FieldsInOrder
<1>3. CASE st.scanner.pending # Index!NoVector
  <2> DEFINE base == pos - Width
  <2>1. IndexReady(config, st, buf, base)
    BY <1>1, <1>3 DEF IndexInv
  <2>2. base \in Int /\ base <= pos
    BY <1>1, WidthType
  <2> HIDE DEF base
  <2>3. PICK s : Woven(st.b_offs, st.e_offs, s, base)
    BY <2>1 DEF IndexReady, Tracks
  <2>4. Ascending(st.b_offs) /\ Within(st.e_offs, 0, base)
    BY <2>2, <2>3, WovenAscends
  <2>5. Within(st.r_offs, st.record_buf_start, base)
    BY <2>1 DEF IndexReady, IndexBehind
  <2>6. /\ st.b_offs \in Seq(Nat) /\ st.e_offs \in Seq(Nat)
        /\ Len(st.b_offs) >= Len(st.e_offs)
        /\ \A k \in 1..Len(st.e_offs) : st.b_offs[k] <= st.e_offs[k] /\ st.e_offs[k] < base
    BY <2>2, <2>3, WovenPairs
  <2>7. Len(st.b_offs) >= Len(st.e_offs)
    BY <2>6
  <2>8. ASSUME NEW k \in DOMAIN st.e_offs
        PROVE  st.b_offs[k] <= st.e_offs[k] /\ st.e_offs[k] < pos
    <3>1. k \in 1..Len(st.e_offs) /\ st.e_offs[k] \in Nat
      BY <2>6, NatAt
    <3>2. st.b_offs[k] <= st.e_offs[k] /\ st.e_offs[k] < base
      BY <2>6, <3>1
    <3> QED BY <1>1, <2>2, <3>1, <3>2
  <2>9. ASSUME NEW k \in DOMAIN st.r_offs  PROVE st.r_offs[k] < pos
    <3>1. st.r_offs \in Seq(Nat)
      BY <2>5 DEF Within
    <3>2. k \in 1..Len(st.r_offs) /\ st.r_offs[k] \in Nat
      BY <3>1
    <3>3. st.r_offs[k] < base
      BY <2>5, <3>2 DEF Within
    <3> QED BY <1>1, <2>2, <3>2, <3>3
  <2>10. Ascending(st.e_offs) /\ Ascending(st.r_offs)
    BY <2>4, <2>5 DEF Within
  <2> QED BY <2>4, <2>7, <2>8, <2>9, <2>10 DEF FieldsInOrder
<1> QED BY <1>2, <1>3

LEMMA BoundsAreInOrder ==
  ASSUME Driven, ~(config.quote # P!NoByte)
  PROVE  BoundsInOrder
<1>1. CursorInv(st, pos) /\ pos \in Nat
  BY DEF Driven, StepperInv
<1>2. Vectorless <=> st.pending = Cursor!NoVector
  BY DEF Vectorless, Cursor!Vectorless, Quoted
<1>3. CASE st.pending = Cursor!NoVector
  <2>1. Len(st.bounds) = 0 /\ DOMAIN st.bounds = {}
    BY <1>1, <1>3 DEF CursorInv, CursorFresh
  <2>2. Ascending(st.bounds)
    BY <2>1 DEF Ascending
  <2> QED BY <1>2, <1>3, <2>1, <2>2 DEF BoundsInOrder
<1>4. CASE st.pending # Cursor!NoVector
  <2> DEFINE base == pos - Width
  <2>1. CursorReady(st, base)
    BY <1>1, <1>4 DEF CursorInv
  <2>2. base \in Int /\ base <= pos /\ base = pos - VectorBytes
    BY <1>1, WidthType DEF Width
  <2> HIDE DEF base
  <2>3. Within(st.bounds, st.cell_start, base)
    BY <2>1 DEF CursorReady
  <2>4. st.pending.base = base
    BY <2>1 DEF CursorReady, CursorHeld
  <2>5. ASSUME NEW k \in DOMAIN st.bounds
        PROVE  st.cell_start <= st.bounds[k] /\ st.bounds[k] < pos
    <3>1. st.bounds \in Seq(Nat)
      BY <2>3 DEF Within
    <3>2. k \in 1..Len(st.bounds) /\ st.bounds[k] \in Nat
      BY <3>1
    <3>3. st.cell_start <= st.bounds[k] /\ st.bounds[k] < base
      BY <2>3, <3>2 DEF Within
    <3> QED BY <1>1, <2>2, <3>2, <3>3
  <2>6. Ascending(st.bounds)
    BY <2>3 DEF Within
  <2> QED BY <2>2, <2>4, <2>5, <2>6 DEF BoundsInOrder
<1> QED BY <1>3, <1>4

LEMMA DriverInOrder == DriverInv => OffsetsInOrder
<1> SUFFICES ASSUME DriverInv, phase # "returned"
             PROVE  /\ IF Quoted THEN FieldsInOrder ELSE BoundsInOrder
                    /\ Consumable(st) <= pos /\ pos <= Len(buf)
  BY DEF OffsetsInOrder
<1>1. Driven
  BY DEF DriverInv
<1>2. IF Quoted THEN FieldsInOrder ELSE BoundsInOrder
  BY <1>1, FieldsAreInOrder, BoundsAreInOrder DEF Quoted
<1>3. pos \in Nat /\ pos <= Len(buf) /\ StepperInv(config, st, buf, pos)
  BY <1>1 DEF Driven
<1>4. PICK S : buf \in Seq(S)
  BY <1>1 DEF Driven
<1>5. Consumable(st) <= pos
  BY <1>3, <1>4, StepperShifts
<1> QED BY <1>2, <1>3, <1>5

(* The offsets that the emission slices by without a check are in order    *)
(* (index.rs, cursor_stepper.rs), in every state of the driver's loop: the *)
(* masks of a vector begin and end fields in turn, whatever the vectors    *)
(* around it hold, and a flush, the compaction of the buffer, the shift    *)
(* behind a consumed prefix and a refill leave it at that.                 *)
THEOREM SimdOffsetsInOrder == Spec => []OffsetsInOrder
<1>1. Init => DriverInv
  BY DriverBegins DEF DriverInv
<1>2. DriverInv /\ [Next]_vars => DriverInv'
  BY DriverSteps
<1>3. DriverInv => OffsetsInOrder
  BY DriverInOrder
<1> QED BY <1>1, <1>2, <1>3, PTL DEF Spec

-----------------------------------------------------------------------------
(* The levels.  A word of w bits, and a loop that changes what it has once *)
(* in every round.                                                         *)
Bits(w) == 0..(w - 1)

Iterated(f, x, g, k) == f = [n \in 0..k |-> IF n = 0 THEN x ELSE g[f[n - 1]]]

LEMMA Iterates ==
  ASSUME NEW S, NEW x \in S, NEW g \in [S -> S], NEW k \in Nat
  PROVE  \E f \in [0..k -> S] : Iterated(f, x, g, k)
<1> DEFINE Runs(j) == \E f \in [0..j -> S] :
                        f = [n \in 0..j |-> IF n = 0 THEN x ELSE g[f[n - 1]]]
           T == {j \in Nat : ~Runs(j)}
<1>1. ASSUME NEW j \in T, \A i \in T : j <= i  PROVE FALSE
  <2>1. j \in Nat /\ ~Runs(j)
    BY <1>1
  <2>2. CASE j = 0
    <3> DEFINE f == [n \in 0..0 |-> x]
    <3>1. f \in [0..0 -> S] /\ f = [n \in 0..0 |-> IF n = 0 THEN x ELSE g[f[n - 1]]]
      OBVIOUS
    <3> HIDE DEF f
    <3> QED BY <2>1, <2>2, <3>1
  <2>3. CASE j # 0
    <3>1. j - 1 \in Nat /\ ~(j <= j - 1)
      BY <2>1, <2>3
    <3>2. Runs(j - 1)
      BY <1>1, <3>1
    <3>3. PICK f \in [0..(j - 1) -> S] :
                 f = [n \in 0..(j - 1) |-> IF n = 0 THEN x ELSE g[f[n - 1]]]
      BY <3>2
    <3> DEFINE h == [n \in 0..j |-> IF n = j THEN g[f[n - 1]] ELSE f[n]]
    <3>4. ASSUME NEW n \in 0..j
          PROVE  h[n] \in S /\ h[n] = IF n = 0 THEN x ELSE g[h[n - 1]]
      <4>1. n # 0 => n - 1 \in 0..(j - 1) /\ n - 1 \in 0..j /\ n - 1 # j
        BY <2>1
      <4>2. n # 0 => h[n - 1] = f[n - 1] /\ f[n - 1] \in S
        BY <4>1
      <4>3. n # j => n \in 0..(j - 1)
        BY <2>1
      <4>4. n # j => h[n] = f[n] /\ f[n] = IF n = 0 THEN x ELSE g[f[n - 1]]
        BY <3>3, <4>3
      <4>5. n = j => h[n] = g[f[n - 1]]
        OBVIOUS
      <4>6. h[n] = IF n = 0 THEN x ELSE g[h[n - 1]]
        BY <2>3, <4>2, <4>4, <4>5
      <4> QED BY <4>2, <4>6
    <3>5. h = [n \in 0..j |-> h[n]]
      OBVIOUS
    <3> HIDE DEF h
    <3>6. h \in [0..j -> S]
      BY <3>4, <3>5
    <3>7. h = [n \in 0..j |-> IF n = 0 THEN x ELSE g[h[n - 1]]]
      BY <3>4, <3>5
    <3> QED BY <2>1, <3>6, <3>7
  <2> QED BY <2>2, <2>3
<1>2. T = {}
  <2>1. T \in SUBSET Nat
    OBVIOUS
  <2> HIDE DEF T
  <2> QED BY <1>1, <2>1, LeastElement
<1> QED BY <1>2 DEF Iterated

(* A property of the first round that every round keeps.                   *)
LEMMA RoundsKeep ==
  ASSUME NEW k \in Nat, NEW G \in SUBSET Nat, 0 \in G,
         \A n \in 0..(k - 1) : n \in G => n + 1 \in G
  PROVE  \A n \in 0..k : n \in G
<1> DEFINE T == {n \in 0..k : n \notin G}
<1>1. ASSUME NEW n \in T, \A i \in T : n <= i  PROVE FALSE
  <2>1. n \in 0..k /\ n \notin G /\ n # 0
    BY <1>1
  <2>2. n - 1 \in 0..(k - 1) /\ (n - 1) + 1 = n /\ ~(n <= n - 1) /\ n - 1 \in 0..k
    BY <2>1
  <2>3. n - 1 \in G
    BY <1>1, <2>2
  <2> QED BY <2>1, <2>2, <2>3
<1>2. T = {}
  <2>1. T \in SUBSET Nat
    OBVIOUS
  <2> HIDE DEF T
  <2> QED BY <1>1, <2>1, LeastElement
<1> QED BY <1>2

LEMMA WordCardinality ==
  ASSUME NEW S
  PROVE  Masks!Cardinality(S) = Cardinality(S)
BY DEF Masks!Cardinality, Cardinality

LEMMA WordLeast ==
  ASSUME NEW S \in SUBSET Nat, S # {}
  PROVE  Masks!Min(S) \in S /\ \A x \in S : Masks!Min(S) <= x
<1>1. \E x \in S : \A y \in S : x <= y
  BY LeastElement
<1> QED BY <1>1 DEF Masks!Min

-----------------------------------------------------------------------------
(* xor_prefix_sum_scalar.  After a shift, a bit is the parity of as many   *)
(* bits of the word, counted back from its own, as all shifts so far add   *)
(* up to.                                                                  *)
Window(q, i, s) == {j \in q : i - s < j /\ j <= i}
ParityIs(q, w, run) ==
  /\ run.shift \in Nat \ {0} /\ run.word \in SUBSET Bits(w)
  /\ \A i \in Bits(w) : i \in run.word <=> Cardinality(Window(q, i, run.shift)) % 2 = 1

LEMMA WindowFinite ==
  ASSUME NEW w \in Nat, NEW q \in SUBSET Bits(w), NEW i, NEW s
  PROVE  IsFiniteSet(Window(q, i, s)) /\ Cardinality(Window(q, i, s)) \in Nat
<1>1. IsFiniteSet(q)
  BY RanksOf DEF Bits
<1>2. Window(q, i, s) \in SUBSET q
  BY DEF Window
<1>3. IsFiniteSet(Window(q, i, s))
  BY <1>1, <1>2, FS_Subset
<1> QED BY <1>3, FS_CardinalityType

LEMMA DoublingKeeps ==
  ASSUME NEW w \in Nat, NEW q \in SUBSET Bits(w), NEW run, ParityIs(q, w, run)
  PROVE  /\ ParityIs(q, w, Masks!Doubled(run, Bits(w)))
         /\ Masks!Doubled(run, Bits(w)).shift = 2 * run.shift
<1> DEFINE s == run.shift
           word == run.word
           next == Masks!Doubled(run, Bits(w))
           count(i, n) == Cardinality(Window(q, i, n))
<1>1. /\ s \in Nat \ {0} /\ word \in SUBSET Bits(w)
      /\ \A i \in Bits(w) : i \in word <=> count(i, s) % 2 = 1
  BY DEF ParityIs
<1>2. /\ next.shift = 2 * s
      /\ next.word = (word \ ({i + s : i \in word} \cap Bits(w)))
                     \cup (({i + s : i \in word} \cap Bits(w)) \ word)
  BY Zenon DEF Masks!Doubled, Masks!SymDiff
<1> HIDE DEF s, word, next
<1>3. \A i \in Bits(w) : i \in next.word
                         <=> ~(i \in word <=> i \in {j + s : j \in word})
  BY <1>2
<1>4. \A i \in Bits(w) : i \in {j + s : j \in word} <=> i - s \in word
  BY <1>1 DEF Bits
<1>5. \A i \in Bits(w) : i \in Nat
  BY DEF Bits
<1>6. ASSUME NEW i \in Bits(w), i - s \in Nat
      PROVE  count(i, 2 * s) = count(i, s) + count(i - s, s) /\ i - s \in Bits(w)
  <2>1. i - s \in Bits(w)
    BY <1>1, <1>6 DEF Bits
  <2> DEFINE A == Window(q, i, s)
             B == Window(q, i - s, s)
  <2>2. A \cap B = {} /\ Window(q, i, 2 * s) = A \cup B
    <3>1. q \in SUBSET Nat
      BY DEF Bits
    <3>2. \A j \in q : (i - 2 * s < j /\ j <= i)
                       <=> (i - s < j /\ j <= i) \/ (i - s - s < j /\ j <= i - s)
      BY <1>1, <1>5, <3>1
    <3>3. \A j \in q : ~((i - s < j /\ j <= i) /\ (i - s - s < j /\ j <= i - s))
      BY <1>1, <1>5, <3>1
    <3> QED BY <3>2, <3>3 DEF Window
  <2>3. IsFiniteSet(A) /\ IsFiniteSet(B) /\ Cardinality(A) \in Nat /\ Cardinality(B) \in Nat
    BY WindowFinite
  <2> HIDE DEF A, B
  <2>4. Cardinality(A \cup B) = Cardinality(A) + Cardinality(B) - Cardinality(A \cap B)
    BY <2>3, FS_Union
  <2>5. Cardinality(A \cap B) = 0
    BY <2>2, FS_EmptySet
  <2>6. Cardinality(A \cup B) = Cardinality(A) + Cardinality(B)
    BY <2>3, <2>4, <2>5
  <2> QED BY <2>1, <2>2, <2>6 DEF A, B
<1>7. ASSUME NEW i \in Bits(w), i - s \notin Nat
      PROVE  count(i, 2 * s) = count(i, s) /\ i - s \notin word
  <2>1. i - s < 0
    BY <1>1, <1>5, <1>7
  <2>2. q \in SUBSET Nat
    BY DEF Bits
  <2>3. \A j \in q : i - 2 * s < j /\ i - s < j
    BY <1>1, <1>5, <2>1, <2>2
  <2>4. Window(q, i, 2 * s) = Window(q, i, s)
    BY <2>3 DEF Window
  <2> QED BY <1>1, <1>7, <2>4 DEF Bits
<1>8. ASSUME NEW i \in Bits(w)
      PROVE  i \in next.word <=> count(i, 2 * s) % 2 = 1
  <2>1. count(i, s) \in Nat /\ count(i - s, s) \in Nat
    BY WindowFinite
  <2>2. i \in word <=> count(i, s) % 2 = 1
    BY <1>1
  <2>3. CASE i - s \in Nat
    <3>1. i - s \in word <=> count(i - s, s) % 2 = 1
      BY <1>1, <1>6, <2>3
    <3>2. count(i, 2 * s) = count(i, s) + count(i - s, s)
      BY <1>6, <2>3
    <3>3. \A a, b \in Nat : (a + b) % 2 = 1 <=> ~(a % 2 = 1 <=> b % 2 = 1)
      OBVIOUS
    <3> HIDE DEF count
    <3> QED BY <1>3, <1>4, <2>1, <2>2, <3>1, <3>2, <3>3
  <2>4. CASE i - s \notin Nat
    BY <1>3, <1>4, <1>7, <2>2, <2>4
  <2> QED BY <2>3, <2>4
<1>9. next.word \in SUBSET Bits(w) /\ next.shift \in Nat \ {0}
  BY <1>1, <1>2
<1>10. next.shift = 2 * run.shift
  BY <1>2 DEF s
<1>11. ParityIs(q, w, next)
  <2>1. \A i \in Bits(w) : i \in next.word <=> Cardinality(Window(q, i, next.shift)) % 2 = 1
    BY <1>2, <1>8
  <2> QED BY <1>9, <2>1 DEF ParityIs
<1> QED BY <1>10, <1>11 DEF next

DoublingRunOf(f, q, bits, k) ==
  f = [n \in 0..k |-> IF n = 0 THEN [word |-> q, shift |-> 1] ELSE Masks!Doubled(f[n - 1], bits)]

LEMMA DoublingRun ==
  ASSUME NEW w \in Nat, NEW q \in SUBSET Bits(w), NEW k \in Nat
  PROVE  \E f : /\ DoublingRunOf(f, q, Bits(w), k)
                /\ \A n \in 0..k : ParityIs(q, w, f[n]) /\ n < f[n].shift
<1> DEFINE S == {run \in [word : SUBSET Bits(w), shift : Nat \ {0}] : ParityIs(q, w, run)}
           first == [word |-> q, shift |-> 1]
           g == [run \in S |-> Masks!Doubled(run, Bits(w))]
<1>1. first \in S
  <2>1. \A i \in Bits(w) : Window(q, i, 1) = IF i \in q THEN {i} ELSE {}
    <3>1. q \in SUBSET Nat /\ Bits(w) \in SUBSET Nat
      BY DEF Bits
    <3>2. \A i \in Bits(w) : \A j \in q : i - 1 < j /\ j <= i <=> j = i
      BY <3>1
    <3> QED BY <3>2 DEF Window
  <2>2. \A i \in Bits(w) : Cardinality(Window(q, i, 1)) = IF i \in q THEN 1 ELSE 0
    BY <2>1, FS_EmptySet, FS_Singleton
  <2>3. 1 % 2 = 1 /\ ~(0 % 2 = 1)
    OBVIOUS
  <2>4. first.word = q /\ first.shift = 1 /\ first \in [word : SUBSET Bits(w), shift : Nat \ {0}]
    OBVIOUS
  <2> HIDE DEF first
  <2>5. ParityIs(q, w, first)
    BY <2>2, <2>3, <2>4 DEF ParityIs
  <2> QED BY <2>4, <2>5
<1>2. ASSUME NEW run \in S
      PROVE  Masks!Doubled(run, Bits(w)) \in S /\ run.shift \in Nat \ {0}
             /\ Masks!Doubled(run, Bits(w)).shift = 2 * run.shift
  <2> DEFINE next == Masks!Doubled(run, Bits(w))
  <2>1. ParityIs(q, w, run)
    OBVIOUS
  <2>2. ParityIs(q, w, next) /\ next.shift = 2 * run.shift
    BY <2>1, DoublingKeeps
  <2>3. next = [word |-> next.word, shift |-> next.shift]
    BY DEF Masks!Doubled
  <2> HIDE DEF next
  <2>4. next.word \in SUBSET Bits(w) /\ next.shift \in Nat \ {0}
    BY <2>2 DEF ParityIs
  <2>5. next \in S
    BY <2>2, <2>3, <2>4
  <2>6. run.shift \in Nat \ {0}
    BY <2>1 DEF ParityIs
  <2> QED BY <2>2, <2>5, <2>6 DEF next
<1> HIDE DEF S
<1>3. g \in [S -> S] /\ \A run \in S : g[run] = Masks!Doubled(run, Bits(w))
  BY <1>2
<1> HIDE DEF g, first
<1>4. PICK f \in [0..k -> S] : Iterated(f, first, g, k)
  BY <1>1, <1>3, Iterates
<1>5. ASSUME NEW n \in 0..k
      PROVE  f[n] = IF n = 0 THEN first ELSE Masks!Doubled(f[n - 1], Bits(w))
  <2>1. n # 0 => n - 1 \in 0..k
    OBVIOUS
  <2>2. n # 0 => g[f[n - 1]] = Masks!Doubled(f[n - 1], Bits(w))
    BY <1>3, <2>1
  <2>3. f[n] = IF n = 0 THEN first ELSE g[f[n - 1]]
    BY <1>4 DEF Iterated
  <2> QED BY <2>2, <2>3
<1>6. DoublingRunOf(f, q, Bits(w), k)
  <2>1. f = [n \in 0..k |-> f[n]]
    OBVIOUS
  <2>2. f = [n \in 0..k |-> IF n = 0 THEN first ELSE Masks!Doubled(f[n - 1], Bits(w))]
    BY <1>5, <2>1
  <2> QED BY <2>2 DEF DoublingRunOf, first
<1>7. \A n \in 0..k : ParityIs(q, w, f[n])
  BY DEF S
<1>8. \A n \in 0..k : n < f[n].shift
  <2> DEFINE G == {n \in 0..k : n < f[n].shift}
  <2>1. 0 \in G
    BY <1>5 DEF first
  <2>2. ASSUME NEW n \in 0..(k - 1), n \in G  PROVE n + 1 \in G
    <3>1. n + 1 \in 0..k /\ n + 1 # 0 /\ (n + 1) - 1 = n /\ n \in 0..k
      OBVIOUS
    <3>2. f[n + 1] = Masks!Doubled(f[n], Bits(w))
      BY <1>5, <3>1
    <3>3. f[n] \in S
      BY <3>1
    <3>4. f[n].shift \in Nat /\ f[n + 1].shift = 2 * f[n].shift
      BY <1>2, <3>2, <3>3
    <3>5. n < f[n].shift
      BY <2>2
    <3> QED BY <3>1, <3>4, <3>5
  <2>3. G \in SUBSET Nat
    OBVIOUS
  <2> HIDE DEF G
  <2>4. \A n \in 0..k : n \in G
    BY <2>1, <2>2, <2>3, RoundsKeep
  <2> QED BY <2>4 DEF G
<1> QED BY <1>6, <1>7, <1>8

(* When the shift is as wide as the word, all bits up to a bit are counted.*)
LEMMA ScalarIsXorPrefixSum ==
  ASSUME NEW w \in Nat, NEW q \in SUBSET Bits(w)
  PROVE  Masks!XorPrefixSumScalar(q, Bits(w)) = Masks!XorPrefixSumOf(q, Bits(w))
<1> DEFINE width == Masks!Cardinality(Bits(w))
           f == CHOOSE h : DoublingRunOf(h, q, Bits(w), width)
           wide == {n \in 0..width : f[n].shift >= width}
<1>1. width = w
  <2>1. Cardinality(Bits(w)) = w
    <3>1. Cardinality(0..(w - 1)) = IF 0 > w - 1 THEN 0 ELSE (w - 1) - 0 + 1
      BY FS_Interval
    <3> QED BY <3>1 DEF Bits
  <2> QED BY <2>1, WordCardinality
<1>2. Masks!XorPrefixSumScalar(q, Bits(w)) = f[Masks!Min(wide)].word
  BY Zenon DEF DoublingRunOf, Masks!XorPrefixSumScalar
<1> HIDE DEF width
<1>3. PICK h : /\ DoublingRunOf(h, q, Bits(w), w)
               /\ \A n \in 0..w : ParityIs(q, w, h[n]) /\ n < h[n].shift
  BY DoublingRun
<1>4. h = f
  <2>1. DoublingRunOf(f, q, Bits(w), w)
    BY <1>1, <1>3, Zenon
  <2> HIDE DEF f
  <2> DEFINE T == {n \in 0..w : h[n] # f[n]}
  <2>2. \A n \in 0..w :
          /\ h[n] = IF n = 0 THEN [word |-> q, shift |-> 1] ELSE Masks!Doubled(h[n - 1], Bits(w))
          /\ f[n] = IF n = 0 THEN [word |-> q, shift |-> 1] ELSE Masks!Doubled(f[n - 1], Bits(w))
    BY <1>3, <2>1, Zenon DEF DoublingRunOf
  <2>3. ASSUME NEW n \in T, \A i \in T : n <= i  PROVE FALSE
    <3>1. n \in 0..w /\ h[n] # f[n]
      BY <2>3
    <3>2. n # 0
      BY <2>2, <3>1
    <3>3. n - 1 \in 0..w /\ ~(n <= n - 1)
      BY <3>1, <3>2
    <3>4. h[n - 1] = f[n - 1]
      BY <2>3, <3>3
    <3> QED BY <2>2, <3>1, <3>2, <3>4
  <2>4. T = {}
    <3>1. T \in SUBSET Nat
      OBVIOUS
    <3> HIDE DEF T
    <3> QED BY <2>3, <3>1, LeastElement
  <2>5. h = [n \in 0..w |-> h[n]] /\ f = [n \in 0..w |-> f[n]]
    BY <1>3, <2>1, Zenon DEF DoublingRunOf
  <2>6. \A n \in 0..w : h[n] = f[n]
    BY <2>4
  <2> QED BY <2>5, <2>6
<1> HIDE DEF f
<1>5. \A n \in 0..w : ParityIs(q, w, f[n]) /\ n < f[n].shift
  BY <1>3, <1>4
<1>6. wide \in SUBSET Nat /\ w \in wide
  <2>1. w \in 0..w
    OBVIOUS
  <2>2. f[w].shift \in Nat /\ w < f[w].shift
    BY <1>5, <2>1 DEF ParityIs
  <2>3. f[w].shift >= w
    BY <2>2
  <2> QED BY <1>1, <2>1, <2>3
<1> DEFINE n == Masks!Min(wide)
<1>7. n \in wide
  <2> HIDE DEF wide
  <2> QED BY <1>6, WordLeast
<1>8. n \in 0..w /\ f[n].shift >= w
  BY <1>1, <1>7
<1> HIDE DEF n, wide
<1>9. ParityIs(q, w, f[n])
  BY <1>5, <1>8
<1>10. ASSUME NEW i \in Bits(w)
       PROVE  i \in f[n].word <=> Masks!Cardinality({j \in q : j <= i}) % 2 = 1
  <2>1. f[n].shift \in Nat
    BY <1>9 DEF ParityIs
  <2>2. \A j \in q : i - f[n].shift < j
    BY <1>8, <2>1 DEF Bits
  <2>3. Window(q, i, f[n].shift) = {j \in q : j <= i}
    BY <2>2 DEF Window
  <2>4. Masks!Cardinality({j \in q : j <= i}) = Cardinality({j \in q : j <= i})
    BY WordCardinality
  <2>5. i \in f[n].word <=> Cardinality(Window(q, i, f[n].shift)) % 2 = 1
    BY <1>9 DEF ParityIs
  <2> QED BY <2>3, <2>4, <2>5
<1>11. f[n].word \in SUBSET Bits(w)
  BY <1>9 DEF ParityIs
<1>12. f[n].word = {i \in Bits(w) : Masks!Cardinality({j \in q : j <= i}) % 2 = 1}
  BY <1>10, <1>11
<1> QED BY <1>2, <1>12 DEF n, Masks!XorPrefixSumOf

-----------------------------------------------------------------------------
(* pext_scalar.  After so many rounds, the bits of the mask are left that  *)
(* have so many before them: the lowest of them is the one of that rank.   *)
ClearingRunOf(f, mask, k) ==
  f = [out_pos \in 0..k |->
         IF out_pos = 0 THEN mask
         ELSE LET before == f[out_pos - 1] IN before \ {Masks!Min(before)}]
RankedFrom(mask, k) == {i \in mask : k <= RankIn(mask, i)}

LEMMA ClearingRunExists ==
  ASSUME NEW mask, NEW k \in Nat
  PROVE  \E f : ClearingRunOf(f, mask, k)
<1> DEFINE S == SUBSET mask
           g == [s \in S |-> s \ {Masks!Min(s)}]
<1>1. mask \in S /\ g \in [S -> S] /\ \A s \in S : g[s] = s \ {Masks!Min(s)}
  OBVIOUS
<1> HIDE DEF S, g
<1>2. PICK f \in [0..k -> S] : Iterated(f, mask, g, k)
  BY <1>1, Iterates
<1>3. ASSUME NEW n \in 0..k
      PROVE  f[n] = IF n = 0 THEN mask ELSE f[n - 1] \ {Masks!Min(f[n - 1])}
  <2>1. n # 0 => n - 1 \in 0..k
    OBVIOUS
  <2>2. n # 0 => g[f[n - 1]] = f[n - 1] \ {Masks!Min(f[n - 1])}
    BY <1>1, <2>1
  <2>3. f[n] = IF n = 0 THEN mask ELSE g[f[n - 1]]
    BY <1>2 DEF Iterated
  <2> QED BY <2>2, <2>3
<1>4. f = [n \in 0..k |-> f[n]]
  OBVIOUS
<1>5. f = [n \in 0..k |-> IF n = 0 THEN mask ELSE f[n - 1] \ {Masks!Min(f[n - 1])}]
  BY <1>3, <1>4
<1> QED BY <1>5 DEF ClearingRunOf

LEMMA LowestRanked ==
  ASSUME NEW w \in Nat, NEW mask \in SUBSET Bits(w), NEW k \in 0..(Cardinality(mask) - 1)
  PROVE  LET i == Masks!Min(RankedFrom(mask, k))
         IN  i \in mask /\ RankIn(mask, i) = k
             /\ RankedFrom(mask, k) \ {i} = RankedFrom(mask, k + 1)
<1> DEFINE i == Masks!Min(RankedFrom(mask, k))
<1>1. /\ \A j \in Nat : RankIn(mask, j) \in Nat
      /\ \A j \in mask : \A m \in Nat : j < m => RankIn(mask, j) < RankIn(mask, m)
      /\ \E j \in mask : RankIn(mask, j) = k
  BY RanksOf DEF Bits
<1>2. mask \in SUBSET Nat /\ k \in Nat
  <2>1. Cardinality(mask) \in Nat
    BY RanksOf DEF Bits
  <2> QED BY <2>1 DEF Bits
<1>3. PICK j \in mask : RankIn(mask, j) = k
  BY <1>1
<1>4. j \in RankedFrom(mask, k) /\ RankedFrom(mask, k) \in SUBSET Nat
  <2>1. k <= RankIn(mask, j)
    BY <1>2, <1>3
  <2> QED BY <1>2, <2>1 DEF RankedFrom
<1>5. i \in RankedFrom(mask, k) /\ \A m \in RankedFrom(mask, k) : i <= m
  BY <1>4, WordLeast
<1> HIDE DEF i
<1>6. i \in mask /\ i \in Nat /\ j \in Nat /\ k <= RankIn(mask, i) /\ i <= j
  BY <1>2, <1>4, <1>5 DEF RankedFrom
<1>7. i = j
  <2>1. ~(i < j)
    <3>1. RankIn(mask, i) \in Nat
      BY <1>1, <1>6
    <3> QED BY <1>1, <1>2, <1>3, <1>6, <3>1
  <2> QED BY <1>6, <2>1
<1>8. ASSUME NEW m \in mask
      PROVE  m \in RankedFrom(mask, k) \ {i} <=> m \in RankedFrom(mask, k + 1)
  <2>1. m \in Nat /\ RankIn(mask, m) \in Nat
    BY <1>1, <1>2
  <2>2. m < i => RankIn(mask, m) < k
    BY <1>1, <1>3, <1>6, <1>7
  <2>3. i < m => k < RankIn(mask, m)
    BY <1>1, <1>3, <1>6, <1>7, <2>1
  <2>4. m \in RankedFrom(mask, k) \ {i} <=> i < m
    BY <1>2, <1>6, <2>1, <2>2, <2>3 DEF RankedFrom
  <2>5. m \in RankedFrom(mask, k + 1) <=> i < m
    BY <1>2, <1>3, <1>6, <1>7, <2>1, <2>2, <2>3 DEF RankedFrom
  <2> QED BY <2>4, <2>5
<1>9. RankedFrom(mask, k) \ {i} = RankedFrom(mask, k + 1)
  BY <1>8 DEF RankedFrom
<1> QED BY <1>3, <1>6, <1>7, <1>9 DEF i

LEMMA ScalarIsPext ==
  ASSUME NEW w \in Nat, NEW mask \in SUBSET Bits(w), NEW src
  PROVE  Masks!PextScalar(src, mask) = Masks!Pext(src, mask)
<1> DEFINE count == Masks!Cardinality(mask)
           f == CHOOSE h : ClearingRunOf(h, mask, count)
<1>1. count = Cardinality(mask) /\ count \in Nat
  <2>1. Cardinality(mask) \in Nat
    BY RanksOf DEF Bits
  <2> QED BY <2>1, WordCardinality
<1>2. Masks!PextScalar(src, mask) = {k \in 0..(count - 1) : Masks!Min(f[k]) \in src}
  BY Zenon DEF ClearingRunOf, Masks!PextScalar
<1> HIDE DEF count
<1>3. ClearingRunOf(f, mask, count)
  BY <1>1, ClearingRunExists, Zenon
<1> HIDE DEF f
<1>4. /\ \A i \in Nat : RankIn(mask, i) \in Nat
      /\ \A i \in mask : \A m \in Nat : i < m => RankIn(mask, i) < RankIn(mask, m)
      /\ RankIn(mask, w) = Cardinality(mask)
  BY RanksOf DEF Bits
<1>5. \A i \in mask : i \in Nat /\ i < w
  BY DEF Bits
<1>6. \A k \in 0..count : f[k] = RankedFrom(mask, k)
  <2> DEFINE G == {k \in 0..count : f[k] = RankedFrom(mask, k)}
  <2>1. \A k \in 0..count : f[k] = IF k = 0 THEN mask ELSE f[k - 1] \ {Masks!Min(f[k - 1])}
    BY <1>3 DEF ClearingRunOf
  <2>2. 0 \in G
    <3>1. RankedFrom(mask, 0) = mask
      <4>1. \A i \in mask : 0 <= RankIn(mask, i)
        BY <1>4, <1>5
      <4> QED BY <4>1 DEF RankedFrom
    <3>2. 0 \in 0..count
      BY <1>1
    <3>3. f[0] = mask
      BY <2>1, <3>2
    <3> QED BY <3>1, <3>2, <3>3
  <2>3. ASSUME NEW k \in 0..(count - 1), k \in G  PROVE k + 1 \in G
    <3>1. k + 1 \in 0..count /\ k + 1 # 0 /\ (k + 1) - 1 = k
      BY <1>1
    <3>2. f[k + 1] = f[k] \ {Masks!Min(f[k])}
      BY <2>1, <3>1
    <3>3. f[k] = RankedFrom(mask, k)
      BY <2>3
    <3>4. RankedFrom(mask, k) \ {Masks!Min(RankedFrom(mask, k))} = RankedFrom(mask, k + 1)
      BY <1>1, LowestRanked
    <3> QED BY <3>1, <3>2, <3>3, <3>4
  <2>4. G \in SUBSET Nat
    BY <1>1
  <2> HIDE DEF G
  <2>5. \A k \in 0..count : k \in G
    BY <1>1, <2>2, <2>3, <2>4, RoundsKeep
  <2> QED BY <2>5 DEF G
<1>7. ASSUME NEW k \in 0..(count - 1)
      PROVE  Masks!Min(f[k]) \in mask /\ RankIn(mask, Masks!Min(f[k])) = k
  <2>1. f[k] = RankedFrom(mask, k)
    BY <1>1, <1>6
  <2> QED BY <1>1, <2>1, LowestRanked
<1>8. ASSUME NEW i \in mask, NEW j \in mask, RankIn(mask, i) = RankIn(mask, j)  PROVE i = j
  <2>1. i \in Nat /\ j \in Nat /\ RankIn(mask, i) \in Nat /\ RankIn(mask, j) \in Nat
    BY <1>4, <1>5
  <2>2. ~(i < j) /\ ~(j < i)
    BY <1>4, <1>8, <2>1
  <2> QED BY <2>1, <2>2
<1>9. \A i \in mask : RankIn(mask, i) \in 0..(count - 1)
  BY <1>1, <1>4, <1>5
<1>10. \A i : Masks!Rank(i, mask) = RankIn(mask, i)
  BY WordCardinality DEF Masks!Rank, RankIn
<1>11. Masks!Pext(src, mask) = {RankIn(mask, i) : i \in src \cap mask}
  BY <1>10 DEF Masks!Pext
<1>12. ASSUME NEW k \in 0..(count - 1), Masks!Min(f[k]) \in src
       PROVE  k \in {RankIn(mask, i) : i \in src \cap mask}
  BY <1>7, <1>12
<1>13. ASSUME NEW i \in src \cap mask
       PROVE  RankIn(mask, i) \in {k \in 0..(count - 1) : Masks!Min(f[k]) \in src}
  <2>1. RankIn(mask, i) \in 0..(count - 1)
    BY <1>9
  <2>2. Masks!Min(f[RankIn(mask, i)]) = i
    BY <1>7, <1>8, <2>1
  <2> QED BY <2>1, <2>2
<1> QED BY <1>2, <1>11, <1>12, <1>13

-----------------------------------------------------------------------------
(* The two counts of fields.  Both say that the boundaries that end a      *)
(* record are every n-th, counted from `before`; the one as a word of      *)
(* ranks, the other by the rank each terminator has among terminators.     *)
LEMMA Remainder ==
  ASSUME NEW n \in Nat \ {0}, NEW y \in Nat, NEW m \in Nat, NEW c \in 0..(n - 1),
         y = m * n + c
  PROVE  y % n = c
OBVIOUS

EveryNth(n, before, d, t) == \A i \in d : i \in t <=> (RankIn(d, i) + before) % n = n - 1
NthEach(n, before, d, t) ==
  \A i \in t : RankIn(d, i) + before = RankIn(t, i) * n + (n - 1)
InStep(n, before, d, t, i) ==
  \E c \in 0..(n - 1) : RankIn(d, i) + before = RankIn(t, i) * n + c

(* Behind the last terminator.                                             *)
PhaseBehind(before, d, t) ==
  IF t = {} THEN before + Cardinality(d)
  ELSE Cardinality({j \in d : \A i \in t : i < j})

LEMMA LastTerminator ==
  ASSUME NEW w \in Nat, NEW d \in SUBSET Bits(w), NEW t \in SUBSET d, t # {}
  PROVE  \E last \in t :
           /\ \A i \in t : i <= last
           /\ Cardinality(t) - 1 = RankIn(t, last)
           /\ \A before : PhaseBehind(before, d, t) = Cardinality(d) - 1 - RankIn(d, last)
<1>1. t \in SUBSET (0..w) /\ t \in SUBSET Bits(w) /\ d \in SUBSET Nat
  BY DEF Bits
<1>2. PICK last \in t : \A i \in t : i <= last
  BY <1>1, GreatestElement
<1>3. last \in d /\ last \in 0..(w - 1) /\ last \in Nat
  BY <1>1 DEF Bits
<1>4. /\ RankIn(t, last + 1) = RankIn(t, last) + 1 /\ RankIn(t, last) \in Nat
  BY <1>1, <1>3, RanksOf DEF Bits
<1>5. /\ IsFiniteSet(d) /\ RankIn(d, last + 1) = RankIn(d, last) + 1
      /\ RankIn(d, last) \in Nat /\ Cardinality(d) \in Nat
  BY <1>3, RanksOf DEF Bits
<1>6. RankIn(t, last + 1) = Cardinality(t)
  <2>1. \A i \in t : i < last + 1
    BY <1>1, <1>2, <1>3
  <2>2. {i \in t : i < last + 1} = t
    BY <2>1
  <2> QED BY <2>2 DEF RankIn
<1> DEFINE below == {j \in d : j < last + 1}
<1>7. {j \in d : \A i \in t : i < j} = d \ below
  <2>1. \A j \in d : (\A i \in t : i < j) <=> ~(j < last + 1)
    BY <1>1, <1>2, <1>3
  <2> QED BY <2>1
<1>8. Cardinality(d \ below) = Cardinality(d) - Cardinality(below)
  <2>1. d \cap below = below
    OBVIOUS
  <2> HIDE DEF below
  <2>2. Cardinality(d \ below) = Cardinality(d) - Cardinality(d \cap below)
    BY <1>5, FS_Difference
  <2> QED BY <2>1, <2>2
<1>9. Cardinality(below) = RankIn(d, last) + 1
  BY <1>5 DEF RankIn
<1> HIDE DEF below
<1>10. ASSUME NEW before
       PROVE  PhaseBehind(before, d, t) = Cardinality(d) - 1 - RankIn(d, last)
  <2>1. PhaseBehind(before, d, t) = Cardinality(d) - Cardinality(below)
    BY <1>7, <1>8 DEF PhaseBehind
  <2> QED BY <1>5, <1>9, <2>1
<1>11. Cardinality(t) - 1 = RankIn(t, last)
  BY <1>4, <1>6
<1> QED BY <1>2, <1>10, <1>11

(* One step of a walk over the bits.                                       *)
Ranked(w, d, t) ==
  /\ RankIn(d, 0) = 0 /\ RankIn(t, 0) = 0
  /\ RankIn(d, w) = Cardinality(d) /\ RankIn(t, w) = Cardinality(t)
  /\ \A i \in Nat : RankIn(d, i) \in Nat /\ RankIn(t, i) \in Nat
  /\ \A i \in Bits(w) :
       /\ RankIn(d, i + 1) = RankIn(d, i) + IF i \in d THEN 1 ELSE 0
       /\ RankIn(t, i + 1) = RankIn(t, i) + IF i \in t THEN 1 ELSE 0
  /\ \A i \in d : \A k \in Nat : i < k => RankIn(d, i) < RankIn(d, k)

LEMMA RanksStep ==
  ASSUME NEW w \in Nat, NEW d \in SUBSET Bits(w), NEW t \in SUBSET d
  PROVE  Ranked(w, d, t)
<1>1. d \in SUBSET (0..(w - 1)) /\ t \in SUBSET (0..(w - 1))
  BY DEF Bits
<1>2. /\ RankIn(d, 0) = 0 /\ RankIn(d, w) = Cardinality(d)
      /\ \A i \in Nat : RankIn(d, i) \in Nat
      /\ \A i \in 0..(w - 1) : RankIn(d, i + 1) = RankIn(d, i) + IF i \in d THEN 1 ELSE 0
      /\ \A i \in d : \A k \in Nat : i < k => RankIn(d, i) < RankIn(d, k)
  BY <1>1, RanksOf
<1>3. /\ RankIn(t, 0) = 0 /\ RankIn(t, w) = Cardinality(t)
      /\ \A i \in Nat : RankIn(t, i) \in Nat
      /\ \A i \in 0..(w - 1) : RankIn(t, i + 1) = RankIn(t, i) + IF i \in t THEN 1 ELSE 0
  BY <1>1, RanksOf
<1> QED BY <1>2, <1>3 DEF Bits, Ranked

LEMMA EveryNthInStep ==
  ASSUME NEW n \in Nat \ {0}, NEW before \in 0..(n - 1),
         NEW w \in Nat, NEW d \in SUBSET Bits(w), NEW t \in SUBSET d,
         EveryNth(n, before, d, t)
  PROVE  \A i \in 0..w : InStep(n, before, d, t, i)
<1> DEFINE G == {i \in 0..w : InStep(n, before, d, t, i)}
<1>1. 0 \in G
  <2>1. RankIn(d, 0) + before = RankIn(t, 0) * n + before
    <3>1. RankIn(d, 0) = 0 /\ RankIn(t, 0) = 0 /\ 0 * n = 0
      BY RanksStep DEF Ranked
    <3> QED BY <3>1
  <2>2. InStep(n, before, d, t, 0)
    BY <2>1 DEF InStep
  <2> QED BY <2>2
<1>2. ASSUME NEW i \in 0..(w - 1), i \in G  PROVE i + 1 \in G
  <2>1. PICK c \in 0..(n - 1) : RankIn(d, i) + before = RankIn(t, i) * n + c
    BY <1>2 DEF InStep
  <2>2. /\ RankIn(d, i) \in Nat /\ RankIn(t, i) \in Nat
        /\ RankIn(d, i + 1) = RankIn(d, i) + IF i \in d THEN 1 ELSE 0
        /\ RankIn(t, i + 1) = RankIn(t, i) + IF i \in t THEN 1 ELSE 0
    <3>1. i \in Bits(w) /\ i \in Nat
      BY DEF Bits
    <3>2. Ranked(w, d, t)
      BY RanksStep
    <3> QED BY <3>1, <3>2 DEF Ranked
  <2> DEFINE y == RankIn(d, i) + before
             m == RankIn(t, i)
  <2>3. y \in Nat /\ m \in Nat /\ y = m * n + c
    BY <2>1, <2>2
  <2>4. y % n = c
    BY <2>3, Remainder
  <2>5. (m + 1) * n = m * n + n /\ m * n \in Nat
    BY <2>3
  <2>6. CASE i \in t
    <3>1. c = n - 1
      BY <2>4, <2>6 DEF EveryNth
    <3>2. RankIn(d, i + 1) + before = y + 1 /\ RankIn(t, i + 1) = m + 1
      BY <2>2, <2>6
    <3> HIDE DEF y, m
    <3>3. y + 1 = (m + 1) * n + 0
      BY <2>3, <2>5, <3>1
    <3>4. 0 \in 0..(n - 1)
      OBVIOUS
    <3> QED BY <3>2, <3>3, <3>4 DEF InStep
  <2>7. CASE i \in d \ t
    <3>1. c # n - 1
      BY <2>4, <2>7 DEF EveryNth
    <3>2. RankIn(d, i + 1) + before = y + 1 /\ RankIn(t, i + 1) = m
      BY <2>2, <2>7
    <3> HIDE DEF y, m
    <3>3. y + 1 = m * n + (c + 1) /\ c + 1 \in 0..(n - 1)
      BY <2>3, <2>5, <3>1
    <3> QED BY <3>2, <3>3 DEF InStep
  <2>8. CASE i \notin d
    <3>1. RankIn(d, i + 1) = RankIn(d, i) /\ RankIn(t, i + 1) = RankIn(t, i)
      BY <2>2, <2>8
    <3> QED BY <2>1, <3>1 DEF InStep
  <2>9. InStep(n, before, d, t, i + 1)
    BY <2>6, <2>7, <2>8
  <2> QED BY <2>9
<1>3. G \in SUBSET Nat
  OBVIOUS
<1> HIDE DEF G
<1>4. \A i \in 0..w : i \in G
  BY <1>1, <1>2, <1>3, RoundsKeep
<1> QED BY <1>4 DEF G

LEMMA EveryNthCounts ==
  ASSUME NEW n \in Nat \ {0}, NEW before \in 0..(n - 1),
         NEW w \in Nat, NEW d \in SUBSET Bits(w), NEW t \in SUBSET d,
         EveryNth(n, before, d, t)
  PROVE  NthEach(n, before, d, t) /\ PhaseBehind(before, d, t) < n
<1>1. \A i \in 0..w : InStep(n, before, d, t, i)
  BY EveryNthInStep
<1>2. /\ RankIn(d, w) = Cardinality(d) /\ RankIn(t, w) = Cardinality(t)
      /\ \A i \in Nat : RankIn(d, i) \in Nat /\ RankIn(t, i) \in Nat
  <2>1. Ranked(w, d, t)
    BY RanksStep
  <2> QED BY <2>1 DEF Ranked
<1>3. ASSUME NEW i \in t
      PROVE  RankIn(d, i) + before = RankIn(t, i) * n + (n - 1)
  <2>1. i \in 0..w /\ i \in Nat /\ i \in d
    BY DEF Bits
  <2>2. PICK c \in 0..(n - 1) : RankIn(d, i) + before = RankIn(t, i) * n + c
    BY <1>1, <2>1 DEF InStep
  <2> DEFINE y == RankIn(d, i) + before
             m == RankIn(t, i)
  <2>3. y \in Nat /\ m \in Nat /\ y = m * n + c
    BY <1>2, <2>1, <2>2
  <2>4. y % n = c
    BY <2>3, Remainder
  <2>5. c = n - 1
    BY <2>1, <2>4 DEF EveryNth
  <2> QED BY <2>2, <2>5
<1>4. PICK c \in 0..(n - 1) : Cardinality(d) + before = Cardinality(t) * n + c
  <2>1. w \in 0..w
    OBVIOUS
  <2> QED BY <1>1, <1>2, <2>1 DEF InStep
<1>5. Cardinality(d) \in Nat /\ Cardinality(t) \in Nat
  <2>1. w \in Nat
    OBVIOUS
  <2> QED BY <1>2, <2>1
<1>6. CASE t = {}
  <2>1. Cardinality(t) = 0 /\ 0 * n = 0
    BY <1>6, FS_EmptySet
  <2>2. Cardinality(d) + before = c
    BY <1>4, <2>1
  <2>3. PhaseBehind(before, d, t) = c
    BY <1>5, <1>6, <2>2 DEF PhaseBehind
  <2> QED BY <1>3, <2>3 DEF NthEach
<1>7. CASE t # {}
  <2>1. PICK last \in t :
             /\ Cardinality(t) - 1 = RankIn(t, last)
             /\ PhaseBehind(before, d, t) = Cardinality(d) - 1 - RankIn(d, last)
    BY <1>7, LastTerminator
  <2>2. RankIn(d, last) + before = RankIn(t, last) * n + (n - 1)
    BY <1>3
  <2>3. last \in Nat
    BY DEF Bits
  <2> DEFINE m == Cardinality(t)
             r == RankIn(d, last)
             count == Cardinality(d)
  <2>4. m \in Nat /\ r \in Nat /\ count \in Nat
    BY <1>2, <1>5, <2>3
  <2>5. r + before = (m - 1) * n + (n - 1) /\ count + before = m * n + c
    BY <1>4, <2>1, <2>2
  <2>6. PhaseBehind(before, d, t) = count - 1 - r
    BY <2>1
  <2> HIDE DEF m, r, count
  <2>7. (m - 1) * n = m * n - n /\ m * n \in Nat
    BY <2>4
  <2>8. count - 1 - r = c
    BY <2>4, <2>5, <2>7
  <2> QED BY <1>3, <2>6, <2>8 DEF NthEach
<1> QED BY <1>6, <1>7

(* The rank of what is no terminator is short of the next one's.           *)
LEMMA ShortOfNext ==
  ASSUME NEW n \in Nat \ {0}, NEW before \in 0..(n - 1),
         NEW w \in Nat, NEW d \in SUBSET Bits(w), NEW t \in SUBSET d,
         NthEach(n, before, d, t), PhaseBehind(before, d, t) < n,
         NEW i \in d, i \notin t
  PROVE  RankIn(d, i) + before < RankIn(t, i) * n + (n - 1)
<1>1. Ranked(w, d, t)
  BY RanksStep
<1>2. /\ \A k \in Nat : RankIn(d, k) \in Nat /\ RankIn(t, k) \in Nat
      /\ \A j \in d : \A k \in Nat : j < k => RankIn(d, j) < RankIn(d, k)
      /\ RankIn(d, w) = Cardinality(d) /\ RankIn(t, w) = Cardinality(t)
  BY <1>1 DEF Ranked
<1>3. i \in Nat /\ i < w /\ t \in SUBSET Nat /\ d \in SUBSET Nat
  BY DEF Bits
<1> DEFINE count == Cardinality(d)
           r == RankIn(d, i)
<1>4. r \in Nat /\ r < count /\ count \in Nat
  BY <1>2, <1>3
<1>5. CASE \E j \in t : i < j
  <2> DEFINE T == {j \in t : i < j}
  <2>1. T # {} /\ T \in SUBSET Nat
    BY <1>3, <1>5
  <2>2. PICK j \in T : \A k \in T : j <= k
    BY <2>1, LeastElement
  <2>3. j \in t /\ i < j /\ j \in Nat /\ \A k \in t : i < k => j <= k
    BY <1>3, <2>2
  <2>4. \A k \in t : k < j <=> k < i
    BY <1>3, <2>3
  <2>5. RankIn(t, j) = RankIn(t, i)
    <3>1. {k \in t : k < j} = {k \in t : k < i}
      BY <2>4
    <3> QED BY <3>1 DEF RankIn
  <2>6. RankIn(d, j) + before = RankIn(t, j) * n + (n - 1)
    BY <2>3 DEF NthEach
  <2>7. RankIn(d, i) < RankIn(d, j) /\ RankIn(d, j) \in Nat
    BY <1>2, <2>3
  <2> DEFINE z == RankIn(t, i) * n + (n - 1)
  <2>8. RankIn(d, j) + before = z
    BY <2>5, <2>6
  <2>9. r + before < z
    <3> HIDE DEF z
    <3>1. z \in Nat
      BY <2>7, <2>8
    <3> QED BY <1>4, <2>7, <2>8, <3>1
  <2> QED BY <2>9
<1>6. CASE ~\E j \in t : i < j
  <2>1. \A k \in t : k < i
    BY <1>3, <1>6
  <2>2. RankIn(t, i) = Cardinality(t)
    <3>1. {k \in t : k < i} = t
      BY <2>1
    <3> QED BY <3>1 DEF RankIn
  <2>3. CASE t = {}
    <3>1. RankIn(t, i) = 0 /\ 0 * n = 0
      BY <2>2, <2>3, FS_EmptySet
    <3>2. before + count < n
      BY <2>3 DEF PhaseBehind
    <3>3. r + before < n - 1
      BY <1>4, <3>2
    <3> QED BY <3>1, <3>3
  <2>4. CASE t # {}
    <3>1. PICK last \in t :
               /\ Cardinality(t) - 1 = RankIn(t, last)
               /\ PhaseBehind(before, d, t) = Cardinality(d) - 1 - RankIn(d, last)
      BY <2>4, LastTerminator
    <3> DEFINE m == RankIn(t, i)
               s == RankIn(d, last)
    <3>2. m \in Nat /\ s \in Nat /\ m - 1 = RankIn(t, last)
      BY <1>2, <1>3, <2>2, <3>1
    <3>3. s + before = (m - 1) * n + (n - 1) /\ count - 1 - s < n
      BY <3>1, <3>2 DEF NthEach
    <3> HIDE DEF m, s, count, r
    <3>4. (m - 1) * n = m * n - n /\ m * n \in Nat
      BY <3>2
    <3>5. r + before < m * n + (n - 1)
      BY <1>4, <3>2, <3>3, <3>4
    <3> QED BY <3>5 DEF m, r
  <2> QED BY <2>3, <2>4
<1> QED BY <1>5, <1>6

(* And no less than the last one's.                                        *)
LEMMA PastLast ==
  ASSUME NEW n \in Nat \ {0}, NEW before \in 0..(n - 1),
         NEW w \in Nat, NEW d \in SUBSET Bits(w), NEW t \in SUBSET d,
         NthEach(n, before, d, t)
  PROVE  \A i \in 0..w : RankIn(t, i) * n <= RankIn(d, i) + before
<1> DEFINE G == {i \in 0..w : RankIn(t, i) * n <= RankIn(d, i) + before}
<1>1. Ranked(w, d, t)
  BY RanksStep
<1>2. 0 \in G
  <2>1. RankIn(d, 0) = 0 /\ RankIn(t, 0) = 0 /\ 0 * n = 0
    BY <1>1 DEF Ranked
  <2>2. RankIn(t, 0) * n <= RankIn(d, 0) + before
    BY <2>1
  <2> QED BY <2>2
<1>3. ASSUME NEW i \in 0..(w - 1), i \in G  PROVE i + 1 \in G
  <2>1. /\ RankIn(d, i) \in Nat /\ RankIn(t, i) \in Nat
        /\ RankIn(d, i + 1) = RankIn(d, i) + IF i \in d THEN 1 ELSE 0
        /\ RankIn(t, i + 1) = RankIn(t, i) + IF i \in t THEN 1 ELSE 0
    <3>1. i \in Bits(w) /\ i \in Nat
      BY DEF Bits
    <3> QED BY <1>1, <3>1 DEF Ranked
  <2> DEFINE r == RankIn(d, i)
             m == RankIn(t, i)
  <2>2. m * n <= r + before /\ m * n \in Nat /\ (m + 1) * n = m * n + n
    BY <1>3, <2>1
  <2>3. CASE i \in t
    <3>1. r + before = m * n + (n - 1)
      BY <2>3 DEF NthEach
    <3>2. RankIn(d, i + 1) = r + 1 /\ RankIn(t, i + 1) = m + 1
      BY <2>1, <2>3
    <3>3. r \in Nat /\ m \in Nat
      BY <2>1
    <3> HIDE DEF r, m
    <3>4. (m + 1) * n <= (r + 1) + before
      BY <2>2, <3>1, <3>3
    <3>5. RankIn(t, i + 1) * n <= RankIn(d, i + 1) + before
      BY <3>2, <3>4
    <3> QED BY <3>5
  <2>4. CASE i \notin t
    <3>1. RankIn(t, i + 1) = m /\ RankIn(d, i + 1) \in {r, r + 1}
      BY <2>1, <2>4
    <3>2. r \in Nat /\ m \in Nat
      BY <2>1
    <3> HIDE DEF r, m
    <3>3. m * n <= r + before /\ m * n <= (r + 1) + before
      BY <2>2, <3>2
    <3>4. RankIn(t, i + 1) * n <= RankIn(d, i + 1) + before
      BY <3>1, <3>3
    <3> QED BY <3>4
  <2> QED BY <2>3, <2>4
<1>4. G \in SUBSET Nat
  OBVIOUS
<1> HIDE DEF G
<1>5. \A i \in 0..w : i \in G
  BY <1>2, <1>3, <1>4, RoundsKeep
<1> QED BY <1>5 DEF G

LEMMA CountsEveryNth ==
  ASSUME NEW n \in Nat \ {0}, NEW before \in 0..(n - 1),
         NEW w \in Nat, NEW d \in SUBSET Bits(w), NEW t \in SUBSET d,
         NthEach(n, before, d, t), PhaseBehind(before, d, t) < n
  PROVE  EveryNth(n, before, d, t)
<1>1. Ranked(w, d, t)
  BY RanksStep
<1>2. ASSUME NEW i \in d
      PROVE  i \in t <=> (RankIn(d, i) + before) % n = n - 1
  <2>1. i \in Nat /\ i \in 0..w
    BY DEF Bits
  <2> DEFINE y == RankIn(d, i) + before
             m == RankIn(t, i)
  <2>2. y \in Nat /\ m \in Nat /\ m * n \in Nat
    BY <1>1, <2>1 DEF Ranked
  <2>3. m * n <= y
    BY <2>1, PastLast
  <2>4. CASE i \in t
    <3>1. y = m * n + (n - 1) /\ n - 1 \in 0..(n - 1)
      BY <2>4 DEF NthEach
    <3> HIDE DEF y, m
    <3>2. y % n = n - 1
      BY <2>2, <3>1, Remainder
    <3> QED BY <2>4, <3>2 DEF y
  <2>5. CASE i \notin t
    <3>1. y < m * n + (n - 1)
      BY <2>5, ShortOfNext
    <3> DEFINE c == y - m * n
    <3> HIDE DEF y, m
    <3>2. c \in 0..(n - 1) /\ y = m * n + c /\ c # n - 1
      BY <2>2, <2>3, <3>1
    <3> HIDE DEF c
    <3>3. y % n = c
      BY <2>2, <3>2, Remainder
    <3> QED BY <2>5, <3>2, <3>3 DEF y
  <2> QED BY <2>4, <2>5
<1> QED BY <1>2 DEF EveryNth

LEMMA PextVerdict ==
  ASSUME NEW n \in Nat \ {0}, NEW before \in 0..(n - 1),
         NEW w \in Nat, NEW d \in SUBSET Bits(w), NEW t \in SUBSET d
  PROVE  LET v == Masks!VerifyPext(n, before, d, t)
         IN  /\ v.ok \in BOOLEAN /\ (v.ok <=> EveryNth(n, before, d, t))
             /\ v.phase = PhaseBehind(before, d, t)
<1> DEFINE v == Masks!VerifyPext(n, before, d, t)
           count == Cardinality(d)
           p == {RankIn(d, i) : i \in t}
           pattern == {k \in 0..(count - 1) : (k + before) % n = n - 1}
<1>1. /\ \A i \in Nat : RankIn(d, i) \in Nat
      /\ \A i \in d : \A k \in Nat : i < k => RankIn(d, i) < RankIn(d, k)
      /\ \A k \in 0..(count - 1) : \E i \in d : RankIn(d, i) = k
      /\ RankIn(d, w) = count /\ count \in Nat
  BY RanksOf DEF Bits
<1>2. \A i \in d : i \in Nat /\ i < w
  BY DEF Bits
<1>3. \A i \in d : RankIn(d, i) \in 0..(count - 1)
  BY <1>1, <1>2
<1>4. ASSUME NEW i \in d, NEW j \in d, RankIn(d, i) = RankIn(d, j)  PROVE i = j
  <2>1. i \in Nat /\ j \in Nat /\ RankIn(d, i) \in Nat /\ RankIn(d, j) \in Nat
    BY <1>1, <1>2
  <2>2. ~(i < j) /\ ~(j < i)
    BY <1>1, <1>4, <2>1
  <2> QED BY <2>1, <2>2
<1>5. Masks!Pext(t, d) = p /\ Masks!Cardinality(d) = count
  <2>1. \A i : Masks!Rank(i, d) = RankIn(d, i)
    BY WordCardinality DEF Masks!Rank, RankIn
  <2>2. t \cap d = t
    OBVIOUS
  <2> QED BY <2>1, <2>2, WordCardinality DEF Masks!Pext
<1>6. v.ok = (p = pattern) /\ v.phase = Masks!PhaseAfter(before, count, p)
  BY <1>5 DEF Masks!VerifyPext, Masks!ExpectedPattern
<1> HIDE DEF count, v
<1>7. p = pattern <=> EveryNth(n, before, d, t)
  <2>1. ASSUME p = pattern  PROVE EveryNth(n, before, d, t)
    <3>1. ASSUME NEW i \in d
          PROVE  i \in t <=> (RankIn(d, i) + before) % n = n - 1
      <4>1. RankIn(d, i) \in pattern <=> (RankIn(d, i) + before) % n = n - 1
        BY <1>3
      <4>2. RankIn(d, i) \in p <=> i \in t
        BY <1>4
      <4> HIDE DEF p, pattern
      <4> QED BY <2>1, <4>1, <4>2
    <3> QED BY <3>1 DEF EveryNth
  <2>2. ASSUME EveryNth(n, before, d, t)  PROVE p = pattern
    <3>1. ASSUME NEW i \in t  PROVE RankIn(d, i) \in pattern
      BY <1>3, <2>2 DEF EveryNth
    <3>2. ASSUME NEW k \in pattern  PROVE k \in p
      <4>1. PICK i \in d : RankIn(d, i) = k
        BY <1>1
      <4>2. i \in t
        BY <2>2, <4>1 DEF EveryNth
      <4> QED BY <4>1, <4>2
    <3> HIDE DEF pattern
    <3> QED BY <3>1, <3>2
  <2> QED BY <2>1, <2>2
<1>8. v.phase = PhaseBehind(before, d, t)
  <2>1. CASE t = {}
    <3>1. p = {}
      BY <2>1
    <3> QED BY <1>6, <2>1, <3>1 DEF Masks!PhaseAfter, PhaseBehind, count
  <2>2. CASE t # {}
    <3>1. PICK last \in t :
               /\ \A i \in t : i <= last
               /\ PhaseBehind(before, d, t) = Cardinality(d) - 1 - RankIn(d, last)
      BY <2>2, LastTerminator
    <3> DEFINE r == RankIn(d, last)
               behind == {k \in 0..(count - 1) : \A i \in p : i < k}
    <3>2. r \in 0..(count - 1) /\ r \in p
      BY <1>3
    <3>3. \A i \in p : i <= r
      <4>1. ASSUME NEW i \in t  PROVE RankIn(d, i) <= r
        <5>1. i \in Nat /\ last \in Nat /\ i <= last
          BY <1>2, <3>1
        <5>2. RankIn(d, i) \in Nat /\ r \in Nat
          BY <1>1, <5>1
        <5>3. CASE i < last
          BY <1>1, <5>1, <5>2, <5>3
        <5>4. CASE i = last
          BY <5>2, <5>4
        <5> QED BY <5>1, <5>3, <5>4
      <4> HIDE DEF r
      <4> QED BY <4>1
    <3>4. p \in SUBSET Nat
      BY <1>3
    <3>5. p # {} /\ v.phase = Masks!Cardinality(behind)
      BY <1>6, <3>2 DEF Masks!PhaseAfter
    <3> HIDE DEF p, r
    <3>6. behind = (r + 1)..(count - 1)
      <4>1. ASSUME NEW k \in 0..(count - 1)
            PROVE  (\A i \in p : i < k) <=> r < k
        BY <3>2, <3>3, <3>4
      <4>2. \A k : k \in (r + 1)..(count - 1) <=> k \in 0..(count - 1) /\ r < k
        BY <1>1, <3>2
      <4> QED BY <4>1, <4>2
    <3>7. Cardinality(behind) = count - 1 - r
      <4> HIDE DEF behind
      <4>1. r + 1 \in Int /\ count - 1 \in Int
        BY <1>1, <3>2
      <4>2. Cardinality((r + 1)..(count - 1))
              = IF r + 1 > count - 1 THEN 0 ELSE (count - 1) - (r + 1) + 1
        BY <4>1, FS_Interval
      <4> QED BY <1>1, <3>2, <3>6, <4>2
    <3> HIDE DEF behind
    <3> QED BY <3>1, <3>5, <3>7, WordCardinality DEF r, count
  <2> QED BY <2>1, <2>2
<1>9. v.ok \in BOOLEAN /\ (v.ok <=> p = pattern)
  <2> HIDE DEF p, pattern
  <2> QED BY <1>6, Zenon
<1> HIDE DEF p, pattern
<1> QED BY <1>7, <1>8, <1>9, Zenon DEF v

LEMMA TerminatorsVerdict ==
  ASSUME NEW n \in Nat \ {0}, NEW before \in 0..(n - 1),
         NEW w \in Nat, NEW d \in SUBSET Bits(w), NEW t \in SUBSET d
  PROVE  LET v == Masks!VerifyByTerminators(n, before, d, t)
         IN  /\ v.ok \in BOOLEAN
             /\ v.ok <=> PhaseBehind(before, d, t) < n /\ NthEach(n, before, d, t)
             /\ v.phase = PhaseBehind(before, d, t)
<1> DEFINE v == Masks!VerifyByTerminators(n, before, d, t)
<1>1. t \cap d = t
  OBVIOUS
<1>2. \A i : Masks!Rank(i, d) = RankIn(d, i) /\ Masks!Rank(i, t) = RankIn(t, i)
  BY WordCardinality DEF Masks!Rank, RankIn
<1>3. Masks!Cardinality(d) = Cardinality(d)
  BY WordCardinality
<1>4. (IF t = {} THEN before + Cardinality(d)
       ELSE Masks!Cardinality({j \in d : \A i \in t : i < j})) = PhaseBehind(before, d, t)
  BY WordCardinality DEF PhaseBehind
<1>5. /\ v.ok = (/\ PhaseBehind(before, d, t) < n
                 /\ \A i \in t : RankIn(d, i) = n - 1 - before + n * RankIn(t, i))
      /\ v.phase = PhaseBehind(before, d, t)
  BY <1>1, <1>2, <1>3, <1>4 DEF Masks!VerifyByTerminators
<1>6. ASSUME NEW i \in t
      PROVE  RankIn(d, i) = n - 1 - before + n * RankIn(t, i)
             <=> RankIn(d, i) + before = RankIn(t, i) * n + (n - 1)
  <2>1. i \in Nat
    BY DEF Bits
  <2>2. Ranked(w, d, t)
    BY RanksStep
  <2>3. RankIn(d, i) \in Nat /\ RankIn(t, i) \in Nat
    BY <2>1, <2>2 DEF Ranked
  <2>4. n * RankIn(t, i) = RankIn(t, i) * n /\ RankIn(t, i) * n \in Nat
    BY <2>3
  <2> QED BY <2>3, <2>4
<1> HIDE DEF v
<1>7. (\A i \in t : RankIn(d, i) = n - 1 - before + n * RankIn(t, i)) <=> NthEach(n, before, d, t)
  BY <1>6 DEF NthEach
<1>8. v.ok \in BOOLEAN
  BY <1>5, Zenon
<1> QED BY <1>5, <1>7, <1>8, Zenon DEF v

LEMMA VerdictsAgree ==
  ASSUME NEW n \in Nat \ {0}, NEW before \in 0..(n - 1),
         NEW w \in Nat, NEW d \in SUBSET Bits(w), NEW t \in SUBSET d
  PROVE  SameVerdict(Masks!VerifyPext(n, before, d, t),
                     Masks!VerifyByTerminators(n, before, d, t))
<1>1. EveryNth(n, before, d, t)
      <=> PhaseBehind(before, d, t) < n /\ NthEach(n, before, d, t)
  BY EveryNthCounts, CountsEveryNth
<1> DEFINE v == Masks!VerifyPext(n, before, d, t)
           x == Masks!VerifyByTerminators(n, before, d, t)
<1>2. /\ v.ok \in BOOLEAN /\ (v.ok <=> EveryNth(n, before, d, t))
      /\ v.phase = PhaseBehind(before, d, t)
  BY PextVerdict
<1>3. /\ x.ok \in BOOLEAN
      /\ x.ok <=> PhaseBehind(before, d, t) < n /\ NthEach(n, before, d, t)
      /\ x.phase = PhaseBehind(before, d, t)
  BY TerminatorsVerdict
<1> HIDE DEF v, x
<1>4. v.ok = x.ok /\ v.phase = x.phase
  BY <1>1, <1>2, <1>3, Zenon
<1> QED BY <1>4 DEF SameVerdict, v, x

LEMMA WordsAgree == DriverInv => LevelsAgree
<1> SUFFICES ASSUME DriverInv, Unread  PROVE LevelsAgree
  BY DEF LevelsAgree
<1>1. job.bytes \in Seq(STRING)
  <2>1. job \in Jobs
    BY DEF DriverInv, Unread, Driven
  <2> QED BY <2>1, JobsDialect
<1> DEFINE w == Len(job.bytes)
           quotes == WordOf({config.quote})
           term == WordOf(P!Terminators(config))
           d == WordOf({config.delimiter}) \cup term
<1>2. w \in Nat /\ \A bytes : WordOf(bytes) \in SUBSET Bits(w)
  BY <1>1 DEF WordOf, Bits
<1>3. Bits(w) = 0..(Len(job.bytes) - 1)
  BY DEF Bits
<1>4. quotes \in SUBSET Bits(w) /\ d \in SUBSET Bits(w) /\ term \in SUBSET d
  BY <1>2
<1> HIDE DEF w, quotes, term, d
<1>5. Masks!XorPrefixSumScalar(quotes, Bits(w)) = Masks!XorPrefixSumOf(quotes, Bits(w))
  BY <1>2, <1>4, ScalarIsXorPrefixSum
<1>6. Masks!PextScalar(term, d) = Masks!Pext(term, d)
  BY <1>2, <1>4, ScalarIsPext
<1>7. ASSUME NEW n \in 1..3, NEW before \in 0..(n - 1)
      PROVE  SameVerdict(Masks!VerifyPext(n, before, d, term),
                         Masks!VerifyByTerminators(n, before, d, term))
  <2>1. n \in Nat \ {0}
    OBVIOUS
  <2> QED BY <1>2, <1>4, <2>1, VerdictsAgree
<1> QED BY <1>3, <1>5, <1>6, <1>7, Zenon DEF LevelsAgree, w, quotes, term, d

(* Whatever level a parse runs at (mod.rs:103, :137): the loops of shifts  *)
(* and of lowest bits (bitmask.rs, bitops.rs) come to what the             *)
(* instructions do that they stand in for, and a record is rejected by the *)
(* one count of fields just when it is by the other (fieldcount.rs), on    *)
(* words of any width, and by VerdictsAgree for records of any number of   *)
(* fields.                                                                 *)
THEOREM SimdLevelsAgree == Spec => []LevelsAgree
<1>1. Init => DriverInv
  BY DriverBegins DEF DriverInv
<1>2. DriverInv /\ [Next]_vars => DriverInv'
  BY DriverSteps
<1>3. DriverInv => LevelsAgree
  BY WordsAgree
<1> QED BY <1>1, <1>2, <1>3, PTL DEF Spec
=============================================================================
