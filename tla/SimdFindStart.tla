--------------------------- MODULE SimdFindStart ----------------------------
(***************************************************************************)
(* The search for a chunk's first record boundary, a vector at a time      *)
(* (src/parser/simd/findstart.rs).  A reader is as in ChunkParser, and so  *)
(* is the answer: [state |-> "RecordEnd", "Error" or "None", at].          *)
(***************************************************************************)
EXTENDS SimdMasks

Nowhere == -1

(* initial_carry: the byte before the chunk is inside quotes.              *)
InitialCarry(c, assumption) ==
  \/ assumption = "InQuotes"
  \/ assumption = "InQuotesAfterEscape" /\ c.quote # c.escape

(* StrictProbe: was the byte before this vector the boundary of a field,   *)
(* and where is the byte that has to follow the closing quote before it.   *)
NewProbe == [prev_last_bnd |-> TRUE, pending_closer |-> Nowhere]
Boundaries(s) == s.delim \cup s.term \cup s.quote

(* A variant: the byte before a vector is taken for content.               *)
BadOpenersUnlinked(s, m, probe) == (s.quote \cap m) \ ShiftUp(Boundaries(s), FALSE)

(* An opening quote that does not follow a boundary, a closing one that    *)
(* none follows.                                                           *)
BadOpeners(s, m, probe) == (s.quote \cap m) \ ShiftUp(Boundaries(s), probe.prev_last_bnd)
BadClosers(s, m, avail) ==
  {i \in s.quote \ m : i + 1 < avail /\ i + 1 \notin Boundaries(s)}
Parked(s, m, avail, total) ==
  IF avail = VectorBytes /\ Msb(s.quote \ m) THEN total + VectorBytes ELSE Nowhere

(* check: the first offence before `cutoff`.                               *)
Offences(s, m, probe, avail, cutoff) ==
  {i \in BadOpeners(s, m, probe) : i < cutoff}
  \cup {i + 1 : i \in {j \in BadClosers(s, m, avail) : j < cutoff}}
Checked(s, m, probe, avail, cutoff, total) ==
  IF probe.pending_closer # Nowhere /\ 0 \notin Boundaries(s) THEN probe.pending_closer
  ELSE IF Offences(s, m, probe, avail, cutoff) = {} THEN Nowhere
  ELSE total + Min(Offences(s, m, probe, avail, cutoff))

Answer(state, at) == [state |-> state, at |-> at]
GoesOn == Answer("GoesOn", Nowhere)

Padded(b, from, avail) == [i \in Lanes |-> IF i < avail THEN b[from + i + 1] ELSE Pad]

(* One round of find_record_start's loop, at the offset `total`.           *)
Round(scan, s, m, strict, avail, total) ==
  LET terms    == {i \in s.term \ m : i < avail}
      cutoff   == IF terms = {} THEN avail ELSE Min(terms)
      rejected == IF strict THEN Checked(s, m, scan.probe, avail, cutoff, total) ELSE Nowhere
  IN  [carry  |-> Msb(m),
       probe  |-> [prev_last_bnd |-> Msb(Boundaries(s)),
                   pending_closer |-> Parked(s, m, avail, total)],
       answer |-> IF rejected # Nowhere THEN Answer("Error", rejected)
                 ELSE IF terms # {} THEN Answer("RecordEnd", total + cutoff)
                 ELSE IF avail < VectorBytes THEN Answer("None", Nowhere) ELSE GoesOn]

NextRound(c, reader, scan, strict, total) ==
  LET avail == Min({VectorBytes, Min({reader.limit, Len(reader.bytes)}) - total})
      s     == MatchStructural(c, Padded(reader.bytes, total, avail))
      m     == InQuotes(s.quote, scan.carry)
  IN  IF scan.answer # GoesOn THEN scan
      ELSE IF avail <= 0 THEN [scan EXCEPT !.answer = Answer("None", Nowhere)]
      ELSE Round(scan, s, m, strict, avail, total)

FindRecordStart(c, reader, assumption, strict) ==
  LET rounds == Len(reader.bytes) \div VectorBytes + 1
      scan[k \in 0..rounds] ==
        IF k = 0 THEN [carry |-> InitialCarry(c, assumption), probe |-> NewProbe,
                       answer |-> GoesOn]
        ELSE NextRound(c, reader, scan[k - 1], strict, (k - 1) * VectorBytes)
  IN  scan[rounds].answer

=============================================================================
