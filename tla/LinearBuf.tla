----------------------------- MODULE LinearBuf ------------------------------
(***************************************************************************)
(* The buffer of targets without double mapping                            *)
(* (src/io/ringbuf/buf/linear.rs): bytes head..tail of a vector, moved to  *)
(* its front before anything is written behind them.                       *)
(***************************************************************************)
EXTENDS Integers, Sequences

CONSTANTS Bytes, Zero, InitialCapacity, Limit

VARIABLES buf, head, tail

linearVars == <<buf, head, tail>>

Zeros(n) == [i \in 1..n |-> Zero]
Capacity == Len(buf)
Readable == tail - head
Data == SubSeq(buf, head + 1, tail)

Init == buf = Zeros(InitialCapacity) /\ head = 0 /\ tail = 0

-----------------------------------------------------------------------------
(* A variant: the cursors move, the bytes stay.                            *)
DataLeftInPlace(b, from, to) == b

(* unused_mut's copy_within: what was behind the data stays where it was.  *)
DataMovedToFront(b, from, to) ==
  [i \in DOMAIN b |-> IF i <= to - from THEN b[from + i] ELSE b[i]]

(* unused_mut, a write of `bytes` to what it returns, and produce.         *)
Produce(bytes) ==
  /\ Len(bytes) <= Capacity - Readable
  /\ LET front == DataMovedToFront(buf, head, tail)
     IN  buf' = [i \in DOMAIN buf |->
                   IF i - Readable \in DOMAIN bytes THEN bytes[i - Readable] ELSE front[i]]
  /\ head' = 0
  /\ tail' = Readable + Len(bytes)

(* An emptied buffer starts over at the front.                             *)
Consume(n) ==
  /\ n <= Readable
  /\ IF head + n = tail THEN head' = 0 /\ tail' = 0
                        ELSE head' = head + n /\ UNCHANGED tail
  /\ UNCHANGED buf

Rewrite(i, byte) ==
  /\ i \in 1..Readable
  /\ buf' = [buf EXCEPT ![head + i] = byte]
  /\ UNCHANGED <<head, tail>>

Reset == head' = 0 /\ tail' = 0 /\ UNCHANGED buf

Grow ==
  /\ 2 * Capacity <= Limit
  /\ buf' = buf \o Zeros(Capacity)
  /\ UNCHANGED <<head, tail>>

=============================================================================
