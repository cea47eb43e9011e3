----------------------------- MODULE ByteQueue ------------------------------
(***************************************************************************)
(* What a reader relies on of its ring buffer, whichever of the two it is  *)
(* (src/io/ringbuf/buf/mod.rs): a bounded queue of bytes whose readable    *)
(* part can be rewritten in place and whose capacity can double up to a    *)
(* limit.  A limit of None is one that nothing reaches.                    *)
(***************************************************************************)
EXTENDS Integers, Sequences

CONSTANTS Bytes, InitialCapacity, Limit

VARIABLES data, capacity

queueVars == <<data, capacity>>

Writable == capacity - Len(data)
CanGrow == 2 * capacity <= Limit

Init == data = <<>> /\ capacity = InitialCapacity

-----------------------------------------------------------------------------
(* Bytes are written to the unused space and then marked as produced.      *)
Produce(bytes) ==
  /\ Len(bytes) <= Writable
  /\ data' = data \o bytes
  /\ UNCHANGED capacity

Consume(n) ==
  /\ n <= Len(data)
  /\ data' = SubSeq(data, n + 1, Len(data))
  /\ UNCHANGED capacity

(* data_mut: the parser rewrites what it has read.                         *)
Rewrite(i, byte) ==
  /\ i \in DOMAIN data
  /\ data' = [data EXCEPT ![i] = byte]
  /\ UNCHANGED capacity

Reset == data' = <<>> /\ UNCHANGED capacity

Grow ==
  /\ CanGrow
  /\ capacity' = 2 * capacity
  /\ UNCHANGED data

Strings(n) == UNION {[1..k -> Bytes] : k \in 0..n}

Next ==
  \/ \E bytes \in Strings(Writable) : Produce(bytes)
  \/ \E n \in 0..Len(data) : Consume(n)
  \/ \E i \in DOMAIN data, byte \in Bytes : Rewrite(i, byte)
  \/ Reset
  \/ Grow

Spec == Init /\ [][Next]_queueVars

=============================================================================
