------------------------------ MODULE Buffers -------------------------------
(***************************************************************************)
(* Both ring buffers under one sequence of calls, as the test suite that   *)
(* keeps them from drifting apart has it (src/io/ringbuf/buf/mod.rs).      *)
(***************************************************************************)
EXTENDS Integers, Sequences

CONSTANTS Bytes, Zero, InitialCapacity, Limit, WordSize

(* 2^k for some k: nothing but one and even numbers divides it.            *)
PowerOfTwo(n) == n > 0 /\ \A d \in 2..n : n % d = 0 => d % 2 = 0

(* checked_capacity rounds to a power of two; a usize is one of 2^64 (or   *)
(* 2^32), and no allocation is half as large.                              *)
ASSUME BuffersAssumption ==
  /\ Zero \in Bytes
  /\ InitialCapacity \in Nat /\ PowerOfTwo(InitialCapacity)
  /\ Limit \in Nat /\ InitialCapacity <= Limit
  /\ WordSize \in Nat /\ PowerOfTwo(WordSize) /\ 2 * Limit <= WordSize

VARIABLES buf, head, tail, memory, capacity, producer, consumer

vars == <<buf, head, tail, memory, capacity, producer, consumer>>

Linear == INSTANCE LinearBuf
Mirrored == INSTANCE MirroredBuf

Strings(n) == UNION {[1..k -> Bytes] : k \in 0..n}

Init == Linear!Init /\ Mirrored!Init

Produce ==
  \E bytes \in Strings(Linear!Capacity - Linear!Readable) :
    Linear!Produce(bytes) /\ Mirrored!Produce(bytes)
Consume ==
  \E n \in 0..Linear!Readable : Linear!Consume(n) /\ Mirrored!Consume(n)
Rewrite ==
  \E i \in 1..Linear!Readable, byte \in Bytes :
    Linear!Rewrite(i, byte) /\ Mirrored!Rewrite(i, byte)
Reset == Linear!Reset /\ Mirrored!Reset
Grow == Linear!Grow /\ Mirrored!Grow

Next == Produce \/ Consume \/ Rewrite \/ Reset \/ Grow

Spec == Init /\ [][Next]_vars

-----------------------------------------------------------------------------
(* Each buffer is a queue: what is produced comes out in order, moved or   *)
(* wrapped, before and after its memory grows, and after the cursors of    *)
(* the mirrored buffer have wrapped around.                                *)
LinearQueue == INSTANCE ByteQueue WITH data <- Linear!Data, capacity <- Linear!Capacity
LinearIsAQueue == LinearQueue!Spec

MirroredQueue == INSTANCE ByteQueue WITH data <- Mirrored!Data
MirroredIsAQueue == MirroredQueue!Spec

=============================================================================
