---------------------------- MODULE MirroredBuf -----------------------------
(***************************************************************************)
(* The buffer of targets that can map memory twice                         *)
(* (src/io/ringbuf/buf/mirrored.rs): a ring whose pages are mapped a       *)
(* second time behind the first, so that data that wraps is contiguous.    *)
(* The two cursors are machine words that count on for ever and wrap; the  *)
(* capacity is a power of two, as is the number of values of a word.       *)
(***************************************************************************)
EXTENDS Integers, Sequences

CONSTANTS Bytes, Zero, InitialCapacity, Limit,
          WordSize  \* the number of values of a usize

VARIABLES memory, capacity, producer, consumer

mirroredVars == <<memory, capacity, producer, consumer>>

Addresses(size) == 0..(size - 1)

Init ==
  /\ memory = [a \in Addresses(InitialCapacity) |-> Zero]
  /\ capacity = InitialCapacity
  /\ producer = 0 /\ consumer = 0

-----------------------------------------------------------------------------
(* wrapping_sub, and the position of a cursor: & (capacity - 1).           *)
Readable == (producer - consumer) % WordSize
Offset(cursor) == cursor % capacity

(* The double mapping: an address of either view.                          *)
Mapped(address) == address % capacity
Data == [i \in 1..Readable |-> memory[Mapped(Offset(consumer) + i - 1)]]

(* A write of `bytes` to the unused region, and produce.                   *)
Produce(bytes) ==
  /\ Len(bytes) <= capacity - Readable
  /\ LET written == [i \in DOMAIN bytes |-> Mapped(Offset(producer) + i - 1)]
     IN  memory' = [a \in DOMAIN memory |->
                      IF \E i \in DOMAIN bytes : written[i] = a
                      THEN bytes[CHOOSE i \in DOMAIN bytes : written[i] = a]
                      ELSE memory[a]]
  /\ producer' = (producer + Len(bytes)) % WordSize
  /\ UNCHANGED <<capacity, consumer>>

Consume(n) ==
  /\ n <= Readable
  /\ consumer' = (consumer + n) % WordSize
  /\ UNCHANGED <<memory, capacity, producer>>

Rewrite(i, byte) ==
  /\ i \in 1..Readable
  /\ memory' = [memory EXCEPT ![Mapped(Offset(consumer) + i - 1)] = byte]
  /\ UNCHANGED <<capacity, producer, consumer>>

Reset == producer' = 0 /\ consumer' = 0 /\ UNCHANGED <<memory, capacity>>

(* A variant: the pages are copied as they lie, and the cursors kept.      *)
GrowInPlace ==
  /\ 2 * capacity <= Limit
  /\ capacity' = 2 * capacity
  /\ memory' = [a \in Addresses(2 * capacity) |-> IF a < capacity THEN memory[a] ELSE Zero]
  /\ UNCHANGED <<producer, consumer>>

(* A new buffer takes over the readable bytes, from its start.             *)
Grow ==
  /\ 2 * capacity <= Limit
  /\ capacity' = 2 * capacity
  /\ memory' = [a \in Addresses(2 * capacity) |->
                  IF a < Readable THEN Data[a + 1] ELSE Zero]
  /\ producer' = Readable /\ consumer' = 0

=============================================================================
