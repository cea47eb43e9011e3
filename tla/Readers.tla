------------------------------ MODULE Readers -------------------------------
(***************************************************************************)
(* A thread's I/O context and the chunk readers it hands out, one pass     *)
(* after another, as the parser calls them (src/io): a ring buffer over a  *)
(* file or a slice, the same over a stream, the file in memory, and a      *)
(* private mapping of it.                                                  *)
(*                                                                         *)
(* A byte is the offset it has in the input; a byte that a parser has      *)
(* rewritten in place is Dirty.                                            *)
(***************************************************************************)
EXTENDS Integers, Sequences, FiniteSetsExt

CONSTANTS
  Backends,          \* a subset of those below
  MaxSize,           \* the largest input
  InitialCapacity, Limit,  \* of the ring buffer
  ReadCap,           \* the most bytes one read asks for
  MaxPasses          \* bound: readers handed out

BackendNames == {"RingBuf", "Stream", "InMemory", "Mmap"}

ASSUME ReadersAssumption ==
  /\ Backends \subseteq BackendNames
  /\ {MaxSize, MaxPasses} \subseteq Nat /\ ReadCap \in Nat \ {0}
  /\ InitialCapacity \in Nat \ {0} /\ Limit \in Nat /\ InitialCapacity <= Limit

VARIABLES
  backend, size,     \* the size taken when the run started
  actual,            \* the size of the file when it is read
  data, capacity,    \* what buffer() exposes, and the ring buffer's size
  dirty,             \* offsets whose private page of the mapping differs
  position,          \* of the source: the next byte a read returns
  file_remaining, chunk_remaining,
  request, answer,   \* of the last fill
  passes,            \* readers handed out
  at, rewritten      \* history: the offset of the first byte exposed, and
                     \* the offsets rewritten in this pass

source == <<backend, size, actual>>
history == <<at, rewritten>>
vars == <<source, data, capacity, dirty, position, file_remaining,
          chunk_remaining, request, answer, passes, history>>

Dirty == -1
NoRemaining == -1
Ring == backend \in {"RingBuf", "Stream"}

Queue == INSTANCE ByteQueue WITH Bytes <- Nat \cup {Dirty}

(* The bytes of the input from one offset to before another.               *)
Offsets(from, to) == [i \in 1..(to - from) |-> from + i - 1]
EndOfFile == IF backend = "Stream" THEN actual ELSE Min({size, actual})

-----------------------------------------------------------------------------
(* Contexts are opened before their first reader is asked for.  A mapped   *)
(* file that shrinks is the operating system's to signal.                  *)
Init ==
  /\ backend \in Backends /\ size \in 0..MaxSize /\ actual \in 0..MaxSize
  /\ backend = "Mmap" => actual >= size
  /\ Queue!Init /\ dirty = {} /\ position = 0
  /\ file_remaining = 0 /\ chunk_remaining = 0
  /\ request = 0 /\ answer = "None" /\ passes = 0 /\ at = 0 /\ rewritten = {}

(* A variant: only the chunk about to be read is restored.                 *)
DirtyOutsideChunk(start, end) == dirty \ (start..(end - 1))

(* The mapping is restored as a whole.                                     *)
DirtyAfterReset(start, end) == {}

Exposed(start, end, dirt) ==
  [i \in 1..(end - start) |-> IF start + i - 1 \in dirt THEN Dirty ELSE start + i - 1]

OpenRing(start) ==
  /\ Queue!Reset
  /\ position' = start
  /\ file_remaining' = IF backend = "Stream" THEN NoRemaining ELSE size - start
  /\ UNCHANGED dirty

OpenInMemory(start) ==
  /\ data' = Offsets(start, Max({start, EndOfFile}))
  /\ UNCHANGED <<capacity, dirty, position, file_remaining>>

OpenMmap(start, end) ==
  /\ dirty' = DirtyAfterReset(start, end)
  /\ data' = Exposed(start, size, dirty')
  /\ UNCHANGED <<capacity, position, file_remaining>>

(* chunk_reader: the previous reader is gone, whether it came to its end   *)
(* or its parser gave up.  A stream has one reader, without a boundary.    *)
ChunkReader(start, end) ==
  /\ answer # "Asked" /\ passes < MaxPasses
  /\ backend = "Stream" => passes = 0 /\ start = 0 /\ end = MaxSize
  /\ \/ Ring /\ OpenRing(start)
     \/ backend = "InMemory" /\ OpenInMemory(start)
     \/ backend = "Mmap" /\ OpenMmap(start, end)
  /\ chunk_remaining' = IF backend = "InMemory" THEN Min({end - start, Len(data')})
                        ELSE end - start
  /\ passes' = passes + 1 /\ at' = start /\ rewritten' = {}
  /\ request' = 0 /\ answer' = "Filled"
  /\ UNCHANGED source

-----------------------------------------------------------------------------
(* fill(n), called when the last one has returned without an error.        *)
Fill(n) ==
  /\ answer = "Filled" /\ passes > 0
  /\ request' = n /\ answer' = "Asked"
  /\ UNCHANGED <<source, data, capacity, dirty, position, file_remaining,
                 chunk_remaining, passes, history>>

Return(a) ==
  /\ answer' = a
  /\ UNCHANGED <<source, data, capacity, dirty, position, file_remaining,
                 chunk_remaining, request, passes, history>>

(* A variant: a full buffer stays as it is.                                *)
NeverGrows == FALSE

(* The loop of the ring buffer's fill.                                     *)
LoopGoesOn ==
  Ring /\ Len(data) < request /\ (file_remaining = NoRemaining \/ file_remaining > 0)
MustGrow == Queue!Writable = 0
InLoop == answer = "Asked" /\ LoopGoesOn

Grow ==
  /\ InLoop /\ MustGrow /\ Queue!Grow
  /\ UNCHANGED <<source, dirty, position, file_remaining, chunk_remaining,
                 request, answer, passes, history>>

(* Refused by the limit, or by the system.                                 *)
GrowFails == InLoop /\ MustGrow /\ Return("Failed")

ToRead == Min({Queue!Writable, ReadCap}
              \cup IF file_remaining = NoRemaining THEN {} ELSE {file_remaining})
Left == IF actual > position THEN actual - position ELSE 0

(* A read returns some of what it was asked for.                           *)
Read(n) ==
  /\ InLoop /\ ~MustGrow
  /\ n <= ToRead /\ n <= Left
  /\ Queue!Produce(Offsets(position, position + n))
  /\ position' = position + n
  /\ file_remaining' = IF file_remaining = NoRemaining THEN NoRemaining
                       ELSE file_remaining - n
  /\ UNCHANGED <<source, dirty, chunk_remaining, request, answer, passes, history>>

(* A variant: read again.                                                  *)
ReadNothingAgain ==
  InLoop /\ ~MustGrow /\ (ToRead = 0 \/ Left = 0) /\ UNCHANGED vars

(* A read of no bytes is the end of the source, whatever its size was.     *)
ReadNothing ==
  InLoop /\ ~MustGrow /\ (ToRead = 0 \/ Left = 0) /\ Return("Filled")

ReadFails == InLoop /\ ~MustGrow /\ ToRead > 0 /\ Return("Failed")

FillReturns == answer = "Asked" /\ ~LoopGoesOn /\ Return("Filled")

FillStep ==
  \/ Grow \/ GrowFails
  \/ \E n \in 1..ReadCap : Read(n)
  \/ ReadNothing \/ FillReturns

-----------------------------------------------------------------------------
Consume(n) ==
  /\ answer = "Filled"
  /\ Queue!Consume(n)
  /\ chunk_remaining' = Max({0, chunk_remaining - n})
  /\ at' = at + n
  /\ UNCHANGED <<source, dirty, position, file_remaining, request, answer,
                 passes, rewritten>>

(* A write through buffer_mut; the mapping is private, and keeps it.       *)
Rewrite(i) ==
  /\ answer = "Filled"
  /\ Queue!Rewrite(i, Dirty)
  /\ rewritten' = rewritten \cup {at + i - 1}
  /\ dirty' = IF backend = "Mmap" THEN dirty \cup {at + i - 1} ELSE dirty
  /\ UNCHANGED <<source, position, file_remaining, chunk_remaining, request,
                 answer, passes, at>>

Next ==
  \/ \E start \in 0..size, end \in 0..MaxSize :
       start <= end /\ (backend # "Stream" => end <= size) /\ ChunkReader(start, end)
  \/ \E n \in 1..(MaxSize + 1) : Fill(n)
  \/ FillStep \/ ReadFails
  \/ \E n \in 1..Len(data) : Consume(n)
  \/ \E i \in DOMAIN data : Rewrite(i)

(* A thread that has called fill runs on in it; that a read fails in the   *)
(* end is not relied upon.                                                 *)
Spec == Init /\ [][Next]_vars /\ WF_vars(FillStep)

-----------------------------------------------------------------------------
(* A pass sees the input: what a reader exposes is the bytes of the file   *)
(* in order from where the pass has consumed to, but for those this very   *)
(* pass has rewritten.  Nothing of an earlier pass shows through, and no   *)
(* refill drops, repeats or moves a byte.                                  *)
EveryPassSeesTheFile ==
  \A i \in DOMAIN data :
    \/ data[i] = at + i - 1
    \/ data[i] = Dirty /\ at + i - 1 \in rewritten

(* "Returning short is permitted only at EOF - that is how the parser      *)
(* detects EOF" (src/io/mod.rs:40): a full buffer, a short read, a limit   *)
(* or a file that has shrunk must not look like the end of the input.      *)
ShortOnlyAtEof ==
  [][answer = "Asked" /\ answer' = "Filled" =>
       Len(data) >= request \/ at + Len(data) >= EndOfFile]_vars

(* fill comes to an end on every source, one that has shrunk included.     *)
EveryFillReturns == answer = "Asked" ~> answer # "Asked"

=============================================================================
