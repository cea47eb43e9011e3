------------------------------ MODULE Resolve -------------------------------
(***************************************************************************)
(* From a configuration to threads, chunks and buffers                     *)
(* (src/scheduler/resolve.rs), and what opening and growing a thread's     *)
(* ring buffer makes of it (src/io/ringbuf/buf/mod.rs, checked_capacity    *)
(* and grown_capacity).  Zero is the code's sentinel for "decide for me",  *)
(* NoLimit stands for None.                                                *)
(***************************************************************************)
EXTENDS Integers, FiniteSets

CONSTANTS
  Settings,           \* the configurations, inputs and hosts to resolve
  PowersOfTwo,        \* those a buffer's size may be; the largest bounds its growth
  Granularity,        \* sys::allocation_granularity
  AutoChunkSize,      \* what each of the parser's back ends picks
  RingBufferSize,     \* the working size of a thread's buffer, ...
  ManyThreadsBufferSize, ManyThreads,  \* ... from so many threads up (on Apple: the same)
  InMemoryThreshold   \* files up to here are read in memory

NoLimit == -1
Limits == Nat \cup {NoLimit}

(* Settings are a size and the fields of Config, RingBufSettings and sys   *)
(* that resolve.rs reads, the parser's back end as it was chosen.          *)
(* available_parallelism is at least one; a stream's size is not asked.    *)
ChunkParsers == {"Dfa", "Simd"}
IoBackends == {"Auto", "InMemory", "Mmap", "RingBuf"}
Inputs == [size : Nat, input : {"file", "slice", "stream"}, parser : ChunkParsers,
           concurrency : Nat, chunk_size : Nat,
           io_buffer_limit : Limits, io_backend : IoBackends,
           buffer_size : Nat, buffer_limit : Limits,
           parallelism : Nat \ {0}, total_ram : Limits]

ASSUME ResolveAssumption ==
  /\ Settings \subseteq Inputs
  /\ 1 \in PowersOfTwo /\ PowersOfTwo \subseteq Nat \ {0}
  /\ \A p \in PowersOfTwo : p = 1 \/ \E q \in PowersOfTwo : p = 2 * q
  /\ {Granularity, RingBufferSize, ManyThreadsBufferSize} \subseteq PowersOfTwo
  /\ AutoChunkSize \in [ChunkParsers -> Nat \ {0}]
  /\ {ManyThreads, InMemoryThreshold} \subseteq Nat

VARIABLES settings, resolved, buffer

vars == <<settings, resolved, buffer>>

-----------------------------------------------------------------------------
Least(a, b) == IF a <= b THEN a ELSE b
AtLeastOne(n) == IF n >= 1 THEN n ELSE 1
SqrtCeil(n) == Cardinality({k \in 0..n : k * k < n})
DivCeil(n, d) == (n + d - 1) \div d

PrevPowerOfTwo(n) == CHOOSE p \in PowersOfTwo : p <= AtLeastOne(n) /\ AtLeastOne(n) < 2 * p

ResolveChunkSize(s) == IF s.chunk_size # 0 THEN s.chunk_size ELSE AutoChunkSize[s.parser]

(* The budget of all threads together: half of the memory by default.      *)
ResolveIoBufferLimit(s) ==
  IF s.io_buffer_limit # 0 THEN s.io_buffer_limit
  ELSE IF s.total_ram = NoLimit THEN NoLimit ELSE s.total_ram \div 2

(* A variant: a budget below one granule buys no thread.                   *)
AffordableOrNone(threads, limit) ==
  IF limit = NoLimit THEN threads ELSE Least(threads, limit \div Granularity)

Affordable(threads, limit) ==
  IF limit = NoLimit THEN threads
  ELSE Least(threads, AtLeastOne(limit \div Granularity))

ResolveThreadCount(s, chunk_count, limit) ==
  LET h == IF s.concurrency = 0 THEN s.parallelism ELSE s.concurrency
  IN  Affordable(Least(Least(h, chunk_count), 6 * SqrtCeil(chunk_count)), limit)

(* A variant: each thread gets a share of its own, rounded up.             *)
ShareRoundedUp(limit, thread_count) ==
  IF limit = NoLimit \/ thread_count = 0 THEN NoLimit ELSE DivCeil(limit, thread_count)

PerThreadShare(limit, thread_count) ==
  IF limit = NoLimit \/ thread_count = 0 THEN NoLimit ELSE limit \div thread_count

ResolveBufferLimit(own, share) ==
  IF own \in {NoLimit, 0} THEN share
  ELSE IF share = NoLimit THEN own ELSE Least(own, share)

(* A variant: the working size ignores the limit.                          *)
AutoBufferSizeAlone(thread_count, limit) ==
  IF thread_count >= ManyThreads THEN ManyThreadsBufferSize ELSE RingBufferSize

AutoBufferSize(thread_count, limit) ==
  LET size == IF thread_count >= ManyThreads THEN ManyThreadsBufferSize ELSE RingBufferSize
  IN  IF limit # NoLimit /\ limit < size THEN PrevPowerOfTwo(limit) ELSE size

ResolveBufferSize(own, thread_count, limit) ==
  IF own # 0 THEN own ELSE AutoBufferSize(thread_count, limit)

(* Ring-buffer settings are the caller's only where he chose that back end. *)
ResolveIoBackend(s) ==
  IF s.input # "file" THEN "RingBuf"
  ELSE IF s.io_backend # "Auto" THEN s.io_backend
  ELSE IF s.size <= InMemoryThreshold THEN "InMemory" ELSE "RingBuf"
OwnRing(s) == s.input = "file" /\ s.io_backend = "RingBuf"
OwnBufferSize(s)  == IF OwnRing(s) THEN s.buffer_size ELSE 0
OwnBufferLimit(s) == IF OwnRing(s) THEN s.buffer_limit ELSE 0

(* ResolvedConfig::for_file and for_slice, and stream_ring_settings: a     *)
(* stream is one pass on the caller's thread, so to say its only chunk.    *)
Chunks(s) == IF s.input = "stream" THEN 1 ELSE DivCeil(s.size, ResolveChunkSize(s))
Threads(s, chunk_count, limit) ==
  IF s.input = "stream" THEN 1 ELSE ResolveThreadCount(s, chunk_count, limit)
ResolvedConfig(s) ==
  LET chunk_count  == Chunks(s)
      limit        == ResolveIoBufferLimit(s)
      thread_count == Threads(s, chunk_count, limit)
      buffer_limit == ResolveBufferLimit(OwnBufferLimit(s), PerThreadShare(limit, thread_count))
  IN  [thread_count |-> thread_count, chunk_count |-> chunk_count,
       io_buffer_limit |-> limit, io_backend |-> ResolveIoBackend(s),
       buffer_limit |-> buffer_limit,
       buffer_size |-> ResolveBufferSize(OwnBufferSize(s), thread_count, buffer_limit)]

(* checked_capacity before it looks at the limit: a power of two of at     *)
(* least the granularity, which is one itself.                             *)
IsCapacity(c, size) ==
  /\ c >= size /\ c >= Granularity
  /\ \A p \in PowersOfTwo : p >= size /\ p >= Granularity => p >= c

-----------------------------------------------------------------------------
(* Config::validate, as far as it is about these settings: a buffer the    *)
(* caller sized fits the limits the caller stated.                         *)
Validated(s) ==
  s.io_backend = "RingBuf" =>
    \A limit \in {s.buffer_limit, s.io_buffer_limit} \ {NoLimit, 0} : s.buffer_size <= limit

Unresolved == [thread_count |-> 0]
Unopened == 0
Refused == -1
Overgrown == -2

Init == settings \in Settings /\ Validated(settings) /\ resolved = Unresolved /\ buffer = Unopened

Resolve ==
  /\ resolved = Unresolved
  /\ resolved' = ResolvedConfig(settings)
  /\ UNCHANGED <<settings, buffer>>

(* The context of each thread, all of them alike.  An input without chunks *)
(* is not parsed.                                                          *)
Open ==
  /\ resolved # Unresolved /\ buffer = Unopened
  /\ resolved.chunk_count > 0 /\ resolved.io_backend = "RingBuf"
  /\ \E capacity \in PowersOfTwo :
       /\ IsCapacity(capacity, resolved.buffer_size)
       /\ buffer' = IF resolved.buffer_limit # NoLimit /\ capacity > resolved.buffer_limit
                    THEN Refused ELSE capacity
  /\ UNCHANGED <<settings, resolved>>

(* A record that does not fit doubles the buffer, or fails at the limit.   *)
GrownCapacity(capacity) ==
  IF resolved.buffer_limit # NoLimit /\ 2 * capacity > resolved.buffer_limit
  THEN Overgrown ELSE 2 * capacity

Grow ==
  /\ buffer > 0 /\ 2 * buffer \in PowersOfTwo
  /\ buffer' = GrownCapacity(buffer)
  /\ UNCHANGED <<settings, resolved>>

Next == Resolve \/ Open \/ Grow

Spec == Init /\ [][Next]_vars

-----------------------------------------------------------------------------
(* What the scheduler's first chunks rely on: thread t starts on chunk t,  *)
(* and an input that has a chunk has a thread (SchedulerAssumption).       *)
ThreadsWithinChunks ==
  resolved # Unresolved /\ settings.size > 0 =>
    resolved.thread_count \in 1..resolved.chunk_count

(* The budget holds for all threads together, at the size the buffers      *)
(* start with and after any growth, each thread's record being the longest. *)
WithinBudget(bytes) ==
  resolved.io_buffer_limit # NoLimit =>
    bytes # NoLimit /\ resolved.thread_count * bytes <= resolved.io_buffer_limit
BudgetIsKept ==
  /\ resolved # Unresolved /\ resolved.chunk_count > 0 => WithinBudget(resolved.buffer_limit)
  /\ buffer > 0 => WithinBudget(buffer)

(* What is left to the resolver is resolved to something that works: a     *)
(* thread is refused its buffer only for a size or a limit the caller      *)
(* stated, or a budget that does not buy a single granule.                 *)
AutoBuffersOpen ==
  buffer = Refused =>
    \/ OwnBufferSize(settings) # 0 \/ OwnBufferLimit(settings) \notin {NoLimit, 0}
    \/ resolved.io_buffer_limit \in 0..(Granularity - 1)

=============================================================================
