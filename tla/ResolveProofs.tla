--------------------------- MODULE ResolveProofs ----------------------------
(***************************************************************************)
(* What a resolved configuration promises its users, for every             *)
(* configuration, input and host: the scheduler its first chunks, and the  *)
(* caller the budget he stated.                                            *)
(***************************************************************************)
EXTENDS Resolve, WellFoundedInduction, FiniteSetTheorems, TLAPS

-----------------------------------------------------------------------------
(* A set of natural numbers has a least element: the proofs about loops,   *)
(* and about operators defined by CHOOSE, rest on it.                      *)
LEMMA LeastElement ==
  ASSUME NEW T \in SUBSET Nat, T # {}
  PROVE  \E x \in T : \A y \in T : x <= y
<1> DEFINE R == OpToRel(<, Nat)
<1>1. IsWellFoundedOn(R, Nat)
  BY NatLessThanWellFounded, Zenon
<1>2. \A x, y \in Nat : x < y => <<x, y>> \in R
  BY Zenon DEF OpToRel
<1> HIDE DEF R
<1>3. PICK x \in T : \A y \in T : ~(<<y, x>> \in R)
  BY <1>1, WFMin
<1>4. ASSUME NEW y \in T  PROVE x <= y
  <2>1. x \in Nat /\ y \in Nat
    OBVIOUS
  <2>2. ~(y < x)
    BY <1>2, <1>3, <2>1
  <2> QED BY <2>1, <2>2
<1> QED BY <1>3, <1>4

-----------------------------------------------------------------------------
(* The arithmetic.  The last two bound products of unknowns, which is why  *)
(* they have lemmas of their own.                                          *)

(* A non-empty input has a chunk (for_file, for_slice: div_ceil).          *)
LEMMA DivCeilPositive ==
  ASSUME NEW n \in Nat, NEW d \in Nat \ {0}
  PROVE  DivCeil(n, d) \in Nat /\ (n > 0 => DivCeil(n, d) >= 1)
<1>1. n + d - 1 \in Nat
  OBVIOUS
<1>2. DivCeil(n, d) \in Nat
  BY <1>1, SMT DEF DivCeil
<1>3. n > 0 => DivCeil(n, d) >= 1
  BY SMT DEF DivCeil
<1> QED BY <1>2, <1>3

(* The square root that bounds the threads is at least one where there is  *)
(* a chunk at all.                                                         *)
LEMMA SqrtCeilPositive ==
  ASSUME NEW n \in Nat
  PROVE  SqrtCeil(n) \in Nat /\ (n > 0 => SqrtCeil(n) >= 1)
<1> DEFINE Below == {k \in 0..n : k * k < n}
<1>1. IsFiniteSet(0..n)
  BY FS_Interval
<1>2. IsFiniteSet(Below)
  BY <1>1, FS_Subset
<1>3. Cardinality(Below) \in Nat
  BY <1>2, FS_CardinalityType
<1>4. ASSUME n > 0  PROVE Cardinality(Below) # 0
  <2>1. 0 \in Below
    BY <1>4
  <2> QED BY <1>2, <2>1, FS_EmptySet
<1> QED BY <1>3, <1>4 DEF SqrtCeil

(* n equal shares of what n divides do not exceed it.                      *)
LEMMA SharesFit ==
  ASSUME NEW total \in Nat, NEW n \in Nat \ {0}
  PROVE  total \div n \in Nat /\ n * (total \div n) <= total
BY SMT

LEMMA ProductIsMonotone ==
  ASSUME NEW n \in Nat, NEW a \in Nat, NEW b \in Nat, a <= b
  PROVE  n * a <= n * b
BY SMT

-----------------------------------------------------------------------------
(* The pieces of the resolver.                                             *)

LEMMA GranularityPositive == Granularity \in Nat \ {0}
BY ResolveAssumption

LEMMA ChunkSizePositive ==
  ASSUME NEW s \in Inputs
  PROVE  ResolveChunkSize(s) \in Nat \ {0}
BY ResolveAssumption DEF ResolveChunkSize, Inputs

LEMMA BudgetIsALimit ==
  ASSUME NEW s \in Inputs
  PROVE  ResolveIoBufferLimit(s) \in Limits
<1>1. s.io_buffer_limit \in Limits /\ s.total_ram \in Limits
  BY DEF Inputs
<1>2. CASE s.io_buffer_limit # 0
  BY <1>1, <1>2 DEF ResolveIoBufferLimit
<1>3. CASE s.io_buffer_limit = 0 /\ s.total_ram = NoLimit
  BY <1>1, <1>3 DEF ResolveIoBufferLimit
<1>4. CASE s.io_buffer_limit = 0 /\ s.total_ram # NoLimit
  <2>1. s.total_ram \in Nat
    BY <1>1, <1>4 DEF Limits
  <2>2. s.total_ram \div 2 \in Nat
    BY <2>1
  <2> QED BY <1>4, <2>2 DEF ResolveIoBufferLimit, Limits
<1> QED BY <1>2, <1>3, <1>4

(* The budget takes threads away but never the last one.                   *)
LEMMA AffordableKeepsOne ==
  ASSUME NEW threads \in Nat, NEW limit \in Limits
  PROVE  /\ Affordable(threads, limit) \in Nat
         /\ Affordable(threads, limit) <= threads
         /\ threads >= 1 => Affordable(threads, limit) >= 1
<1>1. CASE limit = NoLimit
  BY <1>1 DEF Affordable
<1>2. CASE limit # NoLimit
  <2>1. limit \in Nat
    BY <1>2 DEF Limits
  <2>2. limit \div Granularity \in Nat
    BY <2>1, GranularityPositive
  <2> QED BY <1>2, <2>2 DEF Affordable, AtLeastOne, Least
<1> QED BY <1>1, <1>2

(* Nor does it leave more threads than it has granules for.                *)
LEMMA AffordableFits ==
  ASSUME NEW threads \in Nat, NEW limit \in Nat, limit >= Granularity
  PROVE  Affordable(threads, limit) * Granularity <= limit
<1> DEFINE granules == limit \div Granularity
           t == Affordable(threads, limit)
<1>1. Granularity \in Nat \ {0}
  BY GranularityPositive
<1>2. granules \in Nat /\ granules >= 1 /\ Granularity * granules <= limit
  BY <1>1, SMT
<1> HIDE DEF granules
<1>3. t \in Nat /\ t <= granules
  BY <1>2 DEF Affordable, AtLeastOne, Least, NoLimit, granules
<1> HIDE DEF t
<1>4. Granularity * t <= Granularity * granules
  BY <1>1, <1>2, <1>3, ProductIsMonotone
<1>5. Granularity * t = t * Granularity /\ Granularity * t \in Nat
      /\ Granularity * granules \in Nat
  BY <1>1, <1>2, <1>3
<1>6. t * Granularity <= limit
  BY <1>2, <1>4, <1>5
<1> QED BY <1>6 DEF t

LEMMA ShareOfAFit ==
  ASSUME NEW limit \in Nat, NEW n \in Nat \ {0}, NEW g \in Nat, n * g <= limit
  PROVE  g <= limit \div n
BY SMT

LEMMA ThreadCountBounded ==
  ASSUME NEW s \in Inputs, NEW chunk_count \in Nat, NEW limit \in Limits
  PROVE  /\ ResolveThreadCount(s, chunk_count, limit) \in Nat
         /\ ResolveThreadCount(s, chunk_count, limit) <= chunk_count
         /\ chunk_count >= 1 => ResolveThreadCount(s, chunk_count, limit) >= 1
         /\ limit >= Granularity =>
              ResolveThreadCount(s, chunk_count, limit) * Granularity <= limit
<1> DEFINE h == IF s.concurrency = 0 THEN s.parallelism ELSE s.concurrency
           threads == Least(Least(h, chunk_count), 6 * SqrtCeil(chunk_count))
<1>1. h \in Nat /\ h >= 1
  BY DEF Inputs
<1>2. SqrtCeil(chunk_count) \in Nat /\ (chunk_count > 0 => SqrtCeil(chunk_count) >= 1)
  BY SqrtCeilPositive
<1>3. threads \in Nat /\ threads <= chunk_count /\ (chunk_count >= 1 => threads >= 1)
  BY <1>1, <1>2 DEF Least
<1>4. ResolveThreadCount(s, chunk_count, limit) = Affordable(threads, limit)
  BY DEF ResolveThreadCount
<1> HIDE DEF threads
<1>5. limit >= Granularity => limit \in Nat
  BY GranularityPositive DEF Limits, NoLimit
<1> QED BY <1>3, <1>4, <1>5, AffordableKeepsOne, AffordableFits

LEMMA LimitIsALimit ==
  ASSUME NEW own \in Limits, NEW share \in Limits
  PROVE  ResolveBufferLimit(own, share) \in Limits
<1>1. CASE own \in {NoLimit, 0}
  BY <1>1 DEF ResolveBufferLimit
<1>2. CASE own \notin {NoLimit, 0} /\ share = NoLimit
  BY <1>2 DEF ResolveBufferLimit
<1>3. CASE own \notin {NoLimit, 0} /\ share # NoLimit
  <2>1. ResolveBufferLimit(own, share) = Least(own, share)
    BY <1>3 DEF ResolveBufferLimit
  <2> QED BY <2>1 DEF Least
<1> QED BY <1>1, <1>2, <1>3

LEMMA ShareIsALimit ==
  ASSUME NEW limit \in Limits, NEW thread_count \in Nat
  PROVE  PerThreadShare(limit, thread_count) \in Limits
<1>1. CASE limit = NoLimit \/ thread_count = 0
  BY <1>1 DEF PerThreadShare, Limits
<1>2. CASE limit \in Nat /\ thread_count \in Nat \ {0}
  BY <1>2, SharesFit DEF PerThreadShare, Limits
<1> QED BY <1>1, <1>2 DEF Limits

(* A thread's limit is its share of the budget or less.                    *)
LEMMA LimitWithinShare ==
  ASSUME NEW own \in Limits, NEW share \in Nat
  PROVE  ResolveBufferLimit(own, share) \in Nat /\ ResolveBufferLimit(own, share) <= share
<1>1. CASE own \in {NoLimit, 0}
  BY <1>1 DEF ResolveBufferLimit
<1>2. CASE own \notin {NoLimit, 0}
  <2>1. own \in Nat /\ share # NoLimit
    BY <1>2 DEF Limits, NoLimit
  <2>2. ResolveBufferLimit(own, share) = Least(own, share)
    BY <1>2, <2>1 DEF ResolveBufferLimit
  <2> QED BY <2>1, <2>2 DEF Least
<1> QED BY <1>1, <1>2

(* The working size the resolver picks is a power of two within the limit, *)
(* the loop over leading zeros included.                                   *)
LEMMA PowerBelow ==
  ASSUME NEW n \in Nat, NEW above \in PowersOfTwo, n < above, n >= 1
  PROVE  PrevPowerOfTwo(n) \in PowersOfTwo /\ PrevPowerOfTwo(n) <= n
<1> DEFINE Above == {p \in PowersOfTwo : n < p}
<1>1. Above \in SUBSET Nat /\ Above # {}
  BY ResolveAssumption
<1>2. PICK q \in Above : \A p \in Above : q <= p
  BY <1>1, LeastElement
<1>3. q # 1 /\ q \in PowersOfTwo /\ n < q
  BY <1>2
<1>4. PICK h \in PowersOfTwo : q = 2 * h
  BY <1>3, ResolveAssumption
<1>5. h \in Nat /\ h >= 1
  BY ResolveAssumption
<1>6. h <= n
  BY <1>2, <1>4, <1>5
<1>7. h <= AtLeastOne(n) /\ AtLeastOne(n) < 2 * h
  BY <1>3, <1>4, <1>5, <1>6 DEF AtLeastOne
<1>8. /\ PrevPowerOfTwo(n) \in PowersOfTwo
      /\ PrevPowerOfTwo(n) <= AtLeastOne(n)
  BY <1>7 DEF PrevPowerOfTwo
<1> QED BY <1>8 DEF AtLeastOne

LEMMA AutoSizeFits ==
  ASSUME NEW threads \in Nat, NEW limit \in Nat, limit >= 1
  PROVE  AutoBufferSize(threads, limit) \in PowersOfTwo
         /\ AutoBufferSize(threads, limit) <= limit
<1> DEFINE size == IF threads >= ManyThreads THEN ManyThreadsBufferSize ELSE RingBufferSize
<1>1. size \in PowersOfTwo /\ size \in Nat
  BY ResolveAssumption
<1>2. AutoBufferSize(threads, limit) = IF limit < size THEN PrevPowerOfTwo(limit) ELSE size
  BY DEF AutoBufferSize, NoLimit
<1> HIDE DEF size
<1> QED BY <1>1, <1>2, PowerBelow

(* checked_capacity rounds a power of two up to itself or the granularity. *)
LEMMA CapacityOfAPower ==
  ASSUME NEW capacity \in PowersOfTwo, NEW size \in PowersOfTwo, NEW limit \in Nat,
         IsCapacity(capacity, size), size <= limit, Granularity <= limit
  PROVE  capacity <= limit
<1>1. {capacity, size, Granularity} \subseteq Nat /\ Granularity \in PowersOfTwo
  BY ResolveAssumption
<1>2. CASE size >= Granularity
  BY <1>1, <1>2 DEF IsCapacity
<1>3. CASE size < Granularity
  BY <1>1, <1>3 DEF IsCapacity
<1> QED BY <1>1, <1>2, <1>3

-----------------------------------------------------------------------------
(* What a resolved configuration keeps.                                    *)

ThreadsFit(r) ==
  /\ r.thread_count \in Nat /\ r.chunk_count \in Nat
  /\ r.thread_count <= r.chunk_count
  /\ r.chunk_count >= 1 => r.thread_count >= 1

BuffersFit(r) ==
  /\ r.io_buffer_limit \in Limits /\ r.buffer_limit \in Limits
  /\ r.io_buffer_limit # NoLimit /\ r.thread_count >= 1 =>
       r.buffer_limit \in Nat /\ r.thread_count * r.buffer_limit <= r.io_buffer_limit

(* Where the caller left it to the resolver, a buffer's limit is a granule *)
(* at least, and its size a power of two within the limit.                 *)
AutoFits(s, r) ==
  /\ OwnBufferSize(s) = 0 /\ OwnBufferLimit(s) \in {NoLimit, 0}
  /\ r.io_buffer_limit \notin 0..(Granularity - 1)
  /\ r.chunk_count > 0 /\ r.buffer_limit # NoLimit
  => /\ r.buffer_limit \in Nat /\ Granularity <= r.buffer_limit
     /\ r.buffer_size \in PowersOfTwo /\ r.buffer_size <= r.buffer_limit

LEMMA ResolvedFits ==
  ASSUME NEW s \in Inputs
  PROVE  /\ ThreadsFit(ResolvedConfig(s)) /\ BuffersFit(ResolvedConfig(s))
         /\ AutoFits(s, ResolvedConfig(s))
         /\ s.size > 0 => ResolvedConfig(s).chunk_count >= 1
<1> DEFINE r == ResolvedConfig(s)
           limit == ResolveIoBufferLimit(s)
           share == PerThreadShare(limit, r.thread_count)
<1>1. /\ r.chunk_count = Chunks(s)
      /\ r.io_buffer_limit = limit
      /\ r.thread_count = Threads(s, r.chunk_count, limit)
      /\ r.buffer_limit = ResolveBufferLimit(OwnBufferLimit(s), share)
      /\ r.buffer_size = ResolveBufferSize(OwnBufferSize(s), r.thread_count, r.buffer_limit)
  BY DEF ResolvedConfig
<1> HIDE DEF r, limit
<1>2. limit \in Limits
  BY BudgetIsALimit DEF limit
<1>3. r.chunk_count \in Nat /\ (s.size > 0 => r.chunk_count >= 1)
  <2>1. s.size \in Nat
    BY DEF Inputs
  <2> QED BY <1>1, <2>1, ChunkSizePositive, DivCeilPositive DEF Chunks
<1>4. ThreadsFit(r)
  <2>1. CASE s.input = "stream"
    BY <1>1, <2>1 DEF ThreadsFit, Threads, Chunks
  <2>2. CASE s.input # "stream"
    BY <1>1, <1>2, <1>3, <2>2, ThreadCountBounded DEF ThreadsFit, Threads
  <2> QED BY <2>1, <2>2
<1>5. OwnBufferLimit(s) \in Limits
  BY DEF OwnBufferLimit, Inputs, Limits
<1>6. share \in Limits
  BY <1>2, <1>4, ShareIsALimit DEF ThreadsFit
<1>7. r.buffer_limit \in Limits
  <2> HIDE DEF share
  <2> QED BY <1>1, <1>5, <1>6, LimitIsALimit
<1>8. ASSUME limit # NoLimit, r.thread_count >= 1
      PROVE  r.buffer_limit \in Nat /\ r.thread_count * r.buffer_limit <= limit
  <2>1. limit \in Nat /\ r.thread_count \in Nat \ {0}
    BY <1>2, <1>4, <1>8 DEF Limits, ThreadsFit
  <2>2. share = limit \div r.thread_count
    BY <1>8, <2>1 DEF PerThreadShare
  <2>3. share \in Nat /\ r.thread_count * share <= limit
    BY <2>1, <2>2, SharesFit
  <2> HIDE DEF share
  <2>5. r.buffer_limit \in Nat /\ r.buffer_limit <= share
    BY <1>1, <1>5, <2>3, LimitWithinShare
  <2>6. r.thread_count * r.buffer_limit <= r.thread_count * share
    BY <2>1, <2>3, <2>5, ProductIsMonotone
  <2>7. r.thread_count * r.buffer_limit \in Nat /\ r.thread_count * share \in Nat
    BY <2>1, <2>3, <2>5
  <2> QED BY <2>1, <2>3, <2>5, <2>6, <2>7
<1>9. BuffersFit(r)
  BY <1>1, <1>2, <1>8, <1>7 DEF BuffersFit
<1>10. AutoFits(s, r)
  <2> SUFFICES ASSUME OwnBufferSize(s) = 0, OwnBufferLimit(s) \in {NoLimit, 0},
                      limit \notin 0..(Granularity - 1),
                      r.chunk_count > 0, r.buffer_limit # NoLimit
               PROVE  /\ r.buffer_limit \in Nat /\ Granularity <= r.buffer_limit
                      /\ r.buffer_size \in PowersOfTwo /\ r.buffer_size <= r.buffer_limit
    BY <1>1 DEF AutoFits
  <2>1. r.buffer_limit = share /\ share # NoLimit
    BY <1>1 DEF ResolveBufferLimit
  <2>2. r.thread_count \in Nat \ {0}
    BY <1>3, <1>4 DEF ThreadsFit
  <2>3. Granularity \in Nat \ {0}
    BY GranularityPositive
  <2>4. limit \in Nat /\ limit >= Granularity
    <3>1. limit # NoLimit
      BY <2>1 DEF PerThreadShare
    <3> QED BY <1>2, <2>3, <3>1 DEF Limits
  <2>5. share = limit \div r.thread_count
    BY <2>2, <2>4 DEF PerThreadShare, NoLimit
  <2>6. r.thread_count * Granularity <= limit
    <3>1. CASE s.input = "stream"
      BY <1>1, <2>3, <2>4, <3>1 DEF Threads
    <3>2. CASE s.input # "stream"
      BY <1>1, <1>2, <1>3, <2>4, <3>2, ThreadCountBounded DEF Threads
    <3> QED BY <3>1, <3>2
  <2> HIDE DEF share
  <2>7. share \in Nat /\ Granularity <= share
    BY <2>2, <2>3, <2>4, <2>5, <2>6, ShareOfAFit, SharesFit
  <2>8. r.buffer_size = AutoBufferSize(r.thread_count, share)
    BY <1>1, <2>1 DEF ResolveBufferSize
  <2> QED BY <2>1, <2>2, <2>3, <2>7, <2>8, AutoSizeFits
<1> QED BY <1>3, <1>4, <1>9, <1>10 DEF r

-----------------------------------------------------------------------------
(* The invariant: a configuration is resolved once, and a buffer that was  *)
(* opened is one the resolved limit allowed.                               *)

BufferAllowed ==
  \/ buffer \in {Unopened, Refused, Overgrown}
  \/ /\ buffer \in Nat
     /\ resolved = ResolvedConfig(settings) /\ resolved.chunk_count > 0
     /\ resolved.buffer_limit # NoLimit => buffer <= resolved.buffer_limit

IInv ==
  /\ settings \in Inputs
  /\ resolved = Unresolved \/ resolved = ResolvedConfig(settings)
  /\ buffer # Unopened => resolved = ResolvedConfig(settings) /\ resolved # Unresolved
  /\ BufferAllowed /\ AutoBuffersOpen

LEMMA InitIInv == Init => IInv
BY ResolveAssumption DEF Init, IInv, BufferAllowed, AutoBuffersOpen, Unopened, Refused

LEMMA StepIInv == IInv /\ [Next]_vars => IInv'
<1> SUFFICES ASSUME IInv, [Next]_vars  PROVE IInv'
  OBVIOUS
<1> USE DEF IInv
<1>1. CASE Resolve
  <2>1. buffer = Unopened /\ buffer' = buffer /\ settings' = settings
        /\ resolved' = ResolvedConfig(settings)
    BY <1>1 DEF Resolve
  <2> QED BY <2>1 DEF BufferAllowed, AutoBuffersOpen, Unopened, Refused
<1>2. CASE Open
  <2>1. PICK capacity \in PowersOfTwo :
          /\ IsCapacity(capacity, resolved.buffer_size)
          /\ buffer' = IF resolved.buffer_limit # NoLimit /\ capacity > resolved.buffer_limit
                       THEN Refused ELSE capacity
    BY <1>2 DEF Open
  <2>2. capacity \in Nat
    BY ResolveAssumption
  <2>3. resolved = ResolvedConfig(settings) /\ resolved.chunk_count > 0
        /\ settings' = settings /\ resolved' = resolved /\ resolved # Unresolved
    BY <1>2 DEF Open
  <2>4. resolved.buffer_limit \in Int
    BY <2>3, ResolvedFits DEF BuffersFit, Limits, NoLimit
  <2>5. buffer' = Refused \/ (buffer' = capacity
          /\ (resolved.buffer_limit # NoLimit => capacity <= resolved.buffer_limit))
    BY <2>1, <2>2, <2>4
  <2>6. BufferAllowed'
    BY <2>2, <2>3, <2>5 DEF BufferAllowed
  <2>7. AutoBuffersOpen'
    <3> SUFFICES ASSUME buffer' = Refused, OwnBufferSize(settings) = 0,
                        OwnBufferLimit(settings) \in {NoLimit, 0},
                        resolved.io_buffer_limit \notin 0..(Granularity - 1)
                 PROVE  FALSE
      BY <2>3 DEF AutoBuffersOpen
    <3>1. resolved.buffer_limit # NoLimit /\ capacity > resolved.buffer_limit
      BY <2>1, <2>2 DEF Refused
    <3>2. AutoFits(settings, resolved)
      BY <2>3, ResolvedFits
    <3>3. /\ resolved.buffer_limit \in Nat /\ Granularity <= resolved.buffer_limit
          /\ resolved.buffer_size \in PowersOfTwo
          /\ resolved.buffer_size <= resolved.buffer_limit
      BY <2>3, <3>1, <3>2 DEF AutoFits
    <3>4. capacity <= resolved.buffer_limit
      BY <2>1, <3>3, CapacityOfAPower
    <3> QED BY <2>2, <3>1, <3>3, <3>4
  <2> QED BY <2>3, <2>6, <2>7
<1>3. CASE Grow
  <2>1. /\ buffer \in Nat /\ buffer' = GrownCapacity(buffer)
        /\ resolved = ResolvedConfig(settings) /\ resolved.chunk_count > 0
        /\ settings' = settings /\ resolved' = resolved /\ resolved # Unresolved
    BY <1>3 DEF Grow, BufferAllowed, Unopened, Refused, Overgrown
  <2>2. resolved.buffer_limit \in Int
    BY <2>1, ResolvedFits DEF BuffersFit, Limits, NoLimit
  <2>3. \/ buffer' = Overgrown
        \/ /\ buffer' \in Nat
           /\ resolved.buffer_limit # NoLimit => buffer' <= resolved.buffer_limit
    BY <2>1, <2>2 DEF GrownCapacity
  <2>4. BufferAllowed'
    BY <2>1, <2>3 DEF BufferAllowed
  <2>5. AutoBuffersOpen'
    BY <2>3 DEF AutoBuffersOpen, Refused, Overgrown
  <2> QED BY <2>1, <2>4, <2>5
<1>4. CASE UNCHANGED vars
  BY <1>4 DEF vars, BufferAllowed, AutoBuffersOpen
<1> QED BY <1>1, <1>2, <1>3, <1>4 DEF Next

-----------------------------------------------------------------------------
LEMMA Invariance == Spec => []IInv
BY InitIInv, StepIInv, PTL DEF Spec

(* A non-empty input gets at least one thread and no more threads than     *)
(* chunks, which is what lets thread t start on chunk t.                   *)
THEOREM ThreadsStartOnChunks == Spec => []ThreadsWithinChunks
<1>1. IInv => ThreadsWithinChunks
  BY ResolvedFits DEF IInv, ThreadsWithinChunks, ThreadsFit
<1> QED BY <1>1, Invariance, PTL

(* All threads together stay within the budget, with the buffers they open *)
(* and with the ones they may grow to.                                     *)
THEOREM TheBudgetHolds == Spec => []BudgetIsKept
<1>1. IInv => BudgetIsKept
  <2> SUFFICES ASSUME IInv  PROVE BudgetIsKept
    OBVIOUS
  <2>1. CASE resolved = Unresolved
    <3>1. resolved.thread_count = 0
      BY <2>1 DEF Unresolved
    <3>2. ResolvedConfig(settings).chunk_count > 0 => resolved # ResolvedConfig(settings)
      BY <3>1, ResolvedFits DEF IInv, ThreadsFit
    <3>3. buffer \in {Unopened, Refused, Overgrown}
      BY <3>2 DEF IInv, BufferAllowed
    <3> QED BY <2>1, <3>3 DEF BudgetIsKept, Unopened, Refused, Overgrown
  <2>2. CASE resolved = ResolvedConfig(settings)
    <3>1. ThreadsFit(resolved) /\ BuffersFit(resolved)
          /\ (settings.size > 0 => resolved.chunk_count >= 1)
      BY <2>2, ResolvedFits DEF IInv
    <3>2. resolved.chunk_count > 0 => WithinBudget(resolved.buffer_limit)
      BY <3>1 DEF ThreadsFit, BuffersFit, WithinBudget, NoLimit
    <3>3. ASSUME buffer > 0, resolved.io_buffer_limit # NoLimit
          PROVE  /\ buffer # NoLimit
                 /\ resolved.thread_count * buffer <= resolved.io_buffer_limit
      <4>1. buffer \in Nat /\ resolved.chunk_count > 0
            /\ (resolved.buffer_limit # NoLimit => buffer <= resolved.buffer_limit)
        BY <3>3 DEF IInv, BufferAllowed, Unopened, Refused, Overgrown
      <4>2. resolved.thread_count \in Nat /\ resolved.thread_count >= 1
        BY <3>1, <4>1 DEF ThreadsFit
      <4>3. resolved.buffer_limit \in Nat
            /\ resolved.thread_count * resolved.buffer_limit <= resolved.io_buffer_limit
        BY <3>1, <3>3, <4>2 DEF BuffersFit
      <4>4. resolved.thread_count * buffer <= resolved.thread_count * resolved.buffer_limit
        BY <4>1, <4>2, <4>3, ProductIsMonotone DEF NoLimit
      <4>5. resolved.io_buffer_limit \in Nat
        BY <3>1, <3>3 DEF BuffersFit, Limits
      <4>6. resolved.thread_count * buffer \in Nat
            /\ resolved.thread_count * resolved.buffer_limit \in Nat
        BY <4>1, <4>2, <4>3
      <4> QED BY <3>3, <4>1, <4>3, <4>4, <4>5, <4>6 DEF NoLimit
    <3> QED BY <3>2, <3>3 DEF BudgetIsKept, WithinBudget
  <2> QED BY <2>1, <2>2 DEF IInv
<1> QED BY <1>1, Invariance, PTL

(* What the caller left to the resolver can be opened: the size is rounded *)
(* down here and up in checked_capacity, and never out of its own limit.   *)
THEOREM AutomaticBuffersOpen == Spec => []AutoBuffersOpen
<1>1. IInv => AutoBuffersOpen
  BY DEF IInv
<1> QED BY <1>1, Invariance, PTL

=============================================================================
