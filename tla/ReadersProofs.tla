--------------------------- MODULE ReadersProofs ----------------------------
(***************************************************************************)
(* Proofs about module Readers, for inputs, buffers, reads and numbers of  *)
(* passes of any size.  A reader has no offset of its own: where its bytes *)
(* are in the input follows from the source's position, which the context  *)
(* of one pass leaves to the next.  The invariant ties the two together    *)
(* for each kind of source.                                                *)
(***************************************************************************)
EXTENDS Readers, SequenceTheorems, TLAPS

-----------------------------------------------------------------------------
(* The community modules' Min and Max, of two numbers and of three.        *)
LEMMA MinOfTwo ==
  ASSUME NEW a \in Int, NEW b \in Int
  PROVE  Min({a, b}) \in {a, b} /\ Min({a, b}) <= a /\ Min({a, b}) <= b
<1>1. \E x \in {a, b} : \A y \in {a, b} : x <= y
  BY SMT
<1> QED BY <1>1 DEF Min

LEMMA MaxOfTwo ==
  ASSUME NEW a \in Int, NEW b \in Int
  PROVE  Max({a, b}) \in {a, b} /\ Max({a, b}) >= a /\ Max({a, b}) >= b
<1>1. \E x \in {a, b} : \A y \in {a, b} : x >= y
  BY SMT
<1> QED BY <1>1 DEF Max

LEMMA MinOfThree ==
  ASSUME NEW a \in Int, NEW b \in Int, NEW c \in Int
  PROVE  /\ Min({a, b} \cup {c}) \in {a, b, c}
         /\ Min({a, b} \cup {c}) <= a
         /\ Min({a, b} \cup {c}) <= b
         /\ Min({a, b} \cup {c}) <= c
<1>1. \E x \in {a, b} \cup {c} : \A y \in {a, b} \cup {c} : x <= y
  <2>1. CASE a <= b /\ a <= c
    BY <2>1
  <2>2. CASE b <= a /\ b <= c
    BY <2>2
  <2>3. CASE c <= a /\ c <= b
    BY <2>3
  <2> QED BY <2>1, <2>2, <2>3
<1> QED BY <1>1 DEF Min

(* What a read returns (Source::read), and what it makes of the queue.     *)
LEMMA OffsetsAreASequence ==
  ASSUME NEW from \in Nat, NEW to \in Nat, from <= to
  PROVE  /\ Offsets(from, to) \in Seq(Int)
         /\ Len(Offsets(from, to)) = to - from
         /\ \A i \in 1..(to - from) : Offsets(from, to)[i] = from + i - 1
<1>1. to - from \in Nat
  OBVIOUS
<1> QED BY <1>1 DEF Offsets

LEMMA Appended ==
  ASSUME NEW s \in Seq(Int), NEW from \in Nat, NEW n \in Nat
  PROVE  /\ s \o Offsets(from, from + n) \in Seq(Int)
         /\ Len(s \o Offsets(from, from + n)) = Len(s) + n
         /\ \A i \in 1..Len(s) : (s \o Offsets(from, from + n))[i] = s[i]
         /\ \A i \in (Len(s) + 1)..(Len(s) + n) :
              (s \o Offsets(from, from + n))[i] = from + (i - Len(s)) - 1
<1> DEFINE o == Offsets(from, from + n)
<1>1. o \in Seq(Int) /\ Len(o) = n /\ \A i \in 1..n : o[i] = from + i - 1
  <2>1. from + n \in Nat /\ from <= from + n /\ (from + n) - from = n
    OBVIOUS
  <2> QED BY <2>1, OffsetsAreASequence
<1> HIDE DEF o
<1>2. Len(s) \in Nat
  OBVIOUS
<1>3. /\ s \o o \in Seq(Int) /\ Len(s \o o) = Len(s) + n
      /\ \A i \in 1..Len(s) + n : (s \o o)[i] = IF i <= Len(s) THEN s[i] ELSE o[i - Len(s)]
  BY <1>1, ConcatProperties
<1>4. \A i \in 1..Len(s) : (s \o o)[i] = s[i]
  BY <1>2, <1>3
<1>5. ASSUME NEW i \in (Len(s) + 1)..(Len(s) + n)
      PROVE  (s \o o)[i] = from + (i - Len(s)) - 1
  <2>1. i \in 1..Len(s) + n /\ ~(i <= Len(s)) /\ i - Len(s) \in 1..n
    BY <1>2
  <2> QED BY <1>1, <1>3, <2>1
<1> QED BY <1>3, <1>4, <1>5 DEF o

LEMMA Dropped ==
  ASSUME NEW s \in Seq(Int), NEW n \in 0..Len(s)
  PROVE  /\ SubSeq(s, n + 1, Len(s)) \in Seq(Int)
         /\ Len(SubSeq(s, n + 1, Len(s))) = Len(s) - n
         /\ \A i \in 1..(Len(s) - n) : SubSeq(s, n + 1, Len(s))[i] = s[n + i]
BY SMT

-----------------------------------------------------------------------------
(* The invariant.                                                          *)
Types ==
  /\ backend \in BackendNames /\ size \in Nat /\ actual \in Nat
  /\ data \in Seq(Int) /\ capacity \in Nat
  /\ position \in Nat /\ at \in Nat /\ request \in Nat /\ passes \in Nat
  /\ answer \in {"None", "Filled", "Asked", "Failed"}

NotOpenedYet ==
  passes = 0 => answer = "None" /\ data = <<>> /\ at = 0 /\ position = 0

(* What is buffered is what the source has given since the pass began.     *)
RingInStep ==
  Ring => /\ position = at + Len(data) /\ Len(data) <= capacity
          /\ passes > 0 =>
               /\ backend = "Stream" => file_remaining = NoRemaining
               /\ backend = "RingBuf" => file_remaining = size - position /\ position <= size

(* The other readers expose all there is.                                  *)
RestExposed ==
  passes > 0 => /\ backend = "InMemory" => at + Len(data) >= EndOfFile
                /\ backend = "Mmap" => at + Len(data) = size

RInv == Types /\ NotOpenedYet /\ RingInStep /\ RestExposed /\ EveryPassSeesTheFile

LEMMA EndOfFileIsReached ==
  ASSUME Types
  PROVE  /\ EndOfFile \in Nat /\ EndOfFile <= actual
         /\ backend # "Stream" => EndOfFile <= size
BY MinOfTwo DEF Types, EndOfFile

LEMMA WhatAReadAsksFor ==
  ASSUME Types, file_remaining \in Int
  PROVE  /\ Queue!Writable \in Int /\ ToRead \in Int
         /\ ToRead \in {Queue!Writable, ReadCap, file_remaining}
         /\ ToRead <= Queue!Writable
         /\ file_remaining # NoRemaining => ToRead <= file_remaining
         /\ file_remaining = NoRemaining => ToRead \in {Queue!Writable, ReadCap}
<1>1. Queue!Writable \in Int /\ ReadCap \in Int
  BY ReadersAssumption DEF Types, Queue!Writable
<1>2. CASE file_remaining = NoRemaining
  <2>1. ToRead = Min({Queue!Writable, ReadCap})
    BY <1>2 DEF ToRead
  <2>2. /\ Min({Queue!Writable, ReadCap}) \in {Queue!Writable, ReadCap}
        /\ Min({Queue!Writable, ReadCap}) <= Queue!Writable
    BY <1>1, MinOfTwo
  <2> QED BY <1>1, <1>2, <2>1, <2>2
<1>3. CASE file_remaining # NoRemaining
  <2>1. ToRead = Min({Queue!Writable, ReadCap} \cup {file_remaining})
    BY <1>3 DEF ToRead
  <2>2. /\ Min({Queue!Writable, ReadCap} \cup {file_remaining})
             \in {Queue!Writable, ReadCap, file_remaining}
        /\ Min({Queue!Writable, ReadCap} \cup {file_remaining}) <= Queue!Writable
        /\ Min({Queue!Writable, ReadCap} \cup {file_remaining}) <= file_remaining
    BY <1>1, MinOfThree, Zenon
  <2> QED BY <1>1, <1>3, <2>1, <2>2
<1> QED BY <1>2, <1>3

LEMMA RInvInit == Init => RInv
<1> SUFFICES ASSUME Init PROVE RInv
  OBVIOUS
<1>1. data = <<>> /\ capacity = InitialCapacity
  BY DEF Init, Queue!Init
<1>2. data \in Seq(Int) /\ Len(data) = 0
  BY <1>1
<1>3. MaxSize \in Nat /\ capacity \in Nat /\ backend \in BackendNames
  BY <1>1, ReadersAssumption DEF Init
<1> QED BY <1>1, <1>2, <1>3 DEF Init, RInv, Types, NotOpenedYet, RingInStep, RestExposed,
          EveryPassSeesTheFile

LEMMA ChunkReaderStep ==
  ASSUME RInv, NEW start \in 0..size, NEW end \in 0..MaxSize, ChunkReader(start, end)
  PROVE  RInv'
<1> USE DEF RInv
<1>1. /\ UNCHANGED <<backend, size, actual>>
      /\ passes' = passes + 1 /\ at' = start /\ request' = 0 /\ answer' = "Filled"
      /\ backend = "Stream" => start = 0
  BY DEF ChunkReader, source
<1>2. start \in Nat /\ size \in Nat /\ start <= size
  BY DEF Types
<1>3. CASE Ring /\ OpenRing(start)
  <2>1. /\ data' = <<>> /\ capacity' = capacity /\ position' = start
        /\ file_remaining' = IF backend = "Stream" THEN NoRemaining ELSE size - start
    BY <1>3 DEF OpenRing, Queue!Reset
  <2>2. data' \in Seq(Int) /\ Len(data') = 0 /\ DOMAIN data' = {}
    BY <2>1
  <2> QED BY <1>1, <1>2, <1>3, <2>1, <2>2 DEF Types, NotOpenedYet, RingInStep, RestExposed,
            EveryPassSeesTheFile, Ring
<1>4. CASE backend = "InMemory" /\ OpenInMemory(start)
  <2> DEFINE last == Max({start, EndOfFile})
  <2>1. last \in Nat /\ last >= start /\ last >= EndOfFile
    <3>1. EndOfFile \in Nat
      BY EndOfFileIsReached
    <3>2. start \in Int /\ EndOfFile \in Int
      BY <1>2, <3>1
    <3>3. last \in {start, EndOfFile} /\ last >= start /\ last >= EndOfFile
      BY <3>2, MaxOfTwo
    <3> QED BY <1>2, <3>1, <3>3
  <2>2. data' = Offsets(start, last) /\ capacity' = capacity /\ position' = position
    BY <1>4 DEF OpenInMemory
  <2> HIDE DEF last
  <2>3. data' \in Seq(Int) /\ Len(data') = last - start
        /\ \A i \in 1..(last - start) : data'[i] = start + i - 1
    BY <1>2, <2>1, <2>2, OffsetsAreASequence
  <2>4. EndOfFile' = EndOfFile
    BY <1>1 DEF EndOfFile
  <2>5. EveryPassSeesTheFile'
    BY <1>1, <2>3 DEF EveryPassSeesTheFile
  <2>6. RestExposed'
    BY <1>1, <1>2, <1>4, <2>1, <2>3, <2>4, EndOfFileIsReached DEF RestExposed
  <2> QED BY <1>1, <1>2, <1>4, <2>2, <2>3, <2>5, <2>6 DEF Types, NotOpenedYet,
            RingInStep, Ring
<1>5. CASE backend = "Mmap" /\ OpenMmap(start, end)
  <2>1. /\ data' = Exposed(start, size, {}) /\ capacity' = capacity /\ position' = position
    BY <1>5 DEF OpenMmap, DirtyAfterReset
  <2>2. data' = [i \in 1..(size - start) |-> start + i - 1]
    BY <2>1 DEF Exposed
  <2>3. size - start \in Nat
    BY <1>2
  <2>4. data' \in Seq(Int) /\ Len(data') = size - start
        /\ \A i \in 1..(size - start) : data'[i] = start + i - 1
    BY <1>2, <2>2, <2>3
  <2>5. EveryPassSeesTheFile'
    BY <1>1, <2>4 DEF EveryPassSeesTheFile
  <2> QED BY <1>1, <1>2, <1>5, <2>1, <2>4, <2>5 DEF Types, NotOpenedYet, RingInStep,
            RestExposed, Ring
<1> QED BY <1>3, <1>4, <1>5 DEF ChunkReader

(* Steps that leave the bytes and the source alone.                        *)
LEMMA QuietStep ==
  ASSUME RInv, passes > 0, request' \in Nat, answer' \in {"Filled", "Asked", "Failed"},
         UNCHANGED <<source, data, capacity, position, file_remaining, passes, history>>
  PROVE  RInv'
<1> USE DEF RInv
<1>1. UNCHANGED <<backend, size, actual, at, rewritten>>
  BY DEF source, history
<1>2. EndOfFile' = EndOfFile
  BY <1>1 DEF EndOfFile
<1> QED BY <1>1, <1>2 DEF Types, NotOpenedYet, RingInStep, RestExposed,
          EveryPassSeesTheFile, Ring

LEMMA GrowStep ==
  ASSUME RInv, Grow
  PROVE  RInv'
<1> USE DEF RInv
<1>1. /\ data' = data /\ capacity' = 2 * capacity
      /\ UNCHANGED <<backend, size, actual, position, file_remaining, request, answer,
                     passes, at, rewritten>>
  BY DEF Grow, Queue!Grow, source, history
<1>2. EndOfFile' = EndOfFile
  BY <1>1 DEF EndOfFile
<1> QED BY <1>1, <1>2 DEF Types, NotOpenedYet, RingInStep, RestExposed,
          EveryPassSeesTheFile, Ring

LEMMA ReadStep ==
  ASSUME RInv, NEW n \in 1..ReadCap, Read(n)
  PROVE  RInv'
<1> USE DEF RInv
<1>1. /\ UNCHANGED <<backend, size, actual, capacity, request, answer, passes, at, rewritten>>
      /\ data' = data \o Offsets(position, position + n)
      /\ position' = position + n
      /\ file_remaining' = IF file_remaining = NoRemaining THEN NoRemaining
                           ELSE file_remaining - n
      /\ Ring /\ answer = "Asked"
  BY DEF Read, InLoop, LoopGoesOn, Queue!Produce, source, history
<1>2. n \in Nat /\ passes > 0
  BY <1>1, ReadersAssumption DEF NotOpenedYet, Types
<1>3. /\ data' \in Seq(Int) /\ Len(data') = Len(data) + n
      /\ \A i \in 1..Len(data) : data'[i] = data[i]
      /\ \A i \in (Len(data) + 1)..(Len(data) + n) : data'[i] = position + (i - Len(data)) - 1
  <2>1. data \in Seq(Int) /\ position \in Nat
    BY DEF Types
  <2> QED BY <1>1, <1>2, <2>1, Appended
<1>4. position = at + Len(data) /\ Len(data) \in Nat /\ at \in Nat
  BY <1>1 DEF RingInStep, Types
<1>5. EveryPassSeesTheFile'
  <2> SUFFICES ASSUME NEW i \in DOMAIN data'
               PROVE  data'[i] = at + i - 1 \/ (data'[i] = Dirty /\ at + i - 1 \in rewritten)
    BY <1>1 DEF EveryPassSeesTheFile
  <2>1. i \in 1..(Len(data) + n)
    BY <1>3
  <2>2. CASE i \in 1..Len(data)
    <3>1. i \in DOMAIN data
      BY <2>2 DEF Types
    <3> QED BY <1>3, <2>2, <3>1 DEF EveryPassSeesTheFile
  <2>3. CASE i \in (Len(data) + 1)..(Len(data) + n)
    BY <1>3, <1>4, <2>3
  <2> QED BY <1>2, <1>4, <2>1, <2>2, <2>3
<1>6. RingInStep'
  <2>1. file_remaining \in Int
    BY <1>1, <1>2, <1>4 DEF RingInStep, Types, Ring, NoRemaining
  <2>2. /\ n <= ToRead /\ ToRead \in Int /\ ToRead <= Queue!Writable
        /\ file_remaining # NoRemaining => ToRead <= file_remaining
    BY <2>1, WhatAReadAsksFor DEF Read
  <2>3. Len(data) + n <= capacity
    BY <1>2, <1>4, <2>2 DEF Queue!Writable, Types
  <2>4. ASSUME backend = "RingBuf"
        PROVE  file_remaining' = size - position' /\ position' <= size
    <3>1. file_remaining = size - position /\ position <= size
      BY <1>1, <1>2, <2>4 DEF RingInStep
    <3>2. file_remaining \in Nat /\ file_remaining # NoRemaining
          /\ size \in Nat /\ position \in Nat
      BY <1>4, <3>1 DEF Types, NoRemaining
    <3>3. file_remaining' = file_remaining - n /\ position' = position + n
      BY <1>1, <3>2
    <3>4. n <= file_remaining
      BY <1>2, <2>2, <3>2
    <3> QED BY <1>2, <3>1, <3>2, <3>3, <3>4
  <2>5. backend = "Stream" => file_remaining' = NoRemaining
    BY <1>1, <1>2 DEF RingInStep
  <2>6. position' = at + Len(data')
    <3>1. position' = position + n /\ Len(data') = Len(data) + n
      BY <1>1, <1>3
    <3> QED BY <1>2, <1>4, <3>1
  <2> QED BY <1>1, <1>3, <2>3, <2>4, <2>5, <2>6 DEF RingInStep, Ring
<1> QED BY <1>1, <1>2, <1>3, <1>5, <1>6 DEF Types, NotOpenedYet, RestExposed, Ring

LEMMA ConsumeStep ==
  ASSUME RInv, NEW n \in 1..Len(data), Consume(n)
  PROVE  RInv'
<1>1. /\ UNCHANGED <<backend, size, actual, capacity, position, file_remaining, request,
                     answer, passes, rewritten>>
      /\ at' = at + n /\ answer = "Filled"
  BY DEF Consume, Queue!Consume, source
<1>2. data \in Seq(Int) /\ Len(data) \in Nat /\ at \in Nat /\ capacity \in Nat
  BY DEF RInv, Types
<1>3. n \in Nat /\ 1 <= n /\ n <= Len(data)
  BY <1>2
<1>4. data' = SubSeq(data, n + 1, Len(data))
  BY DEF Consume, Queue!Consume
<1>5. /\ data' \in Seq(Int) /\ Len(data') = Len(data) - n
      /\ \A i \in 1..(Len(data) - n) : data'[i] = data[n + i]
  <2>1. n \in 0..Len(data)
    BY <1>2, <1>3
  <2> QED BY <1>2, <1>4, <2>1, Dropped
<1>6. at' + Len(data') = at + Len(data) /\ Len(data') <= Len(data) /\ at' \in Nat
  BY <1>1, <1>2, <1>3, <1>5
<1>7. EveryPassSeesTheFile'
  <2> SUFFICES ASSUME NEW i \in 1..(Len(data) - n)
               PROVE  \/ data'[i] = at + n + i - 1
                      \/ data'[i] = Dirty /\ at + n + i - 1 \in rewritten
    <3>1. DOMAIN data' = 1..(Len(data) - n)
      BY <1>2, <1>3, <1>5
    <3> QED BY <1>1, <3>1 DEF EveryPassSeesTheFile
  <2>1. n + i \in 1..Len(data) /\ at + (n + i) - 1 = at + n + i - 1
    BY <1>2, <1>3
  <2>2. n + i \in DOMAIN data
    BY <1>2, <2>1
  <2>3. \/ data[n + i] = at + (n + i) - 1
        \/ data[n + i] = Dirty /\ at + (n + i) - 1 \in rewritten
    BY <2>2 DEF RInv, EveryPassSeesTheFile
  <2>4. data'[i] = data[n + i]
    BY <1>5
  <2> QED BY <2>1, <2>3, <2>4
<1>8. Types'
  BY <1>1, <1>5, <1>6 DEF RInv, Types
<1>9. RingInStep'
  <2>1. Ring => Len(data') <= capacity
    BY <1>2, <1>3, <1>5 DEF RInv, RingInStep
  <2> QED BY <1>1, <1>6, <2>1 DEF RInv, RingInStep, Ring
<1>10. EndOfFile' = EndOfFile
  BY <1>1 DEF EndOfFile
<1>11. RestExposed' /\ NotOpenedYet'
  BY <1>1, <1>2, <1>3, <1>6, <1>10 DEF RInv, RestExposed, NotOpenedYet
<1> QED BY <1>7, <1>8, <1>9, <1>11 DEF RInv

LEMMA RewriteStep ==
  ASSUME RInv, NEW i \in DOMAIN data, Rewrite(i)
  PROVE  RInv'
<1> USE DEF RInv
<1>1. /\ UNCHANGED <<backend, size, actual, capacity, position, file_remaining, request,
                     answer, passes, at>>
      /\ data' = [data EXCEPT ![i] = Dirty] /\ rewritten' = rewritten \cup {at + i - 1}
  BY DEF Rewrite, Queue!Rewrite, source
<1>2. data \in Seq(Int) /\ i \in 1..Len(data) /\ Dirty \in Int
  BY DEF Types, Dirty
<1>3. /\ data' \in Seq(Int) /\ Len(data') = Len(data)
      /\ \A k \in 1..Len(data) : data'[k] = IF k = i THEN Dirty ELSE data[k]
  BY <1>1, <1>2
<1>4. EveryPassSeesTheFile'
  BY <1>1, <1>2, <1>3 DEF EveryPassSeesTheFile
<1>5. EndOfFile' = EndOfFile
  BY <1>1 DEF EndOfFile
<1>6. passes > 0
  BY <1>2 DEF NotOpenedYet, Types
<1> QED BY <1>1, <1>3, <1>4, <1>5, <1>6 DEF Types, NotOpenedYet, RingInStep, RestExposed, Ring

LEMMA Step ==
  ASSUME RInv, [Next]_vars
  PROVE  RInv'
<1>1. passes > 0 \/ answer \notin {"Asked", "Filled"}
  BY DEF RInv, Types, NotOpenedYet
<1>2. CASE UNCHANGED vars
  <2>1. UNCHANGED <<backend, size, actual, data, capacity, position, file_remaining,
                    request, answer, passes, at, rewritten>>
    BY <1>2 DEF vars, source, history
  <2>2. EndOfFile' = EndOfFile
    BY <2>1 DEF EndOfFile
  <2> QED BY <2>1, <2>2 DEF RInv, Types, NotOpenedYet, RingInStep, RestExposed,
            EveryPassSeesTheFile, Ring
<1>3. ASSUME NEW start \in 0..size, NEW end \in 0..MaxSize, ChunkReader(start, end)
      PROVE  RInv'
  BY <1>3, ChunkReaderStep
<1>4. ASSUME NEW n \in 1..(MaxSize + 1), Fill(n)
      PROVE  RInv'
  <2>1. /\ request' = n /\ answer' = "Asked" /\ passes > 0
        /\ UNCHANGED <<source, data, capacity, position, file_remaining, passes, history>>
    BY <1>4 DEF Fill, history, source
  <2>2. n \in Nat
    BY ReadersAssumption
  <2> QED BY <2>1, <2>2, QuietStep
<1>5. ASSUME NEW a \in {"Filled", "Failed"}, answer = "Asked", Return(a)
      PROVE  RInv'
  <2>1. /\ request' = request /\ answer' = a /\ passes > 0
        /\ UNCHANGED <<source, data, capacity, position, file_remaining, passes, history>>
    BY <1>1, <1>5 DEF Return, history, source
  <2>2. request \in Nat
    BY DEF RInv, Types
  <2> QED BY <2>1, <2>2, QuietStep
<1>6. CASE FillStep
  <2>1. CASE Grow
    BY <2>1, GrowStep
  <2>2. CASE GrowFails \/ ReadNothing \/ FillReturns
    BY <1>5, <2>2 DEF GrowFails, ReadNothing, FillReturns, InLoop
  <2>3. ASSUME NEW n \in 1..ReadCap, Read(n)
        PROVE  RInv'
    BY <2>3, ReadStep
  <2> QED BY <1>6, <2>1, <2>2, <2>3 DEF FillStep
<1>7. CASE ReadFails
  BY <1>5, <1>7 DEF ReadFails, InLoop
<1>8. ASSUME NEW n \in 1..Len(data), Consume(n)
      PROVE  RInv'
  BY <1>8, ConsumeStep
<1>9. ASSUME NEW i \in DOMAIN data, Rewrite(i)
      PROVE  RInv'
  BY <1>9, RewriteStep
<1> QED BY <1>2, <1>3, <1>4, <1>6, <1>7, <1>8, <1>9 DEF Next

-----------------------------------------------------------------------------
(* The invariant holds in every reachable state.                           *)
THEOREM Invariance == Spec => []RInv
<1>1. Init => RInv
  BY RInvInit
<1>2. RInv /\ [Next]_vars => RInv'
  BY Step
<1> QED BY <1>1, <1>2, PTL DEF Spec

(* On every source and in every pass, for inputs, buffers and reads of any *)
(* size, what a reader exposes (ChunkReader::buffer) is the input from     *)
(* where the pass has consumed to.                                         *)
THEOREM PassesSeeTheFile == Spec => []EveryPassSeesTheFile
<1>1. RInv => EveryPassSeesTheFile
  BY DEF RInv
<1> QED BY <1>1, Invariance, PTL

(* fill returns short at the end of the input alone (src/io/mod.rs:40).    *)
THEOREM ShortMeansEof == Spec => ShortOnlyAtEof
<1>1. ASSUME RInv, [Next]_vars, answer = "Asked", answer' = "Filled"
      PROVE  Len(data) >= request \/ at + Len(data) >= EndOfFile
  <2> USE DEF RInv
  <2>1. passes > 0 /\ backend \in BackendNames /\ request \in Nat
        /\ size \in Nat /\ actual \in Nat /\ Len(data) \in Nat /\ position \in Nat
        /\ at \in Nat /\ capacity \in Nat
    BY <1>1 DEF Types, NotOpenedYet
  <2>2. EndOfFile \in Nat /\ EndOfFile <= actual /\ (backend # "Stream" => EndOfFile <= size)
    BY <1>1, EndOfFileIsReached
  <2>3. ReadNothing \/ FillReturns
    BY <1>1 DEF Next, vars, FillStep, ChunkReader, Fill, Grow, GrowFails, Return, Read,
         ReadFails, Consume, Rewrite
  <2>4. CASE ~Ring
    <3>1. backend \in {"InMemory", "Mmap"}
      BY <2>1, <2>4 DEF Ring, BackendNames
    <3> QED BY <1>1, <2>1, <2>2, <3>1 DEF RestExposed
  <2>5. CASE Ring /\ Len(data) < request /\ ReadNothing
    <3>1. position = at + Len(data)
      BY <1>1, <2>5 DEF RingInStep
    <3>2. file_remaining \in Int
      BY <1>1, <2>1, <2>5 DEF RingInStep, Ring, NoRemaining
    <3>3. ToRead # 0
      <4>1. Queue!Writable # 0 /\ ReadCap # 0
            /\ (file_remaining = NoRemaining \/ file_remaining # 0)
        BY <2>5, <3>2, ReadersAssumption DEF ReadNothing, InLoop, LoopGoesOn, MustGrow
      <4>2. ToRead \in {Queue!Writable, ReadCap, file_remaining}
            /\ (file_remaining = NoRemaining => ToRead \in {Queue!Writable, ReadCap})
        BY <1>1, <3>2, WhatAReadAsksFor
      <4> QED BY <4>1, <4>2
    <3>4. Left = 0
      BY <2>5, <3>3 DEF ReadNothing
    <3> QED BY <2>1, <2>2, <3>1, <3>4 DEF Left
  <2>6. CASE Ring /\ Len(data) < request /\ FillReturns
    <3>1. file_remaining # NoRemaining /\ ~(file_remaining > 0)
      BY <2>6 DEF FillReturns, LoopGoesOn
    <3>2. backend = "RingBuf" /\ position = at + Len(data)
          /\ file_remaining = size - position /\ position <= size
      BY <1>1, <2>1, <2>6, <3>1 DEF RingInStep, Ring
    <3>3. size = at + Len(data)
      BY <2>1, <3>1, <3>2
    <3> QED BY <2>1, <2>2, <3>2, <3>3
  <2>7. Len(data) >= request \/ Len(data) < request
    BY <2>1
  <2> QED BY <2>3, <2>4, <2>5, <2>6, <2>7
<1>2. RInv /\ [Next]_vars
        => [answer = "Asked" /\ answer' = "Filled" =>
              Len(data) >= request \/ at + Len(data) >= EndOfFile]_vars
  BY <1>1
<1> QED BY <1>2, Invariance, PTL DEF Spec, ShortOnlyAtEof

=============================================================================
