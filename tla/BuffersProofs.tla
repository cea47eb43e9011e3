--------------------------- MODULE BuffersProofs ----------------------------
(***************************************************************************)
(* Proofs about module Buffers, for buffers, strings and machine words of  *)
(* any size: each of the two buffers implements the queue the readers rely *)
(* on.  The linear buffer's is a matter of sequences.  The mirrored one's  *)
(* is one of arithmetic: its cursors wrap at WordSize and its addresses at *)
(* the capacity, and a position survives both only because a capacity      *)
(* divides the number of values of a word.                                 *)
(***************************************************************************)
EXTENDS Buffers, WellFoundedInduction, SequenceTheorems, TLAPS

-----------------------------------------------------------------------------
(* A set of natural numbers has a least element: the proofs about loops,   *)
(* and about operators defined by CHOOSE, rest on it.                      *)
LEMMA LeastElement ==
  ASSUME NEW T \in SUBSET Nat, T # {}
  PROVE  \E x \in T : \A y \in T : x <= y
<1> DEFINE R == OpToRel(<, Nat)
<1>1. IsWellFoundedOn(R, Nat)
  BY NatLessThanWellFounded, Zenon
<1>2. \A x, y \in Nat : x < y => <<x, y>> \in R
  BY Zenon DEF OpToRel
<1> HIDE DEF R
<1>3. PICK x \in T : \A y \in T : ~(<<y, x>> \in R)
  BY <1>1, WFMin
<1>4. ASSUME NEW y \in T  PROVE x <= y
  <2>1. x \in Nat /\ y \in Nat
    OBVIOUS
  <2>2. ~(y < x)
    BY <1>2, <1>3, <2>1
  <2> QED BY <2>1, <2>2
<1> QED BY <1>3, <1>4

(* A part of a sequence.                                                   *)
LEMMA Slice ==
  ASSUME NEW S, NEW s \in Seq(S), NEW from \in Nat, NEW to \in Nat,
         from <= to, to <= Len(s)
  PROVE  /\ SubSeq(s, from + 1, to) \in Seq(S)
         /\ Len(SubSeq(s, from + 1, to)) = to - from
         /\ \A i \in 1..(to - from) : SubSeq(s, from + 1, to)[i] = s[from + i]
<1>1. Len(s) \in Nat /\ \A i \in 1..Len(s) : s[i] \in S
  OBVIOUS
<1>2. \A i \in (from + 1)..to : s[i] \in S
  BY <1>1
<1>3. /\ SubSeq(s, from + 1, to) \in Seq(S)
      /\ Len(SubSeq(s, from + 1, to)) = IF from + 1 <= to THEN to - (from + 1) + 1 ELSE 0
      /\ \A i \in 1..(to - (from + 1) + 1) :
           SubSeq(s, from + 1, to)[i] = s[(from + 1) + i - 1]
  <2>1. from + 1 \in Int /\ to \in Int
    OBVIOUS
  <2> QED BY <1>2, <2>1, SubSeqProperties
<1>4. (IF from + 1 <= to THEN to - (from + 1) + 1 ELSE 0) = to - from
  OBVIOUS
<1>5. to - (from + 1) + 1 = to - from /\ \A i \in Int : (from + 1) + i - 1 = from + i
  OBVIOUS
<1> QED BY <1>3, <1>4, <1>5

(* A sequence made of two.                                                 *)
LEMMA Joined ==
  ASSUME NEW S, NEW s \in Seq(S), NEW t \in Seq(S), NEW joined \in Seq(S),
         Len(joined) = Len(s) + Len(t),
         \A i \in 1..Len(s) : joined[i] = s[i],
         \A i \in 1..Len(t) : joined[Len(s) + i] = t[i]
  PROVE  joined = s \o t
<1>1. Len(s) \in Nat /\ Len(t) \in Nat
  OBVIOUS
<1>2. /\ s \o t \in Seq(S) /\ Len(s \o t) = Len(s) + Len(t)
      /\ \A i \in 1..(Len(s) + Len(t)) :
           (s \o t)[i] = IF i <= Len(s) THEN s[i] ELSE t[i - Len(s)]
  BY ConcatProperties
<1>3. ASSUME NEW i \in 1..(Len(s) + Len(t))  PROVE joined[i] = (s \o t)[i]
  <2>1. CASE i <= Len(s)
    <3>1. i \in 1..Len(s)
      BY <1>1, <2>1
    <3> QED BY <1>2, <2>1, <3>1
  <2>2. CASE ~(i <= Len(s))
    <3>1. i - Len(s) \in 1..Len(t) /\ Len(s) + (i - Len(s)) = i
      BY <1>1, <2>2
    <3>2. joined[i] = t[i - Len(s)]
      BY <3>1
    <3> QED BY <1>2, <2>2, <3>2
  <2> QED BY <2>1, <2>2
<1> QED BY <1>2, <1>3, SeqEqual

-----------------------------------------------------------------------------
(* Remainders (`& (capacity - 1)`, wrapping_add and wrapping_sub).         *)
LEMMA Division ==
  ASSUME NEW a \in Int, NEW c \in Nat, c > 0
  PROVE  /\ a % c \in Nat /\ a % c < c
         /\ a \div c \in Int /\ a = (a \div c) * c + (a % c)
OBVIOUS

LEMMA Remainder ==
  ASSUME NEW c \in Nat, c > 0, NEW q \in Int, NEW r \in Int, 0 <= r, r < c
  PROVE  (q * c + r) % c = r
<1> DEFINE a == q * c + r
<1>1. a \in Int /\ a = q * c + r
  OBVIOUS
<1> HIDE DEF a
<1>2. a % c = r
  BY <1>1
<1> QED BY <1>2 DEF a

LEMMA MultipleIsDivided ==
  ASSUME NEW c \in Nat, c > 0, NEW q \in Int
  PROVE  (q * c + 0) % c = 0
BY Remainder

LEMMA SmallRemainder ==
  ASSUME NEW c \in Nat, NEW r \in Int, 0 <= r, r < c
  PROVE  r % c = r
OBVIOUS

LEMMA MultipleAdded ==
  ASSUME NEW c \in Nat, c > 0, NEW a \in Int, NEW q \in Int
  PROVE  (a + q * c) % c = a % c
<1> DEFINE p == a \div c
           r == a % c
<1>1. r \in Int /\ 0 <= r /\ r < c /\ p \in Int /\ a = p * c + r
  BY Division
<1> HIDE DEF p, r
<1>2. (p + q) \in Int /\ a + q * c = (p + q) * c + r
  BY <1>1
<1>3. ((p + q) * c + r) % c = r
  BY <1>1, <1>2, Remainder
<1> QED BY <1>2, <1>3 DEF r

(* The offset of a cursor, and that of the cursor further on.              *)
LEMMA RemainderOfSum ==
  ASSUME NEW c \in Nat, c > 0, NEW a \in Int, NEW b \in Int
  PROVE  ((a % c) + b) % c = (a + b) % c
<1> DEFINE p == a \div c
           r == a % c
<1>1. r \in Int /\ p \in Int /\ a = p * c + r
  BY Division
<1> HIDE DEF p, r
<1>2. a + b = (r + b) + p * c
  BY <1>1
<1>3. ((r + b) + p * c) % c = (r + b) % c
  <2>1. r + b \in Int
    BY <1>1
  <2> QED BY <1>1, <2>1, MultipleAdded
<1> QED BY <1>2, <1>3 DEF r

(* Addresses closer than the capacity do not meet in the ring.             *)
LEMMA CloseAndEqual ==
  ASSUME NEW c \in Nat, c > 0, NEW a \in Int, NEW b \in Int,
         a % c = b % c, a - b < c, b - a < c
  PROVE  a = b
<1> DEFINE p == a \div c
           q == b \div c
           r == a % c
<1>1. r \in Int /\ p \in Int /\ q \in Int /\ a = p * c + r /\ b = q * c + r
  BY Division
<1> HIDE DEF p, q, r
<1>2. a - b = (p - q) * c
  BY <1>1
<1>3. CASE p - q >= 1
  <2>1. (p - q) * c >= c
    <3>1. p - q - 1 \in Nat /\ (p - q) * c = (p - q - 1) * c + c
      BY <1>1, <1>3
    <3>2. (p - q - 1) * c \in Nat
      BY <3>1
    <3> QED BY <3>1, <3>2
  <2> QED BY <1>1, <1>2, <2>1
<1>4. CASE q - p >= 1
  <2>1. (q - p) * c >= c
    <3>1. q - p - 1 \in Nat /\ (q - p) * c = (q - p - 1) * c + c
      BY <1>1, <1>4
    <3>2. (q - p - 1) * c \in Nat
      BY <3>1
    <3> QED BY <3>1, <3>2
  <2>2. b - a = (q - p) * c
    BY <1>1
  <2> QED BY <1>1, <2>1, <2>2
<1>5. CASE p = q
  BY <1>1, <1>5
<1> QED BY <1>1, <1>3, <1>4, <1>5

(* A cursor that wraps keeps its offset, if a capacity divides the number  *)
(* of values of a word.                                                    *)
LEMMA RemainderOfRemainder ==
  ASSUME NEW c \in Nat, c > 0, NEW w \in Nat, w > 0, w % c = 0, NEW a \in Int
  PROVE  (a % w) % c = a % c
<1> DEFINE m == w \div c
           p == a \div w
           r == a % w
<1>1. m \in Int /\ w = m * c
  BY Division
<1>2. r \in Int /\ p \in Int /\ a = p * w + r
  BY Division
<1> HIDE DEF m, p, r
<1>3. p * m \in Int /\ a = r + (p * m) * c
  BY <1>1, <1>2
<1>4. (r + (p * m) * c) % c = r % c
  BY <1>2, <1>3, MultipleAdded
<1> QED BY <1>3, <1>4 DEF r

-----------------------------------------------------------------------------
(* Powers of two.                                                          *)
LEMMA HalfOfAPower ==
  ASSUME NEW n \in Nat, n > 0, PowerOfTwo(2 * n)
  PROVE  PowerOfTwo(n)
<1>1. ASSUME NEW d \in 2..n, n % d = 0  PROVE d % 2 = 0
  <2> DEFINE q == n \div d
  <2>1. d \in Nat /\ d > 0 /\ d \in 2..2 * n
    OBVIOUS
  <2>2. q \in Int /\ n = q * d
    BY <1>1, <2>1, Division
  <2> HIDE DEF q
  <2>3. 2 * n = (2 * q) * d + 0 /\ 2 * q \in Int
    BY <2>1, <2>2
  <2>4. ((2 * q) * d + 0) % d = 0
    BY <2>1, <2>3, MultipleIsDivided
  <2> QED BY <2>1, <2>3, <2>4 DEF PowerOfTwo
<1> QED BY <1>1 DEF PowerOfTwo

LEMMA TwiceAPower ==
  ASSUME NEW n \in Nat, PowerOfTwo(n)
  PROVE  PowerOfTwo(2 * n)
<1>1. ASSUME NEW d \in 2..2 * n, (2 * n) % d = 0, d % 2 # 0  PROVE FALSE
  <2> DEFINE q == (2 * n) \div d
             e == d \div 2
  <2>1. d \in Nat /\ d > 0 /\ 2 * n \in Int
    OBVIOUS
  <2>2. q \in Int /\ 2 * n = q * d
    BY <1>1, <2>1, Division
  <2>3. e \in Int /\ d = 2 * e + 1
    BY <1>1
  <2> HIDE DEF q, e
  <2> DEFINE h == n - e * q
  <2>4. h \in Int /\ q = 2 * h
    <3>1. 2 * n = 2 * (e * q) + q /\ e * q \in Int
      BY <2>2, <2>3
    <3> QED BY <2>2, <3>1
  <2> HIDE DEF h
  <2>5. n = h * d + 0
    <3>1. 2 * n = 2 * (h * d) /\ h * d \in Int
      BY <2>1, <2>2, <2>4
    <3> QED BY <3>1
  <2>6. n % d = 0
    BY <2>1, <2>4, <2>5, MultipleIsDivided
  <2>7. h >= 1
    <3>1. CASE h <= 0
      <4>1. (-h) * d \in Nat /\ n = -((-h) * d)
        BY <2>1, <2>4, <2>5, <3>1
      <4> QED BY <4>1 DEF PowerOfTwo
    <3> QED BY <2>4, <3>1
  <2>8. d <= n
    <3>1. (h - 1) * d \in Nat /\ n = (h - 1) * d + d
      BY <2>1, <2>4, <2>5, <2>7
    <3> QED BY <2>1, <3>1
  <2> QED BY <1>1, <2>6, <2>8 DEF PowerOfTwo
<1>2. 2 * n > 0
  BY DEF PowerOfTwo
<1> QED BY <1>1, <1>2 DEF PowerOfTwo

LEMMA PowersAboveOneAreEven ==
  ASSUME NEW n \in Nat, PowerOfTwo(n), n # 1
  PROVE  \E h \in Nat : h > 0 /\ n = 2 * h /\ PowerOfTwo(h)
<1>1. n > 0 /\ n \in 2..n /\ n % n = 0
  BY DEF PowerOfTwo
<1>2. n % 2 = 0
  BY <1>1 DEF PowerOfTwo
<1>3. n \div 2 \in Nat /\ n \div 2 > 0 /\ n = 2 * (n \div 2)
  BY <1>1, <1>2
<1> QED BY <1>3, HalfOfAPower

(* A smaller power of two divides a larger one.                            *)
LEMMA PowersDivide ==
  ASSUME NEW a \in Nat, NEW b \in Nat, PowerOfTwo(a), PowerOfTwo(b), a <= b
  PROVE  b % a = 0
<1> DEFINE T == {n \in Nat : PowerOfTwo(n) /\ \E m \in Nat : PowerOfTwo(m) /\ m <= n /\ n % m # 0}
<1>1. ASSUME T # {}  PROVE FALSE
  <2>1. PICK n \in T : \A k \in T : n <= k
    <3>1. T \in SUBSET Nat
      OBVIOUS
    <3> HIDE DEF T
    <3> QED BY <1>1, <3>1, LeastElement
  <2>2. n \in Nat /\ PowerOfTwo(n)
    OBVIOUS
  <2>3. PICK m \in Nat : PowerOfTwo(m) /\ m <= n /\ n % m # 0
    OBVIOUS
  <2>4. m # 1
    BY <2>2, <2>3
  <2>5. n # 1
    BY <2>3, <2>4 DEF PowerOfTwo
  <2>6. PICK i \in Nat : i > 0 /\ m = 2 * i /\ PowerOfTwo(i)
    BY <2>3, <2>4, PowersAboveOneAreEven
  <2>7. PICK j \in Nat : j > 0 /\ n = 2 * j /\ PowerOfTwo(j)
    BY <2>2, <2>5, PowersAboveOneAreEven
  <2>8. i <= j /\ ~(n <= j)
    BY <2>3, <2>6, <2>7
  <2>9. j % i = 0
    <3>1. j \notin T
      BY <2>1, <2>8
    <3> QED BY <2>6, <2>7, <2>8, <3>1
  <2> DEFINE q == j \div i
  <2>10. q \in Int /\ j = q * i
    BY <2>6, <2>7, <2>9, Division
  <2> HIDE DEF q, T
  <2>11. n = q * m + 0
    BY <2>6, <2>7, <2>10
  <2>12. (q * m + 0) % m = 0
    <3>1. m > 0
      BY <2>6
    <3> QED BY <2>10, <3>1, MultipleIsDivided
  <2> QED BY <2>3, <2>11, <2>12
<1> QED BY <1>1

-----------------------------------------------------------------------------
LEMMA StringsAreSequences ==
  ASSUME NEW n \in Int, NEW string \in Strings(n)
  PROVE  string \in Seq(Bytes) /\ Len(string) \in 0..n /\ DOMAIN string = 1..Len(string)
<1>1. PICK k \in 0..n : string \in [1..k -> Bytes]
  BY DEF Strings
<1> QED BY <1>1

-----------------------------------------------------------------------------
(* The linear buffer: its cursors stay within its vector.                  *)
LinearInv ==
  /\ buf \in Seq(Bytes)
  /\ head \in Nat /\ tail \in Nat /\ head <= tail /\ tail <= Len(buf)

LEMMA ZerosAreBytes ==
  ASSUME NEW n \in Nat
  PROVE  Linear!Zeros(n) \in Seq(Bytes) /\ Len(Linear!Zeros(n)) = n
BY BuffersAssumption DEF Linear!Zeros

LEMMA LinearDataIs ==
  ASSUME LinearInv
  PROVE  /\ Linear!Data \in Seq(Bytes) /\ Len(Linear!Data) = Linear!Readable
         /\ Linear!Readable \in Nat /\ Linear!Readable = tail - head
         /\ Linear!Capacity = Len(buf) /\ Len(buf) \in Nat /\ DOMAIN buf = 1..Len(buf)
         /\ \A i \in 1..Linear!Readable : Linear!Data[i] = buf[head + i]
<1>1. /\ Linear!Data \in Seq(Bytes) /\ Len(Linear!Data) = tail - head
      /\ \A i \in 1..(tail - head) : Linear!Data[i] = buf[head + i]
  BY Slice DEF LinearInv, Linear!Data
<1>2. tail - head \in Nat
  BY DEF LinearInv
<1> QED BY <1>1, <1>2 DEF LinearInv, Linear!Readable, Linear!Capacity

LEMMA LinearDataBecomes ==
  ASSUME LinearInv'
  PROVE  /\ Linear!Data' \in Seq(Bytes) /\ Len(Linear!Data') = Linear!Readable'
         /\ Linear!Readable' \in Nat /\ Linear!Readable' = tail' - head'
         /\ \A i \in 1..Linear!Readable' : Linear!Data'[i] = buf'[head' + i]
<1>1. /\ buf' \in Seq(Bytes) /\ head' \in Nat /\ tail' \in Nat
      /\ head' <= tail' /\ tail' <= Len(buf')
  BY Zenon DEF LinearInv
<1>2. /\ Linear!Data' \in Seq(Bytes) /\ Len(Linear!Data') = tail' - head'
      /\ \A i \in 1..(tail' - head') : Linear!Data'[i] = buf'[head' + i]
  BY <1>1, Slice DEF Linear!Data
<1>3. \A from, to \in Nat : from <= to => to - from \in Nat
  OBVIOUS
<1>4. tail' - head' \in Nat
  BY <1>1, <1>3, Zenon
<1> QED BY <1>2, <1>4 DEF Linear!Readable

LEMMA LinearInitial ==
  ASSUME Init
  PROVE  LinearInv /\ Linear!Data = <<>> /\ Linear!Capacity = InitialCapacity
<1>1. buf \in Seq(Bytes) /\ Len(buf) = InitialCapacity /\ head = 0 /\ tail = 0
  <2>1. InitialCapacity \in Nat
    BY BuffersAssumption
  <2> QED BY <2>1, ZerosAreBytes DEF Init, Linear!Init
<1>2. LinearInv
  BY <1>1, BuffersAssumption DEF LinearInv
<1>3. Linear!Data \in Seq(Bytes) /\ Len(Linear!Data) = 0
  BY <1>1, <1>2, LinearDataIs
<1> QED BY <1>1, <1>2, <1>3 DEF Linear!Capacity

(* Data moved to the front, bytes written behind it.                       *)
LEMMA LinearProduces ==
  ASSUME LinearInv, NEW bytes \in Strings(Linear!Capacity - Linear!Readable),
         Linear!Produce(bytes)
  PROVE  /\ LinearInv' /\ Linear!Data' = Linear!Data \o bytes
         /\ Linear!Capacity' = Linear!Capacity
<1> DEFINE R == Linear!Readable
           n == Len(bytes)
           front == Linear!DataMovedToFront(buf, head, tail)
<1>1. /\ Linear!Data \in Seq(Bytes) /\ Len(Linear!Data) = R /\ R \in Nat
      /\ R = tail - head /\ Linear!Capacity = Len(buf) /\ Len(buf) \in Nat
      /\ DOMAIN buf = 1..Len(buf) /\ \A i \in 1..R : Linear!Data[i] = buf[head + i]
  BY LinearDataIs
<1>2. bytes \in Seq(Bytes) /\ n \in Nat /\ R + n <= Len(buf) /\ DOMAIN bytes = 1..n
  <2>1. Linear!Capacity - Linear!Readable \in Int
    BY <1>1
  <2>2. bytes \in Seq(Bytes) /\ n \in 0..(Len(buf) - R) /\ DOMAIN bytes = 1..n
    BY <1>1, <2>1, StringsAreSequences
  <2> QED BY <1>1, <2>2
<1>3. buf' = [i \in 1..Len(buf) |-> IF i - R \in 1..n THEN bytes[i - R] ELSE front[i]]
  BY <1>1, <1>2 DEF Linear!Produce
<1>4. head' = 0 /\ tail' = R + n
  BY DEF Linear!Produce
<1>5. \A i \in 1..Len(buf) : front[i] = IF i <= R THEN buf[head + i] ELSE buf[i]
  BY <1>1 DEF Linear!DataMovedToFront
<1>6. \A i \in 1..Len(buf) : buf[i] \in Bytes
  BY DEF LinearInv
<1>7. head \in Nat /\ \A i \in 1..R : head + i \in 1..Len(buf)
  BY <1>1 DEF LinearInv
<1>8. \A i \in 1..n : bytes[i] \in Bytes
  BY <1>2
<1> HIDE DEF R, n, front
<1>9. buf' \in [1..Len(buf) -> Bytes]
  <2>1. \A i \in 1..Len(buf) : front[i] \in Bytes
    BY <1>1, <1>5, <1>6, <1>7
  <2>2. \A i \in 1..Len(buf) : (IF i - R \in 1..n THEN bytes[i - R] ELSE front[i]) \in Bytes
    BY <1>8, <2>1
  <2> QED BY <1>3, <2>2
<1>10. buf' \in Seq(Bytes) /\ Len(buf') = Len(buf)
  BY <1>1, <1>9
<1>11. \A i \in 1..R : buf'[i] = buf[head + i]
  <2>1. \A i \in 1..R : i \in 1..Len(buf) /\ i - R \notin 1..n /\ i <= R
    BY <1>1, <1>2
  <2> QED BY <1>3, <1>5, <2>1
<1>12. \A i \in 1..n : buf'[R + i] = bytes[i]
  <2>1. \A i \in 1..n : R + i \in 1..Len(buf) /\ (R + i) - R \in 1..n /\ (R + i) - R = i
    BY <1>1, <1>2
  <2> QED BY <1>3, <2>1
<1>13. LinearInv'
  BY <1>1, <1>2, <1>4, <1>10 DEF LinearInv
<1>14. /\ Linear!Data' \in Seq(Bytes) /\ Len(Linear!Data') = R + n
       /\ \A i \in 1..(R + n) : Linear!Data'[i] = buf'[i]
  <2>1. /\ SubSeq(buf', 0 + 1, R + n) \in Seq(Bytes)
        /\ Len(SubSeq(buf', 0 + 1, R + n)) = (R + n) - 0
        /\ \A i \in 1..((R + n) - 0) : SubSeq(buf', 0 + 1, R + n)[i] = buf'[0 + i]
    <3>1. 0 \in Nat /\ R + n \in Nat /\ 0 <= R + n /\ R + n <= Len(buf')
      BY <1>1, <1>2, <1>10
    <3> QED BY <1>10, <3>1, Slice
  <2>2. (R + n) - 0 = R + n /\ \A i \in 1..(R + n) : 0 + i = i
    BY <1>1, <1>2
  <2>3. Linear!Data' = SubSeq(buf', 0 + 1, R + n)
    BY <1>4 DEF Linear!Data
  <2> QED BY <2>1, <2>2, <2>3
<1>15. \A i \in 1..R : Linear!Data'[i] = Linear!Data[i]
  <2>1. \A i \in 1..R : i \in 1..(R + n)
    BY <1>1, <1>2
  <2> QED BY <1>1, <1>11, <1>14, <2>1, Zenon
<1>16. \A i \in 1..n : Linear!Data'[R + i] = bytes[i]
  <2>1. \A i \in 1..n : R + i \in 1..(R + n)
    BY <1>1, <1>2
  <2> QED BY <1>12, <1>14, <2>1
<1>17. Linear!Data' = Linear!Data \o bytes
  <2>1. Len(Linear!Data) = R /\ Len(bytes) = n
    BY <1>1 DEF n
  <2> DEFINE old == Linear!Data
             new == Linear!Data'
  <2>2. /\ old \in Seq(Bytes) /\ bytes \in Seq(Bytes) /\ new \in Seq(Bytes)
        /\ Len(new) = Len(old) + Len(bytes)
        /\ \A i \in 1..Len(old) : new[i] = old[i]
        /\ \A i \in 1..Len(bytes) : new[Len(old) + i] = bytes[i]
    BY <1>1, <1>2, <1>14, <1>15, <1>16, <2>1, Zenon
  <2> HIDE DEF old, new
  <2>3. new = old \o bytes
    BY <2>2, Joined, Zenon
  <2> QED BY <2>3 DEF old, new
<1>18. Linear!Capacity' = Linear!Capacity
  BY <1>10 DEF Linear!Capacity
<1> QED BY <1>13, <1>17, <1>18

(* An emptied buffer starts over; what is left of another stays in place.  *)
LEMMA LinearConsumes ==
  ASSUME LinearInv, NEW n \in 0..Linear!Readable, Linear!Consume(n)
  PROVE  /\ LinearInv' /\ Linear!Capacity' = Linear!Capacity
         /\ Linear!Data' = SubSeq(Linear!Data, n + 1, Len(Linear!Data))
<1> DEFINE R == Linear!Readable
           rest == SubSeq(Linear!Data, n + 1, R)
<1>1. /\ Linear!Data \in Seq(Bytes) /\ Len(Linear!Data) = R /\ R \in Nat
      /\ R = tail - head /\ Linear!Capacity = Len(buf) /\ Len(buf) \in Nat
      /\ DOMAIN buf = 1..Len(buf) /\ \A i \in 1..R : Linear!Data[i] = buf[head + i]
  BY LinearDataIs
<1>2. buf' = buf /\ n \in Nat /\ n <= R
  BY <1>1 DEF Linear!Consume
<1>3. LinearInv' /\ Linear!Readable' = R - n
  BY <1>1 DEF Linear!Consume, LinearInv, Linear!Readable
<1>4. rest \in Seq(Bytes) /\ Len(rest) = R - n /\ \A i \in 1..(R - n) : rest[i] = Linear!Data[n + i]
  BY <1>1, <1>2, Slice
<1>5. /\ Linear!Data' \in Seq(Bytes) /\ Len(Linear!Data') = R - n
      /\ \A i \in 1..(R - n) : Linear!Data'[i] = buf[head' + i]
  BY <1>2, <1>3, LinearDataBecomes
<1>6. \A i \in 1..(R - n) : head' + i = head + (n + i)
  BY <1>1, <1>2 DEF Linear!Consume, LinearInv
<1> HIDE DEF R, rest
<1>7. \A i \in 1..(R - n) : n + i \in 1..R
  BY <1>1, <1>2
<1>8. \A i \in 1..(R - n) : Linear!Data'[i] = rest[i]
  BY <1>1, <1>4, <1>5, <1>6, <1>7
<1>9. Linear!Data' = rest
  BY <1>4, <1>5, <1>8, SeqEqual
<1>10. Linear!Capacity' = Linear!Capacity
  BY <1>2 DEF Linear!Capacity
<1> QED BY <1>1, <1>3, <1>9, <1>10 DEF rest

LEMMA LinearRewrites ==
  ASSUME LinearInv, NEW i \in 1..Linear!Readable, NEW byte \in Bytes, Linear!Rewrite(i, byte)
  PROVE  /\ LinearInv' /\ Linear!Capacity' = Linear!Capacity
         /\ Linear!Data' = [Linear!Data EXCEPT ![i] = byte]
<1> DEFINE R == Linear!Readable
           new == [Linear!Data EXCEPT ![i] = byte]
<1>1. /\ Linear!Data \in Seq(Bytes) /\ Len(Linear!Data) = R /\ R \in Nat
      /\ R = tail - head /\ Linear!Capacity = Len(buf) /\ Len(buf) \in Nat
      /\ DOMAIN buf = 1..Len(buf) /\ \A j \in 1..R : Linear!Data[j] = buf[head + j]
  BY LinearDataIs
<1>2. /\ buf' = [buf EXCEPT ![head + i] = byte] /\ head' = head /\ tail' = tail
      /\ i \in 1..R /\ head \in Nat /\ \A j \in 1..R : head + j \in 1..Len(buf)
  BY <1>1 DEF Linear!Rewrite, LinearInv
<1>3. /\ buf' \in Seq(Bytes) /\ Len(buf') = Len(buf)
      /\ \A k \in 1..Len(buf) : buf'[k] = IF k = head + i THEN byte ELSE buf[k]
  BY <1>1, <1>2, ExceptSeq DEF LinearInv
<1>4. LinearInv' /\ Linear!Readable' = R
  BY <1>1, <1>2, <1>3 DEF LinearInv, Linear!Readable
<1>5. /\ Linear!Data' \in Seq(Bytes) /\ Len(Linear!Data') = R
      /\ \A j \in 1..R : Linear!Data'[j] = buf'[head + j]
  BY <1>2, <1>4, LinearDataBecomes
<1>6. /\ new \in Seq(Bytes) /\ Len(new) = R
      /\ \A j \in 1..R : new[j] = IF j = i THEN byte ELSE Linear!Data[j]
  BY <1>1, <1>2, ExceptSeq
<1> HIDE DEF R, new
<1>7. \A j \in 1..R : Linear!Data'[j] = new[j]
  <2>1. \A j \in 1..R : (head + j = head + i) <=> (j = i)
    BY <1>1, <1>2
  <2> QED BY <1>1, <1>2, <1>3, <1>5, <1>6, <2>1
<1>8. Linear!Data' = new
  BY <1>5, <1>6, <1>7, SeqEqual
<1>9. Linear!Capacity' = Linear!Capacity
  BY <1>3 DEF Linear!Capacity
<1> QED BY <1>4, <1>8, <1>9 DEF new

LEMMA LinearResets ==
  ASSUME LinearInv, Linear!Reset
  PROVE  LinearInv' /\ Linear!Data' = <<>> /\ Linear!Capacity' = Linear!Capacity
<1>1. LinearInv' /\ Linear!Readable' = 0 /\ Linear!Capacity' = Linear!Capacity
  BY DEF Linear!Reset, LinearInv, Linear!Readable, Linear!Capacity
<1>2. Linear!Data' \in Seq(Bytes) /\ Len(Linear!Data') = 0
  BY <1>1, LinearDataBecomes
<1> QED BY <1>1, <1>2

LEMMA LinearGrows ==
  ASSUME LinearInv, Linear!Grow
  PROVE  /\ LinearInv' /\ Linear!Data' = Linear!Data
         /\ Linear!Capacity' = 2 * Linear!Capacity
<1> DEFINE R == Linear!Readable
<1>1. /\ Linear!Data \in Seq(Bytes) /\ Len(Linear!Data) = R /\ R \in Nat
      /\ R = tail - head /\ Linear!Capacity = Len(buf) /\ Len(buf) \in Nat
      /\ \A j \in 1..R : Linear!Data[j] = buf[head + j]
  BY LinearDataIs
<1>2. buf' = buf \o Linear!Zeros(Len(buf)) /\ head' = head /\ tail' = tail
  BY DEF Linear!Grow, Linear!Capacity
<1>3. Linear!Zeros(Len(buf)) \in Seq(Bytes) /\ Len(Linear!Zeros(Len(buf))) = Len(buf)
  BY <1>1, ZerosAreBytes
<1>4. /\ buf' \in Seq(Bytes) /\ Len(buf') = Len(buf) + Len(buf)
      /\ \A k \in 1..(Len(buf) + Len(buf)) :
           buf'[k] = IF k <= Len(buf) THEN buf[k] ELSE Linear!Zeros(Len(buf))[k - Len(buf)]
  <2> DEFINE zeros == Linear!Zeros(Len(buf))
  <2>1. buf \in Seq(Bytes) /\ buf' = buf \o zeros /\ zeros \in Seq(Bytes) /\ Len(zeros) = Len(buf)
    BY <1>2, <1>3 DEF LinearInv
  <2> HIDE DEF zeros
  <2>2. /\ buf \o zeros \in Seq(Bytes)
        /\ Len(buf \o zeros) = Len(buf) + Len(zeros)
        /\ \A k \in 1..(Len(buf) + Len(zeros)) :
             (buf \o zeros)[k] = IF k <= Len(buf) THEN buf[k] ELSE zeros[k - Len(buf)]
    BY <2>1, ConcatProperties
  <2> QED BY <2>1, <2>2 DEF zeros
<1>5. LinearInv' /\ Linear!Readable' = R
  BY <1>1, <1>2, <1>4 DEF LinearInv, Linear!Readable
<1>6. /\ Linear!Data' \in Seq(Bytes) /\ Len(Linear!Data') = R
      /\ \A j \in 1..R : Linear!Data'[j] = buf'[head + j]
  BY <1>2, <1>5, LinearDataBecomes
<1>7. \A j \in 1..R : buf'[head + j] = buf[head + j]
  <2>1. \A j \in 1..R : head + j \in 1..(Len(buf) + Len(buf)) /\ head + j <= Len(buf)
    BY <1>1 DEF LinearInv
  <2> HIDE DEF R
  <2> QED BY <1>4, <2>1
<1> HIDE DEF R
<1>8. Linear!Data' = Linear!Data
  BY <1>1, <1>6, <1>7, SeqEqual
<1>9. Linear!Capacity' = 2 * Linear!Capacity
  BY <1>1, <1>4 DEF Linear!Capacity
<1> QED BY <1>5, <1>8, <1>9

(* Every string can be produced, in the queue as in the buffer.            *)
LEMMA LinearSteps ==
  ASSUME LinearInv, [Next]_vars
  PROVE  LinearInv' /\ [LinearQueue!Next]_(LinearQueue!queueVars)
<1>1. /\ Linear!Data \in Seq(Bytes) /\ Len(Linear!Data) = Linear!Readable
      /\ Linear!Readable \in Nat /\ Linear!Capacity \in Nat
  BY LinearDataIs
<1>2. DOMAIN Linear!Data = 1..Linear!Readable
  BY <1>1
<1>3. LinearQueue!Writable = Linear!Capacity - Linear!Readable
  BY <1>1 DEF LinearQueue!Writable
<1>4. CASE Produce
  <2>1. PICK bytes \in Strings(Linear!Capacity - Linear!Readable) : Linear!Produce(bytes)
    BY <1>4 DEF Produce
  <2>2. /\ LinearInv' /\ Linear!Data' = Linear!Data \o bytes
        /\ Linear!Capacity' = Linear!Capacity
    BY <2>1, LinearProduces
  <2>3. bytes \in LinearQueue!Strings(LinearQueue!Writable)
    BY <1>3 DEF Strings, LinearQueue!Strings
  <2>4. LinearQueue!Produce(bytes)
    BY <1>3, <2>1, <2>2 DEF LinearQueue!Produce, Linear!Produce
  <2> QED BY <2>2, <2>3, <2>4 DEF LinearQueue!Next
<1>5. CASE Consume
  <2>1. PICK n \in 0..Linear!Readable : Linear!Consume(n)
    BY <1>5 DEF Consume
  <2>2. /\ LinearInv' /\ Linear!Capacity' = Linear!Capacity
        /\ Linear!Data' = SubSeq(Linear!Data, n + 1, Len(Linear!Data))
    BY <2>1, LinearConsumes
  <2>3. n \in 0..Len(Linear!Data) /\ n <= Len(Linear!Data)
    BY <1>1
  <2>4. LinearQueue!Consume(n)
    BY <2>2, <2>3 DEF LinearQueue!Consume
  <2> QED BY <2>2, <2>3, <2>4 DEF LinearQueue!Next
<1>6. CASE Rewrite
  <2>1. PICK i \in 1..Linear!Readable, byte \in Bytes : Linear!Rewrite(i, byte)
    BY <1>6 DEF Rewrite
  <2>2. /\ LinearInv' /\ Linear!Capacity' = Linear!Capacity
        /\ Linear!Data' = [Linear!Data EXCEPT ![i] = byte]
    BY <2>1, LinearRewrites
  <2>3. LinearQueue!Rewrite(i, byte)
    BY <1>2, <2>2 DEF LinearQueue!Rewrite
  <2> QED BY <1>2, <2>2, <2>3 DEF LinearQueue!Next
<1>7. CASE Reset
  <2>1. LinearInv' /\ Linear!Data' = <<>> /\ Linear!Capacity' = Linear!Capacity
    BY <1>7, LinearResets DEF Reset
  <2> QED BY <2>1 DEF LinearQueue!Next, LinearQueue!Reset
<1>8. CASE Grow
  <2>1. /\ LinearInv' /\ Linear!Data' = Linear!Data
        /\ Linear!Capacity' = 2 * Linear!Capacity
    BY <1>8, LinearGrows DEF Grow
  <2>2. 2 * Linear!Capacity <= Limit
    BY <1>8 DEF Grow, Linear!Grow
  <2> QED BY <2>1, <2>2 DEF LinearQueue!Next, LinearQueue!Grow, LinearQueue!CanGrow
<1>9. CASE UNCHANGED vars
  <2>1. buf' = buf /\ head' = head /\ tail' = tail
    BY <1>9 DEF vars
  <2> QED BY <2>1 DEF LinearInv, LinearQueue!queueVars, Linear!Data, Linear!Capacity
<1> QED BY <1>4, <1>5, <1>6, <1>7, <1>8, <1>9 DEF Next

(* linear.rs: whatever is moved to the front or copied into a vector twice *)
(* as large, the bytes come out as they were produced.                     *)
THEOREM LinearBufIsAQueue == Spec => LinearIsAQueue
<1>1. Init => LinearInv /\ LinearQueue!Init
  BY LinearInitial DEF LinearQueue!Init
<1>2. LinearInv /\ [Next]_vars => LinearInv' /\ [LinearQueue!Next]_(LinearQueue!queueVars)
  BY LinearSteps
<1> QED BY <1>1, <1>2, PTL DEF Spec, LinearIsAQueue, LinearQueue!Spec

-----------------------------------------------------------------------------
(* The mirrored buffer.  A cursor that wrapped at WordSize still points at *)
(* its offset, and a difference of cursors does not see the wrapping.      *)
LEMMA WrappedCursor ==
  ASSUME NEW c \in Nat, c > 0, NEW w \in Nat, w > 0, w % c = 0, NEW a \in Int, NEW b \in Int
  PROVE  ((a % w) + b) % c = (a + b) % c
<1>1. a % w \in Int /\ a % c \in Int
  BY Division
<1>2. ((a % w) + b) % c = (((a % w) % c) + b) % c
  BY <1>1, RemainderOfSum
<1>3. (a % w) % c = a % c
  BY RemainderOfRemainder
<1>4. ((a % c) + b) % c = (a + b) % c
  BY RemainderOfSum
<1> QED BY <1>2, <1>3, <1>4

LEMMA WrappedSubtrahend ==
  ASSUME NEW w \in Nat, w > 0, NEW a \in Int, NEW b \in Int
  PROVE  (a - (b % w)) % w = (a - b) % w
<1> DEFINE q == b \div w
           r == b % w
<1>1. r \in Int /\ q \in Int /\ b = q * w + r
  BY Division
<1> HIDE DEF q, r
<1>2. a - r = (a - b) + q * w /\ a - b \in Int
  BY <1>1
<1>3. ((a - b) + q * w) % w = (a - b) % w
  BY <1>1, <1>2, MultipleAdded
<1> QED BY <1>2, <1>3 DEF r

(* The address of the i-th byte behind a cursor, in the second view or not. *)
LEMMA MappedOffset ==
  ASSUME NEW size \in Nat, size > 0, NEW from \in Int, NEW i \in Int
  PROVE  ((from % size) + i - 1) % size = (from + i - 1) % size
<1>1. from % size \in Int
  BY Division
<1>2. /\ i - 1 \in Int /\ (from % size) + (i - 1) = (from % size) + i - 1
      /\ from + (i - 1) = from + i - 1
  BY <1>1
<1>3. ((from % size) + (i - 1)) % size = (from + (i - 1)) % size
  BY <1>2, RemainderOfSum
<1> QED BY <1>2, <1>3

(* Two bytes of one window of the ring have different addresses.           *)
LEMMA WindowsDoNotOverlap ==
  ASSUME NEW size \in Nat, size > 0, NEW from \in Int,
         NEW i \in 1..size, NEW j \in 1..size,
         (from + i - 1) % size = (from + j - 1) % size
  PROVE  i = j
<1>1. /\ from + i - 1 \in Int /\ from + j - 1 \in Int
      /\ (from + i - 1) - (from + j - 1) < size /\ (from + j - 1) - (from + i - 1) < size
  OBVIOUS
<1>2. from + i - 1 = from + j - 1
  BY <1>1, CloseAndEqual
<1> QED BY <1>2

(* The readable bytes, by their distance from the consumer.                *)
RingView(mem, size, from, n) == [i \in 1..n |-> mem[((from % size) + i - 1) % size]]

LEMMA RingViewIs ==
  ASSUME NEW size \in Nat, size > 0, NEW mem \in [0..(size - 1) -> Bytes],
         NEW from \in Int, NEW n \in Nat
  PROVE  /\ RingView(mem, size, from, n) \in Seq(Bytes)
         /\ Len(RingView(mem, size, from, n)) = n
         /\ \A i \in 1..n : RingView(mem, size, from, n)[i] = mem[(from + i - 1) % size]
<1> DEFINE view == RingView(mem, size, from, n)
<1>1. \A i \in 1..n : ((from % size) + i - 1) % size = (from + i - 1) % size
  <2>1. \A i \in 1..n : i \in Int
    OBVIOUS
  <2> QED BY <2>1, MappedOffset, Zenon
<1>2. \A i \in 1..n : (from + i - 1) % size \in 0..(size - 1)
  BY Division
<1>3. view = [i \in 1..n |-> mem[(from + i - 1) % size]]
  BY <1>1, Zenon DEF RingView
<1>4. \A i \in 1..n : mem[(from + i - 1) % size] \in Bytes
  BY <1>2
<1> DEFINE e(i) == mem[(from + i - 1) % size]
<1>5. view = [i \in 1..n |-> e(i)] /\ \A i \in 1..n : e(i) \in Bytes
  BY <1>3, <1>4
<1> HIDE DEF e, view
<1>6. view \in [1..n -> Bytes]
  BY <1>5
<1>7. \A i \in 1..n : view[i] = e(i)
  BY <1>5
<1> QED BY <1>6, <1>7 DEF e, view

MirroredInv ==
  /\ capacity \in Nat /\ PowerOfTwo(capacity) /\ capacity <= Limit
  /\ memory \in [0..(capacity - 1) -> Bytes]
  /\ producer \in 0..(WordSize - 1) /\ consumer \in 0..(WordSize - 1)
  /\ Mirrored!Readable <= capacity

(* The two buffers are called alike and agree on what they answer.         *)
InStep == Linear!Readable = Mirrored!Readable /\ Linear!Capacity = capacity

BuffersInv == LinearInv /\ MirroredInv /\ InStep

(* A capacity divides the number of values of a word, and is below it.     *)
LEMMA CapacitiesDivideWords ==
  ASSUME NEW c \in Nat, PowerOfTwo(c), c <= Limit
  PROVE  c > 0 /\ WordSize \in Nat /\ c < WordSize /\ WordSize > 0 /\ WordSize % c = 0
<1>1. c > 0 /\ WordSize \in Nat /\ c <= WordSize /\ c < WordSize /\ WordSize > 0
  BY BuffersAssumption DEF PowerOfTwo
<1>2. WordSize % c = 0
  BY <1>1, BuffersAssumption, PowersDivide
<1> QED BY <1>1, <1>2

LEMMA MirroredDataIs ==
  ASSUME MirroredInv
  PROVE  /\ Mirrored!Readable \in Nat
         /\ Mirrored!Data \in Seq(Bytes) /\ Len(Mirrored!Data) = Mirrored!Readable
         /\ \A i \in 1..Mirrored!Readable :
              Mirrored!Data[i] = memory[(consumer + i - 1) % capacity]
<1>1. capacity \in Nat /\ capacity > 0 /\ WordSize \in Nat /\ WordSize > 0
  BY CapacitiesDivideWords DEF MirroredInv
<1>2. memory \in [0..(capacity - 1) -> Bytes] /\ consumer \in Int /\ producer \in Int
  BY <1>1 DEF MirroredInv
<1>3. Mirrored!Readable \in Nat
  BY <1>1, <1>2, Division DEF Mirrored!Readable
<1> DEFINE n == Mirrored!Readable
           view == Mirrored!Data
<1>4. view = RingView(memory, capacity, consumer, n)
  BY DEF RingView, Mirrored!Data, Mirrored!Mapped, Mirrored!Offset
<1>5. n \in Nat
  BY <1>3
<1> HIDE DEF n, view
<1>6. /\ view \in Seq(Bytes) /\ Len(view) = n
      /\ \A i \in 1..n : view[i] = memory[(consumer + i - 1) % capacity]
  BY <1>1, <1>2, <1>4, <1>5, RingViewIs
<1> QED BY <1>5, <1>6 DEF n, view

LEMMA MirroredDataBecomes ==
  ASSUME MirroredInv'
  PROVE  /\ Mirrored!Readable' \in Nat
         /\ Mirrored!Data' \in Seq(Bytes) /\ Len(Mirrored!Data') = Mirrored!Readable'
         /\ \A i \in 1..Mirrored!Readable' :
              Mirrored!Data'[i] = memory'[(consumer' + i - 1) % capacity']
<1>1. /\ capacity' \in Nat /\ PowerOfTwo(capacity') /\ capacity' <= Limit
      /\ memory' \in [0..(capacity' - 1) -> Bytes]
      /\ consumer' \in 0..(WordSize - 1) /\ producer' \in 0..(WordSize - 1)
  BY Zenon DEF MirroredInv, PowerOfTwo
<1>2. capacity' > 0 /\ WordSize \in Nat /\ WordSize > 0
  BY <1>1, CapacitiesDivideWords
<1>3. consumer' \in Int /\ producer' \in Int
  BY <1>1, <1>2
<1>4. \A a, b \in Int : (a - b) % WordSize \in Nat
  BY <1>2, Division
<1> DEFINE n == Mirrored!Readable'
           view == Mirrored!Data'
           size == capacity'
           from == consumer'
           mem == memory'
<1>5. view = RingView(mem, size, from, n)
  BY DEF RingView, Mirrored!Data, Mirrored!Mapped, Mirrored!Offset
<1>6. n \in Nat
  BY <1>3, <1>4, Zenon DEF Mirrored!Readable
<1>7. size \in Nat /\ size > 0 /\ from \in Int /\ mem \in [0..(size - 1) -> Bytes]
  BY <1>1, <1>2, <1>3
<1> HIDE DEF n, view, size, from, mem
<1>8. /\ view \in Seq(Bytes) /\ Len(view) = n
      /\ \A i \in 1..n : view[i] = mem[(from + i - 1) % size]
  BY <1>5, <1>6, <1>7, RingViewIs
<1> QED BY <1>6, <1>8 DEF n, view, size, from, mem

(* The next byte produced goes where the readable ones end.                *)
LEMMA ProducerBehindData ==
  ASSUME MirroredInv, NEW x \in Int
  PROVE  (producer + x) % capacity = (consumer + Mirrored!Readable + x) % capacity
<1> DEFINE R == Mirrored!Readable
           d == producer - consumer
<1>1. /\ capacity \in Nat /\ capacity > 0
      /\ WordSize \in Nat /\ WordSize > 0 /\ WordSize % capacity = 0
  BY CapacitiesDivideWords DEF MirroredInv
<1>2. producer \in Int /\ consumer \in Int /\ d \in Int
  BY <1>1 DEF MirroredInv
<1>3. R = d % WordSize
  BY DEF Mirrored!Readable
<1>4. consumer + x \in Int /\ d + (consumer + x) = producer + x
  BY <1>2
<1> HIDE DEF d
<1>5. ((d % WordSize) + (consumer + x)) % capacity = (d + (consumer + x)) % capacity
  BY <1>1, <1>2, <1>4, WrappedCursor
<1>6. R \in Int
  BY <1>1, <1>2, <1>3, Division
<1> HIDE DEF R
<1>7. R + (consumer + x) = consumer + R + x
  BY <1>2, <1>6
<1> QED BY <1>3, <1>4, <1>5, <1>7 DEF R

(* Where the bytes of a write end up, and that nothing else changes.       *)
LEMMA MirroredWrites ==
  ASSUME MirroredInv, NEW bytes \in Seq(Bytes),
         Len(bytes) <= capacity - Mirrored!Readable, Mirrored!Produce(bytes)
  PROVE  /\ memory' \in [0..(capacity - 1) -> Bytes]
         /\ \A i \in 1..Len(bytes) : memory'[(producer + i - 1) % capacity] = bytes[i]
         /\ \A a \in 0..(capacity - 1) :
              (\A i \in 1..Len(bytes) : (producer + i - 1) % capacity # a) => memory'[a] = memory[a]
<1> DEFINE k == Len(bytes)
           written == [i \in DOMAIN bytes |-> Mirrored!Mapped(Mirrored!Offset(producer) + i - 1)]
<1>1. /\ capacity \in Nat /\ capacity > 0 /\ WordSize \in Nat /\ producer \in Int
      /\ DOMAIN memory = 0..(capacity - 1) /\ Mirrored!Readable \in Nat
      /\ \A a \in 0..(capacity - 1) : memory[a] \in Bytes
  BY CapacitiesDivideWords, MirroredDataIs DEF MirroredInv
<1>2. k \in Nat /\ k <= capacity /\ DOMAIN bytes = 1..k /\ \A i \in 1..k : bytes[i] \in Bytes
  BY <1>1
<1>3. \A i \in 1..k : written[i] = (producer + i - 1) % capacity
  <2>1. \A i \in 1..k : ((producer % capacity) + i - 1) % capacity = (producer + i - 1) % capacity
    <3>1. \A i \in 1..k : i \in Int
      BY <1>2
    <3> QED BY <1>1, <3>1, MappedOffset, Zenon
  <2> QED BY <1>2, <2>1 DEF Mirrored!Mapped, Mirrored!Offset
<1>4. memory' = [a \in 0..(capacity - 1) |->
                   IF \E i \in 1..k : written[i] = a
                   THEN bytes[CHOOSE i \in 1..k : written[i] = a] ELSE memory[a]]
  BY <1>1, <1>2, Zenon DEF Mirrored!Produce
<1> HIDE DEF k, written
<1>5. \A i, j \in 1..k : written[i] = written[j] => i = j
  <2>1. \A i \in 1..k : i \in 1..capacity
    BY <1>1, <1>2
  <2> QED BY <1>1, <1>3, <2>1, WindowsDoNotOverlap
<1>6. \A i \in 1..k : written[i] \in 0..(capacity - 1)
  <2>1. \A i \in 1..k : (producer + i - 1) % capacity \in 0..(capacity - 1)
    BY <1>1, Division
  <2> QED BY <1>3, <2>1
<1>7. ASSUME NEW i \in 1..k  PROVE memory'[written[i]] = bytes[i]
  <2> DEFINE chosen == CHOOSE j \in 1..k : written[j] = written[i]
  <2>1. chosen \in 1..k /\ written[chosen] = written[i]
    BY Zenon
  <2>2. chosen = i
    BY <1>5, <2>1
  <2>3. memory'[written[i]] = bytes[chosen]
    BY <1>4, <1>6, Zenon
  <2> QED BY <2>2, <2>3
<1>8. ASSUME NEW a \in 0..(capacity - 1), \A i \in 1..k : written[i] # a
      PROVE  memory'[a] = memory[a]
  BY <1>4, <1>8, Zenon
<1>9. memory' \in [0..(capacity - 1) -> Bytes]
  <2>1. \A a \in 0..(capacity - 1) : memory'[a] \in Bytes
    <3>1. ASSUME NEW a \in 0..(capacity - 1)  PROVE memory'[a] \in Bytes
      <4>1. CASE \E i \in 1..k : written[i] = a
        BY <1>2, <1>7, <4>1
      <4>2. CASE ~ \E i \in 1..k : written[i] = a
        BY <1>1, <1>8, <4>2
      <4> QED BY <4>1, <4>2
    <3> QED BY <3>1
  <2>2. memory' = [a \in 0..(capacity - 1) |-> memory'[a]]
    BY <1>4
  <2> QED BY <2>1, <2>2
<1> QED BY <1>3, <1>7, <1>8, <1>9 DEF k

(* Bytes written behind the data, whether they wrap or not.                *)
LEMMA MirroredProduces ==
  ASSUME MirroredInv, NEW bytes \in Seq(Bytes),
         Len(bytes) <= capacity - Mirrored!Readable, Mirrored!Produce(bytes)
  PROVE  /\ MirroredInv' /\ Mirrored!Data' = Mirrored!Data \o bytes
         /\ Mirrored!Readable' = Mirrored!Readable + Len(bytes)
<1> DEFINE R == Mirrored!Readable
           k == Len(bytes)
<1>1. /\ capacity \in Nat /\ capacity > 0 /\ WordSize \in Nat /\ WordSize > 0
      /\ capacity < WordSize /\ WordSize % capacity = 0
      /\ producer \in Int /\ consumer \in Int
  BY CapacitiesDivideWords DEF MirroredInv
<1>2. /\ R \in Nat /\ Mirrored!Data \in Seq(Bytes) /\ Len(Mirrored!Data) = R
      /\ \A i \in 1..R : Mirrored!Data[i] = memory[(consumer + i - 1) % capacity]
  BY MirroredDataIs
<1>3. k \in Nat /\ R + k <= capacity
  BY <1>1, <1>2
<1>4. /\ producer' = (producer + k) % WordSize /\ consumer' = consumer /\ capacity' = capacity
  BY DEF Mirrored!Produce
<1>5. /\ memory' \in [0..(capacity - 1) -> Bytes]
      /\ \A i \in 1..k : memory'[(producer + i - 1) % capacity] = bytes[i]
      /\ \A a \in 0..(capacity - 1) :
           (\A i \in 1..k : (producer + i - 1) % capacity # a) => memory'[a] = memory[a]
  BY MirroredWrites
<1>6. R = (producer - consumer) % WordSize
  BY DEF Mirrored!Readable
<1> HIDE DEF R, k
<1>7. Mirrored!Readable' = R + k
  <2>1. Mirrored!Readable' = (((producer + k) % WordSize) + (-consumer)) % WordSize
    <3>1. (producer + k) % WordSize \in Int
      BY <1>1, <1>3, Division
    <3>2. ((producer + k) % WordSize) - consumer = ((producer + k) % WordSize) + (-consumer)
      BY <1>1, <3>1
    <3> QED BY <1>4, <3>2 DEF Mirrored!Readable
  <2>2. @ = ((producer + k) + (-consumer)) % WordSize
    <3>1. producer + k \in Int /\ -consumer \in Int
      BY <1>1, <1>3
    <3> QED BY <1>1, <3>1, RemainderOfSum, Zenon
  <2>3. @ = ((producer - consumer) + k) % WordSize
    <3>1. (producer + k) + (-consumer) = (producer - consumer) + k
      BY <1>1, <1>3
    <3> QED BY <3>1
  <2>4. @ = (R + k) % WordSize
    <3>1. producer - consumer \in Int /\ k \in Int
      BY <1>1, <1>3
    <3> QED BY <1>1, <1>6, <3>1, RemainderOfSum
  <2>5. @ = R + k
    <3>1. R + k \in Int /\ 0 <= R + k /\ R + k < WordSize
      BY <1>1, <1>2, <1>3
    <3> QED BY <1>1, <3>1, SmallRemainder, Zenon
  <2> QED BY <2>1, <2>2, <2>3, <2>4, <2>5
<1>8. MirroredInv'
  <2>1. producer' \in 0..(WordSize - 1)
    BY <1>1, <1>3, <1>4, Division
  <2>2. Mirrored!Readable' <= capacity'
    BY <1>3, <1>4, <1>7
  <2> QED BY <1>4, <1>5, <2>1, <2>2 DEF MirroredInv
<1>9. /\ Mirrored!Data' \in Seq(Bytes) /\ Len(Mirrored!Data') = R + k
      /\ \A i \in 1..(R + k) : Mirrored!Data'[i] = memory'[(consumer + i - 1) % capacity]
  BY <1>4, <1>7, <1>8, MirroredDataBecomes
<1>10. \A i \in 1..k : (producer + i - 1) % capacity = (consumer + (R + i) - 1) % capacity
  <2>1. ASSUME NEW i \in 1..k
        PROVE  (producer + i - 1) % capacity = (consumer + (R + i) - 1) % capacity
    <3>1. i - 1 \in Int /\ producer + (i - 1) = producer + i - 1
          /\ consumer + R + (i - 1) = consumer + (R + i) - 1
      BY <1>1, <1>2, <1>3
    <3>2. (producer + (i - 1)) % capacity = (consumer + R + (i - 1)) % capacity
      BY <3>1, ProducerBehindData DEF R
    <3> QED BY <3>1, <3>2
  <2> QED BY <2>1
<1>11. \A j \in 1..R : memory'[(consumer + j - 1) % capacity] = memory[(consumer + j - 1) % capacity]
  <2>1. ASSUME NEW j \in 1..R, NEW i \in 1..k
        PROVE  (producer + i - 1) % capacity # (consumer + j - 1) % capacity
    <3>1. R + i \in 1..capacity /\ j \in 1..capacity /\ R + i # j
      BY <1>1, <1>2, <1>3
    <3>2. (consumer + (R + i) - 1) % capacity # (consumer + j - 1) % capacity
      BY <1>1, <3>1, WindowsDoNotOverlap
    <3> QED BY <1>10, <3>2
  <2>2. \A j \in 1..R : (consumer + j - 1) % capacity \in 0..(capacity - 1)
    BY <1>1, <1>2, Division
  <2> QED BY <1>5, <2>1, <2>2
<1>12. \A i \in 1..R : Mirrored!Data'[i] = Mirrored!Data[i]
  <2>1. \A i \in 1..R : i \in 1..(R + k)
    BY <1>2, <1>3
  <2> QED BY <1>2, <1>9, <1>11, <2>1
<1>13. \A i \in 1..k : Mirrored!Data'[R + i] = bytes[i]
  <2>1. \A i \in 1..k : R + i \in 1..(R + k)
    BY <1>2, <1>3
  <2> QED BY <1>5, <1>9, <1>10, <2>1
<1>14. Mirrored!Data' = Mirrored!Data \o bytes
  <2>1. Len(Mirrored!Data) = R /\ Len(bytes) = k
    BY <1>2 DEF k
  <2> DEFINE old == Mirrored!Data
             new == Mirrored!Data'
  <2>2. /\ old \in Seq(Bytes) /\ bytes \in Seq(Bytes) /\ new \in Seq(Bytes)
        /\ Len(new) = Len(old) + Len(bytes)
        /\ \A i \in 1..Len(old) : new[i] = old[i]
        /\ \A i \in 1..Len(bytes) : new[Len(old) + i] = bytes[i]
    BY <1>2, <1>9, <1>12, <1>13, <2>1, Zenon
  <2> HIDE DEF old, new
  <2>3. new = old \o bytes
    BY <2>2, Joined, Zenon
  <2> QED BY <2>3 DEF old, new
<1> QED BY <1>7, <1>8, <1>14 DEF R, k

LEMMA MirroredConsumes ==
  ASSUME MirroredInv, NEW n \in 0..Mirrored!Readable, Mirrored!Consume(n)
  PROVE  /\ MirroredInv' /\ Mirrored!Readable' = Mirrored!Readable - n
         /\ Mirrored!Data' = SubSeq(Mirrored!Data, n + 1, Len(Mirrored!Data))
<1> DEFINE R == Mirrored!Readable
           rest == SubSeq(Mirrored!Data, n + 1, R)
<1>1. /\ capacity \in Nat /\ capacity > 0 /\ WordSize \in Nat /\ WordSize > 0
      /\ capacity < WordSize /\ WordSize % capacity = 0
      /\ producer \in Int /\ consumer \in Int /\ R <= capacity
  BY CapacitiesDivideWords DEF MirroredInv
<1>2. /\ R \in Nat /\ Mirrored!Data \in Seq(Bytes) /\ Len(Mirrored!Data) = R
      /\ \A i \in 1..R : Mirrored!Data[i] = memory[(consumer + i - 1) % capacity]
  BY MirroredDataIs
<1>3. n \in Nat /\ n <= R
  BY <1>2
<1>4. /\ consumer' = (consumer + n) % WordSize
      /\ memory' = memory /\ capacity' = capacity /\ producer' = producer
  BY DEF Mirrored!Consume
<1>5. R = (producer - consumer) % WordSize
  BY DEF Mirrored!Readable
<1>6. rest \in Seq(Bytes) /\ Len(rest) = R - n /\ \A i \in 1..(R - n) : rest[i] = Mirrored!Data[n + i]
  BY <1>2, <1>3, Slice
<1> HIDE DEF R, rest
<1>7. Mirrored!Readable' = R - n
  <2>1. Mirrored!Readable' = (producer - ((consumer + n) % WordSize)) % WordSize
    BY <1>4 DEF Mirrored!Readable
  <2>2. @ = (producer - (consumer + n)) % WordSize
    <3>1. consumer + n \in Int
      BY <1>1, <1>3
    <3> QED BY <1>1, <3>1, WrappedSubtrahend, Zenon
  <2>3. @ = ((producer - consumer) + (-n)) % WordSize
    <3>1. producer - (consumer + n) = (producer - consumer) + (-n)
      BY <1>1, <1>3
    <3> QED BY <3>1
  <2>4. @ = (R + (-n)) % WordSize
    <3>1. producer - consumer \in Int /\ -n \in Int
      BY <1>1, <1>3
    <3>2. (((producer - consumer) % WordSize) + (-n)) % WordSize
            = ((producer - consumer) + (-n)) % WordSize
      BY <1>1, <3>1, RemainderOfSum, Zenon
    <3> QED BY <1>5, <3>2
  <2>5. @ = R - n
    <3>1. R + (-n) = R - n /\ R - n \in Int /\ 0 <= R - n /\ R - n < WordSize
      BY <1>1, <1>2, <1>3
    <3>2. (R - n) % WordSize = R - n
      BY <1>1, <3>1, SmallRemainder, Zenon
    <3> QED BY <3>1, <3>2
  <2> QED BY <2>1, <2>2, <2>3, <2>4, <2>5
<1>8. MirroredInv'
  <2>1. consumer' \in 0..(WordSize - 1)
    BY <1>1, <1>3, <1>4, Division
  <2>2. Mirrored!Readable' <= capacity'
    BY <1>1, <1>2, <1>3, <1>4, <1>7
  <2> QED BY <1>4, <2>1, <2>2 DEF MirroredInv
<1>9. /\ Mirrored!Data' \in Seq(Bytes) /\ Len(Mirrored!Data') = R - n
      /\ \A i \in 1..(R - n) :
           Mirrored!Data'[i] = memory[(((consumer + n) % WordSize) + i - 1) % capacity]
  BY <1>4, <1>7, <1>8, MirroredDataBecomes
<1>10. ASSUME NEW i \in 1..(R - n)  PROVE Mirrored!Data'[i] = rest[i]
  <2>1. /\ (consumer + n) % WordSize \in Int /\ consumer + n \in Int /\ i - 1 \in Int
        /\ n + i \in 1..R
    <3>1. consumer + n \in Int /\ i - 1 \in Int /\ n + i \in 1..R
      BY <1>1, <1>2, <1>3
    <3> QED BY <1>1, <3>1, Division
  <2>2. /\ ((consumer + n) % WordSize) + i - 1 = ((consumer + n) % WordSize) + (i - 1)
        /\ (consumer + n) + (i - 1) = consumer + (n + i) - 1
    BY <1>1, <1>3, <2>1
  <2>3. (((consumer + n) % WordSize) + (i - 1)) % capacity = ((consumer + n) + (i - 1)) % capacity
    BY <1>1, <2>1, WrappedCursor, Zenon
  <2>4. Mirrored!Data'[i] = memory[(consumer + (n + i) - 1) % capacity]
    BY <1>9, <2>2, <2>3
  <2>5. rest[i] = memory[(consumer + (n + i) - 1) % capacity]
    BY <1>2, <1>6, <2>1
  <2> QED BY <2>4, <2>5
<1>11. Mirrored!Data' = rest
  BY <1>6, <1>9, <1>10, SeqEqual
<1> QED BY <1>2, <1>7, <1>8, <1>11 DEF R, rest

LEMMA MirroredRewrites ==
  ASSUME MirroredInv, NEW i \in 1..Mirrored!Readable, NEW byte \in Bytes, Mirrored!Rewrite(i, byte)
  PROVE  /\ MirroredInv' /\ Mirrored!Readable' = Mirrored!Readable
         /\ Mirrored!Data' = [Mirrored!Data EXCEPT ![i] = byte]
<1> DEFINE R == Mirrored!Readable
           new == [Mirrored!Data EXCEPT ![i] = byte]
<1>1. /\ capacity \in Nat /\ capacity > 0 /\ consumer \in Int /\ R <= capacity
      /\ memory \in [0..(capacity - 1) -> Bytes]
  BY CapacitiesDivideWords DEF MirroredInv
<1>2. /\ R \in Nat /\ Mirrored!Data \in Seq(Bytes) /\ Len(Mirrored!Data) = R /\ i \in 1..R
      /\ \A j \in 1..R : Mirrored!Data[j] = memory[(consumer + j - 1) % capacity]
  BY MirroredDataIs
<1>3. /\ memory' = [memory EXCEPT ![((consumer % capacity) + i - 1) % capacity] = byte]
      /\ capacity' = capacity /\ producer' = producer /\ consumer' = consumer
  BY DEF Mirrored!Rewrite, Mirrored!Mapped, Mirrored!Offset
<1>4. new \in Seq(Bytes) /\ Len(new) = R /\ \A j \in 1..R : new[j] = IF j = i THEN byte ELSE Mirrored!Data[j]
  BY <1>2, ExceptSeq
<1>5. Mirrored!Readable' = R
  BY <1>3 DEF Mirrored!Readable
<1> HIDE DEF R, new
<1>6. ((consumer % capacity) + i - 1) % capacity = (consumer + i - 1) % capacity
  <2>1. i \in Int
    BY <1>2
  <2> QED BY <1>1, <2>1, MappedOffset, Zenon
<1> DEFINE at(j) == (consumer + j - 1) % capacity
<1>7. \A j \in 1..R : at(j) \in 0..(capacity - 1) /\ (at(j) = at(i) => j = i)
  <2>1. \A j \in 1..R : at(j) \in 0..(capacity - 1)
    BY <1>1, <1>2, Division
  <2>2. \A j \in 1..R : j \in 1..capacity
    BY <1>1, <1>2
  <2> QED BY <1>1, <1>2, <2>1, <2>2, WindowsDoNotOverlap
<1>8. \A j \in 1..R : Mirrored!Data[j] = memory[at(j)]
  BY <1>2
<1>9. memory' = [memory EXCEPT ![at(i)] = byte]
  BY <1>3, <1>6
<1>10. MirroredInv'
  <2>1. memory' \in [0..(capacity' - 1) -> Bytes]
    BY <1>1, <1>3, <1>9
  <2>2. Mirrored!Readable' <= capacity'
    BY <1>1, <1>3, <1>5
  <2> QED BY <1>3, <2>1, <2>2 DEF MirroredInv
<1>11. /\ Mirrored!Data' \in Seq(Bytes) /\ Len(Mirrored!Data') = R
       /\ \A j \in 1..R : Mirrored!Data'[j] = memory'[at(j)]
  BY <1>3, <1>5, <1>10, MirroredDataBecomes
<1> HIDE DEF at
<1>12. \A j \in 1..R : memory'[at(j)] = IF j = i THEN byte ELSE memory[at(j)]
  BY <1>1, <1>7, <1>9
<1>13. Mirrored!Data' = new
  BY <1>4, <1>8, <1>11, <1>12, SeqEqual
<1> QED BY <1>5, <1>10, <1>13 DEF R, new

LEMMA MirroredResets ==
  ASSUME MirroredInv, Mirrored!Reset
  PROVE  MirroredInv' /\ Mirrored!Data' = <<>> /\ Mirrored!Readable' = 0
<1>1. /\ capacity \in Nat /\ capacity > 0 /\ WordSize \in Nat /\ WordSize > 0
  BY CapacitiesDivideWords DEF MirroredInv
<1>2. producer' = 0 /\ consumer' = 0 /\ capacity' = capacity /\ memory' = memory
  BY DEF Mirrored!Reset
<1>3. Mirrored!Readable' = 0
  <2>1. 0 % WordSize = 0
    BY <1>1, SmallRemainder
  <2>2. Mirrored!Readable' = (0 - 0) % WordSize
    BY <1>2 DEF Mirrored!Readable
  <2> QED BY <2>1, <2>2
<1>4. MirroredInv'
  BY <1>1, <1>2, <1>3 DEF MirroredInv
<1>5. Mirrored!Data' \in Seq(Bytes) /\ Len(Mirrored!Data') = 0
  BY <1>3, <1>4, MirroredDataBecomes
<1> QED BY <1>3, <1>4, <1>5

(* The data of the old ring, at the start of a new one.                    *)
LEMMA MirroredGrows ==
  ASSUME MirroredInv, Mirrored!Grow
  PROVE  /\ MirroredInv' /\ Mirrored!Readable' = Mirrored!Readable
         /\ Mirrored!Data' = Mirrored!Data /\ capacity' = 2 * capacity
<1> DEFINE R == Mirrored!Readable
           size == 2 * capacity
<1>1. /\ capacity \in Nat /\ capacity > 0 /\ WordSize \in Nat /\ WordSize > 0
      /\ capacity < WordSize /\ R <= capacity /\ PowerOfTwo(capacity)
  BY CapacitiesDivideWords DEF MirroredInv
<1>2. /\ R \in Nat /\ Mirrored!Data \in Seq(Bytes) /\ Len(Mirrored!Data) = R
  BY MirroredDataIs
<1>3. /\ size <= Limit /\ capacity' = size /\ producer' = R /\ consumer' = 0
      /\ memory' = [a \in 0..(size - 1) |-> IF a < R THEN Mirrored!Data[a + 1] ELSE Zero]
  BY DEF Mirrored!Grow, Mirrored!Addresses
<1>4. size \in Nat /\ size > 0 /\ R <= size /\ PowerOfTwo(size)
  <2>1. PowerOfTwo(size)
    BY <1>1, TwiceAPower
  <2> HIDE DEF R
  <2> QED BY <1>1, <1>2, <2>1
<1> HIDE DEF R, size
<1>5. Mirrored!Readable' = R
  <2>1. R - 0 = R /\ R \in Int /\ 0 <= R /\ R < WordSize
    BY <1>1, <1>2
  <2>2. R % WordSize = R
    BY <1>1, <2>1, SmallRemainder, Zenon
  <2>3. Mirrored!Readable' = (R - 0) % WordSize
    BY <1>3 DEF Mirrored!Readable
  <2> QED BY <2>1, <2>2, <2>3
<1>6. \A i \in 1..R : Mirrored!Data[i] \in Bytes
  BY <1>2
<1>7. memory' \in [0..(size - 1) -> Bytes]
  <2>1. \A a \in 0..(size - 1) : a < R => a + 1 \in 1..R
    BY <1>2, <1>4
  <2>2. \A a \in 0..(size - 1) : (IF a < R THEN Mirrored!Data[a + 1] ELSE Zero) \in Bytes
    BY <1>6, <2>1, BuffersAssumption
  <2> QED BY <1>3, <2>2
<1>8. MirroredInv'
  <2>1. producer' \in 0..(WordSize - 1) /\ consumer' \in 0..(WordSize - 1)
    BY <1>1, <1>2, <1>3
  <2>2. Mirrored!Readable' <= capacity'
    BY <1>3, <1>4, <1>5
  <2> QED BY <1>3, <1>4, <1>7, <2>1, <2>2 DEF MirroredInv
<1>9. /\ Mirrored!Data' \in Seq(Bytes) /\ Len(Mirrored!Data') = R
      /\ \A i \in 1..R : Mirrored!Data'[i] = memory'[(0 + i - 1) % size]
  BY <1>3, <1>5, <1>8, MirroredDataBecomes
<1>10. ASSUME NEW i \in 1..R  PROVE Mirrored!Data'[i] = Mirrored!Data[i]
  <2>1. /\ 0 + i - 1 = i - 1 /\ i - 1 \in Int /\ 0 <= i - 1 /\ i - 1 < size
        /\ i - 1 \in 0..(size - 1) /\ i - 1 < R /\ (i - 1) + 1 = i
    BY <1>2, <1>4
  <2>2. (i - 1) % size = i - 1
    BY <1>4, <2>1, SmallRemainder, Zenon
  <2>3. memory'[i - 1] = Mirrored!Data[i]
    BY <1>3, <2>1
  <2> QED BY <1>9, <2>1, <2>2, <2>3
<1>11. Mirrored!Data' = Mirrored!Data
  BY <1>2, <1>9, <1>10, SeqEqual
<1> QED BY <1>3, <1>5, <1>8, <1>11 DEF R, size

LEMMA MirroredInitial ==
  ASSUME Init
  PROVE  MirroredInv /\ InStep /\ Mirrored!Data = <<>> /\ capacity = InitialCapacity
<1>1. /\ capacity = InitialCapacity /\ producer = 0 /\ consumer = 0
      /\ memory = [a \in 0..(capacity - 1) |-> Zero]
      /\ capacity \in Nat /\ PowerOfTwo(capacity) /\ capacity <= Limit /\ Zero \in Bytes
  BY BuffersAssumption DEF Init, Mirrored!Init, Mirrored!Addresses
<1>2. capacity > 0 /\ WordSize \in Nat /\ WordSize > 0
  BY <1>1, CapacitiesDivideWords
<1>3. Mirrored!Readable = 0
  <2>1. 0 % WordSize = 0
    BY <1>2, SmallRemainder
  <2>2. Mirrored!Readable = (0 - 0) % WordSize
    BY <1>1 DEF Mirrored!Readable
  <2> QED BY <2>1, <2>2
<1>4. MirroredInv
  BY <1>1, <1>2, <1>3 DEF MirroredInv
<1>5. Mirrored!Data \in Seq(Bytes) /\ Len(Mirrored!Data) = 0
  BY <1>3, <1>4, MirroredDataIs
<1>6. Linear!Readable = 0 /\ Linear!Capacity = InitialCapacity
  <2>1. Linear!Capacity = InitialCapacity
    BY LinearInitial
  <2> QED BY <2>1 DEF Init, Linear!Init, Linear!Readable
<1> QED BY <1>1, <1>3, <1>4, <1>5, <1>6 DEF InStep

(* Called alike, the two buffers answer alike.                             *)
LEMMA MirroredSteps ==
  ASSUME BuffersInv, [Next]_vars
  PROVE  MirroredInv' /\ InStep' /\ [MirroredQueue!Next]_(MirroredQueue!queueVars)
<1>1. /\ LinearInv /\ MirroredInv
      /\ Linear!Readable = Mirrored!Readable /\ Linear!Capacity = capacity
  BY DEF BuffersInv, InStep
<1>2. /\ Mirrored!Data \in Seq(Bytes) /\ Len(Mirrored!Data) = Mirrored!Readable
      /\ Mirrored!Readable \in Nat /\ capacity \in Nat
  BY <1>1, MirroredDataIs DEF MirroredInv
<1>3. DOMAIN Mirrored!Data = 1..Mirrored!Readable
  BY <1>2
<1>4. MirroredQueue!Writable = capacity - Mirrored!Readable
  BY <1>2 DEF MirroredQueue!Writable
<1>5. head \in Nat /\ tail \in Nat /\ head <= tail
  BY <1>1 DEF LinearInv
<1>6. CASE Produce
  <2>1. PICK bytes \in Strings(Linear!Capacity - Linear!Readable) :
           Linear!Produce(bytes) /\ Mirrored!Produce(bytes)
    BY <1>6 DEF Produce
  <2>2. bytes \in Seq(Bytes) /\ Len(bytes) <= capacity - Mirrored!Readable /\ Len(bytes) \in Nat
    <3>1. capacity - Mirrored!Readable \in Int
      BY <1>2
    <3>2. bytes \in Seq(Bytes) /\ Len(bytes) \in 0..(capacity - Mirrored!Readable)
      BY <1>1, <3>1, StringsAreSequences
    <3> QED BY <3>1, <3>2
  <2>3. /\ MirroredInv' /\ Mirrored!Data' = Mirrored!Data \o bytes
        /\ Mirrored!Readable' = Mirrored!Readable + Len(bytes)
    BY <1>1, <2>1, <2>2, MirroredProduces
  <2>4. capacity' = capacity /\ Linear!Capacity' = Linear!Capacity
    BY <1>1, <2>1, LinearProduces DEF Mirrored!Produce
  <2>5. Linear!Readable' = Linear!Readable + Len(bytes)
    <3>1. head' = 0 /\ tail' = (tail - head) + Len(bytes)
      BY <2>1 DEF Linear!Produce, Linear!Readable
    <3> QED BY <1>5, <2>2, <3>1 DEF Linear!Readable
  <2>6. InStep'
    BY <1>1, <2>3, <2>4, <2>5 DEF InStep
  <2>7. bytes \in MirroredQueue!Strings(MirroredQueue!Writable)
    BY <1>1, <1>4 DEF Strings, MirroredQueue!Strings
  <2>8. MirroredQueue!Produce(bytes)
    BY <1>4, <2>2, <2>3, <2>4 DEF MirroredQueue!Produce
  <2> QED BY <2>3, <2>6, <2>7, <2>8 DEF MirroredQueue!Next
<1>7. CASE Consume
  <2>1. PICK n \in 0..Linear!Readable : Linear!Consume(n) /\ Mirrored!Consume(n)
    BY <1>7 DEF Consume
  <2>2. n \in 0..Mirrored!Readable /\ n \in Nat
    BY <1>1, <1>2, <2>1
  <2>3. /\ MirroredInv' /\ Mirrored!Readable' = Mirrored!Readable - n
        /\ Mirrored!Data' = SubSeq(Mirrored!Data, n + 1, Len(Mirrored!Data))
    BY <1>1, <2>1, <2>2, MirroredConsumes
  <2>4. capacity' = capacity /\ Linear!Capacity' = Linear!Capacity
    BY <1>1, <2>1, LinearConsumes DEF Mirrored!Consume
  <2>5. Linear!Readable' = Linear!Readable - n
    <3>1. CASE head + n = tail
      BY <1>5, <2>1, <2>2, <3>1 DEF Linear!Consume, Linear!Readable
    <3>2. CASE head + n # tail
      BY <1>5, <2>1, <2>2, <3>2 DEF Linear!Consume, Linear!Readable
    <3> QED BY <3>1, <3>2
  <2>6. InStep'
    BY <1>1, <2>3, <2>4, <2>5 DEF InStep
  <2>7. n \in 0..Len(Mirrored!Data) /\ n <= Len(Mirrored!Data)
    BY <1>2, <2>2
  <2>8. MirroredQueue!Consume(n)
    BY <2>3, <2>4, <2>7 DEF MirroredQueue!Consume
  <2> QED BY <2>3, <2>6, <2>7, <2>8 DEF MirroredQueue!Next
<1>8. CASE Rewrite
  <2>1. PICK i \in 1..Linear!Readable, byte \in Bytes :
           Linear!Rewrite(i, byte) /\ Mirrored!Rewrite(i, byte)
    BY <1>8 DEF Rewrite
  <2>2. i \in 1..Mirrored!Readable
    BY <1>1, <2>1
  <2>3. /\ MirroredInv' /\ Mirrored!Readable' = Mirrored!Readable
        /\ Mirrored!Data' = [Mirrored!Data EXCEPT ![i] = byte]
    BY <1>1, <2>1, <2>2, MirroredRewrites
  <2>4. capacity' = capacity /\ Linear!Capacity' = Linear!Capacity
    BY <1>1, <2>1, LinearRewrites DEF Mirrored!Rewrite
  <2>5. Linear!Readable' = Linear!Readable
    BY <2>1 DEF Linear!Rewrite, Linear!Readable
  <2>6. InStep'
    BY <1>1, <2>3, <2>4, <2>5 DEF InStep
  <2>7. MirroredQueue!Rewrite(i, byte)
    BY <1>3, <2>2, <2>3, <2>4 DEF MirroredQueue!Rewrite
  <2> QED BY <1>3, <2>1, <2>2, <2>3, <2>6, <2>7 DEF MirroredQueue!Next
<1>9. CASE Reset
  <2>1. MirroredInv' /\ Mirrored!Data' = <<>> /\ Mirrored!Readable' = 0
    BY <1>1, <1>9, MirroredResets DEF Reset
  <2>2. capacity' = capacity /\ Linear!Capacity' = Linear!Capacity /\ Linear!Readable' = 0
    BY <1>9 DEF Reset, Linear!Reset, Mirrored!Reset, Linear!Capacity, Linear!Readable
  <2>3. InStep'
    BY <1>1, <2>1, <2>2 DEF InStep
  <2> QED BY <2>1, <2>2, <2>3 DEF MirroredQueue!Next, MirroredQueue!Reset
<1>10. CASE Grow
  <2>1. /\ MirroredInv' /\ Mirrored!Readable' = Mirrored!Readable
        /\ Mirrored!Data' = Mirrored!Data /\ capacity' = 2 * capacity
    BY <1>1, <1>10, MirroredGrows DEF Grow
  <2>2. Linear!Capacity' = 2 * Linear!Capacity /\ Linear!Readable' = Linear!Readable
    BY <1>1, <1>10, LinearGrows DEF Grow, Linear!Grow, Linear!Readable
  <2>3. InStep'
    BY <1>1, <2>1, <2>2 DEF InStep
  <2>4. 2 * capacity <= Limit
    BY <1>10 DEF Grow, Mirrored!Grow
  <2> QED BY <2>1, <2>3, <2>4 DEF MirroredQueue!Next, MirroredQueue!Grow, MirroredQueue!CanGrow
<1>11. CASE UNCHANGED vars
  <2>1. /\ buf' = buf /\ head' = head /\ tail' = tail /\ memory' = memory
        /\ capacity' = capacity /\ producer' = producer /\ consumer' = consumer
    BY <1>11 DEF vars
  <2>2. /\ Mirrored!Readable' = Mirrored!Readable /\ Linear!Readable' = Linear!Readable
        /\ Linear!Capacity' = Linear!Capacity
    BY <2>1 DEF Mirrored!Readable, Linear!Readable, Linear!Capacity
  <2>3. Mirrored!Data' = Mirrored!Data
    BY <2>1, <2>2 DEF Mirrored!Data, Mirrored!Mapped, Mirrored!Offset
  <2>4. MirroredInv' /\ InStep'
    BY <1>1, <2>1, <2>2 DEF MirroredInv, InStep
  <2> QED BY <2>1, <2>3, <2>4 DEF MirroredQueue!queueVars
<1> QED BY <1>6, <1>7, <1>8, <1>9, <1>10, <1>11 DEF Next

(* mirrored.rs: whether the data wraps in the ring or the cursors wrap in  *)
(* their words, and across every doubling, the bytes come out in order.    *)
THEOREM MirroredBufIsAQueue == Spec => MirroredIsAQueue
<1>1. Init => BuffersInv /\ MirroredQueue!Init
  BY LinearInitial, MirroredInitial DEF BuffersInv, MirroredQueue!Init
<1>2. BuffersInv /\ [Next]_vars => BuffersInv' /\ [MirroredQueue!Next]_(MirroredQueue!queueVars)
  BY LinearSteps, MirroredSteps DEF BuffersInv
<1> QED BY <1>1, <1>2, PTL DEF Spec, MirroredIsAQueue, MirroredQueue!Spec

=============================================================================
