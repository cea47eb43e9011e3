---------------------------- MODULE MergeProofs -----------------------------
(***************************************************************************)
(* Proofs about module Merge: for files, chunk sizes and dialects of any   *)
(* kind.                                                                   *)
(***************************************************************************)
EXTENDS Merge, WellFoundedInduction, SequenceTheorems, TLAPS

-----------------------------------------------------------------------------
(* A set of natural numbers has a least element: the proofs about loops,   *)
(* and about operators defined by CHOOSE, rest on it.                      *)
LEMMA LeastElement ==
  ASSUME NEW T \in SUBSET Nat, T # {}
  PROVE  \E x \in T : \A y \in T : x <= y
<1> DEFINE R == OpToRel(<, Nat)
<1>1. IsWellFoundedOn(R, Nat)
  BY NatLessThanWellFounded, Zenon
<1>2. \A x, y \in Nat : x < y => <<x, y>> \in R
  BY Zenon DEF OpToRel
<1> HIDE DEF R
<1>3. PICK x \in T : \A y \in T : ~(<<y, x>> \in R)
  BY <1>1, WFMin
<1>4. ASSUME NEW y \in T  PROVE x <= y
  <2>1. x \in Nat /\ y \in Nat
    OBVIOUS
  <2>2. ~(y < x)
    BY <1>2, <1>3, <2>1
  <2> QED BY <2>1, <2>2
<1> QED BY <1>3, <1>4

(* A part of a sequence.                                                   *)
LEMMA Slice ==
  ASSUME NEW S, NEW s \in Seq(S), NEW from \in Nat, NEW to \in Nat,
         from <= to, to <= Len(s)
  PROVE  /\ SubSeq(s, from + 1, to) \in Seq(S)
         /\ Len(SubSeq(s, from + 1, to)) = to - from
         /\ \A i \in 1..(to - from) : SubSeq(s, from + 1, to)[i] = s[from + i]
<1>1. Len(s) \in Nat /\ \A i \in 1..Len(s) : s[i] \in S
  OBVIOUS
<1>2. \A i \in (from + 1)..to : s[i] \in S
  BY <1>1
<1>3. /\ SubSeq(s, from + 1, to) \in Seq(S)
      /\ Len(SubSeq(s, from + 1, to)) = IF from + 1 <= to THEN to - (from + 1) + 1 ELSE 0
      /\ \A i \in 1..(to - (from + 1) + 1) :
           SubSeq(s, from + 1, to)[i] = s[(from + 1) + i - 1]
  <2>1. from + 1 \in Int /\ to \in Int
    OBVIOUS
  <2> QED BY <1>2, <2>1, SubSeqProperties
<1>4. (IF from + 1 <= to THEN to - (from + 1) + 1 ELSE 0) = to - from
  OBVIOUS
<1>5. to - (from + 1) + 1 = to - from /\ \A i \in Int : (from + 1) + i - 1 = from + i
  OBVIOUS
<1> QED BY <1>3, <1>4, <1>5

LEMMA TheOneIs ==
  ASSUME NEW x
  PROVE  The({x}) = x
BY DEF The

-----------------------------------------------------------------------------
(* A scan, byte after byte: the function that ScanTo ends with.            *)
ScanRunOf(f, c, strict, r, state, n) ==
  f = [i \in 0..n |->
         IF i = 0 THEN [state |-> state, at |-> NoOffset]
         ELSE The({ScanByte(c, strict, r, s, i - 1) : s \in {f[i - 1]}})]

FollowsTheBytes(f, c, strict, r, n) ==
  \A i \in 1..n : f[i] = ScanByte(c, strict, r, f[i - 1], i - 1)

LEMMA ScanRunExists ==
  ASSUME NEW c, NEW strict, NEW r, NEW state, NEW n \in Nat
  PROVE  \E f : ScanRunOf(f, c, strict, r, state, n)
<1> DEFINE Runs(k) == \E f : ScanRunOf(f, c, strict, r, state, k)
           T == {k \in Nat : ~Runs(k)}
           first == [state |-> state, at |-> NoOffset]
           Next1(p, i) == The({ScanByte(c, strict, r, s, i - 1) : s \in {p}})
<1>1. \A f, k : ScanRunOf(f, c, strict, r, state, k)
                <=> f = [i \in 0..k |-> IF i = 0 THEN first ELSE Next1(f[i - 1], i)]
  BY Zenon DEF ScanRunOf
<1> HIDE DEF first, Next1
<1>2. ASSUME NEW x \in T, \A y \in T : x <= y  PROVE FALSE
  <2>1. x \in Nat /\ ~Runs(x)
    BY <1>2
  <2>2. CASE x = 0
    <3> DEFINE f == [i \in 0..0 |-> first]
    <3>1. f = [i \in 0..0 |-> IF i = 0 THEN first ELSE Next1(f[i - 1], i)]
      OBVIOUS
    <3> HIDE DEF f
    <3> QED BY <1>1, <2>1, <2>2, <3>1
  <2>3. CASE x # 0
    <3>1. x - 1 \in Nat /\ x - 1 \notin T
      BY <1>2, <2>1, <2>3
    <3>2. Runs(x - 1)
      BY <3>1
    <3>3. PICK f : f = [i \in 0..(x - 1) |-> IF i = 0 THEN first ELSE Next1(f[i - 1], i)]
      BY <1>1, <3>2
    <3> DEFINE g == [i \in 0..x |-> IF i = x THEN Next1(f[i - 1], i) ELSE f[i]]
               h == [i \in 0..x |-> IF i = 0 THEN first ELSE Next1(g[i - 1], i)]
    <3>4. ASSUME NEW i \in 0..x  PROVE g[i] = h[i]
      <4>1. i # 0 => i - 1 \in 0..(x - 1) /\ i - 1 \in 0..x /\ i - 1 # x
        BY <2>1
      <4>2. i # 0 => g[i - 1] = f[i - 1]
        BY <4>1
      <4>3. i # x => i \in 0..(x - 1)
        BY <2>1
      <4>4. i # x => f[i] = IF i = 0 THEN first ELSE Next1(f[i - 1], i)
        BY <3>3, <4>3
      <4> QED BY <2>3, <4>2, <4>4
    <3>5. g = h
      BY <3>4
    <3> HIDE DEF g
    <3> QED BY <1>1, <2>1, <3>5
  <2> QED BY <2>2, <2>3
<1>3. T = {}
  <2>1. T \in SUBSET Nat
    OBVIOUS
  <2> HIDE DEF T
  <2> QED BY <1>2, <2>1, LeastElement
<1> QED BY <1>3

LEMMA ScanRunIs ==
  ASSUME NEW c, NEW strict, NEW r, NEW state, NEW n \in Nat, NEW f,
         ScanRunOf(f, c, strict, r, state, n)
  PROVE  /\ f[0] = [state |-> state, at |-> NoOffset]
         /\ FollowsTheBytes(f, c, strict, r, n)
<1>1. 0 \in 0..n /\ \A i \in 1..n : i \in 0..n /\ i # 0
  OBVIOUS
<1>2. \A i \in 1..n : f[i] = The({ScanByte(c, strict, r, s, i - 1) : s \in {f[i - 1]}})
  BY <1>1, Zenon DEF ScanRunOf
<1>3. f[0] = [state |-> state, at |-> NoOffset]
  BY <1>1, Zenon DEF ScanRunOf
<1>4. ASSUME NEW i \in 1..n  PROVE f[i] = ScanByte(c, strict, r, f[i - 1], i - 1)
  <2>1. {ScanByte(c, strict, r, s, i - 1) : s \in {f[i - 1]}}
          = {ScanByte(c, strict, r, f[i - 1], i - 1)}
    OBVIOUS
  <2> QED BY <1>2, <2>1, TheOneIs
<1> QED BY <1>3, <1>4 DEF FollowsTheBytes

LEMMA ScanToIs ==
  ASSUME NEW c, NEW strict, NEW r, NEW state, NEW n \in Nat
  PROVE  LET f == CHOOSE g : ScanRunOf(g, c, strict, r, state, n)
         IN  ScanRunOf(f, c, strict, r, state, n) /\ ScanTo(c, strict, r, state, n) = f[n]
<1> DEFINE f == CHOOSE g : ScanRunOf(g, c, strict, r, state, n)
<1>1. ScanRunOf(f, c, strict, r, state, n)
  BY ScanRunExists, Zenon
<1>2. ScanTo(c, strict, r, state, n) = f[n]
  BY Zenon DEF ScanRunOf, ScanTo
<1> QED BY <1>1, <1>2

(* A scan that has come to an end stays there.                             *)
LEMMA ScanStays ==
  ASSUME NEW c, NEW strict, NEW r, NEW state, NEW n \in Nat, NEW f,
         ScanRunOf(f, c, strict, r, state, n),
         NEW k \in 0..n, f[k].state \in ScanOutcomes
  PROVE  f[n] = f[k]
<1> DEFINE T == {i \in k..n : f[i] # f[k]}
<1>1. T \in SUBSET Nat
  OBVIOUS
<1>2. ASSUME NEW x \in T, \A y \in T : x <= y  PROVE FALSE
  <2>1. x \in Nat /\ x \in k..n /\ f[x] # f[k] /\ x # k
    BY <1>1, <1>2
  <2>2. x - 1 \in k..n /\ ~(x <= x - 1) /\ x \in 1..n
    BY <2>1
  <2>3. f[x - 1] = f[k]
    BY <1>2, <2>2
  <2>4. \A i \in 1..n : f[i] = ScanByte(c, strict, r, f[i - 1], i - 1)
    <3>1. FollowsTheBytes(f, c, strict, r, n)
      BY ScanRunIs
    <3> QED BY <3>1 DEF FollowsTheBytes
  <2>5. f[x] = ScanByte(c, strict, r, f[x - 1], x - 1)
    BY <2>2, <2>4
  <2> QED BY <2>1, <2>3, <2>5 DEF ScanByte
<1>3. T = {}
  <2> HIDE DEF T
  <2> QED BY <1>1, <1>2, LeastElement
<1>4. n \in k..n
  OBVIOUS
<1> QED BY <1>3, <1>4

-----------------------------------------------------------------------------
(* A parse, byte after byte: the function that StepTo ends with.           *)
StepRunOf(f, c, r, from, n) ==
  f = [i \in from..n |->
         IF i = from THEN NewStepper(from)
         ELSE The({StepByte(c, r, s, i - 1) : s \in {f[i - 1]}})]
StepsByTheBytes(f, c, r, from, n) ==
  \A i \in (from + 1)..n : f[i] = StepByte(c, r, f[i - 1], i - 1)

LEMMA StepRunExists ==
  ASSUME NEW c, NEW r, NEW from \in Nat, NEW n \in Nat, from <= n
  PROVE  \E f : StepRunOf(f, c, r, from, n)
<1> DEFINE Runs(k) == \E f : StepRunOf(f, c, r, from, k)
           T == {k \in Nat : from <= k /\ ~Runs(k)}
           first == NewStepper(from)
           Next1(p, i) == The({StepByte(c, r, s, i - 1) : s \in {p}})
<1>1. \A f, k : StepRunOf(f, c, r, from, k)
                <=> f = [i \in from..k |-> IF i = from THEN first ELSE Next1(f[i - 1], i)]
  BY Zenon DEF StepRunOf
<1> HIDE DEF first, Next1
<1>2. ASSUME NEW x \in T, \A y \in T : x <= y  PROVE FALSE
  <2>1. x \in Nat /\ from <= x /\ ~Runs(x)
    BY <1>2
  <2>2. CASE x = from
    <3> DEFINE f == [i \in from..x |-> first]
    <3>1. f = [i \in from..x |-> IF i = from THEN first ELSE Next1(f[i - 1], i)]
      <4>1. \A i \in from..x : i = from
        BY <2>2
      <4> QED BY <4>1
    <3> HIDE DEF f
    <3> QED BY <1>1, <2>1, <3>1
  <2>3. CASE x # from
    <3>1. x - 1 \in Nat /\ from <= x - 1 /\ x - 1 \notin T
      BY <1>2, <2>1, <2>3
    <3>2. Runs(x - 1)
      BY <3>1
    <3>3. PICK f : f = [i \in from..(x - 1) |-> IF i = from THEN first ELSE Next1(f[i - 1], i)]
      BY <1>1, <3>2
    <3> DEFINE g == [i \in from..x |-> IF i = x THEN Next1(f[i - 1], i) ELSE f[i]]
               h == [i \in from..x |-> IF i = from THEN first ELSE Next1(g[i - 1], i)]
    <3>4. ASSUME NEW i \in from..x  PROVE g[i] = h[i]
      <4>1. i # from => i - 1 \in from..(x - 1) /\ i - 1 \in from..x /\ i - 1 # x
        BY <2>1
      <4>2. i # from => g[i - 1] = f[i - 1]
        BY <4>1
      <4>3. i # x => i \in from..(x - 1)
        BY <2>1
      <4>4. i # x => f[i] = IF i = from THEN first ELSE Next1(f[i - 1], i)
        BY <3>3, <4>3
      <4> QED BY <2>3, <4>2, <4>4
    <3>5. g = h
      BY <3>4
    <3> HIDE DEF g
    <3> QED BY <1>1, <2>1, <3>5
  <2> QED BY <2>2, <2>3
<1>3. T = {}
  <2>1. T \in SUBSET Nat
    OBVIOUS
  <2> HIDE DEF T
  <2> QED BY <1>2, <2>1, LeastElement
<1> QED BY <1>3

LEMMA StepRunIs ==
  ASSUME NEW c, NEW r, NEW from \in Nat, NEW n \in Nat, from <= n, NEW f,
         StepRunOf(f, c, r, from, n)
  PROVE  f[from] = NewStepper(from) /\ StepsByTheBytes(f, c, r, from, n)
<1>1. from \in from..n /\ \A i \in (from + 1)..n : i \in from..n /\ i # from
  OBVIOUS
<1>2. \A i \in (from + 1)..n : f[i] = The({StepByte(c, r, s, i - 1) : s \in {f[i - 1]}})
  BY <1>1, Zenon DEF StepRunOf
<1>3. f[from] = NewStepper(from)
  BY <1>1, Zenon DEF StepRunOf
<1>4. ASSUME NEW i \in (from + 1)..n  PROVE f[i] = StepByte(c, r, f[i - 1], i - 1)
  <2>1. {StepByte(c, r, s, i - 1) : s \in {f[i - 1]}} = {StepByte(c, r, f[i - 1], i - 1)}
    OBVIOUS
  <2> QED BY <1>2, <2>1, TheOneIs
<1> QED BY <1>3, <1>4 DEF StepsByTheBytes

LEMMA StepToIs ==
  ASSUME NEW c, NEW r, NEW from \in Nat, NEW n \in Nat, from <= n
  PROVE  LET f == CHOOSE g : StepRunOf(g, c, r, from, n)
         IN  StepRunOf(f, c, r, from, n) /\ StepTo(c, r, from, n) = f[n]
<1> DEFINE f == CHOOSE g : StepRunOf(g, c, r, from, n)
<1>1. StepRunOf(f, c, r, from, n)
  BY StepRunExists, Zenon
<1>2. StepTo(c, r, from, n) = f[n]
  BY Zenon DEF StepRunOf, StepTo
<1> QED BY <1>1, <1>2

(* A parse that is done stays there.                                       *)
LEMMA ParseStays ==
  ASSUME NEW c, NEW r, NEW from \in Nat, NEW n \in Nat, from <= n, NEW f,
         StepsByTheBytes(f, c, r, from, n), NEW k \in from..n, f[k].done
  PROVE  f[n] = f[k]
<1> DEFINE T == {i \in k..n : f[i] # f[k]}
<1>1. T \in SUBSET Nat
  OBVIOUS
<1>2. ASSUME NEW x \in T, \A y \in T : x <= y  PROVE FALSE
  <2>1. x \in Nat /\ x \in k..n /\ f[x] # f[k] /\ x # k
    BY <1>1, <1>2
  <2>2. x - 1 \in k..n /\ ~(x <= x - 1) /\ x \in (from + 1)..n
    BY <2>1
  <2>3. f[x - 1] = f[k]
    BY <1>2, <2>2
  <2>4. f[x] = StepByte(c, r, f[x - 1], x - 1)
    BY <2>2 DEF StepsByTheBytes
  <2> QED BY <2>1, <2>3, <2>4 DEF StepByte
<1>3. T = {}
  <2> HIDE DEF T
  <2> QED BY <1>1, <1>2, LeastElement
<1>4. n \in k..n
  OBVIOUS
<1> QED BY <1>3, <1>4

-----------------------------------------------------------------------------
(* What a stepper holds.                                                   *)
Offsets == {NoOffset} \cup Nat
Kinds == {"InvalidQuote", "NumberOfFields", "UnclosedQuote", "User", "Utf8", "IO"}
Errors == {NoError} \cup [kind : Kinds, at : Offsets]
Records == [at : Nat, fields : Seq(Seq(STRING))]
Steppers ==
  [state : InteriorStates, fields : Seq(Seq(STRING)), field : Seq(STRING),
   record_in_start : Nat, field_in_start : Nat, records : Seq(Records),
   last_record_end : Offsets, error : Errors, done : BOOLEAN]

LEMMA StepperTypes ==
  ASSUME NEW s \in Steppers
  PROVE  /\ s.state \in InteriorStates /\ s.fields \in Seq(Seq(STRING)) /\ s.field \in Seq(STRING)
         /\ s.record_in_start \in Nat /\ s.field_in_start \in Nat
         /\ s.records \in Seq(Records) /\ s.last_record_end \in Offsets
         /\ s.error \in Errors /\ s.done \in BOOLEAN
BY DEF Steppers

LEMMA ErrorsAre ==
  /\ \A kind \in Kinds, at \in Nat :
       Error(kind, at) \in Errors /\ Error(kind, at).kind = kind /\ Error(kind, at).at = at
  /\ NoError \in Errors /\ NoError.kind = "none" /\ NoError.at = NoOffset
  /\ IoError \in Errors /\ IoError.at = NoOffset /\ IoError # NoError
  /\ \A fields : CallbackError(fields) \in {NoError, UserError, HandedBack}
  /\ UserError \in Errors /\ UserError.at = NoOffset /\ HandedBack \in Errors
  /\ UserError # NoError /\ HandedBack # NoError /\ 0 \in Nat /\ NoOffset \notin Nat
<1>1. ASSUME NEW kind \in Kinds, NEW at \in Nat
      PROVE  Error(kind, at) \in Errors /\ Error(kind, at).kind = kind /\ Error(kind, at).at = at
  BY DEF Error, Errors, Offsets
<1>2. NoError \in Errors /\ NoError.kind = "none" /\ NoError.at = NoOffset
  BY DEF NoError, NoOffset, Errors, Kinds, Offsets
<1>3. /\ IoError \in Errors /\ UserError \in Errors /\ HandedBack \in Errors
      /\ IoError.at = NoOffset /\ UserError.at = NoOffset
      /\ IoError.kind = "IO" /\ UserError.kind = "User" /\ HandedBack.kind = "Utf8"
  BY DEF IoError, UserError, HandedBack, Error, NoOffset, Errors, Kinds, Offsets
<1>4. ASSUME NEW fields  PROVE CallbackError(fields) \in {NoError, UserError, HandedBack}
  BY DEF CallbackError
<1>5. NoOffset \notin Nat
  BY DEF NoOffset
<1> QED BY <1>1, <1>2, <1>3, <1>4, <1>5

LEMMA StartIs ==
  ASSUME NEW from \in Nat
  PROVE  LET s == NewStepper(from)
         IN  /\ s \in Steppers /\ s.state = "RecordStart" /\ s.fields = <<>> /\ s.field = <<>>
             /\ s.records = <<>> /\ s.last_record_end = NoOffset /\ s.error = NoError /\ ~s.done
BY ErrorsAre DEF NewStepper, Steppers, InteriorStates, NoOffset, Offsets

LEMMA StopIs ==
  ASSUME NEW s \in Steppers, NEW e \in Errors
  PROVE  LET t == Stop(s, e)
         IN  /\ t \in Steppers /\ t.records = s.records /\ t.last_record_end = s.last_record_end
             /\ t.error = e /\ t.done /\ t.state = s.state /\ t.fields = s.fields
             /\ t.field = s.field /\ t.record_in_start = s.record_in_start
             /\ t.field_in_start = s.field_in_start
<1> DEFINE t == Stop(s, e)
<1>1. t = [s EXCEPT !.error = e, !.done = TRUE]
  BY DEF Stop
<1> HIDE DEF t
<1>2. t \in Steppers
  BY <1>1 DEF Steppers
<1>3. /\ t.records = s.records /\ t.last_record_end = s.last_record_end /\ t.error = e /\ t.done
      /\ t.state = s.state /\ t.fields = s.fields /\ t.field = s.field
      /\ t.record_in_start = s.record_in_start /\ t.field_in_start = s.field_in_start
  BY <1>1 DEF Steppers
<1> QED BY <1>2, <1>3 DEF t

LEMMA PushIs ==
  ASSUME NEW s \in Steppers, NEW p \in Nat
  PROVE  LET t == PushField(s, p)
         IN  /\ t \in Steppers /\ t.fields = Append(s.fields, s.field) /\ t.field = <<>>
             /\ t.field_in_start = p /\ t.state = "FieldStart"
             /\ t.record_in_start = s.record_in_start /\ t.records = s.records
             /\ t.last_record_end = s.last_record_end /\ t.error = s.error /\ t.done = s.done
<1> DEFINE t == PushField(s, p)
           fields == Append(s.fields, s.field)
           none == <<>>
<1>1. t = [s EXCEPT !.fields = fields, !.field = none, !.field_in_start = p, !.state = "FieldStart"]
  BY DEF PushField
<1>2. fields \in Seq(Seq(STRING)) /\ none \in Seq(STRING) /\ "FieldStart" \in InteriorStates
  BY StepperTypes DEF InteriorStates
<1> HIDE DEF t, fields, none
<1>3. t \in Steppers
  BY <1>1, <1>2 DEF Steppers
<1>4. /\ t.fields = fields /\ t.field = none /\ t.field_in_start = p /\ t.state = "FieldStart"
      /\ t.record_in_start = s.record_in_start /\ t.records = s.records
      /\ t.last_record_end = s.last_record_end /\ t.error = s.error /\ t.done = s.done
  BY <1>1 DEF Steppers
<1> QED BY <1>3, <1>4 DEF t, fields, none

(* What emit_record makes of the record.                                   *)
ErrorOf(c, s) ==
  IF c.field_count # 0 /\ Len(s.fields) # c.field_count
  THEN Error("NumberOfFields", s.record_in_start) ELSE CallbackError(s.fields)

LEMMA EmitIs ==
  ASSUME NEW c, NEW s \in Steppers, NEW end \in Nat
  PROVE  LET t == EmitRecord(c, s, end)
             record == [at |-> s.record_in_start, fields |-> s.fields]
         IN  /\ ErrorOf(c, s) \in Errors /\ record \in Records
             /\ ErrorOf(c, s) # NoError => t = Stop(s, ErrorOf(c, s))
             /\ ErrorOf(c, s) = NoError =>
                  /\ t \in Steppers /\ t.records = Append(s.records, record)
                  /\ t.fields = <<>> /\ t.last_record_end = end /\ t.state = "RecordStart"
                  /\ t.field = s.field /\ t.record_in_start = s.record_in_start
                  /\ t.field_in_start = s.field_in_start /\ t.error = s.error /\ t.done = s.done
<1> DEFINE t == EmitRecord(c, s, end)
           record == [at |-> s.record_in_start, fields |-> s.fields]
           appended == Append(s.records, record)
           none == <<>>
<1>1. ErrorOf(c, s) \in Errors
  <2>1. s.record_in_start \in Nat /\ "NumberOfFields" \in Kinds
    BY StepperTypes DEF Kinds
  <2>2. Error("NumberOfFields", s.record_in_start) \in Errors
    BY <2>1, ErrorsAre
  <2>3. CallbackError(s.fields) \in Errors
    BY ErrorsAre
  <2> QED BY <2>2, <2>3 DEF ErrorOf
<1>2. record \in Records
  BY StepperTypes DEF Records
<1>3. Error("NumberOfFields", s.record_in_start) # NoError
  BY DEF Error, NoError
<1>4. ErrorOf(c, s) # NoError => t = Stop(s, ErrorOf(c, s))
  BY <1>3 DEF EmitRecord, ErrorOf
<1>5. ErrorOf(c, s) = NoError =>
        t = [s EXCEPT !.records = appended, !.fields = none, !.last_record_end = end,
                      !.state = "RecordStart"]
  BY <1>3 DEF EmitRecord, ErrorOf
<1> HIDE DEF record
<1>6. /\ appended \in Seq(Records) /\ none \in Seq(Seq(STRING)) /\ "RecordStart" \in InteriorStates
      /\ end \in Offsets
  BY <1>2, StepperTypes DEF InteriorStates, Offsets
<1> HIDE DEF t, appended, none
<1>7. ASSUME ErrorOf(c, s) = NoError  PROVE t \in Steppers
  BY <1>5, <1>6, <1>7 DEF Steppers
<1>8. ASSUME ErrorOf(c, s) = NoError
      PROVE  /\ t.records = appended /\ t.fields = none /\ t.last_record_end = end
             /\ t.state = "RecordStart" /\ t.field = s.field
             /\ t.record_in_start = s.record_in_start
             /\ t.field_in_start = s.field_in_start /\ t.error = s.error /\ t.done = s.done
  BY <1>5, <1>8 DEF Steppers
<1> QED BY <1>1, <1>2, <1>4, <1>7, <1>8 DEF t, record, appended, none

AtBoundary(r, s, at, t) ==
  /\ t \in Steppers /\ t.last_record_end = at /\ (t.done <=> at >= r.limit)
  /\ t.state = s.state /\ t.fields = s.fields /\ t.field = s.field
  /\ t.record_in_start = s.record_in_start /\ t.field_in_start = s.field_in_start
  /\ t.records = s.records /\ t.error = s.error

LEMMA BoundaryIs ==
  ASSUME NEW s \in Steppers, NEW at \in Nat, NEW r, r.limit \in Int
  PROVE  AtBoundary(r, s, at, StopAtBoundary(r, s, at))
<1> DEFINE t == StopAtBoundary(r, s, at)
           over == at >= r.limit
<1>1. t = [s EXCEPT !.last_record_end = at, !.done = over]
  BY DEF StopAtBoundary
<1>2. over \in BOOLEAN /\ at \in Offsets
  BY DEF Offsets
<1> HIDE DEF t, over
<1>3. t \in Steppers
  BY <1>1, <1>2 DEF Steppers
<1>4. /\ t.last_record_end = at /\ t.done = over
      /\ t.state = s.state /\ t.fields = s.fields /\ t.field = s.field
      /\ t.record_in_start = s.record_in_start /\ t.field_in_start = s.field_in_start
      /\ t.records = s.records /\ t.error = s.error
  BY <1>1 DEF Steppers
<1> QED BY <1>3, <1>4 DEF t, over, AtBoundary

(* A byte that belongs to the record: where the record starts, and the     *)
(* field with the byte.                                                    *)
Reading(s, i, b, cell) ==
  LET here == IF s.state = "RecordStart"
              THEN [s EXCEPT !.record_in_start = i, !.field_in_start = i]
              ELSE s
  IN  IF cell.out THEN [here EXCEPT !.field = Append(@, b)] ELSE here

LEMMA ReadingIs ==
  ASSUME NEW s \in Steppers, NEW i \in Nat, NEW b \in STRING, NEW cell
  PROVE  LET t == Reading(s, i, b, cell)
         IN  /\ t \in Steppers
             /\ t.record_in_start = (IF s.state = "RecordStart" THEN i ELSE s.record_in_start)
             /\ t.field_in_start = (IF s.state = "RecordStart" THEN i ELSE s.field_in_start)
             /\ t.field = (IF cell.out THEN Append(s.field, b) ELSE s.field)
             /\ t.state = s.state /\ t.fields = s.fields /\ t.records = s.records
             /\ t.last_record_end = s.last_record_end /\ t.error = s.error /\ t.done = s.done
<1> DEFINE here == IF s.state = "RecordStart"
                   THEN [s EXCEPT !.record_in_start = i, !.field_in_start = i] ELSE s
           t == Reading(s, i, b, cell)
<1>1. /\ here \in Steppers
      /\ here.record_in_start = (IF s.state = "RecordStart" THEN i ELSE s.record_in_start)
      /\ here.field_in_start = (IF s.state = "RecordStart" THEN i ELSE s.field_in_start)
      /\ here.field = s.field
      /\ here.state = s.state /\ here.fields = s.fields /\ here.records = s.records
      /\ here.last_record_end = s.last_record_end /\ here.error = s.error /\ here.done = s.done
  BY DEF Steppers
<1>2. t = IF cell.out THEN [here EXCEPT !.field = Append(@, b)] ELSE here
  BY DEF Reading
<1> HIDE DEF here, t
<1>3. CASE cell.out
  <2> DEFINE more == Append(here.field, b)
  <2>1. more \in Seq(STRING)
    BY <1>1, StepperTypes
  <2>2. t = [here EXCEPT !.field = more]
    BY <1>2, <1>3
  <2>3. more = Append(s.field, b)
    BY <1>1
  <2> HIDE DEF more
  <2>4. t \in Steppers
    BY <1>1, <2>1, <2>2 DEF Steppers
  <2>5. /\ t.record_in_start = here.record_in_start /\ t.field_in_start = here.field_in_start
        /\ t.field = more /\ t.state = here.state /\ t.fields = here.fields
        /\ t.records = here.records /\ t.last_record_end = here.last_record_end
        /\ t.error = here.error /\ t.done = here.done
    BY <1>1, <2>2 DEF Steppers
  <2> QED BY <1>1, <1>3, <2>3, <2>4, <2>5 DEF t
<1>4. CASE ~cell.out
  BY <1>1, <1>2, <1>4 DEF t
<1> QED BY <1>3, <1>4

(* The cells of a table that leads nowhere else.                           *)
LEMMA CellsAre ==
  ASSUME NEW c, ValidDialect(c), NEW state \in InteriorStates, NEW b
  PROVE  LET cell == Transition(c, state, b)
         IN  /\ cell.next \in InteriorStates \cup ActionStates
             /\ cell.next = "RecordEnd" => b \in Terminators(c) /\ state # "RecordStart"
<1> DEFINE Good(cell) ==
      /\ cell.next \in InteriorStates \cup ActionStates
      /\ cell.next = "RecordEnd" => b \in Terminators(c)
<1> USE DEF InteriorStates, ActionStates, Consume, Emit, Cell
<1>1. Good(FieldStartCell(c, b))
  BY DEF FieldStartCell
<1>2. Good(InFieldCell(c, b))
  BY DEF InFieldCell, MidFieldQuoteCell, ValidDialect, QuoteHandlings
<1>3. Good(InQuotedFieldCell(c, b))
  BY DEF InQuotedFieldCell
<1>4. Good(AfterClosingQuoteCell(c, b))
  BY DEF AfterClosingQuoteCell
<1>5. Good(InCommentCell(c, b))
  BY DEF InCommentCell
<1>6. Good(RecordStartCell(c, b)) /\ RecordStartCell(c, b).next # "RecordEnd"
  BY <1>1 DEF RecordStartCell
<1>7. QED
  BY <1>1, <1>2, <1>3, <1>4, <1>5, <1>6 DEF Transition

(* One step, by what the byte is.                                          *)
Stepped(c, r, s, i, b, t) ==
  LET cell == Transition(c, s.state, b)
      read == Reading(s, i, b, cell)
      emitted == EmitRecord(c, PushField(read, i + 1), i)
      empty == s.state = "RecordStart" /\ b \in Terminators(c)
  IN  /\ empty => t = IF i >= r.limit THEN StopAtBoundary(r, s, i) ELSE s
      /\ ~empty /\ cell.next \notin ActionStates => t = [read EXCEPT !.state = cell.next]
      /\ ~empty /\ cell.next = "Error" => t = Stop(read, Error("InvalidQuote", i))
      /\ ~empty /\ cell.next = "FieldEnd" => t = PushField(read, i + 1)
      /\ ~empty /\ cell.next = "RecordEnd" =>
           t = IF emitted.done THEN emitted ELSE StopAtBoundary(r, emitted, i)

LEMMA StepIs ==
  ASSUME NEW c, NEW r, NEW s \in Steppers, NEW i \in Nat, NEW b
  PROVE  ~s.done /\ ByteAt(r, i) = b => Stepped(c, r, s, i, b, StepByte(c, r, s, i))
<1> DEFINE cell == Transition(c, s.state, b)
           read == Reading(s, i, b, cell)
           emitted == EmitRecord(c, PushField(read, i + 1), i)
           t == StepByte(c, r, s, i)
           empty == s.state = "RecordStart" /\ b \in Terminators(c)
<1>1. SUFFICES ASSUME ~s.done, ByteAt(r, i) = b
               PROVE  Stepped(c, r, s, i, b, t)
  OBVIOUS
<1>2. t = StepTaking(cell, c, r, s, i)
  BY <1>1 DEF StepByte
<1>3. t = IF empty THEN SkipTerminator(r, s, i)
          ELSE IF cell.next \in ActionStates
          THEN ApplyAction(c, r, read, cell.next, i)
          ELSE [read EXCEPT !.state = cell.next]
  <2> HIDE DEF cell, t
  <2> QED BY <1>1, <1>2 DEF StepTaking, Reading, read
<1>5. SkipTerminator(r, s, i) = IF i >= r.limit THEN StopAtBoundary(r, s, i) ELSE s
  BY DEF SkipTerminator
<1>6. /\ ApplyAction(c, r, read, "Error", i) = Stop(read, Error("InvalidQuote", i))
      /\ ApplyAction(c, r, read, "FieldEnd", i) = PushField(read, i + 1)
      /\ ApplyAction(c, r, read, "RecordEnd", i)
           = IF emitted.done THEN emitted ELSE StopAtBoundary(r, emitted, i)
  <2> HIDE DEF cell, read
  <2> QED BY DEF ApplyAction
<1> HIDE DEF cell, read, emitted, t, empty
<1>7. /\ empty => t = IF i >= r.limit THEN StopAtBoundary(r, s, i) ELSE s
      /\ ~empty /\ cell.next \notin ActionStates => t = [read EXCEPT !.state = cell.next]
      /\ ~empty /\ cell.next = "Error" => t = Stop(read, Error("InvalidQuote", i))
      /\ ~empty /\ cell.next = "FieldEnd" => t = PushField(read, i + 1)
      /\ ~empty /\ cell.next = "RecordEnd" =>
           t = IF emitted.done THEN emitted ELSE StopAtBoundary(r, emitted, i)
  BY <1>3, <1>5, <1>6 DEF ActionStates
<1> QED BY <1>7, Zenon DEF Stepped, cell, read, emitted, t, empty

-----------------------------------------------------------------------------
(* A stepper that began at a later byte, and one that has read all before  *)
(* it.                                                                     *)
Moved(record, a) == [record EXCEPT !.at = @ + a]
Placed(records, a) == [k \in DOMAIN records |-> [records[k] EXCEPT !.at = @ + a]]

LEMMA MovedIs ==
  ASSUME NEW record \in Records, NEW a \in Nat
  PROVE  /\ Moved(record, a) \in Records /\ Moved(record, a).at = record.at + a
         /\ Moved(record, a) = [at |-> record.at + a, fields |-> record.fields]
<1>1. record = [at |-> record.at, fields |-> record.fields] /\ record.at \in Nat
      /\ record.fields \in Seq(Seq(STRING))
  BY DEF Records
<1>2. record.at + a \in Nat
  BY <1>1
<1>3. Moved(record, a) = [at |-> record.at + a, fields |-> record.fields]
  BY <1>1, SMTT(30) DEF Moved
<1> QED BY <1>1, <1>2, <1>3 DEF Records

LEMMA PlacedIs ==
  ASSUME NEW records \in Seq(Records), NEW a \in Nat
  PROVE  /\ Placed(records, a) \in Seq(Records) /\ Len(Placed(records, a)) = Len(records)
         /\ \A k \in 1..Len(records) : Placed(records, a)[k] = Moved(records[k], a)
<1>1. Len(records) \in Nat /\ DOMAIN records = 1..Len(records)
  OBVIOUS
<1>2. Placed(records, a) = [k \in 1..Len(records) |-> Moved(records[k], a)]
  BY <1>1 DEF Placed, Moved
<1>3. \A k \in 1..Len(records) : Moved(records[k], a) \in Records
  BY <1>1, MovedIs
<1>4. Placed(records, a) \in Seq(Records)
  BY <1>1, <1>2, <1>3, IsASeq
<1>5. DOMAIN Placed(records, a) = 1..Len(records)
  BY <1>2
<1>6. Len(Placed(records, a)) = Len(records)
  BY <1>1, <1>4, <1>5, LenProperties
<1> QED BY <1>2, <1>4, <1>6

LEMMA PlacedOneMore ==
  ASSUME NEW records \in Seq(Records), NEW a \in Nat, NEW record \in Records
  PROVE  Placed(Append(records, record), a) = Append(Placed(records, a), Moved(record, a))
<1> DEFINE more == Append(records, record)
           placed == Placed(records, a)
           left == Placed(more, a)
           right == Append(placed, Moved(record, a))
           n == Len(records)
<1>1. /\ more \in Seq(Records) /\ Len(more) = n + 1 /\ n \in Nat
      /\ \A k \in 1..n : more[k] = records[k]
      /\ more[n + 1] = record
  BY AppendProperties
<1>2. /\ placed \in Seq(Records) /\ Len(placed) = n
      /\ \A k \in 1..n : placed[k] = Moved(records[k], a)
  BY PlacedIs
<1>3. Moved(record, a) \in Records
  BY MovedIs
<1> HIDE DEF more, placed
<1>4. /\ left \in Seq(Records) /\ Len(left) = n + 1
      /\ \A k \in 1..(n + 1) : left[k] = Moved(more[k], a)
  BY <1>1, PlacedIs
<1>5. /\ right \in Seq(Records) /\ Len(right) = n + 1
      /\ \A k \in 1..n : right[k] = placed[k]
      /\ right[n + 1] = Moved(record, a)
  BY <1>2, <1>3, AppendProperties
<1> HIDE DEF left, right
<1>6. ASSUME NEW k \in 1..(n + 1)  PROVE left[k] = right[k]
  <2>1. CASE k = n + 1
    BY <1>1, <1>4, <1>5, <2>1
  <2>2. CASE k # n + 1
    <3>1. k \in 1..n
      BY <1>1, <2>2
    <3> QED BY <1>1, <1>2, <1>4, <1>5, <3>1
  <2> QED BY <2>1, <2>2
<1>7. left = right
  BY <1>4, <1>5, <1>6, SeqEqual
<1> QED BY <1>7 DEF left, right, more, placed

LEMMA JoinedOneMore ==
  ASSUME NEW S, NEW before \in Seq(S), NEW s \in Seq(S), NEW x \in S
  PROVE  before \o Append(s, x) = Append(before \o s, x)
<1>1. <<x>> \in Seq(S)
  OBVIOUS
<1>2. Append(s, x) = s \o <<x>>
  BY AppendIsConcat
<1>3. before \o s \in Seq(S)
  BY ConcatProperties
<1>4. Append(before \o s, x) = (before \o s) \o <<x>>
  BY <1>3, AppendIsConcat
<1> QED BY <1>1, <1>2, <1>4, ConcatAssociative

(* An error of the later one, and the other's: with_base moves the         *)
(* positions.                                                              *)
SameError(e, f, a) ==
  \/ f = e /\ e \in {NoError, UserError, HandedBack}
  \/ e.at \in Nat /\ f = [e EXCEPT !.at = @ + a]

Shadows(g, f, a, before) ==
  /\ before \in Seq(Records)
  /\ g.state = f.state /\ g.fields = f.fields /\ g.field = f.field /\ (g.done <=> f.done)
  /\ SameError(g.error, f.error, a) /\ (~f.done => f.error = NoError)
  /\ g.state # "RecordStart" => /\ f.record_in_start = g.record_in_start + a
                                /\ f.field_in_start = g.field_in_start + a
  /\ f.records = before \o Placed(g.records, a)

(* Between records nothing is in flight.                                   *)
Between == {"RecordStart", "InComment"}
Clean(c, s) ==
  /\ ~s.done => s.error = NoError
  /\ s.done => s.error # NoError
  /\ s.state \in Between => s.fields = <<>> /\ s.field = <<>>
  /\ s.state = "InComment" => c.comment # NoByte

AtRest(s) ==
  /\ s.state = "RecordStart" /\ s.fields = <<>> /\ s.field = <<>>
  /\ ~s.done /\ s.error = NoError

(* Inside a record.                                                        *)
Alike(g, f, a, before) ==
  /\ before \in Seq(Records)
  /\ g.state = f.state /\ g.fields = f.fields /\ g.field = f.field
  /\ ~g.done /\ ~f.done /\ g.error = NoError /\ f.error = NoError
  /\ f.record_in_start = g.record_in_start + a /\ f.field_in_start = g.field_in_start + a
  /\ f.records = before \o Placed(g.records, a)

LEMMA ReadAlike ==
  ASSUME NEW g \in Steppers, NEW f \in Steppers, NEW a \in Nat, NEW before,
         NEW i \in Nat, NEW b \in STRING, NEW cell
  PROVE  LET g1 == Reading(g, i, b, cell)
             f1 == Reading(f, a + i, b, cell)
         IN  Shadows(g, f, a, before) /\ ~g.done /\ g.error = NoError =>
               /\ g1 \in Steppers /\ f1 \in Steppers /\ Alike(g1, f1, a, before)
               /\ g1.last_record_end = g.last_record_end /\ g1.records = g.records
               /\ g1.state = g.state /\ g1.fields = g.fields
               /\ (~cell.out => g1.field = g.field)
<1> DEFINE k == a + i
           g1 == Reading(g, i, b, cell)
           f1 == Reading(f, k, b, cell)
<1>1. k \in Nat /\ k = i + a
  OBVIOUS
<1> HIDE DEF k
<1>2. /\ g1 \in Steppers
      /\ g1.record_in_start = (IF g.state = "RecordStart" THEN i ELSE g.record_in_start)
      /\ g1.field_in_start = (IF g.state = "RecordStart" THEN i ELSE g.field_in_start)
      /\ g1.field = (IF cell.out THEN Append(g.field, b) ELSE g.field)
      /\ g1.state = g.state /\ g1.fields = g.fields /\ g1.records = g.records
      /\ g1.last_record_end = g.last_record_end /\ g1.error = g.error /\ g1.done = g.done
  BY ReadingIs
<1>3. /\ f1 \in Steppers
      /\ f1.record_in_start = (IF f.state = "RecordStart" THEN k ELSE f.record_in_start)
      /\ f1.field_in_start = (IF f.state = "RecordStart" THEN k ELSE f.field_in_start)
      /\ f1.field = (IF cell.out THEN Append(f.field, b) ELSE f.field)
      /\ f1.state = f.state /\ f1.fields = f.fields /\ f1.records = f.records
      /\ f1.error = f.error /\ f1.done = f.done
  BY <1>1, ReadingIs
<1> HIDE DEF g1, f1
<1>4. ASSUME Shadows(g, f, a, before), ~g.done, g.error = NoError
      PROVE  Alike(g1, f1, a, before)
  <2>1. /\ f1.record_in_start = g1.record_in_start + a
        /\ f1.field_in_start = g1.field_in_start + a
    BY <1>1, <1>2, <1>3, <1>4 DEF Shadows
  <2> QED BY <1>2, <1>3, <1>4, <2>1 DEF Shadows, Alike
<1> QED BY <1>2, <1>3, <1>4 DEF g1, f1, k

LEMMA SameErrors ==
  ASSUME NEW c, NEW g \in Steppers, NEW f \in Steppers, NEW a \in Nat, NEW before,
         Alike(g, f, a, before)
  PROVE  /\ SameError(ErrorOf(c, g), ErrorOf(c, f), a)
         /\ ErrorOf(c, g) = NoError <=> ErrorOf(c, f) = NoError
         /\ SameError(NoError, NoError, a)
<1>1. /\ g.fields = f.fields /\ f.record_in_start = g.record_in_start + a
      /\ g.record_in_start \in Nat
  BY StepperTypes DEF Alike
<1>2. CallbackError(g.fields) = CallbackError(f.fields)
      /\ CallbackError(g.fields) \in {NoError, UserError, HandedBack}
  BY <1>1, ErrorsAre
<1> DEFINE e == Error("NumberOfFields", g.record_in_start)
           d == Error("NumberOfFields", f.record_in_start)
<1>3. /\ e.at \in Nat /\ d = [e EXCEPT !.at = @ + a] /\ e # NoError /\ d # NoError
  BY <1>1 DEF Error, NoError
<1> HIDE DEF e, d
<1>4. SameError(e, d, a)
  BY <1>3 DEF SameError
<1>5. SameError(CallbackError(g.fields), CallbackError(f.fields), a)
  BY <1>2 DEF SameError
<1>6. CASE c.field_count # 0 /\ Len(g.fields) # c.field_count
  <2>1. ErrorOf(c, g) = e /\ ErrorOf(c, f) = d
    BY <1>1, <1>6 DEF ErrorOf, e, d
  <2> QED BY <1>3, <1>4, <2>1 DEF SameError
<1>7. CASE ~(c.field_count # 0 /\ Len(g.fields) # c.field_count)
  <2>1. ErrorOf(c, g) = CallbackError(g.fields) /\ ErrorOf(c, f) = CallbackError(f.fields)
    BY <1>1, <1>7 DEF ErrorOf
  <2> QED BY <1>2, <1>5, <2>1 DEF SameError
<1> QED BY <1>6, <1>7

LEMMA PushAlike ==
  ASSUME NEW g \in Steppers, NEW f \in Steppers, NEW a \in Nat, NEW before,
         NEW p \in Nat, NEW q \in Nat, q = p + a
  PROVE  LET g1 == PushField(g, p)
             f1 == PushField(f, q)
         IN  Alike(g, f, a, before) =>
               /\ g1 \in Steppers /\ f1 \in Steppers /\ Alike(g1, f1, a, before)
               /\ g1.field = <<>> /\ g1.state = "FieldStart"
               /\ g1.last_record_end = g.last_record_end /\ g1.records = g.records
<1> DEFINE g1 == PushField(g, p)
           f1 == PushField(f, q)
<1>1. /\ g1 \in Steppers /\ g1.fields = Append(g.fields, g.field) /\ g1.field = <<>>
      /\ g1.field_in_start = p /\ g1.state = "FieldStart"
      /\ g1.record_in_start = g.record_in_start /\ g1.records = g.records
      /\ g1.last_record_end = g.last_record_end /\ g1.error = g.error /\ g1.done = g.done
  BY PushIs
<1>2. /\ f1 \in Steppers /\ f1.fields = Append(f.fields, f.field) /\ f1.field = <<>>
      /\ f1.field_in_start = q /\ f1.state = "FieldStart"
      /\ f1.record_in_start = f.record_in_start /\ f1.records = f.records
      /\ f1.last_record_end = f.last_record_end /\ f1.error = f.error /\ f1.done = f.done
  BY PushIs
<1> HIDE DEF g1, f1
<1>3. ASSUME Alike(g, f, a, before)  PROVE Alike(g1, f1, a, before)
  BY <1>1, <1>2, <1>3 DEF Alike
<1> QED BY <1>1, <1>2, <1>3 DEF g1, f1

(* Stopped at the same byte, by the same error.                            *)
LEMMA StopAlike ==
  ASSUME NEW c, NEW g \in Steppers, NEW f \in Steppers, NEW a \in Nat, NEW before,
         NEW e \in Errors, NEW d \in Errors,
         SameError(e, d, a), e # NoError
  PROVE  LET g1 == Stop(g, e)
             f1 == Stop(f, d)
         IN  Alike(g, f, a, before) /\ g.state \notin Between =>
               Shadows(g1, f1, a, before) /\ Clean(c, g1)
<1> DEFINE g1 == Stop(g, e)
           f1 == Stop(f, d)
<1>1. /\ g1 \in Steppers /\ g1.records = g.records /\ g1.last_record_end = g.last_record_end
      /\ g1.error = e /\ g1.done /\ g1.state = g.state /\ g1.fields = g.fields
      /\ g1.field = g.field /\ g1.record_in_start = g.record_in_start
      /\ g1.field_in_start = g.field_in_start
  BY StopIs
<1>2. /\ f1 \in Steppers /\ f1.records = f.records /\ f1.last_record_end = f.last_record_end
      /\ f1.error = d /\ f1.done /\ f1.state = f.state /\ f1.fields = f.fields
      /\ f1.field = f.field /\ f1.record_in_start = f.record_in_start
      /\ f1.field_in_start = f.field_in_start
  BY StopIs
<1> HIDE DEF g1, f1
<1>3. ASSUME Alike(g, f, a, before), g.state \notin Between
      PROVE  Shadows(g1, f1, a, before) /\ Clean(c, g1)
  <2>1. g1.state = f1.state /\ g1.fields = f1.fields /\ g1.field = f1.field
        /\ g1.done /\ f1.done /\ SameError(g1.error, f1.error, a)
    BY <1>1, <1>2, <1>3 DEF Alike
  <2>2. f1.record_in_start = g1.record_in_start + a /\ f1.field_in_start = g1.field_in_start + a
        /\ f1.records = before \o Placed(g1.records, a)
    BY <1>1, <1>2, <1>3 DEF Alike
  <2>3. Clean(c, g1)
    BY <1>1, <1>3 DEF Clean, Between
  <2>4. before \in Seq(Records)
    BY <1>3 DEF Alike
  <2> QED BY <2>1, <2>2, <2>3, <2>4 DEF Shadows
<1> QED BY <1>1, <1>2, <1>3 DEF g1, f1

(* The same record, accepted or rejected by both.                          *)
EmittedAlike(c, g, a, before, p, g1, f1) ==
  /\ g1 \in Steppers /\ f1 \in Steppers
  /\ g1.done => /\ Shadows(g1, f1, a, before) /\ Clean(c, g1)
                /\ g1.last_record_end = g.last_record_end /\ g1.records = g.records
  /\ ~g1.done =>
       /\ g1.error = NoError /\ f1.error = NoError /\ ~f1.done
       /\ g1.state = "RecordStart" /\ f1.state = "RecordStart"
       /\ g1.fields = <<>> /\ f1.fields = <<>> /\ g1.field = g.field
       /\ f1.field = g.field /\ g1.last_record_end = p
       /\ f1.records = before \o Placed(g1.records, a)

LEMMA EmitAlike ==
  ASSUME NEW c, NEW g \in Steppers, NEW f \in Steppers, NEW a \in Nat,
         NEW before, NEW p \in Nat, NEW q \in Nat,
         Alike(g, f, a, before), g.state \notin Between
  PROVE  EmittedAlike(c, g, a, before, p, EmitRecord(c, g, p), EmitRecord(c, f, q))
<1> DEFINE g1 == EmitRecord(c, g, p)
           f1 == EmitRecord(c, f, q)
           e == ErrorOf(c, g)
           d == ErrorOf(c, f)
           mine == [at |-> g.record_in_start, fields |-> g.fields]
           theirs == [at |-> f.record_in_start, fields |-> f.fields]
<1>1. /\ e \in Errors /\ mine \in Records
      /\ e # NoError => g1 = Stop(g, e)
      /\ e = NoError =>
           /\ g1 \in Steppers /\ g1.records = Append(g.records, mine)
           /\ g1.fields = <<>> /\ g1.last_record_end = p /\ g1.state = "RecordStart"
           /\ g1.field = g.field /\ g1.record_in_start = g.record_in_start
           /\ g1.field_in_start = g.field_in_start /\ g1.error = g.error /\ g1.done = g.done
  BY EmitIs
<1>2. /\ d \in Errors /\ theirs \in Records
      /\ d # NoError => f1 = Stop(f, d)
      /\ d = NoError =>
           /\ f1 \in Steppers /\ f1.records = Append(f.records, theirs)
           /\ f1.fields = <<>> /\ f1.last_record_end = q /\ f1.state = "RecordStart"
           /\ f1.field = f.field /\ f1.record_in_start = f.record_in_start
           /\ f1.field_in_start = f.field_in_start /\ f1.error = f.error /\ f1.done = f.done
  BY EmitIs
<1>3. SameError(e, d, a) /\ (e = NoError <=> d = NoError)
  BY SameErrors
<1>4. g.records \in Seq(Records) /\ g.record_in_start \in Nat
  BY StepperTypes
<1>5. /\ before \in Seq(Records)
      /\ g.state = f.state /\ g.fields = f.fields /\ g.field = f.field
      /\ ~g.done /\ ~f.done /\ g.error = NoError /\ f.error = NoError
      /\ f.record_in_start = g.record_in_start + a
      /\ f.records = before \o Placed(g.records, a)
  BY DEF Alike
<1>6. theirs = Moved(mine, a)
  BY <1>1, <1>5, MovedIs
<1>7. before \o Placed(Append(g.records, mine), a) = Append(f.records, theirs)
  <2> HIDE DEF mine, theirs
  <2>1. Placed(Append(g.records, mine), a) = Append(Placed(g.records, a), theirs)
    BY <1>1, <1>4, <1>6, PlacedOneMore
  <2>2. Placed(g.records, a) \in Seq(Records)
    BY <1>4, PlacedIs
  <2>3. before \o Append(Placed(g.records, a), theirs)
          = Append(before \o Placed(g.records, a), theirs)
    BY <1>2, <1>5, <2>2, JoinedOneMore
  <2> QED BY <1>5, <2>1, <2>3
<1> HIDE DEF mine, theirs, e, d, g1, f1
<1>8. CASE e # NoError
  <2>1. g1 = Stop(g, e) /\ f1 = Stop(f, d)
    BY <1>1, <1>2, <1>3, <1>8
  <2>2. e \in Errors /\ d \in Errors /\ SameError(e, d, a)
    BY <1>1, <1>2, <1>3
  <2>3. Shadows(Stop(g, e), Stop(f, d), a, before) /\ Clean(c, Stop(g, e))
    <3>1. Shadows(Stop(g, e), Stop(f, d), a, before)
      BY <1>8, <2>2, StopAlike
    <3>2. Clean(c, Stop(g, e))
      BY <1>8, <2>2, StopAlike
    <3> QED BY <3>1, <3>2
  <2>5. /\ Stop(g, e) \in Steppers /\ Stop(g, e).done
        /\ Stop(g, e).last_record_end = g.last_record_end /\ Stop(g, e).records = g.records
    BY <2>2, StopIs
  <2>6. Stop(f, d) \in Steppers
    BY <2>2, StopIs
  <2>4. /\ g1 \in Steppers /\ f1 \in Steppers
        /\ Shadows(g1, f1, a, before) /\ Clean(c, g1) /\ g1.done
        /\ g1.last_record_end = g.last_record_end /\ g1.records = g.records
    BY <2>1, <2>3, <2>5, <2>6
  <2> QED BY <2>4 DEF g1, f1, EmittedAlike
<1>9. CASE e = NoError
  <2>1. /\ g1 \in Steppers /\ f1 \in Steppers /\ ~g1.done /\ ~f1.done
        /\ g1.error = NoError /\ f1.error = NoError
        /\ g1.state = "RecordStart" /\ f1.state = "RecordStart"
        /\ g1.fields = <<>> /\ f1.fields = <<>> /\ g1.field = g.field
        /\ f1.field = g.field /\ g1.last_record_end = p
    BY <1>1, <1>2, <1>3, <1>5, <1>9
  <2>2. f1.records = before \o Placed(g1.records, a)
    BY <1>1, <1>2, <1>3, <1>7, <1>9
  <2> QED BY <2>1, <2>2 DEF g1, f1, EmittedAlike
<1> QED BY <1>8, <1>9

(* Only between records does a table lead to the start of one, or into a   *)
(* comment.                                                                *)
LEMMA QuietCells ==
  ASSUME NEW c, ValidDialect(c), NEW state \in InteriorStates, NEW b, b # NoByte
  PROVE  LET cell == Transition(c, state, b)
         IN  /\ cell.next \in Between => ~cell.out /\ state \in Between
             /\ cell.next = "Error" => state \notin Between
             /\ cell.next = "RecordStart" /\ state = "RecordStart" => b \in Terminators(c)
             /\ cell.next = "InComment" /\ state = "RecordStart" => c.comment # NoByte
             /\ state = "InComment" =>
                  cell.next = IF b \in CommentEnds(c) THEN "RecordStart" ELSE "InComment"
<1> DEFINE Good(cell) == cell.next \notin Between
<1> USE DEF InteriorStates, Between, Consume, Emit, Cell
<1>1. Good(FieldStartCell(c, b)) /\ FieldStartCell(c, b).next # "Error"
  BY DEF FieldStartCell
<1>2. Good(InFieldCell(c, b))
  BY DEF InFieldCell, MidFieldQuoteCell, ValidDialect, QuoteHandlings
<1>3. Good(InQuotedFieldCell(c, b))
  BY DEF InQuotedFieldCell
<1>4. Good(AfterClosingQuoteCell(c, b))
  BY DEF AfterClosingQuoteCell
<1>5. /\ InCommentCell(c, b).next = IF b \in CommentEnds(c) THEN "RecordStart" ELSE "InComment"
      /\ ~InCommentCell(c, b).out /\ InCommentCell(c, b).next # "Error"
  BY DEF InCommentCell
<1>6. LET cell == RecordStartCell(c, b)
      IN  /\ cell.next \in Between => ~cell.out
          /\ cell.next # "Error"
          /\ cell.next = "RecordStart" => b \in Terminators(c)
          /\ cell.next = "InComment" => c.comment # NoByte
  <2>1. CASE b \in Terminators(c)
    <3>1. b # c.comment
      BY <2>1 DEF ValidDialect
    <3>2. RecordStartCell(c, b) = Consume("RecordStart")
      BY <2>1, <3>1 DEF RecordStartCell
    <3> QED BY <2>1, <3>2
  <2>2. CASE b \notin Terminators(c) /\ b = c.comment
    <3>2. RecordStartCell(c, b) = Consume("InComment")
      BY <2>2 DEF RecordStartCell
    <3> QED BY <2>2, <3>2
  <2>3. CASE b \notin Terminators(c) /\ b # c.comment
    <3>2. RecordStartCell(c, b) = FieldStartCell(c, b)
      BY <2>3 DEF RecordStartCell
    <3> QED BY <1>1, <2>3, <3>2
  <2> QED BY <2>1, <2>2, <2>3
<1>7. QED
  BY <1>1, <1>2, <1>3, <1>4, <1>5, <1>6 DEF Transition

-----------------------------------------------------------------------------
(* One step of the two.  Either nothing is told apart, or a record or an   *)
(* empty line ends, and the one that has read everything is at rest.       *)
KeptAlike(c, g, g1, f1, a, before, b) ==
  /\ Shadows(g1, f1, a, before) /\ Clean(c, g1)
  /\ g1.last_record_end = g.last_record_end /\ g1.records = g.records
  /\ g1.state \in Between /\ ~g1.done =>
       /\ g.state \in Between
       /\ b \in Terminators(c) /\ (g.state = "InComment" => b \in CommentEnds(c)) => AtRest(f1)

Ended(c, r, g1, f1, a, before, i, b) ==
  /\ b \in Terminators(c) /\ AtRest(f1) /\ g1.last_record_end = i
  /\ f1.records = before \o Placed(g1.records, a)
  /\ g1.error = NoError /\ (g1.done <=> i >= r.limit)
  /\ ~g1.done => Shadows(g1, f1, a, before) /\ Clean(c, g1)

SameByte(c, r, w, a, i, b) ==
  /\ ValidDialect(c) /\ r.limit \in Int /\ w.limit \in Int /\ a + i < w.limit
  /\ b \in STRING /\ b # NoByte /\ ByteAt(r, i) = b /\ ByteAt(w, a + i) = b

ShadowsHere(c, g, f, a, before) == Shadows(g, f, a, before) /\ Clean(c, g) /\ ~g.done

LEMMA StepShadows ==
  ASSUME NEW c, NEW r, NEW w, NEW a \in Nat, NEW before, NEW i \in Nat, NEW b,
         SameByte(c, r, w, a, i, b), NEW g \in Steppers, NEW f \in Steppers,
         ShadowsHere(c, g, f, a, before)
  PROVE  LET g1 == StepByte(c, r, g, i)
             f1 == StepByte(c, w, f, a + i)
         IN  /\ g1 \in Steppers /\ f1 \in Steppers
             /\ \/ KeptAlike(c, g, g1, f1, a, before, b)
                \/ Ended(c, r, g1, f1, a, before, i, b)
<1> DEFINE k == a + i
           g1 == StepByte(c, r, g, i)
           f1 == StepByte(c, w, f, k)
           cell == Transition(c, g.state, b)
           gr == Reading(g, i, b, cell)
           fr == Reading(f, k, b, cell)
           gp == PushField(gr, i + 1)
           fp == PushField(fr, k + 1)
           ge == EmitRecord(c, gp, i)
           fe == EmitRecord(c, fp, k)
<1>1. /\ k \in Nat /\ k + 1 = (i + 1) + a /\ i + 1 \in Nat /\ k + 1 \in Nat
      /\ k = i + a
  OBVIOUS
<1>0. ValidDialect(c) /\ b \in STRING /\ b # NoByte
  BY DEF SameByte
<1>16. r.limit \in Int /\ w.limit \in Int /\ ~(k >= w.limit)
  <2>1. w.limit \in Int /\ k < w.limit /\ r.limit \in Int
    BY DEF SameByte
  <2> HIDE DEF k
  <2> QED BY <1>1, <2>1
<1>17. ByteAt(r, i) = b
  BY DEF SameByte
<1>20. ByteAt(w, k) = b
  BY DEF SameByte
<1>19. r.limit \in Int
  BY DEF SameByte
<1>21. w.limit \in Int
  BY DEF SameByte
<1>22. ~g.done
  BY DEF ShadowsHere
<1>18. Shadows(g, f, a, before) /\ Clean(c, g) /\ ~g.done /\ before \in Seq(Records)
  BY DEF ShadowsHere, Shadows
<1>2. /\ g.state = f.state /\ ~f.done /\ g.error = NoError /\ f.error = NoError
      /\ g.state \in InteriorStates /\ g.fields = f.fields /\ g.field = f.field
  BY <1>18, StepperTypes DEF Shadows, Clean
<1> DEFINE empty == g.state = "RecordStart" /\ b \in Terminators(c)
<1>3. /\ empty => g1 = IF i >= r.limit THEN StopAtBoundary(r, g, i) ELSE g
      /\ ~empty /\ cell.next \notin ActionStates => g1 = [gr EXCEPT !.state = cell.next]
      /\ ~empty /\ cell.next = "Error" => g1 = Stop(gr, Error("InvalidQuote", i))
      /\ ~empty /\ cell.next = "FieldEnd" => g1 = gp
      /\ ~empty /\ cell.next = "RecordEnd" => g1 = IF ge.done THEN ge ELSE StopAtBoundary(r, ge, i)
  <2>1. Stepped(c, r, g, i, b, g1)
    <3> HIDE DEF g1
    <3> QED BY <1>17, <1>22, StepIs DEF g1
  <2> HIDE DEF g1
  <2> QED BY <2>1 DEF Stepped
<1>4. /\ empty => f1 = f
      /\ ~empty /\ cell.next \notin ActionStates => f1 = [fr EXCEPT !.state = cell.next]
      /\ ~empty /\ cell.next = "Error" => f1 = Stop(fr, Error("InvalidQuote", k))
      /\ ~empty /\ cell.next = "FieldEnd" => f1 = fp
      /\ ~empty /\ cell.next = "RecordEnd" => f1 = IF fe.done THEN fe ELSE StopAtBoundary(w, fe, k)
  <2> HIDE DEF k
  <2>1. cell = Transition(c, f.state, b)
    BY <1>2
  <2> HIDE DEF cell
  <2>2. empty <=> f.state = "RecordStart" /\ b \in Terminators(c)
    BY <1>2
  <2> HIDE DEF empty
  <2>3. /\ empty => f1 = IF k >= w.limit THEN StopAtBoundary(w, f, k) ELSE f
        /\ ~empty /\ cell.next \notin ActionStates => f1 = [fr EXCEPT !.state = cell.next]
        /\ ~empty /\ cell.next = "Error" => f1 = Stop(fr, Error("InvalidQuote", k))
        /\ ~empty /\ cell.next = "FieldEnd" => f1 = fp
        /\ ~empty /\ cell.next = "RecordEnd" => f1 = IF fe.done THEN fe ELSE StopAtBoundary(w, fe, k)
    <3>1. ~f.done /\ k \in Nat
      BY <1>1, <1>2
    <3>2. Stepped(c, w, f, k, b, f1)
      <4> HIDE DEF f1
      <4> QED BY <1>20, <3>1, StepIs DEF f1
    <3> HIDE DEF f1
    <3>3. Stepped(c, w, f, k, b, f1)
          <=> /\ empty => f1 = IF k >= w.limit THEN StopAtBoundary(w, f, k) ELSE f
              /\ ~empty /\ cell.next \notin ActionStates => f1 = [fr EXCEPT !.state = cell.next]
              /\ ~empty /\ cell.next = "Error" => f1 = Stop(fr, Error("InvalidQuote", k))
              /\ ~empty /\ cell.next = "FieldEnd" => f1 = fp
              /\ ~empty /\ cell.next = "RecordEnd" =>
                   f1 = IF fe.done THEN fe ELSE StopAtBoundary(w, fe, k)
      BY <1>2, Zenon DEF Stepped, cell, empty
    <3> QED BY <3>2, <3>3
  <2>4. f1 = f1 /\ ~(k >= w.limit)
    BY <1>16
  <2> HIDE DEF f1, fr, fp, fe
  <2> QED BY <2>3, <2>4
<1>5. /\ cell.next \in InteriorStates \cup ActionStates
      /\ cell.next = "RecordEnd" => b \in Terminators(c)
  BY <1>0, <1>2, CellsAre
<1>6. /\ cell.next \in Between => ~cell.out /\ g.state \in Between
      /\ cell.next = "Error" => g.state \notin Between
      /\ cell.next = "RecordStart" /\ g.state = "RecordStart" => b \in Terminators(c)
      /\ cell.next = "InComment" /\ g.state = "RecordStart" => c.comment # NoByte
      /\ g.state = "InComment" =>
           cell.next = IF b \in CommentEnds(c) THEN "RecordStart" ELSE "InComment"
  BY <1>0, <1>2, QuietCells
<1> HIDE DEF cell
<1>7. /\ gr \in Steppers /\ fr \in Steppers /\ Alike(gr, fr, a, before)
      /\ gr.last_record_end = g.last_record_end /\ gr.records = g.records
      /\ gr.state = g.state /\ gr.fields = g.fields
      /\ (~cell.out => gr.field = g.field)
  <2>1. /\ gr \in Steppers /\ gr.state = g.state /\ gr.fields = g.fields /\ gr.records = g.records
        /\ gr.last_record_end = g.last_record_end
        /\ gr.field = (IF cell.out THEN Append(g.field, b) ELSE g.field)
    BY <1>0, ReadingIs
  <2>2. fr \in Steppers
    <3> HIDE DEF k
    <3> QED BY <1>0, <1>1, ReadingIs
  <2>3. Alike(gr, fr, a, before)
    BY <1>0, <1>2, <1>18, ReadAlike
  <2> HIDE DEF gr, fr
  <2> QED BY <2>1, <2>2, <2>3
<1> HIDE DEF k, g1, f1, gr, fr
<1>8. CASE g.state = "RecordStart" /\ b \in Terminators(c)
  <2>1. AtRest(f) /\ f1 = f
    BY <1>2, <1>4, <1>8, <1>18 DEF AtRest, Clean, Between
  <2>2. CASE i >= r.limit
    <3>1. g1 = StopAtBoundary(r, g, i)
      BY <1>3, <1>8, <2>2
    <3>2. /\ g1 \in Steppers /\ g1.last_record_end = i /\ (g1.done <=> i >= r.limit)
          /\ g1.records = g.records /\ g1.error = g.error
      <4>1. AtBoundary(r, g, i, g1)
        BY <1>19, <3>1, BoundaryIs
      <4> QED BY <4>1 DEF AtBoundary
    <3>3. f1.records = before \o Placed(g1.records, a)
      BY <1>18, <2>1, <3>2 DEF Shadows
    <3>4. Ended(c, r, g1, f1, a, before, i, b)
      BY <1>2, <1>8, <2>1, <2>2, <3>2, <3>3 DEF Ended
    <3> QED BY <2>1, <3>2, <3>4 DEF g1, f1, k
  <2>3. CASE ~(i >= r.limit)
    <3>1. g1 = g
      BY <1>3, <1>8, <2>3
    <3>2. KeptAlike(c, g, g1, f1, a, before, b)
      BY <1>8, <1>18, <2>1, <3>1 DEF KeptAlike, Between
    <3> QED BY <2>1, <3>1, <3>2 DEF g1, f1, k
  <2> QED BY <2>2, <2>3
<1>9. CASE ~(g.state = "RecordStart" /\ b \in Terminators(c)) /\ cell.next \notin ActionStates
  <2>1. g1 = [gr EXCEPT !.state = cell.next] /\ f1 = [fr EXCEPT !.state = cell.next]
        /\ cell.next \in InteriorStates
    BY <1>3, <1>4, <1>5, <1>9
  <2>2. /\ g1 \in Steppers /\ g1.state = cell.next /\ g1.fields = gr.fields
        /\ g1.field = gr.field /\ g1.record_in_start = gr.record_in_start
        /\ g1.field_in_start = gr.field_in_start /\ g1.records = gr.records
        /\ g1.last_record_end = gr.last_record_end /\ g1.error = gr.error /\ g1.done = gr.done
    BY <1>7, <2>1 DEF Steppers
  <2>3. /\ f1 \in Steppers /\ f1.state = cell.next /\ f1.fields = fr.fields
        /\ f1.field = fr.field /\ f1.record_in_start = fr.record_in_start
        /\ f1.field_in_start = fr.field_in_start /\ f1.records = fr.records
        /\ f1.error = fr.error /\ f1.done = fr.done
    BY <1>7, <2>1 DEF Steppers
  <2>4. /\ gr.fields = fr.fields /\ gr.field = fr.field
        /\ ~gr.done /\ ~fr.done /\ gr.error = NoError /\ fr.error = NoError
        /\ fr.record_in_start = gr.record_in_start + a
        /\ fr.field_in_start = gr.field_in_start + a
        /\ fr.records = before \o Placed(gr.records, a)
    BY <1>7 DEF Alike
  <2>5. Shadows(g1, f1, a, before)
    <3>1. SameError(g1.error, f1.error, a)
      BY <2>2, <2>3, <2>4 DEF SameError
    <3>2. f1.records = before \o Placed(g1.records, a)
      BY <2>2, <2>3, <2>4
    <3>3. f1.record_in_start = g1.record_in_start + a /\ f1.field_in_start = g1.field_in_start + a
      BY <2>2, <2>3, <2>4
    <3>4. ~f1.done /\ ~g1.done /\ f1.error = NoError
      BY <2>2, <2>3, <2>4
    <3>5. g1.state = f1.state /\ g1.fields = f1.fields /\ g1.field = f1.field
      BY <2>2, <2>3, <2>4
    <3> QED BY <1>18, <3>1, <3>2, <3>3, <3>4, <3>5 DEF Shadows
  <2>6. Clean(c, g1)
    <3>1. g1.state \in Between => g1.fields = <<>> /\ g1.field = <<>>
      BY <1>6, <1>7, <1>18, <2>2 DEF Clean
    <3>2. g1.state = "InComment" => c.comment # NoByte
      BY <1>6, <1>18, <2>2 DEF Clean, Between
    <3> QED BY <2>2, <2>4, <3>1, <3>2 DEF Clean
  <2>7. ASSUME g1.state \in Between, b \in Terminators(c),
               g.state = "InComment" => b \in CommentEnds(c)
        PROVE  AtRest(f1)
    <3>1. g.state = "InComment"
      BY <1>6, <1>9, <2>2, <2>7 DEF Between
    <3>2. f1.state = "RecordStart"
      BY <1>6, <2>3, <2>7, <3>1
    <3>3. g1.fields = <<>> /\ g1.field = <<>>
      BY <2>6, <2>7 DEF Clean
    <3> QED BY <2>2, <2>3, <2>4, <3>2, <3>3 DEF AtRest
  <2>8. KeptAlike(c, g, g1, f1, a, before, b)
    BY <1>6, <1>7, <2>2, <2>5, <2>6, <2>7 DEF KeptAlike
  <2> QED BY <2>2, <2>3, <2>8 DEF g1, f1, k
<1>10. CASE ~(g.state = "RecordStart" /\ b \in Terminators(c)) /\ cell.next = "Error"
  <2> DEFINE e == Error("InvalidQuote", i)
             d == Error("InvalidQuote", k)
  <2>1. g1 = Stop(gr, e) /\ f1 = Stop(fr, d)
    BY <1>3, <1>4, <1>10
  <2>2. e \in Errors /\ d \in Errors /\ e # NoError /\ SameError(e, d, a)
    <3>1. e \in Errors /\ d \in Errors
      BY <1>1, ErrorsAre DEF Kinds
    <3>2. e # NoError /\ e.at \in Nat /\ d = [e EXCEPT !.at = @ + a]
      BY <1>1 DEF Error, NoError
    <3> QED BY <3>1, <3>2 DEF SameError
  <2>3. gr.state \notin Between
    BY <1>6, <1>7, <1>10
  <2> HIDE DEF e, d
  <2>4. Shadows(Stop(gr, e), Stop(fr, d), a, before)
    BY <1>7, <2>2, <2>3, StopAlike
  <2>5. Clean(c, Stop(gr, e))
    BY <1>7, <2>2, <2>3, StopAlike
  <2>6. g1 \in Steppers /\ g1.last_record_end = gr.last_record_end /\ g1.records = gr.records
        /\ g1.done
    BY <1>7, <2>1, <2>2, StopIs
  <2>7. f1 \in Steppers
    BY <1>7, <2>1, <2>2, StopIs
  <2>8. KeptAlike(c, g, g1, f1, a, before, b)
    BY <1>7, <2>1, <2>4, <2>5, <2>6 DEF KeptAlike
  <2> QED BY <2>6, <2>7, <2>8 DEF g1, f1, k
<1>11. /\ gp \in Steppers /\ fp \in Steppers /\ Alike(gp, fp, a, before)
       /\ gp.field = <<>> /\ gp.state = "FieldStart"
       /\ gp.last_record_end = gr.last_record_end /\ gp.records = gr.records
  <2>1. /\ gp \in Steppers /\ gp.field = <<>> /\ gp.state = "FieldStart"
        /\ gp.last_record_end = gr.last_record_end /\ gp.records = gr.records
    BY <1>1, <1>7, PushIs
  <2>2. fp \in Steppers
    BY <1>1, <1>7, PushIs
  <2>3. Alike(gp, fp, a, before)
    BY <1>1, <1>7, PushAlike
  <2> QED BY <2>1, <2>2, <2>3
<1>12. gp.state \notin Between
  BY <1>11 DEF Between
<1> HIDE DEF gp, fp
<1>13. CASE ~(g.state = "RecordStart" /\ b \in Terminators(c)) /\ cell.next = "FieldEnd"
  <2>1. g1 = gp /\ f1 = fp
    BY <1>3, <1>4, <1>13
  <2>2. Shadows(gp, fp, a, before) /\ ~gp.done
    <3>1. SameError(gp.error, fp.error, a) /\ ~gp.done
      BY <1>11 DEF Alike, SameError
    <3> QED BY <1>11, <3>1 DEF Alike, Shadows
  <2>3. Clean(c, gp)
    BY <1>11, <1>12 DEF Alike, Clean, Between
  <2>4. KeptAlike(c, g, g1, f1, a, before, b)
    BY <1>7, <1>11, <1>12, <2>1, <2>2, <2>3 DEF KeptAlike
  <2> QED BY <1>11, <2>1, <2>4 DEF g1, f1, k
<1>14. CASE ~(g.state = "RecordStart" /\ b \in Terminators(c)) /\ cell.next = "RecordEnd"
  <2>1. g1 = (IF ge.done THEN ge ELSE StopAtBoundary(r, ge, i))
        /\ f1 = (IF fe.done THEN fe ELSE StopAtBoundary(w, fe, k))
    BY <1>3, <1>4, <1>14
  <2>2. /\ ge \in Steppers /\ fe \in Steppers
        /\ ge.done => /\ Shadows(ge, fe, a, before) /\ Clean(c, ge)
                      /\ ge.last_record_end = gp.last_record_end /\ ge.records = gp.records
        /\ ~ge.done =>
             /\ ge.error = NoError /\ fe.error = NoError /\ ~fe.done
             /\ ge.state = "RecordStart" /\ fe.state = "RecordStart"
             /\ ge.fields = <<>> /\ fe.fields = <<>> /\ ge.field = gp.field
             /\ fe.field = gp.field /\ ge.last_record_end = i
             /\ fe.records = before \o Placed(ge.records, a)
    <3>1. k \in Nat /\ gp \in Steppers /\ fp \in Steppers
      BY <1>1, <1>11
    <3>2. Alike(gp, fp, a, before)
      BY <1>11
    <3> HIDE DEF k, ge, fe
    <3>3. EmittedAlike(c, gp, a, before, i, ge, fe)
      BY <1>12, <3>1, <3>2, EmitAlike DEF ge, fe
    <3> QED BY <3>3 DEF EmittedAlike
  <2> HIDE DEF ge, fe
  <2>3. CASE ge.done
    <3>1. g1 = ge /\ f1 = fe
      BY <2>1, <2>2, <2>3 DEF Shadows
    <3>2. KeptAlike(c, g, g1, f1, a, before, b)
      BY <1>7, <1>11, <2>2, <2>3, <3>1 DEF KeptAlike
    <3> QED BY <2>2, <3>1, <3>2 DEF g1, f1, k
  <2>4. CASE ~ge.done
    <3>1. g1 = StopAtBoundary(r, ge, i) /\ f1 = StopAtBoundary(w, fe, k)
      BY <2>1, <2>2, <2>4
    <3>2. /\ g1 \in Steppers /\ g1.last_record_end = i /\ (g1.done <=> i >= r.limit)
          /\ g1.state = ge.state /\ g1.fields = ge.fields /\ g1.field = ge.field
          /\ g1.records = ge.records /\ g1.error = ge.error
      <4>1. ge \in Steppers
        BY <2>2
      <4>2. AtBoundary(r, ge, i, g1)
        <5>1. g1 = StopAtBoundary(r, ge, i)
          BY <3>1
        <5> QED BY <1>19, <4>1, <5>1, BoundaryIs
      <4> QED BY <4>2 DEF AtBoundary
    <3>3. /\ f1 \in Steppers /\ ~f1.done
          /\ f1.state = fe.state /\ f1.fields = fe.fields /\ f1.field = fe.field
          /\ f1.records = fe.records /\ f1.error = fe.error
      <4>1. /\ f1 \in Steppers /\ (f1.done <=> k >= w.limit)
            /\ f1.state = fe.state /\ f1.fields = fe.fields /\ f1.field = fe.field
            /\ f1.records = fe.records /\ f1.error = fe.error
        <5>1. fe \in Steppers /\ k \in Nat
          BY <1>1, <2>2
        <5>2. f1 = StopAtBoundary(w, fe, k)
          BY <3>1
        <5>3. AtBoundary(w, fe, k, f1)
          BY <1>21, <5>1, <5>2, BoundaryIs
        <5> QED BY <5>3 DEF AtBoundary
      <4> QED BY <1>16, <4>1
    <3>4. AtRest(f1) /\ f1.records = before \o Placed(g1.records, a)
      BY <1>11, <2>2, <2>4, <3>2, <3>3 DEF AtRest
    <3>5. ASSUME ~g1.done  PROVE Shadows(g1, f1, a, before) /\ Clean(c, g1)
      <4>1. g1.state = f1.state /\ g1.fields = f1.fields /\ g1.field = f1.field
            /\ g1.error = NoError /\ f1.error = NoError /\ g1.state = "RecordStart"
            /\ g1.fields = <<>> /\ g1.field = <<>>
        BY <1>11, <2>2, <2>4, <3>2, <3>3
      <4>2. SameError(g1.error, f1.error, a)
        BY <4>1 DEF SameError
      <4> QED BY <1>18, <3>3, <3>4, <3>5, <4>1, <4>2 DEF Shadows, Clean, Between
    <3>6. Ended(c, r, g1, f1, a, before, i, b)
      BY <1>5, <1>14, <2>2, <2>4, <3>2, <3>4, <3>5 DEF Ended
    <3> QED BY <3>2, <3>3, <3>6 DEF g1, f1, k
  <2> QED BY <2>3, <2>4
<1>15. QED
  BY <1>5, <1>8, <1>9, <1>10, <1>13, <1>14 DEF ActionStates

-----------------------------------------------------------------------------
(* A step keeps the type, and what the callback has accepted.              *)
Extends(before, after) ==
  Len(before) <= Len(after) /\ \A k \in 1..Len(before) : after[k] = before[k]

LEMMA ExtendsItself ==
  ASSUME NEW S, NEW a \in Seq(S)
  PROVE  /\ Extends(a, a)
         /\ \A x \in S : Extends(a, Append(a, x))
         /\ \A b \in Seq(S), c \in Seq(S) : Extends(a, b) /\ Extends(b, c) => Extends(a, c)
<1>1. Len(a) \in Nat
  OBVIOUS
<1>2. Extends(a, a)
  BY <1>1 DEF Extends
<1>3. ASSUME NEW x \in S  PROVE Extends(a, Append(a, x))
  <2>1. Len(Append(a, x)) = Len(a) + 1 /\ \A k \in 1..Len(a) : Append(a, x)[k] = a[k]
    BY AppendProperties
  <2> QED BY <1>1, <2>1 DEF Extends
<1>4. ASSUME NEW b \in Seq(S), NEW c \in Seq(S), Extends(a, b), Extends(b, c)
      PROVE  Extends(a, c)
  <2>1. Len(b) \in Nat /\ Len(c) \in Nat
    OBVIOUS
  <2>2. Len(a) <= Len(c) /\ \A k \in 1..Len(a) : k \in 1..Len(b)
    BY <1>1, <1>4, <2>1 DEF Extends
  <2> QED BY <1>4, <2>2 DEF Extends
<1> QED BY <1>2, <1>3, <1>4

LEMMA PrefixIs ==
  ASSUME NEW S, NEW s \in Seq(S), NEW t \in Seq(S), Extends(s, t)
  PROVE  IsPrefix(s, t)
<1> DEFINE n == Len(s)
           p == SubSeq(s, 1, n)
           q == SubSeq(t, 1, n)
<1>1. n \in Nat /\ Len(t) \in Nat /\ n <= Len(t) /\ \A k \in 1..n : t[k] = s[k]
  BY DEF Extends
<1>2. /\ p \in Seq(S) /\ Len(p) = n /\ \A k \in 1..n : p[k] = s[k]
  <2>1. 0 + 1 = 1 /\ n - 0 = n /\ \A k \in 1..n : 0 + k = k
    BY <1>1
  <2>2. /\ SubSeq(s, 0 + 1, n) \in Seq(S) /\ Len(SubSeq(s, 0 + 1, n)) = n - 0
        /\ \A k \in 1..(n - 0) : SubSeq(s, 0 + 1, n)[k] = s[0 + k]
    <3>1. 0 \in Nat /\ n \in Nat /\ 0 <= n /\ n <= Len(s)
      BY <1>1
    <3> HIDE DEF n
    <3> QED BY <3>1, Slice
  <2> QED BY <2>1, <2>2
<1>3. /\ q \in Seq(S) /\ Len(q) = n /\ \A k \in 1..n : q[k] = t[k]
  <2>1. 0 + 1 = 1 /\ n - 0 = n /\ \A k \in 1..n : 0 + k = k
    BY <1>1
  <2>2. /\ SubSeq(t, 0 + 1, n) \in Seq(S) /\ Len(SubSeq(t, 0 + 1, n)) = n - 0
        /\ \A k \in 1..(n - 0) : SubSeq(t, 0 + 1, n)[k] = t[0 + k]
    <3>1. 0 \in Nat /\ n \in Nat /\ 0 <= n /\ n <= Len(t)
      BY <1>1
    <3> HIDE DEF n
    <3> QED BY <3>1, Slice
  <2> QED BY <2>1, <2>2
<1> HIDE DEF n, p, q
<1>4. p = q
  BY <1>1, <1>2, <1>3, SeqEqual
<1> QED BY <1>1, <1>4 DEF IsPrefix, n, p, q

StepTyped(s, i, t) ==
  /\ t \in Steppers /\ t.last_record_end \in {s.last_record_end, i}
  /\ Extends(s.records, t.records)

LEMMA SameRecords ==
  ASSUME NEW s \in Steppers, NEW i, NEW t \in Steppers,
         t.records = s.records, t.last_record_end \in {s.last_record_end, i}
  PROVE  StepTyped(s, i, t)
<1>1. s.records \in Seq(Records)
  BY StepperTypes
<1> QED BY <1>1, ExtendsItself DEF StepTyped

LEMMA EmitTyped ==
  ASSUME NEW c, NEW s \in Steppers, NEW i \in Nat
  PROVE  StepTyped(s, i, EmitRecord(c, s, i))
<1> DEFINE t == EmitRecord(c, s, i)
           record == [at |-> s.record_in_start, fields |-> s.fields]
<1>1. /\ ErrorOf(c, s) \in Errors /\ record \in Records
      /\ ErrorOf(c, s) # NoError => t = Stop(s, ErrorOf(c, s))
      /\ ErrorOf(c, s) = NoError =>
           t \in Steppers /\ t.records = Append(s.records, record) /\ t.last_record_end = i
  BY EmitIs
<1>2. s.records \in Seq(Records)
  BY StepperTypes
<1> HIDE DEF t, record
<1>3. CASE ErrorOf(c, s) # NoError
  <2>1. t = Stop(s, ErrorOf(c, s)) /\ ErrorOf(c, s) \in Errors
    BY <1>1, <1>3
  <2>2. t \in Steppers /\ t.records = s.records /\ t.last_record_end = s.last_record_end
    BY <2>1, StopIs
  <2> QED BY <2>2, SameRecords DEF t
<1>4. CASE ErrorOf(c, s) = NoError
  <2>1. Extends(s.records, t.records)
    <3>1. record \in Records
      BY <1>1
    <3>2. Extends(s.records, Append(s.records, record))
      BY <1>2, <3>1, ExtendsItself
    <3> QED BY <1>1, <1>4, <3>2
  <2> QED BY <1>1, <1>4, <2>1 DEF StepTyped, t
<1> QED BY <1>3, <1>4

LEMMA StepTypes ==
  ASSUME NEW c, NEW r, NEW s \in Steppers, NEW i \in Nat, NEW b \in STRING
  PROVE  ValidDialect(c) /\ ByteAt(r, i) = b /\ r.limit \in Int =>
           StepTyped(s, i, StepByte(c, r, s, i))
<1> DEFINE t == StepByte(c, r, s, i)
           cell == Transition(c, s.state, b)
           read == Reading(s, i, b, cell)
           pushed == PushField(read, i + 1)
           emitted == EmitRecord(c, pushed, i)
           empty == s.state = "RecordStart" /\ b \in Terminators(c)
<1>1. SUFFICES ASSUME ValidDialect(c), ByteAt(r, i) = b, r.limit \in Int
               PROVE  StepTyped(s, i, t)
  OBVIOUS
<1>2. CASE s.done
  <2>1. t = s
    BY <1>2 DEF StepByte
  <2> HIDE DEF t
  <2> QED BY <2>1, SameRecords
<1>3. CASE ~s.done
  <2>1. Stepped(c, r, s, i, b, t)
    <3> HIDE DEF t
    <3> QED BY <1>1, <1>3, StepIs DEF t
  <2> HIDE DEF t
  <2>2. /\ empty => t = IF i >= r.limit THEN StopAtBoundary(r, s, i) ELSE s
        /\ ~empty /\ cell.next \notin ActionStates => t = [read EXCEPT !.state = cell.next]
        /\ ~empty /\ cell.next = "Error" => t = Stop(read, Error("InvalidQuote", i))
        /\ ~empty /\ cell.next = "FieldEnd" => t = pushed
        /\ ~empty /\ cell.next = "RecordEnd" =>
             t = IF emitted.done THEN emitted ELSE StopAtBoundary(r, emitted, i)
    BY <2>1 DEF Stepped
  <2>3. cell.next \in InteriorStates \cup ActionStates
    <3>1. s.state \in InteriorStates
      BY StepperTypes
    <3> QED BY <1>1, <3>1, CellsAre
  <2> HIDE DEF cell
  <2>4. read \in Steppers /\ read.records = s.records /\ read.last_record_end = s.last_record_end
    BY ReadingIs
  <2> HIDE DEF read, empty
  <2>5. /\ pushed \in Steppers /\ pushed.records = s.records
        /\ pushed.last_record_end = s.last_record_end
    <3>1. i + 1 \in Nat
      OBVIOUS
    <3> QED BY <2>4, <3>1, PushIs
  <2> HIDE DEF pushed
  <2>6. StepTyped(pushed, i, emitted)
    BY <2>5, EmitTyped
  <2> HIDE DEF emitted
  <2>7. CASE empty
    <3>1. CASE i >= r.limit
      <4>1. AtBoundary(r, s, i, t)
        <5>1. t = StopAtBoundary(r, s, i)
          BY <2>2, <2>7, <3>1
        <5> QED BY <1>1, <5>1, BoundaryIs
      <4>2. t \in Steppers /\ t.records = s.records /\ t.last_record_end = i
        BY <4>1 DEF AtBoundary
      <4> QED BY <4>2, SameRecords
    <3>2. CASE ~(i >= r.limit)
      <4>1. t = s
        BY <2>2, <2>7, <3>2
      <4> QED BY <4>1, SameRecords
    <3> QED BY <3>1, <3>2
  <2>8. CASE ~empty /\ cell.next \notin ActionStates
    <3>1. t = [read EXCEPT !.state = cell.next] /\ cell.next \in InteriorStates
      BY <2>2, <2>3, <2>8
    <3>2. t \in Steppers /\ t.records = read.records /\ t.last_record_end = read.last_record_end
      BY <2>4, <3>1 DEF Steppers
    <3> QED BY <2>4, <3>2, SameRecords
  <2>9. CASE ~empty /\ cell.next = "Error"
    <3> DEFINE e == Error("InvalidQuote", i)
    <3>1. e \in Errors
      BY ErrorsAre DEF Kinds
    <3>2. t = Stop(read, e)
      BY <2>2, <2>9
    <3> HIDE DEF e
    <3>3. t \in Steppers /\ t.records = read.records /\ t.last_record_end = read.last_record_end
      BY <2>4, <3>1, <3>2, StopIs
    <3> QED BY <2>4, <3>3, SameRecords
  <2>10. CASE ~empty /\ cell.next = "FieldEnd"
    <3>1. t = pushed
      BY <2>2, <2>10
    <3> QED BY <2>5, <3>1, SameRecords
  <2>11. CASE ~empty /\ cell.next = "RecordEnd"
    <3>1. CASE emitted.done
      <4>1. t = emitted
        BY <2>2, <2>11, <3>1
      <4> QED BY <2>5, <2>6, <4>1 DEF StepTyped
    <3>2. CASE ~emitted.done
      <4>1. t = StopAtBoundary(r, emitted, i)
        BY <2>2, <2>11, <3>2
      <4>2. emitted \in Steppers
        BY <2>6 DEF StepTyped
      <4>3. AtBoundary(r, emitted, i, t)
        BY <1>1, <4>1, <4>2, BoundaryIs
      <4> QED BY <2>5, <2>6, <4>3 DEF StepTyped, AtBoundary
    <3> QED BY <3>1, <3>2
  <2> QED BY <2>3, <2>7, <2>8, <2>9, <2>10, <2>11 DEF ActionStates
<1> QED BY <1>2, <1>3

-----------------------------------------------------------------------------
(* What a pass may read.                                                   *)
GoodReader(c, r) ==
  /\ ValidDialect(c) /\ r.bytes \in Seq(STRING) /\ r.limit \in Nat /\ r.bad \in Offsets
  /\ \A i \in 1..Len(r.bytes) : r.bytes[i] # NoByte

LEMMA MinIs ==
  ASSUME NEW S \in SUBSET Nat, NEW m \in S, \A x \in S : m <= x
  PROVE  Min(S) = m
<1> DEFINE least == Min(S)
<1>1. least \in S /\ \A y \in S : least <= y
  BY DEF Min
<1> HIDE DEF least
<1>2. least <= m /\ m <= least /\ least \in Nat /\ m \in Nat
  BY <1>1
<1>3. least = m
  BY <1>2
<1> QED BY <1>3 DEF least

LEMMA MinOfTwo ==
  ASSUME NEW a \in Nat, NEW b \in Nat
  PROVE  Min({a, b}) = IF a <= b THEN a ELSE b
<1> DEFINE S == {a, b}
           m == IF a <= b THEN a ELSE b
<1>1. S \in SUBSET Nat /\ m \in S /\ \A x \in S : m <= x
  OBVIOUS
<1> HIDE DEF S, m
<1>2. Min(S) = m
  BY <1>1, MinIs
<1> QED BY <1>2 DEF S, m

LEMMA ReaderIs ==
  ASSUME NEW c, NEW r, GoodReader(c, r)
  PROVE  /\ ReadableEnd(r) \in Nat /\ EofOf(r) \in Nat /\ ReadableEnd(r) <= EofOf(r)
         /\ ReadableEnd(r) = (IF r.bad \in Nat /\ r.bad <= EofOf(r) THEN r.bad ELSE EofOf(r))
         /\ EofOf(r) = Len(r.bytes)
         /\ \A i \in 0..(ReadableEnd(r) - 1) : ByteAt(r, i) \in STRING /\ ByteAt(r, i) # NoByte
<1>1. Len(r.bytes) \in Nat /\ r.bad \in Offsets /\ EofOf(r) = Len(r.bytes)
  BY DEF GoodReader, EofOf
<1>2. ReadableEnd(r) = (IF r.bad \in Nat /\ r.bad <= EofOf(r) THEN r.bad ELSE EofOf(r))
  <2>1. CASE r.bad = NoOffset
    <3>1. r.bad \notin Nat
      BY <2>1, ErrorsAre
    <3> QED BY <2>1, <3>1 DEF ReadableEnd
  <2>2. CASE r.bad # NoOffset
    <3>1. r.bad \in Nat /\ EofOf(r) \in Nat
      BY <1>1, <2>2 DEF Offsets
    <3>2. Min({r.bad, EofOf(r)}) = IF r.bad <= EofOf(r) THEN r.bad ELSE EofOf(r)
      BY <3>1, MinOfTwo
    <3> QED BY <2>2, <3>1, <3>2 DEF ReadableEnd
  <2> QED BY <2>1, <2>2
<1>3. ReadableEnd(r) \in Nat /\ EofOf(r) \in Nat /\ ReadableEnd(r) <= EofOf(r)
  BY <1>1, <1>2
<1>4. ASSUME NEW i \in 0..(ReadableEnd(r) - 1)
      PROVE  ByteAt(r, i) \in STRING /\ ByteAt(r, i) # NoByte
  <2>1. i + 1 \in 1..Len(r.bytes)
    BY <1>1, <1>3
  <2> QED BY <2>1 DEF GoodReader, ByteAt
<1> QED BY <1>1, <1>2, <1>3, <1>4

-----------------------------------------------------------------------------
(* A parse, from its first byte.                                           *)
RunsFrom(f, c, r, from, n) ==
  f[from] = NewStepper(from) /\ StepsByTheBytes(f, c, r, from, n)

LEMMA RunTypes ==
  ASSUME NEW c, NEW r, GoodReader(c, r), NEW from \in Nat, NEW n \in Nat, from <= n,
         n <= ReadableEnd(r), NEW f, RunsFrom(f, c, r, from, n)
  PROVE  \A k \in from..n : f[k] \in Steppers
<1> DEFINE T == {k \in from..n : f[k] \notin Steppers}
<1>1. T \in SUBSET Nat
  OBVIOUS
<1>2. ASSUME NEW x \in T, \A y \in T : x <= y  PROVE FALSE
  <2>1. x \in Nat /\ x \in from..n /\ f[x] \notin Steppers
    BY <1>1, <1>2
  <2>2. CASE x = from
    <3>1. f[x] = NewStepper(from)
      BY <2>2 DEF RunsFrom
    <3> QED BY <2>1, <3>1, StartIs
  <2>3. CASE x # from
    <3> DEFINE i == x - 1
               b == ByteAt(r, i)
    <3>1. /\ i \in from..n /\ ~(x <= i) /\ x \in (from + 1)..n /\ i \in Nat
          /\ i \in 0..(ReadableEnd(r) - 1)
      <4>1. ReadableEnd(r) \in Nat
        BY ReaderIs
      <4> QED BY <2>1, <2>3, <4>1
    <3>2. f[i] \in Steppers
      BY <1>2, <3>1
    <3>3. f[x] = StepByte(c, r, f[i], i)
      BY <3>1 DEF RunsFrom, StepsByTheBytes
    <3>4. b \in STRING
      BY <3>1, ReaderIs
    <3>5. ValidDialect(c) /\ r.limit \in Int
      BY DEF GoodReader
    <3> HIDE DEF i, b
    <3>6. ByteAt(r, i) = b
      BY DEF b
    <3>7. StepTyped(f[i], i, StepByte(c, r, f[i], i))
      BY <3>1, <3>2, <3>4, <3>5, <3>6, StepTypes
    <3> QED BY <2>1, <3>3, <3>7 DEF StepTyped
  <2> QED BY <2>2, <2>3
<1>3. T = {}
  <2> HIDE DEF T
  <2> QED BY <1>1, <1>2, LeastElement
<1> QED BY <1>3

(* One step of a run.                                                      *)
LEMMA RunStep ==
  ASSUME NEW c, NEW r, GoodReader(c, r), NEW from \in Nat, NEW n \in Nat, from <= n,
         n <= ReadableEnd(r), NEW f, RunsFrom(f, c, r, from, n),
         NEW x \in from..n, x # from
  PROVE  /\ x - 1 \in from..n /\ x - 1 \in Nat /\ x \in Nat /\ ~(x <= x - 1)
         /\ x - 1 < ReadableEnd(r)
         /\ f[x] = StepByte(c, r, f[x - 1], x - 1) /\ f[x] \in Steppers /\ f[x - 1] \in Steppers
         /\ StepTyped(f[x - 1], x - 1, f[x])
         /\ ByteAt(r, x - 1) \in STRING /\ ByteAt(r, x - 1) # NoByte
<1> DEFINE i == x - 1
           b == ByteAt(r, i)
<1>1. /\ i \in from..n /\ ~(x <= i) /\ x \in (from + 1)..n /\ i \in Nat /\ x \in Nat
      /\ i \in 0..(ReadableEnd(r) - 1) /\ i < ReadableEnd(r)
  <2>1. ReadableEnd(r) \in Nat
    BY ReaderIs
  <2> QED BY <2>1
<1>2. f[i] \in Steppers /\ f[x] \in Steppers
  BY <1>1, RunTypes
<1>3. f[x] = StepByte(c, r, f[i], i)
  BY <1>1 DEF RunsFrom, StepsByTheBytes
<1>4. b \in STRING /\ b # NoByte
  BY <1>1, ReaderIs
<1>5. ValidDialect(c) /\ r.limit \in Int
  BY DEF GoodReader
<1> HIDE DEF i, b
<1>6. ByteAt(r, i) = b
  BY DEF b
<1>7. StepTyped(f[i], i, StepByte(c, r, f[i], i))
  BY <1>1, <1>2, <1>4, <1>5, <1>6, StepTypes
<1>8. StepTyped(f[i], i, f[x])
  BY <1>3, <1>7
<1> QED BY <1>1, <1>2, <1>3, <1>4, <1>6, <1>8 DEF i

(* Where its records end, and that they stay.                              *)
LEMMA RunEnds ==
  ASSUME NEW c, NEW r, GoodReader(c, r), NEW from \in Nat, NEW n \in Nat, from <= n,
         n <= ReadableEnd(r), NEW f, RunsFrom(f, c, r, from, n)
  PROVE  \A k \in from..n : f[k].last_record_end \in {NoOffset} \cup (from..(k - 1))
<1> DEFINE T == {k \in from..n : f[k].last_record_end \notin {NoOffset} \cup (from..(k - 1))}
<1>1. T \in SUBSET Nat
  OBVIOUS
<1>2. ASSUME NEW x \in T, \A y \in T : x <= y  PROVE FALSE
  <2>1. x \in Nat /\ x \in from..n /\ f[x].last_record_end \notin {NoOffset} \cup (from..(x - 1))
    BY <1>1, <1>2
  <2>2. CASE x = from
    <3>1. f[x] = NewStepper(from)
      BY <2>2 DEF RunsFrom
    <3> QED BY <2>1, <3>1, StartIs
  <2>3. CASE x # from
    <3>1. x - 1 \in from..n /\ ~(x <= x - 1) /\ StepTyped(f[x - 1], x - 1, f[x])
      BY <2>1, <2>3, RunStep
    <3>2. f[x - 1].last_record_end \in {NoOffset} \cup (from..((x - 1) - 1))
      BY <1>2, <3>1
    <3>3. f[x].last_record_end \in {f[x - 1].last_record_end, x - 1}
      BY <3>1 DEF StepTyped
    <3>4. (from..((x - 1) - 1)) \subseteq (from..(x - 1)) /\ x - 1 \in from..(x - 1)
      BY <2>1, <3>1
    <3> QED BY <2>1, <3>2, <3>3, <3>4
  <2> QED BY <2>2, <2>3
<1>3. T = {}
  <2> HIDE DEF T
  <2> QED BY <1>1, <1>2, LeastElement
<1> QED BY <1>3

LEMMA RecordsStay ==
  ASSUME NEW c, NEW r, GoodReader(c, r), NEW from \in Nat, NEW n \in Nat, from <= n,
         n <= ReadableEnd(r), NEW f, RunsFrom(f, c, r, from, n), NEW i \in from..n
  PROVE  \A j \in i..n : Extends(f[i].records, f[j].records)
<1> DEFINE T == {j \in i..n : ~Extends(f[i].records, f[j].records)}
<1>1. i \in Nat /\ T \in SUBSET Nat
  OBVIOUS
<1>2. \A j \in from..n : f[j] \in Steppers /\ f[j].records \in Seq(Records)
  <2>1. \A j \in from..n : f[j] \in Steppers
    BY RunTypes
  <2> QED BY <2>1, StepperTypes
<1>3. ASSUME NEW x \in T, \A y \in T : x <= y  PROVE FALSE
  <2>1. x \in Nat /\ x \in i..n /\ x \in from..n /\ ~Extends(f[i].records, f[x].records)
    BY <1>1, <1>3
  <2>2. CASE x = i
    BY <1>2, <2>1, <2>2, ExtendsItself
  <2>3. CASE x # i
    <3>0. x # from
      BY <1>1, <2>1, <2>3
    <3>1. x - 1 \in from..n /\ ~(x <= x - 1) /\ StepTyped(f[x - 1], x - 1, f[x])
      BY <2>1, <3>0, RunStep
    <3>2. x - 1 \in i..n
      BY <1>1, <2>1, <2>3
    <3>3. Extends(f[i].records, f[x - 1].records)
      BY <1>3, <3>1, <3>2
    <3>4. Extends(f[x - 1].records, f[x].records)
      BY <3>1 DEF StepTyped
    <3>5. f[i].records \in Seq(Records) /\ f[x - 1].records \in Seq(Records)
          /\ f[x].records \in Seq(Records)
      BY <1>2, <2>1, <3>1
    <3>6. Extends(f[i].records, f[x].records)
      BY <3>3, <3>4, <3>5, ExtendsItself
    <3> QED BY <2>1, <3>6
  <2> QED BY <2>2, <2>3
<1>4. T = {}
  <2> HIDE DEF T
  <2> QED BY <1>1, <1>3, LeastElement
<1> QED BY <1>4

-----------------------------------------------------------------------------
(* A pass over a part of the file, next to one over the whole of it: r is  *)
(* what w is from a on.                                                    *)
PartOf(c, r, w, a) ==
  /\ GoodReader(c, r) /\ GoodReader(c, w) /\ a \in Nat
  /\ EofOf(w) = a + EofOf(r) /\ ReadableEnd(w) = a + ReadableEnd(r)
  /\ ReadableEnd(r) = r.bad <=> ReadableEnd(w) = w.bad
  /\ ReadableEnd(w) < w.limit
  /\ \A i \in 0..(ReadableEnd(r) - 1) : ByteAt(w, a + i) = ByteAt(r, i)

(* Where a record may end, a comment ends.                                 *)
LineEnds(c) == c.comment # NoByte => Terminators(c) \subseteq CommentEnds(c)

(* At a place: the pass over the whole file is between records, and has    *)
(* accepted these.                                                         *)
RestsAt(f, n, records) == AtRest(f[n]) /\ f[n].records = records

(* Where the last record of the part ended, the whole is at rest.          *)
EndsAtRest(c, r, f, s, a, b, k, before) ==
  /\ s.last_record_end = NoOffset => s.records = <<>>
  /\ s.last_record_end # NoOffset =>
       /\ s.last_record_end \in b..(k - 1)
       /\ ByteAt(r, s.last_record_end) \in Terminators(c)
       /\ RestsAt(f, a + s.last_record_end + 1, before \o Placed(s.records, a))

(* While there has been none, the whole is at rest behind every empty line *)
(* and every comment.                                                      *)
RestsBetween(c, r, f, s, a, b, k, before) ==
  s.last_record_end = NoOffset /\ s.state \in Between /\ ~s.done /\ LineEnds(c) =>
    \A j \in b..(k - 1) : ByteAt(r, j) \in Terminators(c) => RestsAt(f, a + j + 1, before)

Follows(c, r, f, s, a, b, k, before) ==
  /\ EndsAtRest(c, r, f, s, a, b, k, before)
  /\ RestsBetween(c, r, f, s, a, b, k, before)
  /\ \/ Shadows(s, f[a + k], a, before) /\ Clean(c, s)
     \/ s.done /\ s.error = NoError /\ s.last_record_end \in Nat /\ s.last_record_end >= r.limit

LEMMA NothingPlaced ==
  ASSUME NEW before \in Seq(Records), NEW a \in Nat
  PROVE  before \o Placed(<<>>, a) = before
<1>1. Placed(<<>>, a) = <<>>
  <2>1. <<>> \in Seq(Records) /\ Len(<<>>) = 0
    OBVIOUS
  <2>2. Placed(<<>>, a) \in Seq(Records) /\ Len(Placed(<<>>, a)) = 0
    BY <2>1, PlacedIs
  <2> QED BY <2>2, EmptySeq
<1> QED BY <1>1, ConcatEmptySeq

LEMMA FollowsFromRest ==
  ASSUME NEW c, NEW r, NEW f, NEW a \in Nat, NEW b \in Nat, NEW before,
         f[a + b] \in Steppers, RestsAt(f, a + b, before)
  PROVE  Follows(c, r, f, NewStepper(b), a, b, b, before)
<1> DEFINE s == NewStepper(b)
           t == f[a + b]
<1>1. /\ s \in Steppers /\ s.state = "RecordStart" /\ s.fields = <<>> /\ s.field = <<>>
      /\ s.records = <<>> /\ s.last_record_end = NoOffset /\ s.error = NoError /\ ~s.done
  BY StartIs
<1>2. AtRest(t) /\ t.records = before /\ before \in Seq(Records)
  <2>1. AtRest(t) /\ t.records = before
    BY DEF RestsAt
  <2>2. t.records \in Seq(Records)
    BY StepperTypes
  <2> QED BY <2>1, <2>2
<1> HIDE DEF s, t
<1>3. before \o Placed(s.records, a) = before
  BY <1>1, <1>2, NothingPlaced
<1>4. Shadows(s, t, a, before)
  <2>1. SameError(s.error, t.error, a)
    BY <1>1, <1>2 DEF SameError, AtRest
  <2> QED BY <1>1, <1>2, <1>3, <2>1 DEF Shadows, AtRest
<1>5. Clean(c, s)
  BY <1>1 DEF Clean
<1>6. EndsAtRest(c, r, f, s, a, b, b, before)
  BY <1>1 DEF EndsAtRest
<1>7. RestsBetween(c, r, f, s, a, b, b, before)
  <2>1. b..(b - 1) = {}
    OBVIOUS
  <2> QED BY <2>1 DEF RestsBetween
<1> QED BY <1>4, <1>5, <1>6, <1>7 DEF Follows, s, t

LEMMA FollowsStep ==
  ASSUME NEW c, NEW r, NEW w, NEW a, PartOf(c, r, w, a), NEW f, NEW b \in Nat, NEW k \in Nat,
         b <= k, k < ReadableEnd(r), NEW before, NEW s \in Steppers,
         f[a + k] \in Steppers, f[a + k + 1] = StepByte(c, w, f[a + k], a + k),
         Follows(c, r, f, s, a, b, k, before)
  PROVE  Follows(c, r, f, StepByte(c, r, s, k), a, b, k + 1, before)
<1> DEFINE p == a + k
           t == f[p]
           t1 == f[p + 1]
           s1 == StepByte(c, r, s, k)
           byte == ByteAt(r, k)
<1>1. a \in Nat /\ p \in Nat /\ a + (k + 1) = p + 1
  BY DEF PartOf
<1>2. /\ EndsAtRest(c, r, f, s, a, b, k, before) /\ RestsBetween(c, r, f, s, a, b, k, before)
      /\ \/ Shadows(s, t, a, before) /\ Clean(c, s)
         \/ s.done /\ s.error = NoError /\ s.last_record_end \in Nat /\ s.last_record_end >= r.limit
  BY DEF Follows
<1>3. t \in Steppers /\ t1 = StepByte(c, w, t, p)
  OBVIOUS
<1>4. (b..(k - 1)) \subseteq (b..((k + 1) - 1)) /\ k \in b..((k + 1) - 1)
      /\ \A j \in b..((k + 1) - 1) : j = k \/ j \in b..(k - 1)
  OBVIOUS
<1> HIDE DEF t, t1
<1>5. CASE s.done
  <2>1. s1 = s
    BY <1>5 DEF StepByte
  <2>2. Shadows(s, t, a, before) => t1 = t
    BY <1>3, <1>5 DEF StepByte, Shadows
  <2> HIDE DEF s1
  <2>3. EndsAtRest(c, r, f, s, a, b, k + 1, before)
    BY <1>2, <1>4 DEF EndsAtRest
  <2>4. RestsBetween(c, r, f, s, a, b, k + 1, before)
    BY <1>5 DEF RestsBetween
  <2>5. f[a + (k + 1)] = t1
    BY <1>1 DEF t1
  <2>6. \/ Shadows(s, f[a + (k + 1)], a, before) /\ Clean(c, s)
        \/ s.done /\ s.error = NoError /\ s.last_record_end \in Nat /\ s.last_record_end >= r.limit
    BY <1>2, <2>2, <2>5
  <2> QED BY <2>1, <2>3, <2>4, <2>6 DEF Follows, s1
<1>6. CASE ~s.done
  <2>1. Shadows(s, t, a, before) /\ Clean(c, s)
    BY <1>2, <1>6
  <2>2. SameByte(c, r, w, a, k, byte)
    <3>1. k \in 0..(ReadableEnd(r) - 1) /\ a + k < w.limit
      <4>1. ReadableEnd(w) = a + ReadableEnd(r) /\ ReadableEnd(w) < w.limit
            /\ GoodReader(c, r) /\ GoodReader(c, w)
        BY DEF PartOf
      <4>2. ReadableEnd(r) \in Nat /\ w.limit \in Nat
        BY <4>1, ReaderIs DEF GoodReader
      <4> QED BY <1>1, <4>1, <4>2
    <3>2. ValidDialect(c) /\ r.limit \in Int /\ w.limit \in Int /\ GoodReader(c, r)
      BY DEF PartOf, GoodReader
    <3>3. ByteAt(w, a + k) = byte
      BY <3>1 DEF PartOf
    <3>4. byte \in STRING /\ byte # NoByte
      BY <3>1, <3>2, ReaderIs
    <3> QED BY <3>1, <3>2, <3>3, <3>4 DEF SameByte
  <2>3. ShadowsHere(c, s, t, a, before)
    BY <1>6, <2>1 DEF ShadowsHere
  <2> HIDE DEF s1, byte
  <2>4. /\ s1 \in Steppers /\ t1 \in Steppers
        /\ \/ KeptAlike(c, s, s1, t1, a, before, byte)
           \/ Ended(c, r, s1, t1, a, before, k, byte)
    <3>1. t1 = StepByte(c, w, t, a + k)
      BY <1>3
    <3> HIDE DEF p
    <3> QED BY <1>1, <1>3, <2>2, <2>3, <3>1, StepShadows DEF s1
  <2>5. CASE KeptAlike(c, s, s1, t1, a, before, byte)
    <3>1. /\ Shadows(s1, t1, a, before) /\ Clean(c, s1)
          /\ s1.last_record_end = s.last_record_end /\ s1.records = s.records
      BY <2>5 DEF KeptAlike
    <3>2. EndsAtRest(c, r, f, s1, a, b, k + 1, before)
      BY <1>2, <1>4, <3>1 DEF EndsAtRest
    <3>3. ASSUME s1.last_record_end = NoOffset, s1.state \in Between, ~s1.done, LineEnds(c),
                 NEW j \in b..((k + 1) - 1), ByteAt(r, j) \in Terminators(c)
          PROVE  RestsAt(f, a + j + 1, before)
      <4>1. s.state \in Between /\ s.last_record_end = NoOffset
        BY <2>5, <3>1, <3>3 DEF KeptAlike
      <4>2. CASE j = k
        <5>1. byte \in Terminators(c)
          BY <3>3, <4>2 DEF byte
        <5>2. s.state = "InComment" => byte \in CommentEnds(c)
          BY <2>1, <3>3, <5>1 DEF Clean, LineEnds
        <5>3. AtRest(t1)
          BY <2>5, <3>3, <5>1, <5>2 DEF KeptAlike
        <5>4. s1.records = <<>>
          BY <1>2, <3>1, <4>1 DEF EndsAtRest
        <5>5. t1.records = before
          <6>1. t1.records = before \o Placed(s1.records, a) /\ before \in Seq(Records)
            BY <3>1 DEF Shadows
          <6> QED BY <1>1, <5>4, <6>1, NothingPlaced
        <5>6. f[a + j + 1] = t1
          BY <4>2 DEF t1
        <5> QED BY <5>3, <5>5, <5>6 DEF RestsAt
      <4>3. CASE j # k
        <5>1. j \in b..(k - 1)
          BY <1>4, <4>3
        <5> QED BY <1>2, <1>6, <3>3, <4>1, <5>1 DEF RestsBetween
      <4> QED BY <4>2, <4>3
    <3>4. RestsBetween(c, r, f, s1, a, b, k + 1, before)
      BY <3>3 DEF RestsBetween
    <3>5. f[a + (k + 1)] = t1
      BY <1>1 DEF t1
    <3> QED BY <3>1, <3>2, <3>4, <3>5 DEF Follows, s1
  <2>6. CASE Ended(c, r, s1, t1, a, before, k, byte)
    <3>1. /\ byte \in Terminators(c) /\ AtRest(t1) /\ s1.last_record_end = k
          /\ t1.records = before \o Placed(s1.records, a)
          /\ s1.error = NoError /\ (s1.done <=> k >= r.limit)
          /\ ~s1.done => Shadows(s1, t1, a, before) /\ Clean(c, s1)
      BY <2>6 DEF Ended
    <3>2. s1.last_record_end # NoOffset
      BY <3>1, ErrorsAre
    <3>3. EndsAtRest(c, r, f, s1, a, b, k + 1, before)
      <4>1. f[a + k + 1] = t1
        BY DEF t1
      <4>2. RestsAt(f, a + k + 1, before \o Placed(s1.records, a))
        BY <3>1, <4>1 DEF RestsAt
      <4> QED BY <1>4, <3>1, <3>2, <4>2 DEF EndsAtRest, byte
    <3>4. RestsBetween(c, r, f, s1, a, b, k + 1, before)
      BY <3>2 DEF RestsBetween
    <3>5. f[a + (k + 1)] = t1
      BY <1>1 DEF t1
    <3>6. s1.done => s1.last_record_end \in Nat /\ s1.last_record_end >= r.limit
      BY <3>1
    <3> QED BY <3>1, <3>3, <3>4, <3>5, <3>6 DEF Follows, s1
  <2> QED BY <2>4, <2>5, <2>6
<1> QED BY <1>5, <1>6

LEMMA RunFollows ==
  ASSUME NEW c, NEW r, NEW w, NEW a, PartOf(c, r, w, a),
         NEW first \in Nat, first <= ReadableEnd(w), NEW f,
         RunsFrom(f, c, w, first, ReadableEnd(w)),
         NEW b \in Nat, b <= ReadableEnd(r), first <= a + b, NEW before,
         RestsAt(f, a + b, before), NEW g, RunsFrom(g, c, r, b, ReadableEnd(r))
  PROVE  \A k \in b..ReadableEnd(r) : Follows(c, r, f, g[k], a, b, k, before)
<1> DEFINE N == ReadableEnd(r)
           E == ReadableEnd(w)
           T == {k \in b..N : ~Follows(c, r, f, g[k], a, b, k, before)}
<1>1. /\ GoodReader(c, r) /\ GoodReader(c, w) /\ a \in Nat /\ E = a + N
  BY DEF PartOf
<1>2. N \in Nat /\ E \in Nat
  BY <1>1, ReaderIs
<1>3. \A n \in first..E : f[n] \in Steppers
  BY <1>1, <1>2, RunTypes
<1>4. T \in SUBSET Nat
  OBVIOUS
<1> HIDE DEF N, E
<1>5. ASSUME NEW x \in T, \A y \in T : x <= y  PROVE FALSE
  <2>1. x \in Nat /\ x \in b..N /\ ~Follows(c, r, f, g[x], a, b, x, before)
    BY <1>4, <1>5
  <2>2. CASE x = b
    <3>1. a + b \in first..E
      BY <1>1, <1>2 DEF N
    <3>2. f[a + b] \in Steppers
      BY <1>3, <3>1
    <3>3. g[b] = NewStepper(b)
      BY DEF RunsFrom
    <3>4. Follows(c, r, f, NewStepper(b), a, b, b, before)
      BY <1>1, <3>2, FollowsFromRest
    <3> QED BY <2>1, <2>2, <3>3, <3>4
  <2>3. CASE x # b
    <3> DEFINE k == x - 1
    <3>1. /\ k \in b..N /\ k \in Nat /\ ~(x <= k) /\ k < N
          /\ g[x] = StepByte(c, r, g[k], k) /\ g[k] \in Steppers
      <4>1. N <= N
        BY <1>2
      <4> QED BY <1>1, <1>2, <2>1, <2>3, <4>1, RunStep DEF N
    <3>2. Follows(c, r, f, g[k], a, b, k, before)
      BY <1>5, <3>1
    <3>3. k + 1 = x /\ b <= k
      BY <2>1, <3>1
    <3> HIDE DEF k
    <3>4. /\ a + k + 1 \in first..E /\ a + k + 1 # first /\ (a + k + 1) - 1 = a + k
          /\ a + k \in first..E
      BY <1>1, <1>2, <2>1, <3>1, <3>3
    <3>5. f[a + k + 1] = StepByte(c, w, f[a + k], a + k) /\ f[a + k] \in Steppers
      <4> DEFINE m == a + k + 1
      <4>1. m \in first..E /\ m # first /\ m - 1 = a + k /\ E <= E
        BY <1>2, <3>4
      <4> HIDE DEF m
      <4>2. f[m] = StepByte(c, w, f[m - 1], m - 1) /\ f[m - 1] \in Steppers
        BY <1>1, <1>2, <4>1, RunStep DEF E
      <4> QED BY <4>1, <4>2 DEF m
    <3>6. Follows(c, r, f, StepByte(c, r, g[k], k), a, b, k + 1, before)
      BY <3>1, <3>2, <3>3, <3>5, FollowsStep DEF N
    <3> QED BY <2>1, <3>1, <3>3, <3>6
  <2> QED BY <2>2, <2>3
<1>6. T = {}
  <2> HIDE DEF T
  <2> QED BY <1>4, <1>5, LeastElement
<1> QED BY <1>6 DEF N

(* Between records, an empty line changes nothing.                         *)
LEMMA RestsOn ==
  ASSUME NEW c, NEW w, GoodReader(c, w), ReadableEnd(w) < w.limit,
         NEW first \in Nat, first <= ReadableEnd(w), NEW f,
         RunsFrom(f, c, w, first, ReadableEnd(w)),
         NEW n \in first..ReadableEnd(w), NEW m \in n..ReadableEnd(w), NEW records,
         RestsAt(f, n, records), \A j \in n..(m - 1) : ByteAt(w, j) \in Terminators(c)
  PROVE  \A j \in n..m : RestsAt(f, j, records)
<1> DEFINE E == ReadableEnd(w)
           T == {j \in n..m : ~RestsAt(f, j, records)}
<1>0. w.limit \in Nat /\ ValidDialect(c)
  BY DEF GoodReader
<1>1. E \in Nat /\ E <= E /\ w.limit \in Nat /\ ValidDialect(c)
  <2>1. E \in Nat
    BY ReaderIs
  <2> QED BY <1>0, <2>1
<1>2. n \in Nat /\ T \in SUBSET Nat
  BY <1>1
<1>3. ASSUME NEW x \in T, \A y \in T : x <= y  PROVE FALSE
  <2>1. x \in Nat /\ x \in n..m /\ ~RestsAt(f, x, records)
    BY <1>2, <1>3
  <2>2. CASE x = n
    BY <2>1, <2>2
  <2>3. CASE x # n
    <3> DEFINE k == x - 1
    <3>1. x \in first..E /\ x # first /\ k \in n..m /\ k \in n..(m - 1) /\ ~(x <= k)
          /\ k \in Nat /\ k < E
      BY <1>1, <1>2, <2>1, <2>3
    <3>2. f[x] = StepByte(c, w, f[k], k) /\ f[k] \in Steppers
      BY <1>1, <3>1, RunStep
    <3>3. RestsAt(f, k, records)
      BY <1>3, <3>1
    <3>4. ByteAt(w, k) \in Terminators(c)
      BY <3>1
    <3> HIDE DEF k
    <3>5. AtRest(f[k]) /\ ~(k >= w.limit)
      BY <1>1, <3>1, <3>3 DEF RestsAt
    <3>6. Stepped(c, w, f[k], k, ByteAt(w, k), StepByte(c, w, f[k], k))
      <4>1. ~f[k].done
        BY <3>5 DEF AtRest
      <4> QED BY <3>1, <3>2, <4>1, StepIs
    <3>7. f[x] = f[k]
      <4>1. f[k].state = "RecordStart"
        BY <3>5 DEF AtRest
      <4> QED BY <3>2, <3>4, <3>5, <3>6, <4>1 DEF Stepped
    <3> QED BY <2>1, <3>3, <3>7 DEF RestsAt
  <2> QED BY <2>2, <2>3
<1>4. T = {}
  <2> HIDE DEF T
  <2> QED BY <1>2, <1>3, LeastElement
<1> QED BY <1>4

LEMMA SkipIs ==
  ASSUME NEW c, NEW r, GoodReader(c, r), NEW from \in Nat, from <= ReadableEnd(r)
  PROVE  LET run == SkipEmptyLines(c, r, from)
         IN  /\ run.at \in from..ReadableEnd(r)
             /\ \A j \in from..(run.at - 1) : ByteAt(r, j) \in Terminators(c)
             /\ \/ run.at = ReadableEnd(r) \/ run.at >= r.limit
                \/ ByteAt(r, run.at) \notin Terminators(c)
             /\ run.failed <=> run.at = r.bad
             /\ run.outlasts <=> /\ run.at < ReadableEnd(r)
                                 /\ ByteAt(r, run.at) \in Terminators(c)
<1> DEFINE N == ReadableEnd(r)
           stops == {i \in from..N : i >= r.limit \/ i = N \/ ~IsTerminatorAt(c, r, i)}
           at == Min(stops)
           run == SkipEmptyLines(c, r, from)
<1>1. N \in Nat
  BY ReaderIs
<1>2. stops \in SUBSET Nat /\ stops # {}
  <2>1. N \in stops
    BY <1>1
  <2> QED BY <2>1
<1>3. run = [at |-> at, failed |-> at = r.bad, outlasts |-> at < N /\ IsTerminatorAt(c, r, at)]
  BY DEF SkipEmptyLines
<1> HIDE DEF N
<1>4. PICK m \in stops : \A y \in stops : m <= y
  <2> HIDE DEF stops
  <2> QED BY <1>2, LeastElement
<1>5. at = m
  <2> HIDE DEF stops
  <2> QED BY <1>2, <1>4, MinIs
<1>6. m \in from..N /\ (m >= r.limit \/ m = N \/ ~IsTerminatorAt(c, r, m))
  OBVIOUS
<1>7. ASSUME NEW j \in from..(m - 1)  PROVE IsTerminatorAt(c, r, j)
  <2>1. j \in from..N /\ ~(m <= j)
    BY <1>1, <1>6
  <2>2. j \notin stops
    BY <1>4, <2>1
  <2> QED BY <2>1, <2>2
<1> HIDE DEF at, stops, run
<1>8. run.at = m /\ (run.failed <=> m = r.bad)
      /\ (run.outlasts <=> m < N /\ IsTerminatorAt(c, r, m))
  BY <1>3, <1>5
<1> QED BY <1>6, <1>7, <1>8 DEF IsTerminatorAt, run, N

FinalAlike(g, a, before, end, g1, f1) ==
  /\ g1 \in Steppers /\ f1 \in Steppers
  /\ f1.records = before \o Placed(g1.records, a) /\ SameError(g1.error, f1.error, a)
  /\ g1.error = NoError => (g.state \in Between /\ g1 = g) \/ g1.last_record_end = end

LEMMA FinalizeAlike ==
  ASSUME NEW c, NEW r, NEW w, NEW a \in Nat, EofOf(r) \in Nat, EofOf(w) = a + EofOf(r),
         NEW g \in Steppers, NEW f \in Steppers, NEW before,
         ShadowsHere(c, g, f, a, before)
  PROVE  FinalAlike(g, a, before, EofOf(r), Finalize(c, r, g), Finalize(c, w, f))
<1> DEFINE p == EofOf(r)
           q == EofOf(w)
           g1 == Finalize(c, r, g)
           f1 == Finalize(c, w, f)
           gp == PushField(g, p)
           fp == PushField(f, q)
<1>1. p \in Nat /\ q \in Nat /\ q = p + a
  OBVIOUS
<1>2. Shadows(g, f, a, before) /\ Clean(c, g) /\ ~g.done
  BY DEF ShadowsHere
<1>3. /\ g.state = f.state /\ g.state \in InteriorStates /\ before \in Seq(Records)
      /\ g.fields = f.fields /\ g.field = f.field /\ ~f.done
      /\ g.error = NoError /\ f.error = NoError /\ f.records = before \o Placed(g.records, a)
      /\ g.state # "RecordStart" => /\ f.record_in_start = g.record_in_start + a
                                    /\ f.field_in_start = g.field_in_start + a
  BY <1>2, StepperTypes DEF Shadows, Clean
<1>4. g.state # "RecordStart" => Alike(g, f, a, before)
  BY <1>2, <1>3 DEF Alike
<1>5. CASE g.state \in Between
  <2>1. g1 = g /\ f1 = f
    BY <1>3, <1>5 DEF Finalize, Between
  <2>2. SameError(g.error, f.error, a)
    BY <1>3 DEF SameError
  <2> HIDE DEF g1, f1
  <2> QED BY <1>3, <1>5, <2>1, <2>2 DEF FinalAlike, g1, f1
<1>6. CASE g.state \in {"InQuotedField", "InEscapedQuote"}
  <2> DEFINE e == Error("UnclosedQuote", g.field_in_start)
             d == Error("UnclosedQuote", f.field_in_start)
  <2>1. g1 = Stop(g, e) /\ f1 = Stop(f, d)
    BY <1>3, <1>6 DEF Finalize
  <2>2. g.field_in_start \in Nat /\ f.field_in_start = g.field_in_start + a
        /\ f.field_in_start \in Nat
    BY <1>3, <1>6, StepperTypes
  <2>3. e \in Errors /\ d \in Errors
    BY <2>2, ErrorsAre DEF Kinds
  <2>4. e # NoError /\ SameError(e, d, a)
    <3>1. e.at \in Nat /\ d = [e EXCEPT !.at = @ + a] /\ e # NoError
      BY <2>2 DEF Error, NoError
    <3> QED BY <3>1 DEF SameError
  <2> HIDE DEF e, d, g1, f1
  <2>5. g1 \in Steppers /\ g1.records = g.records /\ g1.error = e
    BY <2>1, <2>3, StopIs
  <2>6. f1 \in Steppers /\ f1.records = f.records /\ f1.error = d
    BY <2>1, <2>3, StopIs
  <2> QED BY <1>3, <2>4, <2>5, <2>6 DEF FinalAlike, g1, f1
<1>7. CASE g.state \in {"FieldStart", "InField", "AfterClosingQuote"}
  <2>1. g1 = EmitRecord(c, gp, p) /\ f1 = EmitRecord(c, fp, q)
    BY <1>3, <1>7 DEF Finalize
  <2>2. Alike(g, f, a, before)
    BY <1>4, <1>7
  <2> HIDE DEF p, q, g1, f1
  <2>3. gp \in Steppers /\ gp.state = "FieldStart"
    BY <1>1, PushIs
  <2>4. fp \in Steppers
    BY <1>1, PushIs
  <2>5. Alike(gp, fp, a, before)
    BY <1>1, <2>2, PushAlike
  <2>6. gp.state \notin Between
    BY <2>3 DEF Between
  <2> HIDE DEF gp, fp
  <2>7. EmittedAlike(c, gp, a, before, p, EmitRecord(c, gp, p), EmitRecord(c, fp, q))
    BY <1>1, <2>3, <2>4, <2>5, <2>6, EmitAlike
  <2>8. EmittedAlike(c, gp, a, before, p, g1, f1)
    BY <2>1, <2>7
  <2>9. CASE g1.done
    BY <2>8, <2>9 DEF EmittedAlike, Shadows, Clean, FinalAlike, g1, f1, p, q
  <2>10. CASE ~g1.done
    <3>1. SameError(g1.error, f1.error, a)
      BY <2>8, <2>10 DEF EmittedAlike, SameError
    <3> QED BY <2>8, <2>10, <3>1 DEF EmittedAlike, FinalAlike, g1, f1, p, q
  <2> QED BY <2>9, <2>10
<1> QED BY <1>3, <1>5, <1>6, <1>7 DEF InteriorStates, Between

-----------------------------------------------------------------------------
(* The end of the input, and what it makes of the record in flight.        *)
LEMMA FinalizeTyped ==
  ASSUME NEW c, NEW r, EofOf(r) \in Nat, NEW g \in Steppers
  PROVE  StepTyped(g, EofOf(r), Finalize(c, r, g))
<1> DEFINE p == EofOf(r)
           g1 == Finalize(c, r, g)
           gp == PushField(g, p)
<1>1. p \in Nat /\ g.state \in InteriorStates /\ g.field_in_start \in Nat
  BY StepperTypes
<1>2. CASE g.state \in {"RecordStart", "InComment"}
  <2>1. g1 = g
    BY <1>2 DEF Finalize
  <2> HIDE DEF g1
  <2> QED BY <2>1, SameRecords DEF g1
<1>3. CASE g.state \in {"InQuotedField", "InEscapedQuote"}
  <2> DEFINE e == Error("UnclosedQuote", g.field_in_start)
  <2>1. g1 = Stop(g, e)
    BY <1>3 DEF Finalize
  <2>2. e \in Errors
    BY <1>1, ErrorsAre DEF Kinds
  <2> HIDE DEF e, g1
  <2>3. g1 \in Steppers /\ g1.records = g.records /\ g1.last_record_end = g.last_record_end
    BY <2>1, <2>2, StopIs
  <2> QED BY <2>3, SameRecords DEF g1
<1>4. CASE g.state \in {"FieldStart", "InField", "AfterClosingQuote"}
  <2>1. g1 = EmitRecord(c, gp, p)
    BY <1>4 DEF Finalize
  <2> HIDE DEF g1, p
  <2>2. gp \in Steppers /\ gp.records = g.records /\ gp.last_record_end = g.last_record_end
    BY <1>1, PushIs
  <2> HIDE DEF gp
  <2>3. StepTyped(gp, p, g1)
    BY <1>1, <2>1, <2>2, EmitTyped
  <2> QED BY <2>2, <2>3 DEF StepTyped, g1, p
<1> QED BY <1>1, <1>2, <1>3, <1>4 DEF InteriorStates

LEMMA ParseIs ==
  ASSUME NEW c, NEW r, GoodReader(c, r), NEW base \in Nat, base <= ReadableEnd(r)
  PROVE  \E g : /\ RunsFrom(g, c, r, base, ReadableEnd(r))
                /\ ParseFrom(c, r, base) = EndOfRun(c, r, base, g[ReadableEnd(r)])
<1> DEFINE N == ReadableEnd(r)
           g == CHOOSE h : StepRunOf(h, c, r, base, N)
<1>1. N \in Nat /\ base <= N
  BY ReaderIs
<1>2. ParseFrom(c, r, base) = EndOfRun(c, r, base, StepTo(c, r, base, N))
  BY DEF ParseFrom
<1> HIDE DEF N
<1>3. StepRunOf(g, c, r, base, N) /\ StepTo(c, r, base, N) = g[N]
  BY <1>1, StepToIs
<1> HIDE DEF g
<1>4. g[base] = NewStepper(base) /\ StepsByTheBytes(g, c, r, base, N)
  BY <1>1, <1>3, StepRunIs
<1>5. RunsFrom(g, c, r, base, N)
  BY <1>4 DEF RunsFrom
<1>6. ParseFrom(c, r, base) = EndOfRun(c, r, base, g[N])
  BY <1>2, <1>3
<1> QED BY <1>5, <1>6 DEF N

(* How a parse ends: cut off by the byte that cannot be read, done, or at  *)
(* the end of the file.                                                    *)
CutOff(r, base, g) ==
  ReadableEnd(r) = r.bad /\ (ReadableEnd(r) < base + FillAhead \/ ~g.done)

Ending(c, r, base, g, st) ==
  /\ st \in Steppers /\ Extends(g.records, st.records)
  /\ st.last_record_end \in {g.last_record_end, EofOf(r)}
  /\ CutOff(r, base, g) => st.error = IoError /\ st.records = g.records
  /\ ~CutOff(r, base, g) /\ g.done => st = g
  /\ ~CutOff(r, base, g) /\ ~g.done =>
       /\ st = Finalize(c, r, g)
       /\ ReadableEnd(r) # r.bad /\ ReadableEnd(r) = EofOf(r)

LEMMA EndIs ==
  ASSUME NEW c, NEW r, GoodReader(c, r), NEW base \in Nat, NEW g \in Steppers
  PROVE  Ending(c, r, base, g, EndOfRun(c, r, base, g))
<1> DEFINE st == EndOfRun(c, r, base, g)
<1>1. st = IF CutOff(r, base, g) THEN Stop(g, IoError)
           ELSE IF g.done THEN g ELSE Finalize(c, r, g)
  BY DEF EndOfRun, CutOff
<1>2. EofOf(r) \in Nat
  BY ReaderIs
<1> HIDE DEF st
<1>3. CASE CutOff(r, base, g)
  <2>1. st = Stop(g, IoError) /\ IoError \in Errors
    BY <1>1, <1>3, ErrorsAre
  <2>2. /\ st \in Steppers /\ st.records = g.records
        /\ st.last_record_end = g.last_record_end /\ st.error = IoError
    BY <2>1, StopIs
  <2>3. StepTyped(g, EofOf(r), st)
    BY <2>2, SameRecords
  <2> QED BY <1>3, <2>2, <2>3 DEF Ending, StepTyped, st
<1>4. CASE ~CutOff(r, base, g) /\ g.done
  <2>1. st = g
    BY <1>1, <1>4
  <2>2. StepTyped(g, EofOf(r), st)
    BY <2>1, SameRecords
  <2> QED BY <1>4, <2>1, <2>2 DEF Ending, StepTyped, st
<1>5. CASE ~CutOff(r, base, g) /\ ~g.done
  <2>1. st = Finalize(c, r, g)
    BY <1>1, <1>5
  <2>2. StepTyped(g, EofOf(r), st)
    BY <1>2, <2>1, FinalizeTyped
  <2>3. ReadableEnd(r) # r.bad
    BY <1>5 DEF CutOff
  <2>4. ReadableEnd(r) = EofOf(r)
    BY <2>3, ReaderIs
  <2> QED BY <1>5, <2>1, <2>2, <2>3, <2>4 DEF Ending, StepTyped, st
<1> QED BY <1>3, <1>4, <1>5

-----------------------------------------------------------------------------
(* The one pass over the whole file that the chunks have to agree with: f  *)
(* is its stepper before each byte, and Final the one it ends with.        *)
WholeRun(c, w, first, f) ==
  /\ GoodReader(c, w) /\ ReadableEnd(w) < w.limit
  /\ first \in 0..ReadableEnd(w)
  /\ RunsFrom(f, c, w, first, ReadableEnd(w))

Final(c, w, f) ==
  IF f[ReadableEnd(w)].done \/ ReadableEnd(w) = w.bad THEN f[ReadableEnd(w)]
  ELSE Finalize(c, w, f[ReadableEnd(w)])

LEMMA WholeIs ==
  ASSUME NEW c, NEW w, NEW first, NEW f, WholeRun(c, w, first, f)
  PROVE  /\ GoodReader(c, w) /\ ReadableEnd(w) \in Nat /\ EofOf(w) \in Nat /\ w.limit \in Nat
         /\ ReadableEnd(w) < w.limit /\ first \in Nat /\ first <= ReadableEnd(w)
         /\ RunsFrom(f, c, w, first, ReadableEnd(w))
         /\ \A n \in first..ReadableEnd(w) : f[n] \in Steppers
         /\ PartOf(c, w, w, 0)
<1>1. /\ GoodReader(c, w) /\ ReadableEnd(w) < w.limit /\ first \in 0..ReadableEnd(w)
      /\ RunsFrom(f, c, w, first, ReadableEnd(w))
  BY DEF WholeRun
<1>2. ReadableEnd(w) \in Nat /\ EofOf(w) \in Nat
  BY <1>1, ReaderIs
<1>3. w.limit \in Nat
  BY <1>1 DEF GoodReader
<1>4. first \in Nat /\ first <= ReadableEnd(w) /\ ReadableEnd(w) <= ReadableEnd(w)
  BY <1>1, <1>2
<1>5. \A n \in first..ReadableEnd(w) : f[n] \in Steppers
  BY <1>1, <1>2, <1>4, RunTypes
<1>6. PartOf(c, w, w, 0)
  <2>1. EofOf(w) = 0 + EofOf(w) /\ ReadableEnd(w) = 0 + ReadableEnd(w)
    BY <1>2
  <2>2. \A i \in 0..(ReadableEnd(w) - 1) : 0 + i = i
    OBVIOUS
  <2> QED BY <1>1, <2>1, <2>2 DEF PartOf
<1> QED BY <1>1, <1>2, <1>3, <1>4, <1>5, <1>6

LEMMA FinalIs ==
  ASSUME NEW c, NEW w, NEW first, NEW f, WholeRun(c, w, first, f)
  PROVE  /\ Final(c, w, f) \in Steppers
         /\ Extends(f[ReadableEnd(w)].records, Final(c, w, f).records)
<1> DEFINE E == ReadableEnd(w)
<1>1. E \in first..E /\ EofOf(w) \in Nat
  BY WholeIs
<1>2. f[E] \in Steppers
  BY <1>1, WholeIs
<1>3. f[E].records \in Seq(Records)
  BY <1>2, StepperTypes
<1>4. CASE f[E].done \/ E = w.bad
  <2>1. Final(c, w, f) = f[E]
    BY <1>4 DEF Final
  <2> HIDE DEF E
  <2> QED BY <1>2, <1>3, <2>1, ExtendsItself DEF E
<1>5. CASE ~(f[E].done \/ E = w.bad)
  <2>1. Final(c, w, f) = Finalize(c, w, f[E])
    BY <1>5 DEF Final
  <2> HIDE DEF E
  <2>2. StepTyped(f[E], EofOf(w), Final(c, w, f))
    BY <1>1, <1>2, <2>1, FinalizeTyped
  <2> QED BY <2>2 DEF StepTyped, E
<1> QED BY <1>4, <1>5

(* What the records of a place are, they stay.                             *)
LEMMA RecordsRemain ==
  ASSUME NEW c, NEW w, NEW first, NEW f, WholeRun(c, w, first, f),
         NEW n \in first..ReadableEnd(w), NEW records, RestsAt(f, n, records)
  PROVE  records \in Seq(Records) /\ Extends(records, Final(c, w, f).records)
<1> DEFINE E == ReadableEnd(w)
<1>1. E \in n..E /\ E \in first..E /\ first \in Nat /\ E \in Nat /\ first <= E /\ E <= E
  BY WholeIs
<1>2. f[n].records = records
  BY DEF RestsAt
<1>3. f[n] \in Steppers /\ f[E] \in Steppers /\ Final(c, w, f) \in Steppers
  BY <1>1, WholeIs, FinalIs
<1>4. records \in Seq(Records) /\ f[E].records \in Seq(Records)
      /\ Final(c, w, f).records \in Seq(Records)
  BY <1>2, <1>3, StepperTypes
<1>5. Extends(f[E].records, Final(c, w, f).records)
  BY FinalIs
<1>6. Extends(records, f[E].records)
  <2>1. GoodReader(c, w) /\ RunsFrom(f, c, w, first, E)
    BY WholeIs
  <2>2. n \in first..E
    OBVIOUS
  <2>3. E <= ReadableEnd(w)
    BY <1>1
  <2> HIDE DEF E
  <2>4. \A j \in n..E : Extends(f[n].records, f[j].records)
    BY <1>1, <2>1, <2>2, <2>3, RecordsStay
  <2> QED BY <1>1, <1>2, <2>4
<1> HIDE DEF E
<1> QED BY <1>4, <1>5, <1>6, ExtendsItself

LEMMA PlacedNowhere ==
  ASSUME NEW records \in Seq(Records)
  PROVE  <<>> \o Placed(records, 0) = records
<1> DEFINE p == Placed(records, 0)
<1>1. /\ p \in Seq(Records) /\ Len(p) = Len(records)
      /\ \A k \in 1..Len(records) : p[k] = Moved(records[k], 0)
  BY PlacedIs
<1>2. ASSUME NEW k \in 1..Len(records)  PROVE p[k] = records[k]
  <2>1. records[k] \in Records
    OBVIOUS
  <2>2. records[k].at \in Nat
    BY <2>1 DEF Records
  <2>3. records[k].at + 0 = records[k].at
    BY <2>2
  <2>4. Moved(records[k], 0) = records[k]
    BY <2>1, <2>3 DEF Moved, Records
  <2> QED BY <1>1, <2>4
<1> HIDE DEF p
<1>3. p = records
  BY <1>1, <1>2, SeqEqual
<1>4. <<>> \o p = p
  BY <1>1, ConcatEmptySeq
<1> QED BY <1>3, <1>4 DEF p

LEMMA ErrorNowhere ==
  ASSUME NEW e \in Errors, NEW f, SameError(e, f, 0)
  PROVE  f = e
<1>1. CASE e.at \in Nat /\ f = [e EXCEPT !.at = @ + 0]
  <2>1. e \in [kind : Kinds, at : Offsets]
    BY <1>1, ErrorsAre DEF Errors
  <2>2. e.at + 0 = e.at
    BY <1>1
  <2> QED BY <1>1, <2>1, <2>2
<1>2. CASE ~(e.at \in Nat /\ f = [e EXCEPT !.at = @ + 0])
  BY <1>2 DEF SameError
<1> QED BY <1>1, <1>2

(* What skip_empty_lines leaves of a part.                                 *)
Skipped(c, r, from, run) ==
  /\ run.at \in from..ReadableEnd(r)
  /\ \A j \in from..(run.at - 1) : ByteAt(r, j) \in Terminators(c)
  /\ run.failed => run.at = ReadableEnd(r) /\ ReadableEnd(r) = r.bad
  /\ run.outlasts => run.at < ReadableEnd(r) /\ ByteAt(r, run.at) \in Terminators(c)
  /\ run.outlasts => run.at >= r.limit
  /\ ~run.failed /\ ~run.outlasts =>
       /\ run.at = ReadableEnd(r) \/ ByteAt(r, run.at) \notin Terminators(c)
       /\ ~(run.at = ReadableEnd(r) /\ ReadableEnd(r) = r.bad)

LEMMA SkippedIs ==
  ASSUME NEW c, NEW r, GoodReader(c, r), NEW from \in Nat, from <= ReadableEnd(r)
  PROVE  Skipped(c, r, from, SkipEmptyLines(c, r, from))
<1> DEFINE run == SkipEmptyLines(c, r, from)
           N == ReadableEnd(r)
           T == Terminators(c)
<1>1. /\ run.at \in from..N
      /\ \A j \in from..(run.at - 1) : ByteAt(r, j) \in T
      /\ \/ run.at = N \/ run.at >= r.limit
         \/ ByteAt(r, run.at) \notin T
      /\ run.failed <=> run.at = r.bad
      /\ run.outlasts <=> run.at < N /\ ByteAt(r, run.at) \in T
  BY SkipIs
<1>2. N \in Nat /\ EofOf(r) \in Nat /\ N <= EofOf(r)
      /\ N = (IF r.bad \in Nat /\ r.bad <= EofOf(r) THEN r.bad ELSE EofOf(r))
  BY ReaderIs
<1> HIDE DEF run, N, T
<1>3. run.at = r.bad => run.at = N /\ N = r.bad
  BY <1>1, <1>2
<1>4. run.outlasts => run.at >= r.limit
  BY <1>1, <1>2
<1>5. ~run.outlasts => run.at = N \/ ByteAt(r, run.at) \notin T
  BY <1>1, <1>2
<1> QED BY <1>1, <1>3, <1>4, <1>5 DEF Skipped, run, N, T

(* Where a pass over a part ends up, when it began where the whole is at   *)
(* rest.                                                                   *)
LEMMA PassFollows ==
  ASSUME NEW c, NEW r, NEW w, NEW a, PartOf(c, r, w, a), NEW first, NEW f,
         WholeRun(c, w, first, f), NEW b \in Nat, b <= ReadableEnd(r), first <= a + b,
         NEW before, RestsAt(f, a + b, before)
  PROVE  \E g : /\ g \in Steppers
                /\ Follows(c, r, f, g, a, b, ReadableEnd(r), before)
                /\ Ending(c, r, b, g, ParseFrom(c, r, b))
<1> DEFINE N == ReadableEnd(r)
<1>1. GoodReader(c, r) /\ N \in Nat /\ N <= N /\ N \in b..N
  <2>1. GoodReader(c, r)
    BY DEF PartOf
  <2> QED BY <2>1, ReaderIs
<1>2. PICK g : RunsFrom(g, c, r, b, N) /\ ParseFrom(c, r, b) = EndOfRun(c, r, b, g[N])
  BY <1>1, ParseIs
<1>3. /\ first \in Nat /\ first <= ReadableEnd(w)
      /\ RunsFrom(f, c, w, first, ReadableEnd(w))
  BY WholeIs
<1>4. \A k \in b..N : g[k] \in Steppers
  <2>1. N <= ReadableEnd(r) /\ b <= N
    BY <1>1
  <2> HIDE DEF N
  <2> QED BY <1>1, <1>2, <2>1, RunTypes
<1>5. \A k \in b..N : Follows(c, r, f, g[k], a, b, k, before)
  BY <1>2, <1>3, RunFollows
<1> HIDE DEF N
<1>6. Ending(c, r, b, g[N], EndOfRun(c, r, b, g[N]))
  BY <1>1, <1>4, EndIs
<1>7. g[N] \in Steppers /\ Follows(c, r, f, g[N], a, b, N, before)
  BY <1>1, <1>4, <1>5
<1>8. Ending(c, r, b, g[N], ParseFrom(c, r, b))
  BY <1>2, <1>6
<1> QED BY <1>7, <1>8 DEF N

LEMMA RestsAtFirst ==
  ASSUME NEW c, NEW w, NEW first, NEW f, WholeRun(c, w, first, f),
         NEW m \in first..ReadableEnd(w),
         \A j \in first..(m - 1) : ByteAt(w, j) \in Terminators(c)
  PROVE  RestsAt(f, m, <<>>)
<1> DEFINE E == ReadableEnd(w)
<1>1. /\ GoodReader(c, w) /\ E < w.limit /\ first \in Nat /\ first <= E
      /\ RunsFrom(f, c, w, first, E) /\ E \in Nat
  BY WholeIs
<1>2. RestsAt(f, first, <<>>)
  <2>1. f[first] = NewStepper(first)
    BY <1>1 DEF RunsFrom
  <2>2. LET s == NewStepper(first)
        IN  /\ s.state = "RecordStart" /\ s.fields = <<>> /\ s.field = <<>>
            /\ s.records = <<>> /\ s.error = NoError /\ ~s.done
    BY <1>1, StartIs
  <2> QED BY <2>1, <2>2 DEF RestsAt, AtRest
<1>3. first \in first..E /\ m \in first..E /\ m \in first..m
  BY <1>1
<1>4. \A j \in first..m : RestsAt(f, j, <<>>)
  BY <1>1, <1>2, <1>3, RestsOn
<1> QED BY <1>3, <1>4

(* What run_stream_inner reports.                                          *)
Truth(c, w, first, f, T) ==
  /\ T.records = Final(c, w, f).records
  /\ T.error = IF CutOff(w, SkipEmptyLines(c, w, first).at, f[ReadableEnd(w)])
               THEN IoError ELSE Final(c, w, f).error

LEMMA TruthIs ==
  ASSUME NEW c, NEW w, NEW first, NEW f, WholeRun(c, w, first, f)
  PROVE  Truth(c, w, first, f, ParseFromBoundary(c, w, first))
<1> DEFINE E == ReadableEnd(w)
           run == SkipEmptyLines(c, w, first)
           at == run.at
           t == f[E]
           T == ParseFromBoundary(c, w, first)
<1>1. /\ GoodReader(c, w) /\ E \in Nat /\ EofOf(w) \in Nat /\ w.limit \in Nat /\ E < w.limit
      /\ first \in Nat /\ first <= E /\ PartOf(c, w, w, 0)
      /\ \A n \in first..E : f[n] \in Steppers
  BY WholeIs
<1>2. Skipped(c, w, first, run)
  BY <1>1, SkippedIs
<1>3. /\ at \in first..E /\ \A j \in first..(at - 1) : ByteAt(w, j) \in Terminators(c)
  BY <1>2 DEF Skipped
<1>4. ~run.outlasts
  BY <1>1, <1>2 DEF Skipped
<1>5. RestsAt(f, at, <<>>)
  BY <1>3, RestsAtFirst
<1>6. t \in Steppers
  BY <1>1
<1>7. T = IF run.failed THEN PassResult(first, NoOffset, <<>>, IoError)
          ELSE Body(first, ParseFrom(c, w, at))
  BY <1>4 DEF ParseFromBoundary
<1> HIDE DEF run, T
<1>8. CASE run.failed
  <2>1. at = E /\ E = w.bad
    BY <1>2, <1>8 DEF Skipped
  <2>2. ~t.done /\ t.records = <<>>
    BY <1>5, <2>1 DEF RestsAt, AtRest
  <2>3. Final(c, w, f) = t
    BY <2>1 DEF Final
  <2>4. CutOff(w, at, t)
    BY <2>1, <2>2 DEF CutOff
  <2>5. T.records = <<>> /\ T.error = IoError
    BY <1>7, <1>8 DEF PassResult
  <2> QED BY <2>2, <2>3, <2>4, <2>5 DEF Truth, run, T
<1>9. CASE ~run.failed
  <2> DEFINE st == ParseFrom(c, w, at)
  <2>1. T.records = st.records /\ T.error = st.error
    BY <1>7, <1>9 DEF Body, PassResult
  <2>2. at \in Nat /\ at <= E /\ first <= 0 + at /\ 0 + at = at /\ 0 + E = E
    BY <1>1, <1>3
  <2> HIDE DEF at
  <2>3. PICK g : /\ g \in Steppers
                 /\ Follows(c, w, f, g, 0, at, E, <<>>)
                 /\ Ending(c, w, at, g, st)
    <3>1. RestsAt(f, 0 + at, <<>>)
      BY <1>5, <2>2
    <3> QED BY <1>1, <2>2, <3>1, PassFollows
  <2> HIDE DEF st
  <2>4. Shadows(g, t, 0, <<>>) /\ Clean(c, g)
    <3>1. /\ EndsAtRest(c, w, f, g, 0, at, E, <<>>)
          /\ \/ Shadows(g, f[0 + E], 0, <<>>) /\ Clean(c, g)
             \/ g.done /\ g.error = NoError /\ g.last_record_end \in Nat
                /\ g.last_record_end >= w.limit
      BY <2>3 DEF Follows
    <3>2. g.last_record_end \in Nat => g.last_record_end < E
      <4>1. g.last_record_end \in Nat => g.last_record_end # NoOffset
        BY ErrorsAre
      <4>2. g.last_record_end # NoOffset => g.last_record_end \in at..(E - 1)
        BY <3>1 DEF EndsAtRest
      <4> QED BY <1>1, <2>2, <4>1, <4>2
    <3>3. ~(g.last_record_end \in Nat /\ g.last_record_end >= w.limit)
      BY <1>1, <3>2
    <3> QED BY <2>2, <3>1, <3>3
  <2>5. g.records = t.records /\ g.error = t.error /\ (g.done <=> t.done)
    <3>1. g.records \in Seq(Records) /\ g.error \in Errors
      BY <2>3, StepperTypes
    <3>2. t.records = <<>> \o Placed(g.records, 0) /\ SameError(g.error, t.error, 0)
          /\ (g.done <=> t.done)
      BY <2>4 DEF Shadows
    <3> QED BY <3>1, <3>2, PlacedNowhere, ErrorNowhere
  <2>6. CutOff(w, at, g) <=> CutOff(w, at, t)
    BY <2>5 DEF CutOff
  <2>7. CASE CutOff(w, at, g)
    <3>1. Final(c, w, f) = t
      BY <2>7 DEF Final, CutOff
    <3>2. st.error = IoError /\ st.records = g.records
      BY <2>3, <2>7 DEF Ending
    <3> QED BY <2>1, <2>5, <2>6, <2>7, <3>1, <3>2 DEF Truth, run, T, at
  <2>8. CASE ~CutOff(w, at, g) /\ g.done
    <3>1. Final(c, w, f) = t
      BY <2>5, <2>8 DEF Final
    <3>2. st = g
      BY <2>3, <2>8 DEF Ending
    <3> QED BY <2>1, <2>5, <2>6, <2>8, <3>1, <3>2 DEF Truth, run, T, at
  <2>9. CASE ~CutOff(w, at, g) /\ ~g.done
    <3>1. st = Finalize(c, w, g) /\ E # w.bad
      BY <2>3, <2>9 DEF Ending
    <3> DEFINE f1 == Finalize(c, w, t)
    <3>2. Final(c, w, f) = f1
      BY <2>5, <2>9, <3>1 DEF Final
    <3>3. ShadowsHere(c, g, t, 0, <<>>)
      BY <2>4, <2>9 DEF ShadowsHere
    <3>4. EofOf(w) = 0 + EofOf(w)
      BY <1>1
    <3> HIDE DEF t
    <3>5. FinalAlike(g, 0, <<>>, EofOf(w), Finalize(c, w, g), Finalize(c, w, t))
      BY <1>1, <1>6, <2>3, <3>3, <3>4, FinalizeAlike
    <3> HIDE DEF f1
    <3>6. FinalAlike(g, 0, <<>>, EofOf(w), st, f1)
      BY <3>1, <3>5 DEF f1
    <3>7. /\ st \in Steppers /\ f1.records = <<>> \o Placed(st.records, 0)
          /\ SameError(st.error, f1.error, 0)
      BY <3>6 DEF FinalAlike
    <3>8. st.records \in Seq(Records) /\ st.error \in Errors
      BY <3>7, StepperTypes
    <3>9. f1.records = st.records /\ f1.error = st.error
      BY <3>7, <3>8, PlacedNowhere, ErrorNowhere
    <3> QED BY <2>1, <2>6, <2>9, <3>2, <3>9 DEF Truth, run, T, at, t
  <2> QED BY <2>7, <2>8, <2>9
<1> QED BY <1>8, <1>9

-----------------------------------------------------------------------------
(* The whole pass comes to the end of the file, with these records and     *)
(* without an error.                                                       *)
AllRead(c, w, f, records) ==
  /\ ReadableEnd(w) = EofOf(w) /\ ReadableEnd(w) # w.bad
  /\ Final(c, w, f).records = records /\ Final(c, w, f).error = NoError

(* A place a record may end at: the whole is at rest before it, or behind  *)
(* the terminator there, or it is the end of the file.                     *)
Boundary(c, w, first, f, n, records) ==
  /\ n \in first..ReadableEnd(w)
  /\ \/ RestsAt(f, n, records)
     \/ /\ n < ReadableEnd(w) /\ ByteAt(w, n) \in Terminators(c)
        /\ RestsAt(f, n + 1, records)
     \/ n = ReadableEnd(w) /\ AllRead(c, w, f, records)

(* From here on there is no record, only empty lines and comments.         *)
Quiet(c, w, f, from, records) ==
  /\ AllRead(c, w, f, records)
  /\ LineEnds(c) => \A j \in from..(ReadableEnd(w) - 1) :
                      ByteAt(w, j) \in Terminators(c) => RestsAt(f, j + 1, records)

(* A pass that is done stopped on the first terminator behind its part.    *)
Outlasts(c, r, end) ==
  end >= r.limit /\ end < ReadableEnd(r) /\ ByteAt(r, end) \in Terminators(c)

(* What a pass over a part may come to.                                    *)
PassOutcome(c, r, w, first, f, T, a, from, before, pr) ==
  \/ pr.error = IoError
  \/ pr.error # NoError /\ pr.error \in Errors /\ SameError(pr.error, T.error, a)
  \/ /\ pr.error = NoError /\ pr.records \in Seq(Records)
     /\ \/ /\ pr.record_end \in Nat
           /\ Boundary(c, w, first, f, a + pr.record_end, before \o Placed(pr.records, a))
           /\ \/ AllRead(c, w, f, before \o Placed(pr.records, a))
              \/ Outlasts(c, r, pr.record_end)
        \/ /\ pr.record_end = NoOffset
           /\ Quiet(c, w, f, a + from, before \o Placed(pr.records, a))

LEMMA RestsBehindSkip ==
  ASSUME NEW c, NEW r, NEW w, NEW a, PartOf(c, r, w, a), NEW first, NEW f,
         WholeRun(c, w, first, f), NEW from \in Nat, NEW at \in from..ReadableEnd(r),
         first <= a + from, NEW before,
         \A j \in from..(at - 1) : ByteAt(r, j) \in Terminators(c),
         RestsAt(f, a + from, before) \/ (RestsAt(f, a + from + 1, before) /\ from < at)
  PROVE  /\ \A j \in (a + from + 1)..(a + at) : RestsAt(f, j, before)
         /\ RestsAt(f, a + at, before)
<1> DEFINE n == a + from
           m == a + at
           E == ReadableEnd(w)
<1>1. /\ GoodReader(c, w) /\ E < w.limit /\ first \in Nat /\ first <= E
      /\ RunsFrom(f, c, w, first, E) /\ E \in Nat
  BY WholeIs
<1>2. a \in Nat /\ E = a + ReadableEnd(r) /\ ReadableEnd(r) \in Nat
      /\ \A i \in 0..(ReadableEnd(r) - 1) : ByteAt(w, a + i) = ByteAt(r, i)
  <2>1. a \in Nat /\ E = a + ReadableEnd(r) /\ GoodReader(c, r)
        /\ \A i \in 0..(ReadableEnd(r) - 1) : ByteAt(w, a + i) = ByteAt(r, i)
    BY DEF PartOf
  <2> QED BY <2>1, ReaderIs
<1>3. n \in first..E /\ m \in n..E /\ m \in first..E /\ n \in Nat /\ m \in Nat
  BY <1>1, <1>2
<1>4. ASSUME NEW j \in n..(m - 1)  PROVE ByteAt(w, j) \in Terminators(c)
  <2> DEFINE i == j - a
  <2>1. i \in from..(at - 1) /\ i \in 0..(ReadableEnd(r) - 1) /\ a + i = j
    BY <1>2
  <2> HIDE DEF i
  <2>2. ByteAt(w, a + i) = ByteAt(r, i) /\ ByteAt(r, i) \in Terminators(c)
    BY <1>2, <2>1
  <2> QED BY <2>1, <2>2
<1> HIDE DEF E
<1>5. CASE RestsAt(f, n, before)
  <2>1. \A j \in n..m : RestsAt(f, j, before)
    <3> HIDE DEF n, m
    <3> QED BY <1>1, <1>3, <1>4, <1>5, RestsOn DEF E
  <2>2. m \in n..m /\ ((n + 1)..m) \subseteq (n..m)
    BY <1>3
  <2> QED BY <2>1, <2>2
<1>6. CASE RestsAt(f, n + 1, before) /\ from < at
  <2> DEFINE k == n + 1
  <2>1. k \in first..E /\ m \in k..E /\ m \in k..m /\ (k..(m - 1)) \subseteq (n..(m - 1))
    BY <1>1, <1>2, <1>3, <1>6
  <2>2. RestsAt(f, k, before)
    BY <1>6
  <2> HIDE DEF k, n, m
  <2>3. \A j \in k..(m - 1) : ByteAt(w, j) \in Terminators(c)
    BY <1>4, <2>1
  <2>4. \A j \in k..m : RestsAt(f, j, before)
    BY <1>1, <2>1, <2>2, <2>3, RestsOn DEF E
  <2>5. RestsAt(f, m, before)
    BY <2>1, <2>4
  <2> QED BY <2>4, <2>5 DEF k, n, m
<1> QED BY <1>5, <1>6

LEMMA NoErrorIsNone ==
  ASSUME NEW f, NEW a, SameError(NoError, f, a)
  PROVE  f = NoError
BY ErrorsAre DEF SameError

(* What the stepper of such a pass leaves.                                 *)
BodyFrom(c, r, w, first, f, a, from, b, before, g, st) ==
  /\ from \in Nat /\ b \in from..ReadableEnd(r) /\ first <= a + from
  /\ SkipEmptyLines(c, w, first).at \in Nat /\ SkipEmptyLines(c, w, first).at <= a + b
  /\ before \in Seq(Records) /\ g \in Steppers
  /\ \A j \in (a + from + 1)..(a + b) : RestsAt(f, j, before)
  /\ Follows(c, r, f, g, a, b, ReadableEnd(r), before)
  /\ Ending(c, r, b, g, st)

LEMMA PartIs ==
  ASSUME NEW c, NEW r, NEW w, NEW a, PartOf(c, r, w, a)
  PROVE  /\ GoodReader(c, r) /\ GoodReader(c, w) /\ a \in Nat
         /\ ReadableEnd(r) \in Nat /\ ReadableEnd(w) \in Nat
         /\ EofOf(r) \in Nat /\ EofOf(w) \in Nat
         /\ EofOf(w) = a + EofOf(r) /\ ReadableEnd(w) = a + ReadableEnd(r)
         /\ ReadableEnd(r) = r.bad <=> ReadableEnd(w) = w.bad
         /\ \A i \in 0..(ReadableEnd(r) - 1) : ByteAt(w, a + i) = ByteAt(r, i)
<1>1. /\ GoodReader(c, r) /\ GoodReader(c, w) /\ a \in Nat
      /\ EofOf(w) = a + EofOf(r) /\ ReadableEnd(w) = a + ReadableEnd(r)
      /\ ReadableEnd(r) = r.bad <=> ReadableEnd(w) = w.bad
      /\ \A i \in 0..(ReadableEnd(r) - 1) : ByteAt(w, a + i) = ByteAt(r, i)
  BY DEF PartOf
<1>2. /\ ReadableEnd(r) \in Nat /\ ReadableEnd(w) \in Nat
      /\ EofOf(r) \in Nat /\ EofOf(w) \in Nat
  BY <1>1, ReaderIs
<1> QED BY <1>1, <1>2

(* Where the last record of a part ended is a boundary.                    *)
LEMMA EndIsBoundary ==
  ASSUME NEW c, NEW r, NEW w, NEW a, PartOf(c, r, w, a), NEW first, NEW f,
         WholeRun(c, w, first, f), NEW b \in Nat, first <= a + b, NEW before, NEW g \in Steppers,
         EndsAtRest(c, r, f, g, a, b, ReadableEnd(r), before), g.last_record_end # NoOffset
  PROVE  Boundary(c, w, first, f, a + g.last_record_end, before \o Placed(g.records, a))
<1> DEFINE e == g.last_record_end
           N == ReadableEnd(r)
           E == ReadableEnd(w)
           all == before \o Placed(g.records, a)
<1>1. /\ e \in b..(N - 1) /\ ByteAt(r, e) \in Terminators(c) /\ RestsAt(f, a + e + 1, all)
  BY DEF EndsAtRest
<1>2. /\ a \in Nat /\ N \in Nat /\ E \in Nat /\ E = a + N
      /\ \A i \in 0..(N - 1) : ByteAt(w, a + i) = ByteAt(r, i)
  BY PartIs
<1>3. first \in Nat
  BY WholeIs
<1> HIDE DEF e, N, E, all
<1>4. e \in 0..(N - 1) /\ a + e \in first..E /\ a + e < E
  BY <1>1, <1>2, <1>3
<1>5. ByteAt(w, a + e) \in Terminators(c)
  BY <1>1, <1>2, <1>4
<1> QED BY <1>1, <1>4, <1>5 DEF Boundary, e, E, all

LEMMA BodyOutcome ==
  ASSUME NEW c, NEW r, NEW w, NEW a, PartOf(c, r, w, a), NEW first, NEW f,
         WholeRun(c, w, first, f), NEW T, Truth(c, w, first, f, T),
         NEW from, NEW b, NEW before, NEW g, NEW st,
         BodyFrom(c, r, w, first, f, a, from, b, before, g, st)
  PROVE  PassOutcome(c, r, w, first, f, T, a, from, before, Body(from, st))
<1> DEFINE N == ReadableEnd(r)
           E == ReadableEnd(w)
           t == f[E]
           at == SkipEmptyLines(c, w, first).at
           pr == Body(from, st)
           all == before \o Placed(pr.records, a)
<1>1. /\ from \in Nat /\ b \in from..N /\ first <= a + from
      /\ at \in Nat /\ at <= a + b /\ before \in Seq(Records) /\ g \in Steppers
      /\ \A j \in (a + from + 1)..(a + b) : RestsAt(f, j, before)
      /\ Follows(c, r, f, g, a, b, N, before)
      /\ Ending(c, r, b, g, st)
  BY DEF BodyFrom
<1>2. /\ GoodReader(c, r) /\ GoodReader(c, w) /\ a \in Nat /\ N \in Nat /\ E \in Nat
      /\ EofOf(r) \in Nat /\ EofOf(w) \in Nat /\ EofOf(w) = a + EofOf(r) /\ E = a + N
      /\ N = r.bad <=> E = w.bad
      /\ \A i \in 0..(N - 1) : ByteAt(w, a + i) = ByteAt(r, i)
  BY PartIs
<1>3. t \in Steppers /\ first \in Nat
  BY <1>2, WholeIs
<1>4. /\ T.records = Final(c, w, f).records
      /\ T.error = IF CutOff(w, at, t) THEN IoError ELSE Final(c, w, f).error
  BY DEF Truth
<1>5. pr.error = st.error /\ pr.records = st.records
      /\ (st.error = NoError => pr.record_end = st.last_record_end)
  BY DEF Body, PassResult
<1>6. st \in Steppers /\ st.records \in Seq(Records) /\ st.error \in Errors
      /\ st.last_record_end \in Offsets
  <2>1. st \in Steppers
    BY <1>1 DEF Ending
  <2> QED BY <2>1, StepperTypes
<1>7. /\ EndsAtRest(c, r, f, g, a, b, N, before) /\ RestsBetween(c, r, f, g, a, b, N, before)
      /\ \/ Shadows(g, t, a, before) /\ Clean(c, g)
         \/ /\ g.done /\ g.error = NoError /\ g.last_record_end \in Nat
            /\ g.last_record_end >= r.limit
  BY <1>1, <1>2 DEF Follows
<1>8. b \in Nat /\ first <= a + b
  BY <1>1, <1>2, <1>3
<1> HIDE DEF N, E, t, at, pr
<1>9. g.last_record_end # NoOffset =>
        Boundary(c, w, first, f, a + g.last_record_end, before \o Placed(g.records, a))
  <2> SUFFICES ASSUME g.last_record_end # NoOffset
               PROVE  Boundary(c, w, first, f, a + g.last_record_end, before \o Placed(g.records, a))
    OBVIOUS
  <2> QED BY <1>1, <1>7, <1>8, EndIsBoundary DEF N
<1>10. CASE CutOff(r, b, g)
  <2>1. pr.error = IoError
    BY <1>1, <1>5, <1>10 DEF Ending
  <2> QED BY <2>1 DEF PassOutcome, pr
<1>11. CASE ~CutOff(r, b, g) /\ g.done
  <2>1. st = g
    BY <1>1, <1>11 DEF Ending
  <2>2. CASE Shadows(g, t, a, before) /\ Clean(c, g)
    <3>1. g.error # NoError /\ t.done /\ SameError(g.error, t.error, a)
      BY <1>11, <2>2 DEF Shadows, Clean
    <3>2. ~CutOff(w, at, t)
      <4>1. N = r.bad => ~(N < b + FillAhead)
        BY <1>11 DEF CutOff, N
      <4>2. E = w.bad => ~(E < at + FillAhead)
        BY <1>1, <1>2, <1>8, <4>1 DEF FillAhead
      <4> QED BY <3>1, <4>2 DEF CutOff, E
    <3>3. T.error = t.error
      BY <1>4, <3>1, <3>2 DEF Final, t, E
    <3> QED BY <1>5, <1>6, <2>1, <3>1, <3>3 DEF PassOutcome, pr
  <2>3. CASE g.error = NoError /\ g.last_record_end \in Nat /\ g.last_record_end >= r.limit
    <3>1. g.last_record_end # NoOffset
      BY <2>3, ErrorsAre
    <3>2. pr.error = NoError /\ pr.records = g.records /\ pr.record_end = g.last_record_end
      BY <1>5, <2>1, <2>3
    <3>3. Boundary(c, w, first, f, a + pr.record_end, before \o Placed(pr.records, a))
      BY <1>9, <3>1, <3>2
    <3>4. Outlasts(c, r, pr.record_end)
      <4>1. /\ g.last_record_end \in b..(N - 1)
            /\ ByteAt(r, g.last_record_end) \in Terminators(c)
        BY <1>7, <3>1 DEF EndsAtRest
      <4>2. g.last_record_end < N
        BY <1>2, <1>8, <4>1
      <4> QED BY <2>3, <3>2, <4>1, <4>2 DEF Outlasts, N
    <3> QED BY <1>6, <2>1, <2>3, <3>2, <3>3, <3>4 DEF PassOutcome, pr
  <2> QED BY <1>7, <2>2, <2>3
<1>12. CASE ~CutOff(r, b, g) /\ ~g.done
  <2>1. st = Finalize(c, r, g) /\ N # r.bad /\ N = EofOf(r)
    BY <1>1, <1>12 DEF Ending, N
  <2>2. Shadows(g, t, a, before) /\ Clean(c, g) /\ ~t.done
    BY <1>7, <1>12 DEF Shadows
  <2>3. E # w.bad /\ E = EofOf(w)
    BY <1>2, <2>1
  <2> DEFINE f1 == Finalize(c, w, t)
  <2>4. Final(c, w, f) = f1
    BY <2>2, <2>3 DEF Final, t, E
  <2>5. T.error = f1.error
    <3>1. ~CutOff(w, at, t)
      BY <2>3 DEF CutOff, E
    <3> QED BY <1>4, <2>4, <3>1
  <2>6. ShadowsHere(c, g, t, a, before)
    BY <1>12, <2>2 DEF ShadowsHere
  <2>7. FinalAlike(g, a, before, EofOf(r), st, f1)
    <3>1. FinalAlike(g, a, before, EofOf(r), Finalize(c, r, g), Finalize(c, w, t))
      BY <1>1, <1>2, <1>3, <2>6, FinalizeAlike
    <3> QED BY <2>1, <3>1
  <2> HIDE DEF f1
  <2>8. /\ f1.records = before \o Placed(st.records, a) /\ SameError(st.error, f1.error, a)
        /\ st.error = NoError => (g.state \in Between /\ st = g) \/ st.last_record_end = EofOf(r)
    BY <2>7 DEF FinalAlike
  <2>9. CASE st.error # NoError
    BY <1>5, <1>6, <2>5, <2>8, <2>9 DEF PassOutcome, pr
  <2>10. CASE st.error = NoError
    <3>1. f1.error = NoError
      <4>1. SameError(NoError, f1.error, a)
        BY <2>8, <2>10
      <4> QED BY <4>1, NoErrorIsNone
    <3>2. AllRead(c, w, f, all)
      BY <1>5, <2>3, <2>4, <2>8, <3>1 DEF AllRead, E
    <3>3. pr.error = NoError /\ pr.records = st.records /\ pr.record_end = st.last_record_end
      BY <1>5, <2>10
    <3>4. CASE st.last_record_end = EofOf(r)
      <4>1. pr.record_end \in Nat /\ a + pr.record_end = E /\ E \in first..E
        <5>1. first <= E
          BY <1>2, WholeIs DEF E
        <5> QED BY <1>2, <1>3, <2>3, <3>3, <3>4, <5>1
      <4>2. Boundary(c, w, first, f, a + pr.record_end, all)
        BY <3>2, <4>1 DEF Boundary, E
      <4> QED BY <1>6, <3>2, <3>3, <4>1, <4>2 DEF PassOutcome, pr, all
    <3>5. CASE g.state \in Between /\ st = g /\ g.last_record_end # NoOffset
      <4>1. pr.record_end \in Nat
        BY <1>6, <3>3, <3>5 DEF Offsets
      <4>2. Boundary(c, w, first, f, a + pr.record_end, all)
        BY <1>9, <3>3, <3>5
      <4> QED BY <1>6, <3>2, <3>3, <4>1, <4>2 DEF PassOutcome, pr, all
    <3>6. CASE g.state \in Between /\ st = g /\ g.last_record_end = NoOffset
      <4>1. all = before
        <5>1. pr.records = <<>>
          BY <1>7, <3>3, <3>6 DEF EndsAtRest
        <5> QED BY <1>1, <1>2, <5>1, NothingPlaced
      <4>2. ASSUME LineEnds(c), NEW j \in (a + from)..(E - 1), ByteAt(w, j) \in Terminators(c)
            PROVE  RestsAt(f, j + 1, all)
        <5> DEFINE i == j - a
        <5>1. i \in from..(N - 1) /\ i \in 0..(N - 1) /\ a + i = j /\ a + i + 1 = j + 1
              /\ (i < b => a + i + 1 \in (a + from + 1)..(a + b))
              /\ (~(i < b) => i \in b..(N - 1))
          BY <1>1, <1>2
        <5> HIDE DEF i
        <5>2. ByteAt(r, i) \in Terminators(c)
          BY <1>2, <4>2, <5>1
        <5>3. CASE i < b
          BY <1>1, <4>1, <5>1, <5>3
        <5>4. CASE ~(i < b)
          <6>1. RestsAt(f, a + i + 1, before)
            BY <1>7, <1>12, <3>6, <4>2, <5>1, <5>2, <5>4 DEF RestsBetween
          <6> QED BY <4>1, <5>1, <6>1
        <5> QED BY <5>3, <5>4
      <4>3. Quiet(c, w, f, a + from, all)
        BY <3>2, <4>2 DEF Quiet, E
      <4> QED BY <1>6, <3>3, <3>6, <4>3 DEF PassOutcome, pr
    <3> QED BY <2>8, <2>10, <3>4, <3>5, <3>6
  <2> QED BY <2>9, <2>10
<1> QED BY <1>10, <1>11, <1>12

(* A pass that begins at a boundary agrees with the whole.                 *)
LEMMA PassIs ==
  ASSUME NEW c, NEW r, NEW w, NEW a, PartOf(c, r, w, a), NEW first, NEW f,
         WholeRun(c, w, first, f), NEW T, Truth(c, w, first, f, T),
         NEW from \in Nat, from <= ReadableEnd(r), NEW before,
         Boundary(c, w, first, f, a + from, before)
  PROVE  PassOutcome(c, r, w, first, f, T, a, from, before, ParseFromBoundary(c, r, from))
<1> DEFINE N == ReadableEnd(r)
           E == ReadableEnd(w)
           n == a + from
           run == SkipEmptyLines(c, r, from)
           b == run.at
           at == SkipEmptyLines(c, w, first).at
           pr == ParseFromBoundary(c, r, from)
<1>1. /\ GoodReader(c, r) /\ GoodReader(c, w) /\ a \in Nat /\ N \in Nat /\ E \in Nat
      /\ EofOf(r) \in Nat /\ EofOf(w) \in Nat /\ EofOf(w) = a + EofOf(r) /\ E = a + N
      /\ N = r.bad <=> E = w.bad
      /\ \A i \in 0..(N - 1) : ByteAt(w, a + i) = ByteAt(r, i)
  BY PartIs
<1>2. first \in Nat /\ first <= E
  BY WholeIs
<1>3. Skipped(c, r, from, run)
  BY <1>1, SkippedIs
<1>4. Skipped(c, w, first, SkipEmptyLines(c, w, first))
  BY <1>1, <1>2, SkippedIs
<1>5. /\ b \in from..N /\ b \in Nat /\ b <= N /\ n \in Nat /\ n \in first..E
      /\ at \in first..E /\ at \in Nat
      /\ \A j \in first..(at - 1) : ByteAt(w, j) \in Terminators(c)
      /\ \A j \in from..(b - 1) : ByteAt(r, j) \in Terminators(c)
  <2>1. n \in first..E
    BY DEF Boundary
  <2>2. b \in from..N /\ \A j \in from..(b - 1) : ByteAt(r, j) \in Terminators(c)
    BY <1>3 DEF Skipped
  <2>3. at \in first..E /\ \A j \in first..(at - 1) : ByteAt(w, j) \in Terminators(c)
    BY <1>4 DEF Skipped
  <2> HIDE DEF b, at
  <2> QED BY <1>1, <1>2, <2>1, <2>2, <2>3
<1>6. pr = IF run.failed THEN PassResult(from, NoOffset, <<>>, IoError)
           ELSE IF run.outlasts THEN PassResult(from, b, <<>>, NoError)
           ELSE Body(from, ParseFrom(c, r, b))
  BY DEF ParseFromBoundary
<1>7. first <= n
  BY <1>2, <1>5
<1>8. before \in Seq(Records)
  <2>1. CASE RestsAt(f, n, before)
    BY <1>5, <2>1, RecordsRemain
  <2>2. CASE n < E /\ RestsAt(f, n + 1, before)
    <3>1. n + 1 \in first..E
      BY <1>1, <1>2, <1>5, <2>2
    <3> QED BY <2>2, <3>1, RecordsRemain
  <2>3. CASE AllRead(c, w, f, before)
    <3>1. Final(c, w, f) \in Steppers
      BY FinalIs
    <3>2. Final(c, w, f).records \in Seq(Records)
      BY <3>1, StepperTypes
    <3> QED BY <2>3, <3>2 DEF AllRead
  <2> QED BY <2>1, <2>2, <2>3 DEF Boundary
<1> HIDE DEF N, E, n, run, at, pr
<1>9. ~run.failed /\ ~run.outlasts => at <= a + b
  <2> SUFFICES ASSUME ~run.failed, ~run.outlasts  PROVE at <= a + b
    OBVIOUS
  <2>1. b = N \/ ByteAt(r, b) \notin Terminators(c)
    BY <1>3 DEF Skipped, N
  <2>2. CASE b = N
    BY <1>1, <1>5, <2>2
  <2>3. CASE b # N
    <3> DEFINE m == a + b
    <3>0. m \in Nat /\ first <= m /\ b \in 0..(N - 1)
      BY <1>1, <1>2, <1>5, <1>7, <2>3 DEF n
    <3>1. ByteAt(w, m) \notin Terminators(c)
      BY <1>1, <2>1, <2>3, <3>0
    <3> HIDE DEF m
    <3>2. m \notin first..(at - 1)
      BY <1>5, <3>1
    <3>3. at <= m
      BY <1>2, <1>5, <3>0, <3>2
    <3> QED BY <3>3 DEF m
  <2> QED BY <2>2, <2>3
<1>10. CASE run.failed
  <2>1. pr.error = IoError
    BY <1>6, <1>10 DEF PassResult
  <2> QED BY <2>1 DEF PassOutcome, pr
<1>11. CASE ~run.failed /\ run.outlasts
  <2>1. b < N /\ ByteAt(r, b) \in Terminators(c)
    BY <1>3, <1>11 DEF Skipped, N
  <2>2. pr.error = NoError /\ pr.records = <<>> /\ pr.record_end = b
    BY <1>6, <1>11 DEF PassResult
  <2>3. before \o Placed(pr.records, a) = before
    BY <1>1, <1>8, <2>2, NothingPlaced
  <2>4. a + b \in first..E /\ a + b < E /\ b \in 0..(N - 1)
    BY <1>1, <1>2, <1>5, <1>7, <2>1 DEF n
  <2>5. ByteAt(w, a + b) \in Terminators(c)
    BY <1>1, <2>1, <2>4
  <2>6. Boundary(c, w, first, f, a + b, before)
    <3>1. CASE b = from
      BY <3>1 DEF n
    <3>2. CASE b # from /\ n = E
      BY <1>1, <1>5, <2>1, <3>2 DEF n
    <3>3. CASE b # from /\ n # E
      <4>1. RestsAt(f, n, before) \/ RestsAt(f, n + 1, before)
        BY <3>3 DEF Boundary, n, E
      <4>2. from < b
        BY <1>5, <3>3
      <4>3. RestsAt(f, a + from, before) \/ (RestsAt(f, a + from + 1, before) /\ from < b)
        BY <4>1, <4>2 DEF n
      <4>4. b \in from..ReadableEnd(r) /\ first <= a + from
        BY <1>5, <1>7 DEF n, N
      <4> HIDE DEF b
      <4>5. RestsAt(f, a + b, before)
        BY <1>5, <4>3, <4>4, RestsBehindSkip
      <4> QED BY <2>4, <4>5 DEF Boundary, E
    <3> QED BY <3>1, <3>2, <3>3
  <2>7. pr.records \in Seq(Records)
    BY <2>2
  <2>8. Outlasts(c, r, b)
    BY <1>3, <1>11, <2>1 DEF Skipped, Outlasts, N
  <2> QED BY <1>5, <2>2, <2>3, <2>6, <2>7, <2>8 DEF PassOutcome, pr
<1>12. CASE ~run.failed /\ ~run.outlasts
  <2> DEFINE st == ParseFrom(c, r, b)
  <2>1. pr = Body(from, st)
    BY <1>6, <1>12
  <2>2. CASE n = E /\ AllRead(c, w, f, before)
    <3>1. b = N /\ from = N
      BY <1>1, <1>5, <2>2 DEF n
    <3> HIDE DEF b
    <3>2. PICK g : RunsFrom(g, c, r, b, N) /\ st = EndOfRun(c, r, b, g[N])
      BY <1>1, <1>5, ParseIs DEF N
    <3>3. g[N] = NewStepper(N)
      BY <3>1, <3>2 DEF RunsFrom
    <3> DEFINE s == NewStepper(N)
    <3>4. /\ s \in Steppers /\ s.state = "RecordStart" /\ s.records = <<>>
          /\ s.last_record_end = NoOffset /\ s.error = NoError /\ ~s.done
      BY <1>1, StartIs
    <3> HIDE DEF s, st
    <3>5. Ending(c, r, b, s, st)
      BY <1>1, <1>5, <3>2, <3>3, <3>4, EndIs DEF s
    <3>6. N # r.bad
      BY <1>1, <2>2 DEF AllRead, E
    <3>7. st = s
      <4>1. ~CutOff(r, b, s)
        BY <3>6 DEF CutOff, N
      <4>2. st = Finalize(c, r, s)
        BY <3>4, <3>5, <4>1 DEF Ending
      <4> QED BY <3>4, <4>2 DEF Finalize
    <3>8. pr.error = NoError /\ pr.records = <<>> /\ pr.record_end = NoOffset
      BY <2>1, <3>4, <3>7 DEF Body, PassResult
    <3>9. before \o Placed(pr.records, a) = before
      BY <1>1, <1>8, <3>8, NothingPlaced
    <3>10. Quiet(c, w, f, a + from, before)
      <4>1. (a + from)..(E - 1) = {}
        BY <1>1, <2>2 DEF n
      <4> QED BY <2>2, <4>1 DEF Quiet, E
    <3>11. pr.records \in Seq(Records)
      BY <3>8
    <3> QED BY <3>8, <3>9, <3>10, <3>11 DEF PassOutcome, pr
  <2>3. CASE ~(n = E /\ AllRead(c, w, f, before))
    <3>1. RestsAt(f, n, before) \/ (RestsAt(f, n + 1, before) /\ from < b)
      <4>1. CASE RestsAt(f, n, before)
        BY <4>1
      <4>2. CASE n < E /\ ByteAt(w, n) \in Terminators(c) /\ RestsAt(f, n + 1, before)
        <5>1. from \in 0..(N - 1) /\ from < N
          BY <1>1, <4>2 DEF n
        <5>2. ByteAt(r, from) \in Terminators(c)
          BY <1>1, <4>2, <5>1 DEF n
        <5>3. b = N \/ ByteAt(r, b) \notin Terminators(c)
          BY <1>3, <1>12 DEF Skipped, N
        <5>4. b # from
          BY <1>1, <5>1, <5>2, <5>3
        <5> HIDE DEF b
        <5>5. from < b
          BY <1>5, <5>4
        <5> QED BY <4>2, <5>5
      <4> QED BY <2>3, <4>1, <4>2 DEF Boundary, n, E
    <3> HIDE DEF b, st
    <3>2. /\ \A j \in (a + from + 1)..(a + b) : RestsAt(f, j, before)
          /\ RestsAt(f, a + b, before)
      <4>1. RestsAt(f, a + from, before) \/ (RestsAt(f, a + from + 1, before) /\ from < b)
        BY <3>1 DEF n
      <4>2. b \in from..ReadableEnd(r) /\ first <= a + from
        BY <1>5, <1>7 DEF n, N
      <4> QED BY <1>5, <4>1, <4>2, RestsBehindSkip
    <3>3. first <= a + b /\ b <= ReadableEnd(r)
      BY <1>1, <1>2, <1>5, <1>7 DEF n, N
    <3>4. PICK g : /\ g \in Steppers /\ Follows(c, r, f, g, a, b, ReadableEnd(r), before)
                   /\ Ending(c, r, b, g, st)
      BY <1>5, <3>2, <3>3, PassFollows DEF st
    <3>5. BodyFrom(c, r, w, first, f, a, from, b, before, g, st)
      BY <1>5, <1>7, <1>8, <1>9, <1>12, <3>2, <3>4 DEF BodyFrom, at, n, N
    <3>6. PassOutcome(c, r, w, first, f, T, a, from, before, Body(from, st))
      BY <3>5, BodyOutcome
    <3> QED BY <2>1, <3>6 DEF pr
  <2> QED BY <2>2, <2>3
<1> QED BY <1>10, <1>11, <1>12

(* The records of a boundary are the first ones of the whole.              *)
LEMMA BoundaryHolds ==
  ASSUME NEW c, NEW w, NEW first, NEW f, WholeRun(c, w, first, f), NEW T,
         Truth(c, w, first, f, T), NEW n, NEW records,
         Boundary(c, w, first, f, n, records) \/ AllRead(c, w, f, records)
  PROVE  /\ records \in Seq(Records) /\ T.records \in Seq(Records)
         /\ IsPrefix(records, T.records)
<1> DEFINE all == Final(c, w, f).records
<1>1. T.records = all
  BY DEF Truth
<1>2. all \in Seq(Records)
  BY FinalIs, StepperTypes
<1>3. /\ ReadableEnd(w) \in Nat /\ first \in Nat
      /\ n + 1 \in first..ReadableEnd(w) \/ ~(n \in first..ReadableEnd(w) /\ n < ReadableEnd(w))
  <2>1. ReadableEnd(w) \in Nat /\ first \in Nat
    BY WholeIs
  <2> QED BY <2>1
<1> HIDE DEF all
<1>4. records \in Seq(Records) /\ Extends(records, all)
  <2>1. CASE AllRead(c, w, f, records)
    <3>1. records = all
      BY <2>1 DEF AllRead, all
    <3> QED BY <1>2, <3>1, ExtendsItself
  <2>2. CASE n \in first..ReadableEnd(w) /\ RestsAt(f, n, records)
    BY <2>2, RecordsRemain DEF all
  <2>3. CASE n + 1 \in first..ReadableEnd(w) /\ RestsAt(f, n + 1, records)
    BY <2>3, RecordsRemain DEF all
  <2> QED BY <1>3, <2>1, <2>2, <2>3 DEF Boundary
<1>5. IsPrefix(records, all)
  BY <1>2, <1>4, PrefixIs
<1> QED BY <1>1, <1>2, <1>4, <1>5

-----------------------------------------------------------------------------
(* The readers that the scheduler opens.                                   *)
Whole(j) == ChunkReader(j, 0, FileSize(j) + 1)

LEMMA JobIs ==
  ASSUME NEW j \in Jobs
  PROVE  /\ ValidDialect(j.config) /\ j.config \in Dialects
         /\ j.file \in Seq(STRING) /\ FileSize(j) \in Nat
         /\ \A i \in 1..FileSize(j) : j.file[i] # NoByte
         /\ j.chunk_size \in Nat /\ j.chunk_size > 0 /\ j.bad \in Offsets
<1>1. /\ ValidDialect(j.config) /\ j.config \in Dialects
      /\ j.file \in Seq(STRING) /\ \A i \in DOMAIN j.file : j.file[i] # NoByte
      /\ j.chunk_size \in Nat \ {0} /\ j.bad \in {NoOffset} \cup Nat
  <2>1. j \in [config : Dialects, file : Seq(STRING), chunk_size : Nat \ {0},
               bad : {NoOffset} \cup Nat]
    BY JobsAssumption
  <2>2. ValidDialect(j.config) /\ \A i \in DOMAIN j.file : j.file[i] # NoByte
    BY JobsAssumption
  <2> QED BY <2>1, <2>2
<1>2. FileSize(j) \in Nat /\ DOMAIN j.file = 1..FileSize(j)
  BY <1>1 DEF FileSize
<1>3. j.chunk_size \in Nat /\ j.chunk_size > 0
  BY <1>1
<1> QED BY <1>1, <1>2, <1>3 DEF Offsets

LEMMA ChunkReaderIs ==
  ASSUME NEW j \in Jobs, NEW from \in 0..FileSize(j), NEW to \in Nat, from <= to
  PROVE  LET r == ChunkReader(j, from, to)
         IN  /\ GoodReader(j.config, r) /\ EofOf(r) = FileSize(j) - from
             /\ r.limit = to - from
             /\ r.bad = (IF j.bad < from THEN NoOffset ELSE j.bad - from)
             /\ \A i \in 0..(FileSize(j) - from - 1) : ByteAt(r, i) = j.file[from + i + 1]
<1> DEFINE r == ChunkReader(j, from, to)
           size == FileSize(j)
           bytes == SubSeq(j.file, from + 1, size)
<1>1. /\ ValidDialect(j.config) /\ j.file \in Seq(STRING) /\ size \in Nat
      /\ \A i \in 1..size : j.file[i] # NoByte /\ j.bad \in Offsets
  BY JobIs
<1>2. r.bytes = bytes /\ r.limit = to - from
      /\ r.bad = (IF j.bad < from THEN NoOffset ELSE j.bad - from)
  BY DEF ChunkReader
<1>3. /\ bytes \in Seq(STRING) /\ Len(bytes) = size - from
      /\ \A i \in 1..(size - from) : bytes[i] = j.file[from + i]
  <2>1. from \in Nat /\ from <= size /\ size <= Len(j.file)
    BY <1>1 DEF FileSize
  <2> HIDE DEF size
  <2> QED BY <1>1, <2>1, Slice
<1> HIDE DEF r, size, bytes
<1>4. r.limit \in Nat
  BY <1>2
<1>5. r.bad \in Offsets
  <2>1. from \in Nat /\ j.bad \in Offsets /\ NoOffset = -1
    BY JobIs DEF NoOffset
  <2>2. CASE j.bad < from
    BY <1>2, <2>2 DEF Offsets
  <2>3. CASE ~(j.bad < from)
    <3>1. j.bad \in Nat
      BY <2>1, <2>3 DEF Offsets
    <3>2. j.bad - from \in Nat
      BY <2>1, <2>3, <3>1
    <3> QED BY <1>2, <2>3, <3>2 DEF Offsets
  <2> QED BY <2>2, <2>3
<1>6. ASSUME NEW i \in 1..(size - from)  PROVE bytes[i] # NoByte
  <2>1. from + i \in 1..size
    BY <1>1
  <2> QED BY <1>1, <1>3, <2>1
<1>7. GoodReader(j.config, r)
  BY <1>1, <1>2, <1>3, <1>4, <1>5, <1>6 DEF GoodReader
<1>8. EofOf(r) = size - from
  BY <1>2, <1>3 DEF EofOf
<1>9. ASSUME NEW i \in 0..(size - from - 1)  PROVE ByteAt(r, i) = j.file[from + i + 1]
  <2>1. i + 1 \in 1..(size - from) /\ from + (i + 1) = from + i + 1
    BY <1>1
  <2>2. bytes[i + 1] = j.file[from + (i + 1)]
    BY <1>3, <2>1
  <2> QED BY <1>2, <2>1, <2>2 DEF ByteAt
<1> QED BY <1>2, <1>7, <1>8, <1>9 DEF r, size

LEMMA WholeReader ==
  ASSUME NEW j \in Jobs
  PROVE  /\ GoodReader(j.config, Whole(j)) /\ EofOf(Whole(j)) = FileSize(j)
         /\ ReadableEnd(Whole(j)) \in Nat /\ ReadableEnd(Whole(j)) <= FileSize(j)
         /\ ReadableEnd(Whole(j)) < Whole(j).limit
         /\ Whole(j).bad = j.bad
         /\ \A i \in 0..(FileSize(j) - 1) : ByteAt(Whole(j), i) = j.file[i + 1]
<1> DEFINE w == Whole(j)
           size == FileSize(j)
<1>1. size \in Nat /\ 0 \in 0..size /\ size + 1 \in Nat /\ 0 <= size + 1 /\ j.bad \in Offsets
  BY JobIs
<1>2. /\ GoodReader(j.config, w) /\ EofOf(w) = size - 0 /\ w.limit = (size + 1) - 0
      /\ w.bad = (IF j.bad < 0 THEN NoOffset ELSE j.bad - 0)
      /\ \A i \in 0..(size - 0 - 1) : ByteAt(w, i) = j.file[0 + i + 1]
  <2> HIDE DEF size
  <2> QED BY <1>1, ChunkReaderIs DEF Whole, size
<1>3. ReadableEnd(w) \in Nat /\ ReadableEnd(w) <= EofOf(w)
  BY <1>2, ReaderIs
<1> HIDE DEF w, size
<1>4. EofOf(w) = size /\ ReadableEnd(w) <= size /\ ReadableEnd(w) < w.limit
  BY <1>1, <1>2, <1>3
<1>5. w.bad = j.bad
  <2>1. CASE j.bad = NoOffset
    BY <1>2, <2>1 DEF NoOffset
  <2>2. CASE j.bad # NoOffset
    <3>1. j.bad \in Nat
      BY <1>1, <2>2 DEF Offsets
    <3> QED BY <1>2, <3>1
  <2> QED BY <2>1, <2>2
<1>6. ASSUME NEW i \in 0..(size - 1)  PROVE ByteAt(w, i) = j.file[i + 1]
  <2>1. i \in 0..(size - 0 - 1) /\ 0 + i + 1 = i + 1
    BY <1>1
  <2> QED BY <1>2, <2>1
<1> QED BY <1>2, <1>3, <1>4, <1>5, <1>6 DEF w, size

LEMMA ChunkIsPart ==
  ASSUME NEW j \in Jobs, NEW from \in Nat, from <= ReadableEnd(Whole(j)),
         NEW to \in Nat, from <= to
  PROVE  PartOf(j.config, ChunkReader(j, from, to), Whole(j), from)
<1> DEFINE r == ChunkReader(j, from, to)
           w == Whole(j)
           size == FileSize(j)
           N == ReadableEnd(r)
           E == ReadableEnd(w)
           bad == j.bad
<1>1. /\ GoodReader(j.config, w) /\ EofOf(w) = size /\ E \in Nat /\ E <= size
      /\ E < w.limit /\ w.bad = bad
      /\ \A i \in 0..(size - 1) : ByteAt(w, i) = j.file[i + 1]
  BY WholeReader
<1>2. from \in 0..size /\ size \in Nat /\ bad \in Offsets /\ NoOffset = -1
  BY <1>1, JobIs DEF NoOffset
<1>3. /\ GoodReader(j.config, r) /\ EofOf(r) = size - from
      /\ r.bad = (IF bad < from THEN NoOffset ELSE bad - from)
      /\ \A i \in 0..(size - from - 1) : ByteAt(r, i) = j.file[from + i + 1]
  BY <1>2, ChunkReaderIs
<1>4. E = (IF bad \in Nat /\ bad <= size THEN bad ELSE size)
  BY <1>1, ReaderIs
<1>5. N = (IF r.bad \in Nat /\ r.bad <= EofOf(r) THEN r.bad ELSE EofOf(r)) /\ N \in Nat
  BY <1>3, ReaderIs
<1>6. from <= E
  OBVIOUS
<1> HIDE DEF r, w, size, N, E, bad
<1>7. E = from + N /\ (N = r.bad <=> E = w.bad)
  <2>1. CASE bad = NoOffset
    <3>1. bad < from /\ bad \notin Nat
      BY <1>2, <2>1
    <3>2. r.bad = NoOffset /\ r.bad \notin Nat
      BY <1>2, <1>3, <3>1
    <3>3. E = size /\ N = size - from
      BY <1>3, <1>4, <1>5, <3>1, <3>2
    <3> QED BY <1>1, <1>2, <1>3, <1>5, <2>1, <3>2, <3>3
  <2>2. CASE bad # NoOffset
    <3>1. bad \in Nat
      BY <1>2, <2>2 DEF Offsets
    <3>2. ~(bad < from)
      BY <1>2, <1>4, <1>6, <3>1
    <3>3. r.bad = bad - from /\ r.bad \in Nat
      BY <1>2, <1>3, <3>1, <3>2
    <3> QED BY <1>1, <1>2, <1>3, <1>4, <1>5, <3>1, <3>3
  <2> QED BY <2>1, <2>2
<1>8. EofOf(w) = from + EofOf(r)
  BY <1>1, <1>2, <1>3
<1>9. ASSUME NEW i \in 0..(N - 1)  PROVE ByteAt(w, from + i) = ByteAt(r, i)
  <2>1. i \in 0..(size - from - 1) /\ from + i \in 0..(size - 1)
    BY <1>1, <1>2, <1>5, <1>7
  <2> QED BY <1>1, <1>3, <2>1
<1> QED BY <1>1, <1>3, <1>7, <1>8, <1>9 DEF PartOf, r, w, N, E

-----------------------------------------------------------------------------
(* A scan is in a state of the table until it comes to an end, and one     *)
(* that finds the end of a record has found a terminator.                  *)
GoodScan(c, r, scan, n) ==
  /\ scan.state \in InteriorStates \cup ScanOutcomes
  /\ scan.state \in ScanOutcomes => scan.at \in 0..(n - 1)
  /\ scan.state = "RecordEnd" => ByteAt(r, scan.at) \in Terminators(c)

LEMMA ScanByteIs ==
  ASSUME NEW c, ValidDialect(c), NEW strict, NEW r, NEW i \in Nat, NEW s, GoodScan(c, r, s, i)
  PROVE  GoodScan(c, r, ScanByte(c, strict, r, s, i), i + 1)
<1> DEFINE b == ByteAt(r, i)
           cell == Transition(c, s.state, b)
           t == ScanByte(c, strict, r, s, i)
<1>1. (0..(i - 1)) \subseteq (0..((i + 1) - 1)) /\ i \in 0..((i + 1) - 1)
  OBVIOUS
<1>2. CASE s.state \in ScanOutcomes
  <2>1. t = s
    BY <1>2 DEF ScanByte
  <2> HIDE DEF t
  <2> QED BY <1>1, <2>1 DEF GoodScan, t
<1>3. CASE s.state \notin ScanOutcomes
  <2>1. t = ScanTaking(cell, strict, i)
    BY <1>3 DEF ScanByte
  <2>2. s.state \in InteriorStates
    BY <1>3 DEF GoodScan
  <2>3. /\ cell.next \in InteriorStates \cup ActionStates
        /\ cell.next = "RecordEnd" => b \in Terminators(c)
    BY <2>2, CellsAre
  <2> HIDE DEF cell, t
  <2>4. t.at = i /\ t.state = (IF strict /\ cell.strict THEN "Error"
                               ELSE IF cell.next = "FieldEnd" THEN "FieldStart"
                               ELSE cell.next)
    BY <2>1 DEF ScanTaking
  <2>5. t.state \in InteriorStates \cup ScanOutcomes
    BY <2>3, <2>4 DEF InteriorStates, ActionStates, ScanOutcomes
  <2>6. t.state = "RecordEnd" => cell.next = "RecordEnd"
    BY <2>4
  <2> QED BY <1>1, <2>3, <2>4, <2>5, <2>6 DEF GoodScan, t, b
<1> QED BY <1>2, <1>3

LEMMA ScanRunGood ==
  ASSUME NEW c, ValidDialect(c), NEW strict, NEW r, NEW state \in InteriorStates,
         NEW n \in Nat, NEW f, ScanRunOf(f, c, strict, r, state, n)
  PROVE  \A i \in 0..n : GoodScan(c, r, f[i], i)
<1> DEFINE T == {i \in 0..n : ~GoodScan(c, r, f[i], i)}
<1>1. T \in SUBSET Nat
  OBVIOUS
<1>2. /\ f[0] = [state |-> state, at |-> NoOffset]
      /\ FollowsTheBytes(f, c, strict, r, n)
  BY ScanRunIs
<1>3. ASSUME NEW x \in T, \A y \in T : x <= y  PROVE FALSE
  <2>1. x \in Nat /\ x \in 0..n /\ ~GoodScan(c, r, f[x], x)
    BY <1>1, <1>3
  <2>2. CASE x = 0
    <3>1. f[0].state = state /\ state \notin ScanOutcomes
      BY <1>2 DEF InteriorStates, ScanOutcomes
    <3>2. f[0].state # "RecordEnd"
      BY <3>1 DEF ScanOutcomes
    <3> QED BY <2>1, <2>2, <3>1, <3>2 DEF GoodScan
  <2>3. CASE x # 0
    <3>1. x - 1 \in 0..n /\ x - 1 \in Nat /\ ~(x <= x - 1) /\ x \in 1..n /\ (x - 1) + 1 = x
      BY <2>1, <2>3
    <3>2. f[x] = ScanByte(c, strict, r, f[x - 1], x - 1)
      BY <1>2, <3>1 DEF FollowsTheBytes
    <3>3. GoodScan(c, r, f[x - 1], x - 1)
      BY <1>3, <3>1
    <3>4. GoodScan(c, r, ScanByte(c, strict, r, f[x - 1], x - 1), (x - 1) + 1)
      BY <3>1, <3>3, ScanByteIs
    <3> QED BY <2>1, <3>1, <3>2, <3>4
  <2> QED BY <2>2, <2>3
<1>4. T = {}
  <2> HIDE DEF T
  <2> QED BY <1>1, <1>3, LeastElement
<1> QED BY <1>4

(* What find_record_start reports of a reader.                             *)
BufEnd(r) == Min({r.limit, ReadableEnd(r)})
Found(c, r, scan) ==
  /\ scan.state \in InteriorStates \cup ScanOutcomes \cup {"IoError"}
  /\ scan.state \in ScanOutcomes =>
       scan.at \in Nat /\ scan.at < r.limit /\ scan.at < ReadableEnd(r)
  /\ scan.state = "RecordEnd" => ByteAt(r, scan.at) \in Terminators(c)

LEMMA BufEndIs ==
  ASSUME NEW c, NEW r, GoodReader(c, r)
  PROVE  /\ BufEnd(r) = IF r.limit <= ReadableEnd(r) THEN r.limit ELSE ReadableEnd(r)
         /\ BufEnd(r) \in Nat /\ BufEnd(r) <= r.limit /\ BufEnd(r) <= ReadableEnd(r)
         /\ r.limit \in Nat /\ ReadableEnd(r) \in Nat
<1>1. r.limit \in Nat /\ ReadableEnd(r) \in Nat
  <2>1. r.limit \in Nat
    BY DEF GoodReader
  <2> QED BY <2>1, ReaderIs
<1>2. BufEnd(r) = IF r.limit <= ReadableEnd(r) THEN r.limit ELSE ReadableEnd(r)
  BY <1>1, MinOfTwo DEF BufEnd
<1> QED BY <1>1, <1>2

LEMMA ScanFinds ==
  ASSUME NEW c, ValidDialect(c), NEW d, NEW r, GoodReader(d, r), NEW strict,
         NEW state \in InteriorStates
  PROVE  Found(c, r, FindRecordStartFrom(c, strict, r, state))
<1> DEFINE n == BufEnd(r)
           f == CHOOSE g : ScanRunOf(g, c, strict, r, state, n)
           scan == FindRecordStartFrom(c, strict, r, state)
<1>1. n \in Nat /\ n <= r.limit /\ n <= ReadableEnd(r) /\ r.limit \in Nat /\ ReadableEnd(r) \in Nat
  BY BufEndIs
<1>2. scan = UnlessUnreadable(r, n, ScanTo(c, strict, r, state, n))
  BY DEF FindRecordStartFrom, BufEnd
<1> HIDE DEF n, scan
<1>3. ScanRunOf(f, c, strict, r, state, n) /\ ScanTo(c, strict, r, state, n) = f[n]
  BY <1>1, ScanToIs
<1> HIDE DEF f
<1>4. n \in 0..n
  BY <1>1
<1>5. GoodScan(c, r, f[n], n)
  BY <1>1, <1>3, <1>4, ScanRunGood
<1>6. scan = f[n] \/ scan.state = "IoError"
  BY <1>2, <1>3 DEF UnlessUnreadable
<1>7. CASE scan = f[n]
  <2>1. scan.at \in 0..(n - 1) => scan.at \in Nat /\ scan.at < r.limit /\ scan.at < ReadableEnd(r)
    BY <1>1
  <2> QED BY <1>5, <1>7, <2>1 DEF GoodScan, Found, scan
<1>8. CASE scan.state = "IoError"
  BY <1>8 DEF Found, ScanOutcomes, scan
<1> QED BY <1>6, <1>7, <1>8

FindModes == {"No", "SkipHeaders", "Strict", "Lenient"}
Assumptions == {"OutOfQuotes", "InQuotes", "InQuotesAfterEscape"}

LEMMA FindDfaIs ==
  ASSUME NEW c \in Dialects, ValidDialect(c)
  PROVE  ValidDialect(FindDfa(c)) /\ Terminators(FindDfa(c)) = Terminators(c)
<1> DEFINE d == FindDfa(c)
<1>1. /\ d.quote_handling = "Toggle" /\ d.delimiter = c.delimiter /\ d.quote = c.quote
      /\ d.escape = c.escape /\ d.comment = c.comment /\ d.terminator = c.terminator
  BY DEF FindDfa, Dialects
<1> HIDE DEF d
<1>2. Terminators(d) = Terminators(c)
  BY <1>1 DEF Terminators
<1>3. ValidDialect(d)
  BY <1>1, <1>2 DEF ValidDialect, QuoteHandlings
<1> QED BY <1>2, <1>3 DEF d

LEMMA ScanIsFound ==
  ASSUME NEW c \in Dialects, NEW r, GoodReader(c, r), NEW assumption \in Assumptions,
         NEW find \in FindModes, find # "No"
  PROVE  Found(c, r, Scan(c, r, assumption, find))
<1>1. ValidDialect(c)
  BY DEF GoodReader
<1>2. ValidDialect(FindDfa(c)) /\ Terminators(FindDfa(c)) = Terminators(c)
  BY <1>1, FindDfaIs
<1> DEFINE state == AssumptionToState(c, assumption)
<1>3. state \in InteriorStates
  BY DEF AssumptionToState, Assumptions, InteriorStates
<1>4. CASE find = "SkipHeaders"
  <2>1. "RecordStart" \in InteriorStates
    BY DEF InteriorStates
  <2>2. Found(c, r, FindRecordStartFrom(c, FALSE, r, "RecordStart"))
    BY <1>1, <2>1, ScanFinds
  <2> QED BY <1>4, <2>2 DEF Scan, ScanHeaderEnd
<1>5. ASSUME NEW strict, Scan(c, r, assumption, find) = ScanRecordStart(c, r, assumption, strict)
      PROVE  Found(c, r, Scan(c, r, assumption, find))
  <2> DEFINE d == FindDfa(c)
             scan == Scan(c, r, assumption, find)
  <2>1. scan = FindRecordStartFrom(d, strict, r, state)
    BY <1>5 DEF ScanRecordStart
  <2> HIDE DEF d, scan, state
  <2>2. Found(d, r, FindRecordStartFrom(d, strict, r, state))
    BY <1>2, <1>3, ScanFinds DEF d
  <2>3. Found(d, r, scan)
    BY <2>1, <2>2
  <2> QED BY <1>2, <2>3 DEF Found, d, scan
<1>6. find \in {"Strict", "Lenient"} =>
        \E strict : Scan(c, r, assumption, find) = ScanRecordStart(c, r, assumption, strict)
  BY DEF Scan
<1> QED BY <1>4, <1>5, <1>6 DEF FindModes

(* What a pass may be, whatever it was made from.                          *)
Typed(r, pr) ==
  /\ pr.error \in Errors /\ pr.records \in Seq(Records)
  /\ pr.record_end \in {NoOffset} \cup (0..EofOf(r))

LEMMA BoundaryParseIs ==
  ASSUME NEW c, NEW r, GoodReader(c, r), NEW from \in Nat, from <= ReadableEnd(r)
  PROVE  LET pr == ParseFromBoundary(c, r, from)
         IN  Typed(r, pr) /\ pr.record_start = from
<1> DEFINE run == SkipEmptyLines(c, r, from)
           b == run.at
           pr == ParseFromBoundary(c, r, from)
           N == ReadableEnd(r)
<1>1. N \in Nat /\ EofOf(r) \in Nat /\ N <= EofOf(r)
  BY ReaderIs
<1>2. Skipped(c, r, from, run)
  BY SkippedIs
<1>3. b \in from..N /\ b \in Nat /\ b <= N /\ b \in 0..EofOf(r)
  <2>1. b \in from..N
    BY <1>2 DEF Skipped
  <2> HIDE DEF b
  <2> QED BY <1>1, <2>1
<1>4. pr = IF run.failed THEN PassResult(from, NoOffset, <<>>, IoError)
           ELSE IF run.outlasts THEN PassResult(from, b, <<>>, NoError)
           ELSE Body(from, ParseFrom(c, r, b))
  BY DEF ParseFromBoundary
<1>5. <<>> \in Seq(Records) /\ IoError \in Errors /\ NoError \in Errors /\ IoError # NoError
  BY ErrorsAre
<1> HIDE DEF run, b, N
<1>6. CASE run.failed
  <2>1. pr = PassResult(from, NoOffset, <<>>, IoError)
    BY <1>4, <1>6
  <2> HIDE DEF pr
  <2>2. pr.error = IoError /\ pr.records = <<>> /\ pr.record_end = NoOffset
        /\ pr.record_start = from
    BY <1>5, <2>1 DEF PassResult
  <2> QED BY <1>5, <2>2 DEF Typed, pr
<1>7. CASE ~run.failed /\ run.outlasts
  <2>1. pr = PassResult(from, b, <<>>, NoError)
    BY <1>4, <1>7
  <2> HIDE DEF pr
  <2>2. pr.error = NoError /\ pr.records = <<>> /\ pr.record_end = b /\ pr.record_start = from
    BY <2>1 DEF PassResult
  <2> QED BY <1>3, <1>5, <2>2 DEF Typed, pr
<1>8. CASE ~run.failed /\ ~run.outlasts
  <2> DEFINE st == ParseFrom(c, r, b)
  <2>1. PICK g : RunsFrom(g, c, r, b, N) /\ st = EndOfRun(c, r, b, g[N])
    BY <1>3, ParseIs DEF N
  <2>2. N <= ReadableEnd(r) /\ N \in b..N
    BY <1>1, <1>3 DEF N
  <2> HIDE DEF st
  <2>3. g[N] \in Steppers
    BY <1>1, <1>3, <2>1, <2>2, RunTypes
  <2>4. g[N].last_record_end \in {NoOffset} \cup (b..(N - 1))
    BY <1>1, <1>3, <2>1, <2>2, RunEnds
  <2>5. Ending(c, r, b, g[N], EndOfRun(c, r, b, g[N]))
    BY <1>3, <2>3, EndIs
  <2>6. st \in Steppers /\ st.last_record_end \in {g[N].last_record_end, EofOf(r)}
    BY <2>1, <2>5 DEF Ending
  <2>7. st.last_record_end \in {NoOffset} \cup (0..EofOf(r))
    <3>1. (b..(N - 1)) \subseteq (0..EofOf(r)) /\ EofOf(r) \in 0..EofOf(r)
      BY <1>1, <1>3
    <3> QED BY <2>4, <2>6, <3>1
  <2>8. st.records \in Seq(Records) /\ st.error \in Errors
    BY <2>6, StepperTypes
  <2>9. pr = Body(from, st)
    BY <1>4, <1>8 DEF st
  <2> HIDE DEF pr
  <2>10. pr.error = st.error /\ pr.records = st.records /\ pr.record_start = from
         /\ pr.record_end \in {st.last_record_end, NoOffset}
    BY <2>9 DEF Body, PassResult
  <2> QED BY <2>7, <2>8, <2>10 DEF Typed, pr
<1> QED BY <1>6, <1>7, <1>8

(* What ChunkParser::parse reports of a reader.                            *)
Parsed(c, r, find, pr) ==
  /\ Typed(r, pr)
  /\ pr.record_start # NoOffset =>
       /\ pr.record_start \in Nat /\ pr.record_start <= ReadableEnd(r)
       /\ pr = ParseFromBoundary(c, r, pr.record_start)
       /\ find = "No" => pr.record_start = 0
       /\ find # "No" => /\ pr.record_start < r.limit /\ pr.record_start < ReadableEnd(r)
                         /\ ByteAt(r, pr.record_start) \in Terminators(c)
       /\ find = "SkipHeaders" => /\ ScanHeaderEnd(c, r).state = "RecordEnd"
                                  /\ ScanHeaderEnd(c, r).at = pr.record_start
  /\ find = "SkipHeaders" /\ ScanHeaderEnd(c, r).state = "RecordEnd" => pr.record_start # NoOffset
  /\ find = "No" => pr.record_start # NoOffset

LEMMA ParseIsParsed ==
  ASSUME NEW c \in Dialects, NEW r, GoodReader(c, r), NEW assumption \in Assumptions,
         NEW find \in FindModes
  PROVE  Parsed(c, r, find, Parse(c, r, assumption, find))
<1> DEFINE scan == Scan(c, r, assumption, find)
           pr == Parse(c, r, assumption, find)
<1>1. pr = ParseScanned(c, r, scan)
  BY DEF Parse
<1>2. /\ find = "No" => scan.state = "RecordEnd" /\ scan.at = 0
      /\ find = "SkipHeaders" => scan = ScanHeaderEnd(c, r)
  BY DEF Scan
<1>3. find # "No" => Found(c, r, scan)
  BY ScanIsFound
<1>4. ReadableEnd(r) \in Nat
  BY ReaderIs
<1> HIDE DEF scan, pr
<1>5. CASE scan.state = "RecordEnd"
  <2>1. pr = ParseFromBoundary(c, r, scan.at)
    BY <1>1, <1>5 DEF ParseScanned
  <2>2. find # "No" => /\ scan.at \in Nat /\ scan.at < r.limit /\ scan.at < ReadableEnd(r)
                       /\ ByteAt(r, scan.at) \in Terminators(c)
    BY <1>3, <1>5 DEF Found, ScanOutcomes
  <2>3. scan.at \in Nat /\ scan.at <= ReadableEnd(r)
    BY <1>2, <1>4, <2>2
  <2>4. Typed(r, pr) /\ pr.record_start = scan.at
    BY <2>1, <2>3, BoundaryParseIs
  <2>5. pr.record_start # NoOffset
    BY <2>3, <2>4, ErrorsAre
  <2> QED BY <1>2, <1>5, <2>1, <2>2, <2>3, <2>4, <2>5 DEF Parsed, pr
<1>6. CASE scan.state # "RecordEnd"
  <2>1. pr.record_start = NoOffset /\ pr.records = <<>> /\ pr.record_end = NoOffset
        /\ (pr.error \in {NoError, IoError} \/
              (scan.state = "Error" /\ pr.error = Error("InvalidQuote", scan.at)))
    BY <1>1, <1>6 DEF ParseScanned, Failed, NoRecord, PassResult
  <2>2. find # "No"
    BY <1>2, <1>6
  <2>3. scan.state = "Error" => scan.at \in Nat
    BY <1>3, <2>2 DEF Found, ScanOutcomes
  <2>4. pr.error \in Errors
    <3>1. "InvalidQuote" \in Kinds
      BY DEF Kinds
    <3>2. scan.at \in Nat => Error("InvalidQuote", scan.at) \in Errors
      BY <3>1, ErrorsAre
    <3> QED BY <2>1, <2>3, <3>2, ErrorsAre
  <2>5. pr.records \in Seq(Records)
    BY <2>1
  <2> QED BY <1>2, <1>6, <2>1, <2>2, <2>4, <2>5 DEF Parsed, Typed, pr
<1> QED BY <1>5, <1>6

-----------------------------------------------------------------------------
(* Where a chunk is.                                                       *)
LEMMA TimesGrows ==
  ASSUME NEW a \in Nat, NEW b \in Nat, a <= b, NEW c \in Nat
  PROVE  a * c \in Nat /\ b * c \in Nat /\ a * c <= b * c
<1> DEFINE d == b - a
<1>1. d \in Nat /\ b = a + d
  OBVIOUS
<1> HIDE DEF d
<1>2. (a + d) * c = a * c + d * c
  BY <1>1
<1>3. a * c \in Nat /\ d * c \in Nat
  BY <1>1
<1> QED BY <1>1, <1>2, <1>3

LEMMA RoundedUp ==
  ASSUME NEW a \in Nat, NEW c \in Nat, c > 0, NEW i \in Nat, i < (a + c - 1) \div c
  PROVE  i * c < a /\ i * c \in Nat /\ (i + 1) * c = i * c + c
<1> DEFINE q == (a + c - 1) \div c
<1>1. q \in Int /\ q * c <= a + c - 1
  OBVIOUS
<1>2. i < q
  OBVIOUS
<1> HIDE DEF q
<1>3. (i + 1) * c <= q * c
  <2>1. i + 1 \in Nat /\ q \in Nat /\ i + 1 <= q
    BY <1>1, <1>2
  <2> QED BY <2>1, TimesGrows
<1>4. (i + 1) * c = i * c + c /\ i * c \in Nat
  OBVIOUS
<1>5. q * c \in Int
  BY <1>1
<1> DEFINE x == i * c
           y == q * c
           z == (i + 1) * c
<1>6. z <= y /\ z = x + c /\ y <= a + c - 1 /\ x \in Nat /\ y \in Int
  BY <1>1, <1>3, <1>4, <1>5
<1> HIDE DEF x, y, z
<1>7. x < a
  BY <1>6
<1> QED BY <1>6, <1>7 DEF x, z

LEMMA CountIs ==
  ASSUME NEW j \in Jobs
  PROVE  CountOfChunks(j) \in Nat
<1> DEFINE a == FileSize(j)
           c == j.chunk_size
<1>1. a \in Nat /\ c \in Nat /\ c > 0
  BY JobIs
<1> HIDE DEF a, c
<1>2. a + c - 1 \in Nat
  BY <1>1
<1>3. (a + c - 1) \div c \in Nat
  BY <1>1, <1>2
<1> QED BY <1>3 DEF CountOfChunks, a, c

(* The reader of a chunk.                                                  *)
StartOf(j, idx) == idx * j.chunk_size
StopOf(j, idx) == Min({StartOf(j, idx) + j.chunk_size, FileSize(j)})
ReaderOf(j, idx) == ChunkReader(j, StartOf(j, idx), StopOf(j, idx))

LEMMA ChunkBounds ==
  ASSUME NEW j \in Jobs, NEW idx \in Chunks(j)
  PROVE  /\ idx \in Nat /\ StartOf(j, idx) \in Nat /\ StartOf(j, idx) < FileSize(j)
         /\ StartOf(j, idx) \in 0..FileSize(j)
         /\ (idx + 1) * j.chunk_size = StartOf(j, idx) + j.chunk_size
         /\ StopOf(j, idx) \in Nat /\ StartOf(j, idx) <= StopOf(j, idx)
         /\ StopOf(j, idx) <= FileSize(j) /\ StopOf(j, idx) <= StartOf(j, idx) + j.chunk_size
         /\ (idx = 0 => StartOf(j, idx) = 0)
<1> DEFINE a == FileSize(j)
           c == j.chunk_size
           start == StartOf(j, idx)
           stop == StopOf(j, idx)
<1>1. a \in Nat /\ c \in Nat /\ c > 0
  BY JobIs
<1>2. idx \in Nat /\ idx < (a + c - 1) \div c
  <2>1. CountOfChunks(j) \in Nat /\ idx \in 0..(CountOfChunks(j) - 1)
    BY CountIs DEF Chunks
  <2>2. idx \in Nat /\ idx < CountOfChunks(j)
    BY <2>1
  <2> QED BY <2>2 DEF CountOfChunks
<1> HIDE DEF a, c
<1>3. idx * c < a /\ idx * c \in Nat /\ (idx + 1) * c = idx * c + c
  BY <1>1, <1>2, RoundedUp
<1>4. start = idx * c
  BY DEF StartOf, c
<1> HIDE DEF start, stop
<1>5. start \in Nat /\ start < a /\ (idx + 1) * c = start + c
  BY <1>3, <1>4
<1>6. stop = IF start + c <= a THEN start + c ELSE a
  <2>1. start + c \in Nat
    BY <1>1, <1>5
  <2>2. stop = Min({start + c, a})
    BY DEF stop, start, StopOf, a, c
  <2> QED BY <1>1, <2>1, <2>2, MinOfTwo
<1>7. idx = 0 => start = 0
  BY <1>1, <1>4
<1>8. stop \in Nat /\ start <= stop /\ stop <= a /\ stop <= start + c /\ start \in 0..a
  BY <1>1, <1>5, <1>6
<1> QED BY <1>2, <1>5, <1>7, <1>8 DEF start, stop, a, c

LEMMA ReaderOfIs ==
  ASSUME NEW j \in Jobs, NEW idx \in Chunks(j)
  PROVE  /\ GoodReader(j.config, ReaderOf(j, idx))
         /\ EofOf(ReaderOf(j, idx)) = FileSize(j) - StartOf(j, idx)
         /\ ReaderOf(j, idx).limit = StopOf(j, idx) - StartOf(j, idx)
<1> DEFINE start == StartOf(j, idx)
           stop == StopOf(j, idx)
<1>1. start \in 0..FileSize(j) /\ stop \in Nat /\ start <= stop
  BY ChunkBounds
<1> HIDE DEF start, stop
<1>2. LET r == ChunkReader(j, start, stop)
      IN  /\ GoodReader(j.config, r) /\ EofOf(r) = FileSize(j) - start
          /\ r.limit = stop - start
  BY <1>1, ChunkReaderIs
<1> QED BY <1>2 DEF ReaderOf, start, stop

-----------------------------------------------------------------------------
(* The passes of a chunk that are kept, one assumption after the other:    *)
(* the function that Kept ends with.                                       *)
KeptRunOf(f, tried, n) ==
  f = [k \in 0..n |->
         IF k = 0 THEN <<>>
         ELSE IF HasBoundary(tried[k]) THEN Append(f[k - 1], tried[k]) ELSE f[k - 1]]

LEMMA KeptRunExists ==
  ASSUME NEW tried, NEW n \in Nat
  PROVE  \E f : KeptRunOf(f, tried, n)
<1> DEFINE Runs(k) == \E f : KeptRunOf(f, tried, k)
           T == {k \in Nat : ~Runs(k)}
           Next1(p, i) == IF HasBoundary(tried[i]) THEN Append(p, tried[i]) ELSE p
<1>1. \A f, k : KeptRunOf(f, tried, k)
                <=> f = [i \in 0..k |-> IF i = 0 THEN <<>> ELSE Next1(f[i - 1], i)]
  BY Zenon DEF KeptRunOf
<1> HIDE DEF Next1
<1>2. ASSUME NEW x \in T, \A y \in T : x <= y  PROVE FALSE
  <2>1. x \in Nat /\ ~Runs(x)
    BY <1>2
  <2>2. CASE x = 0
    <3> DEFINE f == [i \in 0..0 |-> <<>>]
    <3>1. f = [i \in 0..0 |-> IF i = 0 THEN <<>> ELSE Next1(f[i - 1], i)]
      OBVIOUS
    <3> HIDE DEF f
    <3> QED BY <1>1, <2>1, <2>2, <3>1
  <2>3. CASE x # 0
    <3>1. x - 1 \in Nat /\ x - 1 \notin T
      BY <1>2, <2>1, <2>3
    <3>2. Runs(x - 1)
      BY <3>1
    <3>3. PICK f : f = [i \in 0..(x - 1) |-> IF i = 0 THEN <<>> ELSE Next1(f[i - 1], i)]
      BY <1>1, <3>2
    <3> DEFINE g == [i \in 0..x |-> IF i = x THEN Next1(f[i - 1], i) ELSE f[i]]
               h == [i \in 0..x |-> IF i = 0 THEN <<>> ELSE Next1(g[i - 1], i)]
    <3>4. ASSUME NEW i \in 0..x  PROVE g[i] = h[i]
      <4>1. i # 0 => i - 1 \in 0..(x - 1) /\ i - 1 \in 0..x /\ i - 1 # x
        BY <2>1
      <4>2. i # 0 => g[i - 1] = f[i - 1]
        BY <4>1
      <4>3. i # x => i \in 0..(x - 1)
        BY <2>1
      <4>4. i # x => f[i] = IF i = 0 THEN <<>> ELSE Next1(f[i - 1], i)
        BY <3>3, <4>3
      <4> QED BY <2>3, <4>2, <4>4
    <3>5. g = h
      BY <3>4
    <3> HIDE DEF g
    <3> QED BY <1>1, <2>1, <3>5
  <2> QED BY <2>2, <2>3
<1>3. T = {}
  <2>1. T \in SUBSET Nat
    OBVIOUS
  <2> HIDE DEF T
  <2> QED BY <1>2, <2>1, LeastElement
<1> QED BY <1>3

(* Every pass that is kept was tried, and has a boundary.                  *)
KeptFrom(tried) == {tried[i] : i \in {k \in 1..Len(tried) : HasBoundary(tried[k])}}

LEMMA KeptIs ==
  ASSUME NEW tried, Len(tried) \in Nat
  PROVE  /\ Kept(tried) \in Seq(KeptFrom(tried))
         /\ \A q \in 1..Len(tried) : HasBoundary(tried[q]) => Kept(tried) # <<>>
<1> DEFINE n == Len(tried)
           f == CHOOSE g : KeptRunOf(g, tried, n)
           KF == KeptFrom(tried)
           Good(s, k) == s \in Seq(KF) /\ \A q \in 1..k : HasBoundary(tried[q]) => s # <<>>
           T == {k \in 0..n : ~Good(f[k], k)}
<1>1. KeptRunOf(f, tried, n)
  BY KeptRunExists, Zenon
<1>2. Kept(tried) = f[n]
  BY Zenon DEF KeptRunOf, Kept
<1> HIDE DEF f
<1>3. \A k \in 0..n :
        f[k] = IF k = 0 THEN <<>>
               ELSE IF HasBoundary(tried[k]) THEN Append(f[k - 1], tried[k]) ELSE f[k - 1]
  BY <1>1, Zenon DEF KeptRunOf
<1>4. ASSUME NEW x \in T, \A y \in T : x <= y  PROVE FALSE
  <2>1. x \in 0..n /\ ~Good(f[x], x)
    BY <1>4
  <2>2. CASE x = 0
    <3>1. f[x] = <<>> /\ <<>> \in Seq(KF) /\ 1..x = {}
      BY <1>3, <2>1, <2>2
    <3> QED BY <2>1, <2>2, <3>1
  <2>3. CASE x # 0
    <3>1. x - 1 \in 0..n /\ ~(x <= x - 1) /\ x \in 1..n
          /\ \A q \in 1..x : q = x \/ q \in 1..(x - 1)
      BY <2>1, <2>3
    <3>2. Good(f[x - 1], x - 1)
      BY <1>4, <3>1
    <3> DEFINE s == f[x - 1]
               t == f[x]
               e == tried[x]
    <3>3. t = IF HasBoundary(e) THEN Append(s, e) ELSE s
      BY <1>3, <2>1, <2>3
    <3>4. HasBoundary(e) => e \in KF
      BY <3>1 DEF KeptFrom
    <3>5. ~Good(t, x)
      BY <2>1
    <3>6. s \in Seq(KF) /\ \A q \in 1..(x - 1) : HasBoundary(tried[q]) => s # <<>>
      BY <3>2
    <3>7. e = tried[x]
      OBVIOUS
    <3> HIDE DEF s, t, e, KF
    <3>8. CASE HasBoundary(e)
      <4>1. t = Append(s, e) /\ e \in KF
        BY <3>3, <3>4, <3>8
      <4>2. t \in Seq(KF) /\ Len(t) = Len(s) + 1 /\ Len(s) \in Nat
        BY <3>6, <4>1, AppendProperties
      <4>3. t # <<>>
        BY <4>2
      <4> QED BY <3>5, <4>2, <4>3
    <3>9. CASE ~HasBoundary(e)
      <4>1. t = s
        BY <3>3, <3>9
      <4>2. \A q \in 1..x : HasBoundary(tried[q]) => q \in 1..(x - 1)
        BY <3>1, <3>7, <3>9
      <4> QED BY <3>5, <3>6, <4>1, <4>2
    <3> QED BY <3>8, <3>9
  <2> QED BY <2>2, <2>3
<1>5. T = {}
  <2>1. T \in SUBSET Nat
    OBVIOUS
  <2> HIDE DEF T
  <2> QED BY <1>4, <2>1, LeastElement
<1>6. Good(f[n], n)
  <2>1. n \in 0..n
    OBVIOUS
  <2> QED BY <1>5, <2>1
<1> QED BY <1>2, <1>6

-----------------------------------------------------------------------------
(* What a worker makes of a chunk.                                         *)
LEMMA AssumptionsAre ==
  ASSUME NEW c
  PROVE  LET s == AssumptionsForConfig(c)
         IN  /\ \E m \in Nat : m > 0 /\ DOMAIN s = 1..m
             /\ \A k \in DOMAIN s : s[k] \in Assumptions
<1> DEFINE s == AssumptionsForConfig(c)
<1>1. \/ s = <<"OutOfQuotes">> \/ s = <<"OutOfQuotes", "InQuotes">>
      \/ s = <<"OutOfQuotes", "InQuotes", "InQuotesAfterEscape">>
  BY DEF AssumptionsForConfig
<1> HIDE DEF s
<1>2. CASE s = <<"OutOfQuotes">>
  <2>1. DOMAIN s = 1..1
    BY <1>2
  <2> QED BY <1>2, <2>1 DEF Assumptions, s
<1>3. CASE s = <<"OutOfQuotes", "InQuotes">>
  <2>1. DOMAIN s = 1..2
    BY <1>3
  <2> QED BY <1>3, <2>1 DEF Assumptions, s
<1>4. CASE s = <<"OutOfQuotes", "InQuotes", "InQuotesAfterEscape">>
  <2>1. DOMAIN s = 1..3
    BY <1>4
  <2> QED BY <1>4, <2>1 DEF Assumptions, s
<1> QED BY <1>1, <1>2, <1>3, <1>4

(* Up to the first pass that succeeds.                                     *)
TriedOf(R, m, tried) ==
  /\ Len(tried) \in 1..m
  /\ \A k \in 1..Len(tried) : tried[k] = R[k]
  /\ \A k \in 1..Len(tried) : Succeeded(tried[k]) => k = Len(tried)
  /\ Len(tried) # m => Succeeded(tried[Len(tried)])

LEMMA UpToSuccessIs ==
  ASSUME NEW R, NEW m \in Nat, m > 0, NEW S, R \in [1..m -> S]
  PROVE  TriedOf(R, m, UpToSuccess(R))
<1> DEFINE winners == {k \in 1..m : Succeeded(R[k])}
           tried == UpToSuccess(R)
<1>1. DOMAIN R = 1..m
  OBVIOUS
<1>2. tried = IF winners = {} THEN R ELSE SubSeq(R, 1, Min(winners))
  BY <1>1 DEF UpToSuccess
<1>3. R \in Seq(S) /\ Len(R) = m
  <2>1. R = [k \in 1..m |-> R[k]] /\ \A k \in 1..m : R[k] \in S
    OBVIOUS
  <2>2. R \in Seq(S)
    BY <2>1, IsASeq
  <2> QED BY <1>1, <2>2, LenProperties
<1> HIDE DEF tried
<1>4. CASE winners = {}
  <2>1. tried = R /\ Len(tried) = m
    BY <1>2, <1>3, <1>4
  <2>2. \A k \in 1..m : ~Succeeded(R[k])
    BY <1>4
  <2> QED BY <2>1, <2>2 DEF TriedOf, tried
<1>5. CASE winners # {}
  <2>1. winners \in SUBSET Nat
    OBVIOUS
  <2>2. PICK w \in winners : \A y \in winners : w <= y
    <3> HIDE DEF winners
    <3> QED BY <1>5, <2>1, LeastElement
  <2>3. Min(winners) = w
    <3> HIDE DEF winners
    <3> QED BY <2>1, <2>2, MinIs
  <2>4. w \in 1..m /\ w \in Nat /\ 0 <= w /\ w <= Len(R) /\ w - 0 = w
    BY <1>3
  <2>5. tried = SubSeq(R, 0 + 1, w)
    <3> HIDE DEF winners
    <3>1. tried = SubSeq(R, 1, Min(winners))
      BY <1>2, <1>5, Zenon
    <3>2. tried = SubSeq(R, 1, w)
      BY <2>3, <3>1, Zenon
    <3>3. 1 = 0 + 1
      OBVIOUS
    <3> QED BY <3>2, <3>3
  <2>6. Len(tried) = w - 0 /\ \A k \in 1..(w - 0) : tried[k] = R[0 + k]
    <3>1. 0 \in Nat
      OBVIOUS
    <3> HIDE DEF winners
    <3> QED BY <1>3, <2>4, <2>5, <3>1, Slice
  <2>7. Len(tried) = w /\ \A k \in 1..w : tried[k] = R[k]
    BY <2>4, <2>6
  <2>8. \A k \in 1..w : Succeeded(R[k]) => k = w
    <3>1. \A k \in 1..w : k \in 1..m /\ (w <= k => k = w)
      BY <2>4
    <3> QED BY <2>2, <3>1
  <2>9. Succeeded(R[w]) /\ w \in 1..w
    <3>1. Succeeded(R[w])
      OBVIOUS
    <3> QED BY <2>4, <3>1
  <2>10. Succeeded(tried[w])
    BY <2>7, <2>9
  <2> QED BY <2>4, <2>7, <2>8, <2>10 DEF TriedOf, tried
<1> QED BY <1>4, <1>5

(* A pass that is kept, and the place where its chunk's records end.       *)
IsPassOf(j, idx, find, record_end, pass) ==
  \E pr : /\ pass = ResolvedPass(pr, StartOf(j, idx))
          /\ Parsed(j.config, ReaderOf(j, idx), find, pr)
          /\ pr.record_start # NoOffset
          /\ pr.error = NoError => record_end = Shift(pr.record_end, StartOf(j, idx))

ChunkTried(j, idx, find, out) ==
  /\ out.record_end \in {NoOffset} \cup (0..FileSize(j))
  /\ \E m \in Nat : /\ DOMAIN out.passes = 1..m
                    /\ m = 0 <=> out.passes = <<>>
  /\ \A k \in DOMAIN out.passes : IsPassOf(j, idx, find, out.record_end, out.passes[k])
  /\ \/ find = "No"
     \/ find = "SkipHeaders" /\ ScanHeaderEnd(j.config, ReaderOf(j, idx)).state = "RecordEnd"
     => out.passes # <<>>

LEMMA TryChunkIs ==
  ASSUME NEW j \in Jobs, NEW idx \in Chunks(j), NEW find \in FindModes
  PROVE  ChunkTried(j, idx, find, TryChunk(j, idx, find).output)
<1> DEFINE c == j.config
           r == ReaderOf(j, idx)
           start == StartOf(j, idx)
           size == FileSize(j)
           assumptions == AssumptionsForConfig(c)
           R == EachAssumption(j, r, find)
           tried == UpToSuccess(R)
           kept == Kept(tried)
           out == TryChunk(j, idx, find).output
           passes == out.passes
<1>1. out = TryOutcome(start, tried).output
  <2>1. TryChunk(j, idx, find) = The({TryOutcome(start, UpToSuccess(x)) : x \in {R}})
    BY DEF TryChunk, TryAssumptions, ReaderOf, StartOf, StopOf
  <2>2. {TryOutcome(start, UpToSuccess(x)) : x \in {R}} = {TryOutcome(start, tried)}
    OBVIOUS
  <2> QED BY <2>1, <2>2, TheOneIs
<1>2. out = ChunkOutput([k \in DOMAIN kept |-> ResolvedPass(kept[k], start)],
                        IF Succeeded(Last(tried)) THEN Shift(Last(tried).record_end, start)
                        ELSE NoOffset)
  BY <1>1 DEF TryOutcome
<1>3. /\ passes = [k \in DOMAIN kept |-> ResolvedPass(kept[k], start)]
      /\ out.record_end = IF Succeeded(Last(tried)) THEN Shift(Last(tried).record_end, start)
                          ELSE NoOffset
  <2> HIDE DEF kept, out, tried, start
  <2> QED BY <1>2 DEF ChunkOutput
<1>4. PICK m \in Nat : m > 0 /\ DOMAIN assumptions = 1..m
  BY AssumptionsAre
<1>5. \A k \in 1..m : assumptions[k] \in Assumptions
  BY <1>4, AssumptionsAre
<1>6. R = [k \in 1..m |-> Parse(c, r, assumptions[k], find)]
  <2>1. R = [k \in DOMAIN assumptions |-> Parse(c, r, assumptions[k], find)]
    BY DEF EachAssumption
  <2> QED BY <1>4, <2>1
<1>7. /\ c \in Dialects /\ GoodReader(c, r) /\ EofOf(r) = size - start
      /\ start \in Nat /\ size \in Nat /\ start <= size
  <2>1. c \in Dialects /\ size \in Nat
    BY JobIs
  <2>2. GoodReader(c, r) /\ EofOf(r) = size - start
    BY ReaderOfIs
  <2>3. start \in Nat /\ start < size
    BY ChunkBounds
  <2> HIDE DEF c, r, start, size
  <2> QED BY <2>1, <2>2, <2>3
<1> HIDE DEF c, r, start, size, assumptions, R, tried, kept, out, passes
<1>8. \A k \in 1..m : Parsed(c, r, find, R[k])
  <2>1. ASSUME NEW k \in 1..m  PROVE Parsed(c, r, find, R[k])
    <3>1. R[k] = Parse(c, r, assumptions[k], find)
      BY <1>6
    <3>2. Parsed(c, r, find, Parse(c, r, assumptions[k], find))
      BY <1>5, <1>7, ParseIsParsed
    <3> QED BY <3>1, <3>2
  <2> QED BY <2>1
<1>9. TriedOf(R, m, tried)
  <2>1. R \in [1..m -> {R[k] : k \in 1..m}]
    BY <1>6
  <2> QED BY <1>4, <2>1, UpToSuccessIs DEF tried
<1> DEFINE n == Len(tried)
<1>10. /\ n \in Nat /\ n # 0 /\ tried[1] = R[1] /\ 1 \in 1..m /\ n \in 1..n
       /\ \A k \in 1..n : Parsed(c, r, find, tried[k]) /\ (Succeeded(tried[k]) => k = n)
  <2>1. n \in 1..m /\ \A k \in 1..n : tried[k] = R[k] /\ (Succeeded(tried[k]) => k = n)
    BY <1>9 DEF TriedOf
  <2> HIDE DEF n
  <2>2. \A k \in 1..n : k \in 1..m
    BY <2>1
  <2>3. n \in Nat /\ n # 0 /\ 1 \in 1..n /\ 1 \in 1..m /\ n \in 1..n
    BY <2>1
  <2> QED BY <1>8, <2>1, <2>2, <2>3
<1>11. kept \in Seq(KeptFrom(tried)) /\ (HasBoundary(tried[1]) => kept # <<>>)
  BY <1>10, KeptIs DEF kept
<1>12. Last(tried) = tried[n]
  BY DEF Last
<1> HIDE DEF n
<1>13. out.record_end \in {NoOffset} \cup (0..size)
  <2>1. CASE Succeeded(Last(tried))
    <3> DEFINE e == tried[n].record_end
    <3>1. e \in {NoOffset} \cup (0..EofOf(r))
      BY <1>10 DEF Parsed, Typed
    <3>2. out.record_end = Shift(e, start)
      BY <1>3, <1>12, <2>1
    <3> HIDE DEF e
    <3>3. CASE e = NoOffset
      BY <3>2, <3>3 DEF Shift
    <3>4. CASE e # NoOffset
      <4>1. e \in 0..(size - start)
        BY <1>7, <3>1, <3>4
      <4>2. e + start \in 0..size
        BY <1>7, <4>1
      <4> QED BY <3>2, <3>4, <4>2 DEF Shift
    <3> QED BY <3>3, <3>4
  <2>2. CASE ~Succeeded(Last(tried))
    BY <1>3, <2>2
  <2> QED BY <2>1, <2>2
<1>14. Len(kept) \in Nat /\ DOMAIN kept = 1..Len(kept) /\ (Len(kept) = 0 <=> kept = <<>>)
       /\ \A k \in 1..Len(kept) : kept[k] \in KeptFrom(tried)
  BY <1>11
<1>15. DOMAIN passes = 1..Len(kept)
  BY <1>3, <1>14
<1>16. Len(kept) = 0 <=> passes = <<>>
  <2>1. Len(kept) = 0 => passes = <<>>
    <3>1. ASSUME Len(kept) = 0  PROVE passes = <<>>
      <4>1. DOMAIN kept = {}
        BY <1>14, <3>1
      <4>2. passes = [k \in {} |-> ResolvedPass(kept[k], start)]
        BY <1>3, <4>1
      <4> QED BY <4>2
    <3> QED BY <3>1
  <2>2. passes = <<>> => Len(kept) = 0
    <3>1. ASSUME passes = <<>>  PROVE Len(kept) = 0
      <4>1. DOMAIN passes = {}
        BY <3>1
      <4>2. 1 \notin 1..Len(kept)
        BY <1>15, <4>1
      <4> QED BY <1>14, <4>2
    <3> QED BY <3>1
  <2> QED BY <2>1, <2>2
<1>17. ASSUME NEW k \in DOMAIN passes
       PROVE  IsPassOf(j, idx, find, out.record_end, passes[k])
  <2> DEFINE pr == kept[k]
  <2>1. k \in 1..Len(kept) /\ passes[k] = ResolvedPass(pr, start)
    BY <1>3, <1>14, <1>15
  <2>2. PICK i \in 1..n : pr = tried[i] /\ HasBoundary(tried[i])
    <3>1. pr \in KeptFrom(tried)
      BY <1>14, <2>1
    <3> QED BY <3>1 DEF KeptFrom, n
  <2> HIDE DEF pr
  <2>3. Parsed(c, r, find, pr) /\ pr.record_start # NoOffset
    BY <1>10, <2>2 DEF HasBoundary
  <2>4. pr.error = NoError => out.record_end = Shift(pr.record_end, start)
    <3>1. ASSUME pr.error = NoError  PROVE out.record_end = Shift(pr.record_end, start)
      <4>1. Succeeded(tried[i])
        BY <2>2, <2>3, <3>1 DEF Succeeded
      <4>2. i = n
        BY <1>10, <4>1
      <4>3. Last(tried) = pr /\ Succeeded(Last(tried))
        BY <1>12, <2>2, <4>1, <4>2
      <4> QED BY <1>3, <4>3
    <3> QED BY <3>1
  <2> QED BY <2>1, <2>3, <2>4 DEF IsPassOf, c, r, start
<1>18. ASSUME find = "No" \/ (find = "SkipHeaders" /\ ScanHeaderEnd(c, r).state = "RecordEnd")
       PROVE  passes # <<>>
  <2>1. R[1].record_start # NoOffset
    BY <1>8, <1>10, <1>18 DEF Parsed
  <2>2. HasBoundary(tried[1])
    BY <1>10, <2>1 DEF HasBoundary
  <2> QED BY <1>11, <1>14, <1>16, <2>2
<1> QED BY <1>13, <1>14, <1>15, <1>16, <1>17, <1>18 DEF ChunkTried, c, r, size, out, passes

(* process_chunk.                                                          *)
ChunkPasses(j, idx, out) ==
  \E find \in FindModes :
    /\ idx = 0 => find = FindMode(j, 0)
    /\ idx # 0 => find \in {"Strict", "Lenient"}
    /\ ChunkTried(j, idx, find, out)

LEMMA ProcessChunkIs ==
  ASSUME NEW j \in Jobs, NEW idx \in Chunks(j)
  PROVE  ChunkPasses(j, idx, ProcessChunk(j, idx))
<1> DEFINE find == FindMode(j, idx)
           first == TryChunk(j, idx, find)
           again == TryChunk(j, idx, "Lenient")
           out == ProcessChunk(j, idx)
<1>1. find \in FindModes /\ "Lenient" \in FindModes
      /\ (idx # 0 <=> find = "Strict") /\ (idx = 0 => find = FindMode(j, 0))
  BY DEF FindMode, FindModes
<1>2. ChunkTried(j, idx, find, first.output) /\ ChunkTried(j, idx, "Lenient", again.output)
  BY <1>1, TryChunkIs
<1>3. out = IF first.outcome = "AllFailed" /\ find = "Strict" THEN again.output
            ELSE first.output
  BY DEF ProcessChunk, RetryIfAllFailed
<1> HIDE DEF find, first, again, out
<1>4. CASE out = again.output /\ find = "Strict"
  BY <1>1, <1>2, <1>4 DEF ChunkPasses, out
<1>5. CASE out = first.output
  BY <1>1, <1>2, <1>5 DEF ChunkPasses, out
<1> QED BY <1>3, <1>4, <1>5

-----------------------------------------------------------------------------
(* The header row.  A scan that ends inside a short buffer ends at the     *)
(* same byte of a longer one.                                              *)
LEMMA SameScan ==
  ASSUME NEW c, NEW d, NEW r, NEW w, GoodReader(d, r), GoodReader(d, w), r.bytes = w.bytes,
         BufEnd(r) <= BufEnd(w), ScanHeaderEnd(c, r).state \in ScanOutcomes
  PROVE  ScanHeaderEnd(c, w) = ScanHeaderEnd(c, r)
<1> DEFINE n == BufEnd(r)
           strict == FALSE
           m == BufEnd(w)
           f == CHOOSE h : ScanRunOf(h, c, strict, r, "RecordStart", n)
           g == CHOOSE h : ScanRunOf(h, c, strict, w, "RecordStart", m)
<1>1. n \in Nat /\ m \in Nat /\ n <= m
  BY BufEndIs
<1>2. /\ ScanHeaderEnd(c, r) = UnlessUnreadable(r, n, ScanTo(c, strict, r, "RecordStart", n))
      /\ ScanHeaderEnd(c, w) = UnlessUnreadable(w, m, ScanTo(c, strict, w, "RecordStart", m))
  BY DEF ScanHeaderEnd, FindRecordStartFrom, BufEnd
<1> HIDE DEF n, m, strict
<1>3. ScanRunOf(f, c, strict, r, "RecordStart", n)
      /\ ScanTo(c, strict, r, "RecordStart", n) = f[n]
  BY <1>1, ScanToIs
<1>4. ScanRunOf(g, c, strict, w, "RecordStart", m)
      /\ ScanTo(c, strict, w, "RecordStart", m) = g[m]
  BY <1>1, ScanToIs
<1> HIDE DEF f, g
<1>5. /\ f[0] = [state |-> "RecordStart", at |-> NoOffset]
      /\ FollowsTheBytes(f, c, strict, r, n)
  BY <1>1, <1>3, ScanRunIs
<1>6. /\ g[0] = [state |-> "RecordStart", at |-> NoOffset]
      /\ FollowsTheBytes(g, c, strict, w, m)
  BY <1>1, <1>4, ScanRunIs
<1> DEFINE T == {k \in 0..n : f[k] # g[k]}
<1>7. ASSUME NEW x \in T, \A y \in T : x <= y  PROVE FALSE
  <2>1. x \in 0..n /\ f[x] # g[x] /\ x # 0
    BY <1>5, <1>6
  <2>2. x \in 1..n /\ x \in 1..m /\ x - 1 \in 0..n /\ ~(x <= x - 1)
    BY <1>1, <2>1
  <2>3. f[x - 1] = g[x - 1]
    BY <1>7, <2>2
  <2>4. /\ f[x] = ScanByte(c, strict, r, f[x - 1], x - 1)
        /\ g[x] = ScanByte(c, strict, w, g[x - 1], x - 1)
    BY <1>5, <1>6, <2>2 DEF FollowsTheBytes
  <2>5. ScanByte(c, strict, r, f[x - 1], x - 1) = ScanByte(c, strict, w, f[x - 1], x - 1)
    BY DEF ScanByte, ByteAt
  <2> QED BY <2>1, <2>3, <2>4, <2>5
<1>8. T = {}
  <2>1. T \in SUBSET Nat
    OBVIOUS
  <2> HIDE DEF T
  <2> QED BY <1>7, <2>1, LeastElement
<1>9. f[n] = g[n] /\ n \in 0..m
  <2>1. n \in 0..n /\ n \in 0..m
    BY <1>1
  <2> QED BY <1>8, <2>1
<1>10. ScanHeaderEnd(c, r) = f[n] /\ f[n].state \in ScanOutcomes
  <2>1. ScanHeaderEnd(c, r) = UnlessUnreadable(r, n, f[n])
    BY <1>2, <1>3
  <2>2. UnlessUnreadable(r, n, f[n]) \in {f[n], [state |-> "IoError", at |-> n]}
    BY DEF UnlessUnreadable
  <2>3. ScanHeaderEnd(c, r).state \in ScanOutcomes
    OBVIOUS
  <2>4. ScanHeaderEnd(c, r) # [state |-> "IoError", at |-> n]
    BY <2>3 DEF ScanOutcomes
  <2> QED BY <2>1, <2>2, <2>3, <2>4
<1>11. g[n].state \in ScanOutcomes
  BY <1>9, <1>10
<1>12. g[m] = g[n]
  <2>1. /\ m \in Nat /\ n \in 0..m /\ g[n].state \in ScanOutcomes
        /\ ScanRunOf(g, c, strict, w, "RecordStart", m)
    BY <1>1, <1>4, <1>9, <1>11
  <2> QED BY <2>1, ScanStays
<1>13. ScanHeaderEnd(c, w) = g[m]
  <2>1. ScanHeaderEnd(c, w) = UnlessUnreadable(w, m, g[m])
    BY <1>2, <1>4
  <2> QED BY <1>11, <1>12, <2>1 DEF UnlessUnreadable
<1> QED BY <1>9, <1>10, <1>12, <1>13

LEMMA SameHeader ==
  ASSUME NEW c, NEW d, NEW r, NEW w, GoodReader(d, r), GoodReader(d, w), r.bytes = w.bytes,
         BufEnd(r) <= BufEnd(w), ScanHeaderEnd(c, r).state = "RecordEnd"
  PROVE  ScanHeaderEnd(c, w) = ScanHeaderEnd(c, r)
<1>1. ScanHeaderEnd(c, r).state \in ScanOutcomes
  BY DEF ScanOutcomes
<1> QED BY <1>1, SameScan

(* The first chunk as HeaderFits has it, and as a worker reads it.         *)
Heading(j) == ChunkReader(j, 0, j.chunk_size)

LEMMA HeadReaders ==
  ASSUME NEW j \in Jobs
  PROVE  /\ GoodReader(j.config, Heading(j)) /\ GoodReader(j.config, Whole(j))
         /\ Heading(j).bytes = Whole(j).bytes /\ BufEnd(Heading(j)) <= BufEnd(Whole(j))
         /\ 0 \in Chunks(j) => /\ GoodReader(j.config, ReaderOf(j, 0))
                               /\ ReaderOf(j, 0).bytes = Heading(j).bytes
                               /\ BufEnd(ReaderOf(j, 0)) = BufEnd(Heading(j))
<1> DEFINE h == Heading(j)
           w == Whole(j)
           size == FileSize(j)
           cs == j.chunk_size
<1>1. size \in Nat /\ cs \in Nat /\ cs > 0 /\ 0 \in 0..size /\ size + 1 \in Nat
  BY JobIs
<1>2. GoodReader(j.config, h) /\ h.limit = cs
  <2>1. 0 <= cs
    BY <1>1
  <2>2. GoodReader(j.config, ChunkReader(j, 0, cs)) /\ ChunkReader(j, 0, cs).limit = cs - 0
    BY <1>1, <2>1, ChunkReaderIs
  <2> QED BY <1>1, <2>2 DEF Heading
<1>3. GoodReader(j.config, w) /\ ReadableEnd(w) \in Nat /\ ReadableEnd(w) <= size
      /\ ReadableEnd(w) < w.limit
  BY WholeReader
<1>4. h.bytes = w.bytes /\ h.bad = w.bad
  BY DEF Heading, Whole, ChunkReader
<1>5. ReadableEnd(h) = ReadableEnd(w)
  <2>1. EofOf(h) = EofOf(w)
    BY <1>4 DEF EofOf
  <2> QED BY <1>4, <2>1 DEF ReadableEnd
<1>6. BufEnd(h) = (IF h.limit <= ReadableEnd(h) THEN h.limit ELSE ReadableEnd(h))
  BY <1>2, BufEndIs
<1>7. BufEnd(w) = (IF w.limit <= ReadableEnd(w) THEN w.limit ELSE ReadableEnd(w))
      /\ w.limit \in Nat
  BY <1>3, BufEndIs
<1> HIDE DEF h, w, size, cs
<1>8. BufEnd(h) <= BufEnd(w)
  BY <1>1, <1>2, <1>3, <1>5, <1>6, <1>7
<1>9. ASSUME 0 \in Chunks(j)
      PROVE  /\ GoodReader(j.config, ReaderOf(j, 0)) /\ ReaderOf(j, 0).bytes = h.bytes
             /\ BufEnd(ReaderOf(j, 0)) = BufEnd(h)
  <2> DEFINE r == ReaderOf(j, 0)
             start == StartOf(j, 0)
             stop == StopOf(j, 0)
  <2>1. GoodReader(j.config, r) /\ r.limit = stop - start
    BY <1>9, ReaderOfIs
  <2>2. start = 0
    BY <1>9, ChunkBounds
  <2>3. r = ChunkReader(j, start, stop) /\ stop = Min({start + cs, size})
    BY DEF ReaderOf, StopOf, cs, size
  <2> HIDE DEF r, start, stop
  <2>4. stop = IF cs <= size THEN cs ELSE size
    <3>1. start + cs = cs
      BY <1>1, <2>2
    <3> QED BY <1>1, <2>3, <3>1, MinOfTwo
  <2>5. r.bytes = h.bytes /\ r.bad = h.bad
    BY <2>2, <2>3 DEF h, Heading, ChunkReader
  <2>6. ReadableEnd(r) = ReadableEnd(h)
    <3>1. EofOf(r) = EofOf(h)
      BY <2>5 DEF EofOf
    <3> QED BY <2>5, <3>1 DEF ReadableEnd
  <2>7. BufEnd(r) = (IF r.limit <= ReadableEnd(r) THEN r.limit ELSE ReadableEnd(r))
    BY <2>1, BufEndIs
  <2>8. r.limit = stop
    BY <1>1, <2>1, <2>2, <2>4
  <2>9. BufEnd(r) = BufEnd(h)
    BY <1>1, <1>2, <1>3, <1>5, <1>6, <2>4, <2>6, <2>7, <2>8
  <2> QED BY <2>1, <2>5, <2>9 DEF r
<1> QED BY <1>2, <1>3, <1>4, <1>8, <1>9 DEF h, w

(* Where the records begin, and the pass that the merge has to agree with. *)
Starts(j) == j.config.has_headers => HeaderScan(j).state = "RecordEnd"
First(j) == IF j.config.has_headers THEN HeaderScan(j).at ELSE 0
TheRun(j) == CHOOSE f : WholeRun(j.config, Whole(j), First(j), f)

LEMMA StreamIs ==
  ASSUME NEW j \in Jobs, Starts(j)
  PROVE  /\ WholeRun(j.config, Whole(j), First(j), TheRun(j))
         /\ Truth(j.config, Whole(j), First(j), TheRun(j), RunStream(j))
<1> DEFINE c == j.config
           w == Whole(j)
           first == First(j)
<1>1. GoodReader(c, w) /\ ReadableEnd(w) \in Nat /\ ReadableEnd(w) < w.limit /\ ValidDialect(c)
  BY WholeReader, JobIs
<1>2. RunStream(j) = ParseScanned(c, w, Scan(c, w, "OutOfQuotes", FindMode(j, 0)))
  BY DEF RunStream, Parse, Whole
<1>3. first \in Nat /\ first <= ReadableEnd(w) /\ RunStream(j) = ParseFromBoundary(c, w, first)
  <2>1. CASE c.has_headers
    <3>1. HeaderScan(j) = ScanHeaderEnd(c, Heading(j)) /\ HeaderScan(j).state = "RecordEnd"
          /\ first = HeaderScan(j).at
      BY <2>1 DEF HeaderScan, Heading, Starts, First
    <3>2. /\ GoodReader(c, Heading(j)) /\ GoodReader(c, w) /\ Heading(j).bytes = w.bytes
          /\ BufEnd(Heading(j)) <= BufEnd(w)
      BY HeadReaders
    <3> HIDE DEF first, w, c
    <3>3. ScanHeaderEnd(c, w) = HeaderScan(j)
      <4>1. ScanHeaderEnd(c, Heading(j)).state = "RecordEnd"
        BY <3>1
      <4>2. ScanHeaderEnd(c, w) = ScanHeaderEnd(c, Heading(j))
        BY <3>2, <4>1, SameHeader
      <4> QED BY <3>1, <4>2
    <3>4. Found(c, w, ScanHeaderEnd(c, w))
      <4>1. "RecordStart" \in InteriorStates
        BY DEF InteriorStates
      <4> QED BY <1>1, <4>1, ScanFinds DEF ScanHeaderEnd
    <3>5. ScanHeaderEnd(c, w).state = "RecordEnd" /\ ScanHeaderEnd(c, w).at = first
      BY <3>1, <3>3
    <3>6. first \in Nat /\ first < ReadableEnd(w)
      BY <3>4, <3>5 DEF Found, ScanOutcomes
    <3>7. Scan(c, w, "OutOfQuotes", FindMode(j, 0)) = ScanHeaderEnd(c, w)
      BY <2>1 DEF Scan, FindMode, c
    <3>8. RunStream(j) = ParseFromBoundary(c, w, first)
      BY <1>2, <3>5, <3>7 DEF ParseScanned
    <3> QED BY <1>1, <3>6, <3>8
  <2>2. CASE ~c.has_headers
    <3>1. first = 0
      BY <2>2 DEF First
    <3>2. Scan(c, w, "OutOfQuotes", FindMode(j, 0)) = [state |-> "RecordEnd", at |-> 0]
      BY <2>2 DEF Scan, FindMode
    <3> HIDE DEF first, w, c
    <3>3. RunStream(j) = ParseFromBoundary(c, w, first)
      BY <1>2, <3>1, <3>2 DEF ParseScanned
    <3> QED BY <1>1, <3>1, <3>3
  <2> QED BY <2>1, <2>2
<1> HIDE DEF first, w, c
<1>4. \E f : WholeRun(c, w, first, f)
  <2>1. PICK f : RunsFrom(f, c, w, first, ReadableEnd(w))
    BY <1>1, <1>3, ParseIs
  <2>2. first \in 0..ReadableEnd(w)
    BY <1>1, <1>3
  <2> QED BY <1>1, <2>1, <2>2 DEF WholeRun
<1>5. WholeRun(c, w, first, TheRun(j))
  BY <1>4 DEF TheRun, c, w, first
<1>6. Truth(c, w, first, TheRun(j), RunStream(j))
  BY <1>3, <1>5, TruthIs
<1> QED BY <1>5, <1>6 DEF c, w, first

-----------------------------------------------------------------------------
(* The records of the states, one state after the other: the function that *)
(* FlattenSeq ends with.                                                   *)
FlatRunOf(f, s, n) ==
  f = [i \in 1..n |-> IF i = 1 THEN s[i] ELSE f[i - 1] \o s[i]]

LEMMA FlatRunExists ==
  ASSUME NEW s, NEW n \in Nat
  PROVE  \E f : FlatRunOf(f, s, n)
<1> DEFINE Runs(k) == \E f : FlatRunOf(f, s, k)
           T == {k \in Nat : ~Runs(k)}
           Next1(p, i) == p \o s[i]
<1>1. \A f, k : FlatRunOf(f, s, k)
                <=> f = [i \in 1..k |-> IF i = 1 THEN s[i] ELSE Next1(f[i - 1], i)]
  BY Zenon DEF FlatRunOf
<1> HIDE DEF Next1
<1>2. ASSUME NEW x \in T, \A y \in T : x <= y  PROVE FALSE
  <2>1. x \in Nat /\ ~Runs(x)
    BY <1>2
  <2>2. CASE x = 0
    <3> DEFINE f == [i \in 1..0 |-> s[i]]
    <3>1. f = [i \in 1..0 |-> IF i = 1 THEN s[i] ELSE Next1(f[i - 1], i)]
      OBVIOUS
    <3> HIDE DEF f
    <3> QED BY <1>1, <2>1, <2>2, <3>1
  <2>3. CASE x # 0
    <3>1. x - 1 \in Nat /\ x - 1 \notin T
      BY <1>2, <2>1, <2>3
    <3>2. Runs(x - 1)
      BY <3>1
    <3>3. PICK f : f = [i \in 1..(x - 1) |-> IF i = 1 THEN s[i] ELSE Next1(f[i - 1], i)]
      BY <1>1, <3>2
    <3> DEFINE last == IF x = 1 THEN s[x] ELSE Next1(f[x - 1], x)
               g == [i \in 1..x |-> IF i = x THEN last ELSE f[i]]
               h == [i \in 1..x |-> IF i = 1 THEN s[i] ELSE Next1(g[i - 1], i)]
    <3>4. ASSUME NEW i \in 1..x  PROVE g[i] = h[i]
      <4>1. i # 1 => i - 1 \in 1..(x - 1) /\ i - 1 \in 1..x /\ i - 1 # x
        BY <2>1
      <4>2. i # 1 => g[i - 1] = f[i - 1]
        BY <4>1
      <4>3. i # x => i \in 1..(x - 1)
        BY <2>1
      <4>4. i # x => f[i] = IF i = 1 THEN s[i] ELSE Next1(f[i - 1], i)
        BY <3>3, <4>3
      <4>5. h[i] = (IF i = 1 THEN s[i] ELSE Next1(g[i - 1], i))
            /\ g[i] = (IF i = x THEN last ELSE f[i])
        OBVIOUS
      <4>6. h[i] = (IF i = 1 THEN s[i] ELSE Next1(f[i - 1], i))
        BY <4>2, <4>5
      <4> HIDE DEF g, h
      <4> QED BY <4>4, <4>5, <4>6
    <3>5. g = h
      BY <3>4
    <3> HIDE DEF g
    <3> QED BY <1>1, <2>1, <3>5
  <2> QED BY <2>2, <2>3
<1>3. T = {}
  <2>1. T \in SUBSET Nat
    OBVIOUS
  <2> HIDE DEF T
  <2> QED BY <1>2, <2>1, LeastElement
<1> QED BY <1>3

LEMMA FlatIs ==
  ASSUME NEW s, Len(s) \in Nat, Len(s) # 0
  PROVE  \E f : /\ FlattenSeq(s) = f[Len(s)] /\ f[1] = s[1]
                /\ \A i \in 2..Len(s) : f[i] = f[i - 1] \o s[i]
<1> DEFINE n == Len(s)
           f == CHOOSE g : FlatRunOf(g, s, n)
<1>1. FlatRunOf(f, s, n)
  BY FlatRunExists, Zenon
<1>2. FlattenSeq(s) = f[Len(s)]
  BY Zenon DEF FlatRunOf, FlattenSeq
<1>3. 1 \in 1..n /\ \A i \in 2..n : i \in 1..n /\ i # 1
  OBVIOUS
<1> HIDE DEF f
<1>4. \A i \in 1..n : f[i] = IF i = 1 THEN s[i] ELSE f[i - 1] \o s[i]
  BY <1>1, Zenon DEF FlatRunOf
<1>5. f[1] = s[1] /\ \A i \in 2..n : f[i] = f[i - 1] \o s[i]
  BY <1>3, <1>4
<1> QED BY <1>2, <1>5

LEMMA FlatTyped ==
  ASSUME NEW S, NEW s \in Seq(Seq(S)), Len(s) # 0, NEW f, f[1] = s[1],
         \A i \in 2..Len(s) : f[i] = f[i - 1] \o s[i]
  PROVE  \A i \in 1..Len(s) : f[i] \in Seq(S)
<1> DEFINE n == Len(s)
           T == {k \in 1..n : f[k] \notin Seq(S)}
<1>1. n \in Nat /\ \A i \in 1..n : s[i] \in Seq(S)
  OBVIOUS
<1>2. ASSUME NEW x \in T, \A y \in T : x <= y  PROVE FALSE
  <2>1. x \in 1..n /\ f[x] \notin Seq(S)
    BY <1>2
  <2>2. CASE x = 1
    BY <1>1, <2>1, <2>2
  <2>3. CASE x # 1
    <3>1. x \in 2..n /\ x - 1 \in 1..n /\ ~(x <= x - 1)
      BY <1>1, <2>1, <2>3
    <3>2. f[x - 1] \in Seq(S)
      BY <1>2, <3>1
    <3>3. f[x] = f[x - 1] \o s[x] /\ s[x] \in Seq(S)
      BY <1>1, <2>1, <3>1
    <3>4. f[x] \in Seq(S)
      BY <3>2, <3>3, ConcatProperties
    <3> QED BY <2>1, <3>4
  <2> QED BY <2>2, <2>3
<1>3. T = {}
  <2>1. T \in SUBSET Nat
    OBVIOUS
  <2> HIDE DEF T
  <2> QED BY <1>2, <2>1, LeastElement
<1> QED BY <1>3

LEMMA FlattenIs ==
  ASSUME NEW S, NEW s \in Seq(Seq(S))
  PROVE  /\ FlattenSeq(s) \in Seq(S)
         /\ s = <<>> => FlattenSeq(s) = <<>>
         /\ \A x \in Seq(S) : FlattenSeq(Append(s, x)) = FlattenSeq(s) \o x
<1> DEFINE n == Len(s)
<1>1. n \in Nat /\ (n = 0 <=> s = <<>>)
  OBVIOUS
<1>2. s = <<>> => FlattenSeq(s) = <<>>
  BY DEF FlattenSeq
<1>3. FlattenSeq(s) \in Seq(S)
  <2>1. CASE n = 0
    <3>1. s = <<>> /\ <<>> \in Seq(S)
      BY <1>1, <2>1
    <3>2. FlattenSeq(s) = <<>>
      BY <1>2, <3>1
    <3> QED BY <3>1, <3>2
  <2>2. CASE n # 0
    <3>1. PICK f : /\ FlattenSeq(s) = f[n] /\ f[1] = s[1]
                   /\ \A i \in 2..n : f[i] = f[i - 1] \o s[i]
      BY <1>1, <2>2, FlatIs
    <3>2. n \in 1..n
      BY <1>1, <2>2
    <3> QED BY <2>2, <3>1, <3>2, FlatTyped
  <2> QED BY <2>1, <2>2
<1>4. ASSUME NEW x \in Seq(S)  PROVE FlattenSeq(Append(s, x)) = FlattenSeq(s) \o x
  <2> DEFINE t == Append(s, x)
             m == n + 1
  <2>1. /\ t \in Seq(Seq(S)) /\ Len(t) = m /\ m \in Nat /\ m # 0 /\ t[m] = x
        /\ \A i \in 1..n : t[i] = s[i]
    BY <1>1, AppendProperties
  <2> HIDE DEF t
  <2>2. PICK g : /\ FlattenSeq(t) = g[m] /\ g[1] = t[1]
                 /\ \A i \in 2..m : g[i] = g[i - 1] \o t[i]
    <3>1. Len(t) \in Nat /\ Len(t) # 0
      BY <2>1
    <3>2. \E g : /\ FlattenSeq(t) = g[Len(t)] /\ g[1] = t[1]
                 /\ \A i \in 2..Len(t) : g[i] = g[i - 1] \o t[i]
      BY <3>1, FlatIs
    <3> QED BY <2>1, <3>2
  <2>3. CASE n = 0
    <3>1. FlattenSeq(t) = x
      BY <2>1, <2>2, <2>3
    <3>2. FlattenSeq(s) = <<>>
      BY <1>1, <1>2, <2>3
    <3>3. <<>> \o x = x
      BY ConcatEmptySeq
    <3> QED BY <3>1, <3>2, <3>3 DEF t
  <2>4. CASE n # 0
    <3>1. PICK f : /\ FlattenSeq(s) = f[n] /\ f[1] = s[1]
                   /\ \A i \in 2..n : f[i] = f[i - 1] \o s[i]
      BY <1>1, <2>4, FlatIs
    <3> DEFINE T == {k \in 1..n : f[k] # g[k]}
    <3>2. ASSUME NEW y \in T, \A z \in T : y <= z  PROVE FALSE
      <4>1. y \in 1..n /\ f[y] # g[y]
        BY <3>2
      <4>2. CASE y = 1
        BY <2>1, <2>2, <3>1, <4>1, <4>2
      <4>3. CASE y # 1
        <5>1. y \in 2..n /\ y \in 2..m /\ y - 1 \in 1..n /\ ~(y <= y - 1)
          BY <1>1, <4>1, <4>3
        <5>2. f[y - 1] = g[y - 1]
          BY <3>2, <5>1
        <5>3. f[y] = f[y - 1] \o s[y] /\ g[y] = g[y - 1] \o t[y] /\ t[y] = s[y]
          BY <2>1, <2>2, <3>1, <4>1, <5>1
        <5> QED BY <4>1, <5>2, <5>3
      <4> QED BY <4>2, <4>3
    <3>3. T = {}
      <4>1. T \in SUBSET Nat
        OBVIOUS
      <4> HIDE DEF T
      <4> QED BY <3>2, <4>1, LeastElement
    <3>4. n \in 1..n /\ m \in 2..m /\ m - 1 = n
      BY <1>1, <2>4
    <3>5. f[n] = g[n]
      BY <3>3, <3>4
    <3>6. g[m] = g[n] \o x
      BY <2>1, <2>2, <3>4
    <3> QED BY <2>2, <3>1, <3>5, <3>6 DEF t
  <2> QED BY <2>3, <2>4
<1> QED BY <1>2, <1>3, <1>4

-----------------------------------------------------------------------------
(* A pass as the merge sees it, its offsets moved to where they are in the *)
(* file.                                                                   *)
LEMMA ResolvedIs ==
  ASSUME NEW r, NEW pr, Typed(r, pr), NEW a \in Nat
  PROVE  LET pass == ResolvedPass(pr, a)
         IN  /\ pass.records = Placed(pr.records, a) /\ pass.records \in Seq(Records)
             /\ pass.error = WithBase(pr.error, a)
             /\ pass.record_start = Shift(pr.record_start, a)
             /\ pass.error = NoError <=> pr.error = NoError
             /\ pass.error # NoError => pass.error.kind \in Kinds
<1> DEFINE pass == ResolvedPass(pr, a)
           e == pr.error
<1>1. /\ pass.records = Placed(pr.records, a) /\ pass.error = WithBase(e, a)
      /\ pass.record_start = Shift(pr.record_start, a)
  BY DEF ResolvedPass, Placed
<1>2. e \in Errors /\ pr.records \in Seq(Records)
  BY DEF Typed
<1> HIDE DEF pass, e
<1>3. pass.records \in Seq(Records)
  BY <1>1, <1>2, PlacedIs
<1>4. (pass.error = NoError <=> e = NoError) /\ (pass.error # NoError => pass.error.kind \in Kinds)
  <2>1. CASE e = NoError
    <3>1. e.at = NoOffset
      BY <2>1, ErrorsAre
    <3>2. pass.error = e
      BY <1>1, <3>1 DEF WithBase
    <3> QED BY <2>1, <3>2
  <2>2. CASE e # NoError
    <3>1. e \in [kind : Kinds, at : Offsets]
      BY <1>2, <2>2 DEF Errors
    <3>2. WithBase(e, a).kind = e.kind /\ e.kind \in Kinds
      BY <3>1 DEF WithBase
    <3>3. NoError.kind \notin Kinds
      BY DEF NoError, Kinds
    <3>4. pass.error # NoError
      BY <1>1, <3>2, <3>3
    <3> QED BY <1>1, <2>2, <3>2, <3>4
  <2> QED BY <2>1, <2>2
<1> QED BY <1>1, <1>3, <1>4 DEF e, pass

(* The error of a pass over a part, once moved, is that of the whole pass. *)
LEMMA MovedError ==
  ASSUME NEW e \in Errors, NEW truth, NEW a \in Nat, SameError(e, truth, a)
  PROVE  WithBase(e, a) \in {truth} \cup (IF truth = HandedBack THEN {WithBase(truth, a)} ELSE {})
<1>1. CASE truth = e /\ e \in {NoError, UserError}
  <2>1. e.at = NoOffset
    BY <1>1, ErrorsAre
  <2> QED BY <1>1, <2>1 DEF WithBase
<1>2. CASE truth = e /\ e = HandedBack
  BY <1>2
<1>3. CASE e.at \in Nat /\ truth = [e EXCEPT !.at = @ + a]
  <2>1. e.at # NoOffset
    BY <1>3, ErrorsAre
  <2> QED BY <1>3, <2>1 DEF WithBase
<1> QED BY <1>1, <1>2, <1>3 DEF SameError

-----------------------------------------------------------------------------
(* What the merge knows, of the records it has pushed and of the place     *)
(* that the next one is looked for at.                                     *)
At(j, n, records) == Boundary(j.config, Whole(j), First(j), TheRun(j), n, records)
Still(j, from, records) == Quiet(j.config, Whole(j), TheRun(j), from, records)

LEMMA StillLater ==
  ASSUME NEW j, NEW from \in Nat, NEW to \in Nat, from <= to, NEW records,
         Still(j, from, records), ReadableEnd(Whole(j)) \in Nat
  PROVE  Still(j, to, records)
<1> DEFINE E == ReadableEnd(Whole(j))
<1>1. \A k \in to..(E - 1) : k \in from..(E - 1)
  BY DEF E
<1> QED BY <1>1 DEF Still, Quiet, E

Known(j, idx, next, records) ==
  \/ idx = 0 /\ next = NoOffset /\ records = <<>>
  \/ next \in Nat /\ At(j, next, records)
  \/ idx # 0 /\ next = NoOffset /\ Still(j, StartOf(j, idx), records)

(* The records are all there are, or the next ones begin at a terminator,  *)
(* at or behind this place.                                                *)
Ahead(j, from, n, records) ==
  \/ AllRead(j.config, Whole(j), TheRun(j), records)
  \/ n >= from /\ n < ReadableEnd(Whole(j)) /\ ByteAt(Whole(j), n) \in Terminators(j.config)

(* A pass that agrees with the one over the whole file, from the records   *)
(* pushed before it to where the next one is looked for.                   *)
GoodPass(j, base, upto, before, pass, end) ==
  /\ pass.records \in Seq(Records)
  /\ pass.error = NoError =>
       \/ /\ end \in Nat /\ At(j, end, before \o pass.records)
          /\ Ahead(j, upto, end, before \o pass.records)
       \/ end = NoOffset /\ Still(j, upto, before \o pass.records)
  /\ pass.error # NoError =>
       pass.error \in {RunStream(j).error, IoError} \cup
                      IF RunStream(j).error = HandedBack
                      THEN {WithBase(RunStream(j).error, base)} ELSE {}

LEMMA PassIsGood ==
  ASSUME NEW j \in Jobs, Starts(j), NEW a \in Nat, a <= ReadableEnd(Whole(j)),
         NEW to \in Nat, a <= to, NEW rs \in Nat, rs <= ReadableEnd(ChunkReader(j, a, to)),
         NEW before, At(j, a + rs, before), NEW upto \in Nat, a + rs <= upto,
         upto <= to \/ FileSize(j) <= to,
         NEW pr, pr = ParseFromBoundary(j.config, ChunkReader(j, a, to), rs),
         NEW end, pr.error = NoError => end = Shift(pr.record_end, a)
  PROVE  GoodPass(j, a, upto, before, ResolvedPass(pr, a), end)
<1> DEFINE c == j.config
           w == Whole(j)
           r == ChunkReader(j, a, to)
           first == First(j)
           f == TheRun(j)
           T == RunStream(j)
           pass == ResolvedPass(pr, a)
           all == before \o Placed(pr.records, a)
<1>1. WholeRun(c, w, first, f) /\ Truth(c, w, first, f, T)
  BY StreamIs
<1>2. PartOf(c, r, w, a)
  BY ChunkIsPart
<1>3. GoodReader(c, r)
  BY <1>2, PartIs
<1>4. Boundary(c, w, first, f, a + rs, before)
  BY DEF At
<1>5. PassOutcome(c, r, w, first, f, T, a, rs, before, ParseFromBoundary(c, r, rs))
  BY <1>1, <1>2, <1>4, PassIs
<1>6. Typed(r, ParseFromBoundary(c, r, rs))
  BY <1>3, BoundaryParseIs
<1>7. PassOutcome(c, r, w, first, f, T, a, rs, before, pr) /\ Typed(r, pr)
  BY <1>5, <1>6
<1>8. /\ pass.records = Placed(pr.records, a) /\ pass.records \in Seq(Records)
      /\ pass.error = WithBase(pr.error, a)
      /\ pass.error = NoError <=> pr.error = NoError
  BY <1>7, ResolvedIs
<1>9. /\ ReadableEnd(w) \in Nat /\ ReadableEnd(w) = a + ReadableEnd(r)
      /\ ReadableEnd(w) <= FileSize(j) /\ FileSize(j) \in Nat /\ r.limit = to - a
      /\ \A i \in 0..(ReadableEnd(r) - 1) : ByteAt(w, a + i) = ByteAt(r, i)
  <2>1. ReadableEnd(w) \in Nat /\ ReadableEnd(w) <= FileSize(j) /\ FileSize(j) \in Nat
    BY WholeReader, JobIs
  <2>2. r.limit = to - a
    BY DEF ChunkReader
  <2> HIDE DEF c, w, r
  <2> QED BY <1>2, <2>1, <2>2, PartIs
<1> HIDE DEF c, w, r, first, f, T, pass, all
<1>10. ASSUME pr.error = NoError
       PROVE  \/ end \in Nat /\ At(j, end, all) /\ Ahead(j, upto, end, all)
              \/ end = NoOffset /\ Still(j, upto, all)
  <2>1. \/ /\ pr.record_end \in Nat /\ Boundary(c, w, first, f, a + pr.record_end, all)
           /\ AllRead(c, w, f, all) \/ Outlasts(c, r, pr.record_end)
        \/ pr.record_end = NoOffset /\ Quiet(c, w, f, a + rs, all)
    BY <1>7, <1>10, ErrorsAre DEF PassOutcome, all
  <2>2. CASE /\ pr.record_end \in Nat /\ Boundary(c, w, first, f, a + pr.record_end, all)
             /\ AllRead(c, w, f, all) \/ Outlasts(c, r, pr.record_end)
    <3>1. pr.record_end # NoOffset
      BY <2>2, ErrorsAre
    <3>2. end = pr.record_end + a
      BY <1>10, <3>1 DEF Shift
    <3>3. pr.record_end + a = a + pr.record_end /\ a + pr.record_end \in Nat
      BY <2>2
    <3>4. end = a + pr.record_end
      BY <3>2, <3>3
    <3>5. At(j, end, all)
      BY <2>2, <3>4 DEF At, c, w, first, f
    <3>6. Ahead(j, upto, end, all)
      <4>1. CASE AllRead(c, w, f, all)
        BY <4>1 DEF Ahead, c, w, f
      <4>2. CASE Outlasts(c, r, pr.record_end)
        <5> DEFINE k == pr.record_end
        <5>1. k \in Nat /\ k >= r.limit /\ k < ReadableEnd(r) /\ ByteAt(r, k) \in Terminators(c)
          BY <2>2, <4>2 DEF Outlasts
        <5> HIDE DEF k
        <5>2. ReadableEnd(r) \in Nat
          BY <1>3, ReaderIs
        <5>3. end = a + k
          BY <3>4 DEF k
        <5>4. k \in 0..(ReadableEnd(r) - 1) /\ end < ReadableEnd(w) /\ end >= to
          BY <1>9, <5>1, <5>2, <5>3
        <5>5. ByteAt(w, end) \in Terminators(c)
          BY <1>9, <5>1, <5>3, <5>4
        <5>6. end >= upto
          BY <1>9, <3>3, <3>4, <5>4
        <5> QED BY <5>4, <5>5, <5>6 DEF Ahead, c, w
      <4> QED BY <2>2, <4>1, <4>2
    <3> QED BY <3>3, <3>4, <3>5, <3>6
  <2>3. CASE pr.record_end = NoOffset /\ Quiet(c, w, f, a + rs, all)
    <3>1. end = NoOffset
      BY <1>10, <2>3 DEF Shift
    <3>2. Still(j, a + rs, all)
      BY <2>3 DEF Still, c, w, f
    <3>3. Still(j, upto, all)
      <4>1. a + rs \in Nat
        OBVIOUS
      <4> QED BY <1>9, <3>2, <4>1, StillLater DEF w
    <3> QED BY <3>1, <3>3
  <2> QED BY <2>1, <2>2, <2>3
<1>11. ASSUME pr.error # NoError
       PROVE  pass.error \in {T.error, IoError} \cup
                             IF T.error = HandedBack THEN {WithBase(T.error, a)} ELSE {}
  <2>1. CASE pr.error = IoError
    <3>1. WithBase(pr.error, a) = IoError
      BY <2>1, ErrorsAre DEF WithBase
    <3> QED BY <1>8, <3>1
  <2>2. CASE pr.error \in Errors /\ SameError(pr.error, T.error, a)
    <3>1. WithBase(pr.error, a) \in
            {T.error} \cup IF T.error = HandedBack THEN {WithBase(T.error, a)} ELSE {}
      BY <2>2, MovedError
    <3> QED BY <1>8, <3>1
  <2> QED BY <1>7, <1>11, <2>1, <2>2 DEF PassOutcome
<1>12. all = before \o pass.records
  BY <1>8 DEF all
<1> QED BY <1>8, <1>10, <1>11, <1>12 DEF GoodPass, T, pass

(* The header row ends at the same byte for every reader of the first      *)
(* chunk.                                                                  *)
LEMMA HeaderIs ==
  ASSUME NEW j \in Jobs, 0 \in Chunks(j)
  PROVE  LET scan == ScanHeaderEnd(j.config, ReaderOf(j, 0))
         IN  /\ scan.state = "RecordEnd" <=> HeaderScan(j).state = "RecordEnd"
             /\ scan.state = "RecordEnd" => scan = HeaderScan(j)
<1> DEFINE c == j.config
           r == ReaderOf(j, 0)
           h == Heading(j)
<1>1. /\ GoodReader(c, r) /\ GoodReader(c, h) /\ r.bytes = h.bytes /\ h.bytes = r.bytes
      /\ BufEnd(r) = BufEnd(h)
  BY HeadReaders
<1>2. BufEnd(r) <= BufEnd(h) /\ BufEnd(h) <= BufEnd(r)
  <2>1. BufEnd(r) \in Nat /\ BufEnd(h) \in Nat
    BY <1>1, BufEndIs
  <2> HIDE DEF r, h
  <2> QED BY <1>1, <2>1
<1>3. HeaderScan(j) = ScanHeaderEnd(c, h)
  BY DEF HeaderScan, Heading
<1> HIDE DEF c, r, h
<1>4. ScanHeaderEnd(c, r).state = "RecordEnd" => ScanHeaderEnd(c, h) = ScanHeaderEnd(c, r)
  BY <1>1, <1>2, SameHeader
<1>5. ScanHeaderEnd(c, h).state = "RecordEnd" => ScanHeaderEnd(c, r) = ScanHeaderEnd(c, h)
  BY <1>1, <1>2, SameHeader
<1>6. /\ ScanHeaderEnd(c, r).state = "RecordEnd" <=> HeaderScan(j).state = "RecordEnd"
      /\ ScanHeaderEnd(c, r).state = "RecordEnd" => ScanHeaderEnd(c, r) = HeaderScan(j)
  BY <1>3, <1>4, <1>5
<1> QED BY <1>6 DEF c, r

LEMMA FirstIs ==
  ASSUME NEW j \in Jobs, Starts(j)
  PROVE  First(j) \in Nat /\ First(j) <= j.chunk_size
<1>1. j.chunk_size \in Nat /\ ValidDialect(j.config)
  BY JobIs
<1>2. CASE j.config.has_headers
  <2>1. HeaderScan(j).state = "RecordEnd" /\ First(j) = HeaderScan(j).at
    BY <1>2 DEF Starts, First
  <2>2. Found(j.config, Heading(j), HeaderScan(j))
    <3>1. "RecordStart" \in InteriorStates
      BY DEF InteriorStates
    <3>2. GoodReader(j.config, Heading(j))
      BY HeadReaders
    <3>3. Found(j.config, Heading(j),
                FindRecordStartFrom(j.config, FALSE, Heading(j), "RecordStart"))
      BY <1>1, <3>1, <3>2, ScanFinds
    <3> QED BY <3>3 DEF HeaderScan, ScanHeaderEnd, Heading
  <2>3. HeaderScan(j).at \in Nat /\ HeaderScan(j).at < Heading(j).limit
    BY <2>1, <2>2 DEF Found, ScanOutcomes
  <2>4. Heading(j).limit = j.chunk_size
    BY <1>1 DEF Heading, ChunkReader
  <2> QED BY <1>1, <2>1, <2>3, <2>4
<1>3. CASE ~j.config.has_headers
  BY <1>1, <1>3 DEF First
<1> QED BY <1>2, <1>3

(* Where a pass that lines up begins, the whole is at a boundary.          *)
LEMMA AlignedAtFirst ==
  ASSUME NEW j \in Jobs, Starts(j), 0 \in Chunks(j), NEW pr,
         Parsed(j.config, ReaderOf(j, 0), FindMode(j, 0), pr), pr.record_start # NoOffset
  PROVE  pr.record_start \in Nat /\ At(j, pr.record_start, <<>>)
<1> DEFINE c == j.config
           r == ReaderOf(j, 0)
           rs == pr.record_start
           first == First(j)
           E == ReadableEnd(Whole(j))
<1>1. rs \in Nat
  BY DEF Parsed
<1>2. rs = first
  <2>1. CASE c.has_headers
    <3>1. FindMode(j, 0) = "SkipHeaders"
      BY <2>1 DEF FindMode
    <3>2. ScanHeaderEnd(c, r).state = "RecordEnd" /\ ScanHeaderEnd(c, r).at = rs
      BY <3>1 DEF Parsed
    <3>3. ScanHeaderEnd(c, r) = HeaderScan(j)
      BY <3>2, HeaderIs
    <3>4. first = HeaderScan(j).at
      BY <2>1 DEF First
    <3> HIDE DEF c, r, rs, first
    <3> QED BY <3>2, <3>3, <3>4
  <2>2. CASE ~c.has_headers
    <3>1. FindMode(j, 0) = "No" /\ first = 0
      BY <2>2 DEF FindMode, First
    <3>2. rs = 0
      BY <3>1 DEF Parsed
    <3> QED BY <3>1, <3>2
  <2> QED BY <2>1, <2>2
<1>3. WholeRun(c, Whole(j), first, TheRun(j))
  BY StreamIs
<1>4. first \in Nat /\ first <= E /\ E \in Nat
  BY <1>3, WholeIs
<1> HIDE DEF c, r, rs, first, E
<1>5. first \in first..E /\ \A k \in first..(first - 1) : ByteAt(Whole(j), k) \in Terminators(c)
  BY <1>4
<1>6. RestsAt(TheRun(j), first, <<>>)
  BY <1>3, <1>5, RestsAtFirst DEF E
<1>7. Boundary(c, Whole(j), first, TheRun(j), first, <<>>)
  BY <1>5, <1>6 DEF Boundary, E
<1>8. At(j, first, <<>>)
  BY <1>7 DEF At, c, first
<1>9. At(j, rs, <<>>)
  BY <1>2, <1>8
<1> QED BY <1>1, <1>9 DEF rs

LEMMA AlignedWhileStill ==
  ASSUME NEW j \in Jobs, Starts(j), LineComments(j), NEW idx \in Chunks(j), idx # 0,
         NEW find \in {"Strict", "Lenient"}, NEW pr,
         Parsed(j.config, ReaderOf(j, idx), find, pr), pr.record_start # NoOffset,
         NEW before, Still(j, StartOf(j, idx), before)
  PROVE  /\ pr.record_start \in Nat /\ StartOf(j, idx) <= ReadableEnd(Whole(j))
         /\ At(j, StartOf(j, idx) + pr.record_start, before)
<1> DEFINE c == j.config
           w == Whole(j)
           r == ReaderOf(j, idx)
           rs == pr.record_start
           first == First(j)
           f == TheRun(j)
           a == StartOf(j, idx)
           stop == StopOf(j, idx)
           E == ReadableEnd(w)
<1>1. /\ rs \in Nat /\ rs < ReadableEnd(r) /\ ByteAt(r, rs) \in Terminators(c)
  BY DEF Parsed
<1>2. a \in Nat /\ a < FileSize(j) /\ stop \in Nat /\ a <= stop /\ idx \in Nat
  BY ChunkBounds
<1>3. AllRead(c, w, f, before)
      /\ (LineEnds(c) => \A k \in a..(E - 1) :
                           ByteAt(w, k) \in Terminators(c) => RestsAt(f, k + 1, before))
  BY DEF Still, Quiet
<1>4. E = FileSize(j)
  <2>1. E = EofOf(w)
    BY <1>3 DEF AllRead
  <2> QED BY <2>1, WholeReader
<1>5. a <= E
  <2>1. FileSize(j) \in Nat
    BY JobIs
  <2> HIDE DEF a, E
  <2> QED BY <1>2, <1>4, <2>1
<1>6. PartOf(c, r, w, a)
  <2> HIDE DEF a, E
  <2>1. PartOf(c, ChunkReader(j, a, stop), w, a)
    BY <1>2, <1>5, ChunkIsPart DEF E
  <2> QED BY <2>1 DEF ReaderOf, a
<1>7. /\ E = a + ReadableEnd(r) /\ ReadableEnd(r) \in Nat /\ E \in Nat
      /\ \A i \in 0..(ReadableEnd(r) - 1) : ByteAt(w, a + i) = ByteAt(r, i)
  BY <1>6, PartIs
<1>8. LineEnds(c)
  BY DEF LineComments, LineEnds
<1>9. first \in Nat /\ first <= a
  <2>1. first \in Nat /\ first <= j.chunk_size /\ j.chunk_size \in Nat
    BY FirstIs, JobIs
  <2>2. 1 \in Nat /\ 1 <= idx
    BY <1>2
  <2>3. 1 * j.chunk_size <= idx * j.chunk_size
    BY <1>2, <2>1, <2>2, TimesGrows
  <2>4. j.chunk_size <= a
    <3>1. 1 * j.chunk_size = j.chunk_size
      BY <2>1
    <3> QED BY <2>3, <3>1 DEF StartOf
  <2> HIDE DEF first, a
  <2> QED BY <1>2, <2>1, <2>4
<1> HIDE DEF c, w, r, rs, first, f, a, stop, E
<1> DEFINE n == a + rs
<1>10. /\ n \in first..E /\ n < E /\ n \in a..(E - 1) /\ rs \in 0..(ReadableEnd(r) - 1)
  BY <1>1, <1>2, <1>7, <1>9
<1>11. ByteAt(w, n) \in Terminators(c)
  BY <1>1, <1>7, <1>10
<1> HIDE DEF n
<1>12. RestsAt(f, n + 1, before)
  BY <1>3, <1>8, <1>10, <1>11
<1>13. Boundary(c, w, first, f, n, before)
  BY <1>10, <1>11, <1>12 DEF Boundary, E
<1>14. At(j, n, before)
  BY <1>13 DEF At, c, w, first, f
<1>15. rs \in Nat /\ a <= E /\ At(j, a + rs, before)
  BY <1>1, <1>5, <1>14 DEF n
<1> QED BY <1>15 DEF rs, a, E, w

(* The chunk that is merged, with the one of its passes that lines up.     *)
Selectable(j, idx, next, before, pass, end) ==
  /\ Known(j, idx, next, before)
  /\ next = NoOffset \/ pass.record_start = next
  /\ \E find \in FindModes :
       /\ idx = 0 => find = FindMode(j, 0)
       /\ idx # 0 => find \in {"Strict", "Lenient"}
       /\ IsPassOf(j, idx, find, end, pass)

LEMMA SelectIsGood ==
  ASSUME NEW j \in Jobs, Starts(j), LineComments(j), NEW idx \in Chunks(j), NEW next,
         NEW before, NEW pass, NEW end, Selectable(j, idx, next, before, pass, end)
  PROVE  GoodPass(j, StartOf(j, idx), (idx + 1) * j.chunk_size, before, pass, end)
<1> DEFINE c == j.config
           w == Whole(j)
           r == ReaderOf(j, idx)
           a == StartOf(j, idx)
           stop == StopOf(j, idx)
           upto == (idx + 1) * j.chunk_size
<1>1. PICK find \in FindModes :
        /\ idx = 0 => find = FindMode(j, 0)
        /\ idx # 0 => find \in {"Strict", "Lenient"}
        /\ IsPassOf(j, idx, find, end, pass)
  BY DEF Selectable
<1>2. PICK pr : /\ pass = ResolvedPass(pr, a) /\ Parsed(c, r, find, pr)
                /\ pr.record_start # NoOffset
                /\ pr.error = NoError => end = Shift(pr.record_end, a)
  BY <1>1 DEF IsPassOf
<1> DEFINE rs == pr.record_start
<1>3. /\ rs \in Nat /\ rs <= ReadableEnd(r) /\ pr = ParseFromBoundary(c, r, rs)
      /\ find = "No" => rs = 0
      /\ find # "No" => rs < r.limit
  BY <1>2 DEF Parsed
<1>4. /\ a \in Nat /\ stop \in Nat /\ a <= stop /\ idx \in Nat /\ upto = a + j.chunk_size
      /\ (idx = 0 => a = 0) /\ stop <= a + j.chunk_size
      /\ upto <= stop \/ FileSize(j) <= stop
  <2>1. upto = a + j.chunk_size /\ a \in Nat
    BY ChunkBounds
  <2>2. upto <= stop \/ FileSize(j) <= stop
    <3>1. a + j.chunk_size \in Nat /\ FileSize(j) \in Nat
      BY <2>1, JobIs
    <3>2. stop = IF a + j.chunk_size <= FileSize(j) THEN a + j.chunk_size ELSE FileSize(j)
      BY <3>1, MinOfTwo DEF StopOf
    <3> HIDE DEF upto, stop, a
    <3> QED BY <2>1, <3>1, <3>2
  <2> HIDE DEF upto, stop, a
  <2> QED BY <2>2, ChunkBounds DEF upto, stop, a
<1>5. r.limit = stop - a
  BY ReaderOfIs
<1>6. j.chunk_size \in Nat /\ ReadableEnd(w) \in Nat
  BY JobIs, WholeReader
<1>7. pass.record_start = rs + a
  <2>1. pass.record_start = Shift(rs, a)
    BY <1>2 DEF ResolvedPass
  <2> QED BY <1>2, <2>1 DEF Shift
<1>8. a <= ReadableEnd(w) /\ At(j, a + rs, before)
  <2>1. CASE idx = 0 /\ next = NoOffset /\ before = <<>>
    <3>1. Parsed(c, ReaderOf(j, 0), FindMode(j, 0), pr) /\ 0 \in Chunks(j)
      BY <1>1, <1>2, <2>1
    <3>2. At(j, rs, <<>>)
      BY <1>2, <3>1, AlignedAtFirst
    <3>3. a = 0 /\ a + rs = rs
      <4> HIDE DEF a, rs
      <4> QED BY <1>3, <1>4, <2>1
    <3> HIDE DEF a, rs
    <3> QED BY <1>6, <2>1, <3>2, <3>3
  <2>2. CASE next \in Nat /\ At(j, next, before)
    <3>1. next = rs + a
      BY <1>7, <2>2, ErrorsAre DEF Selectable
    <3>2. next \in First(j)..ReadableEnd(w)
      BY <2>2 DEF At, Boundary
    <3> HIDE DEF a, rs, w
    <3>3. next = a + rs /\ a <= next /\ next <= ReadableEnd(w)
      BY <1>3, <1>4, <3>1, <3>2
    <3> QED BY <1>3, <1>4, <1>6, <2>2, <3>3
  <2>3. CASE idx # 0 /\ next = NoOffset /\ Still(j, StartOf(j, idx), before)
    BY <1>1, <1>2, <2>3, AlignedWhileStill
  <2> QED BY <2>1, <2>2, <2>3 DEF Selectable, Known
<1>9. a + rs <= upto /\ upto \in Nat
  <2>1. find = "No" => rs = 0
    BY <1>3
  <2>2. find # "No" => rs < r.limit
    BY <1>3
  <2> HIDE DEF a, rs, upto, stop, r
  <2> QED BY <1>3, <1>4, <1>5, <1>6, <2>1, <2>2
<1>10. r = ChunkReader(j, a, stop)
  BY DEF ReaderOf
<1> HIDE DEF c, w, r, a, stop, upto, rs
<1>11. GoodPass(j, a, upto, before, ResolvedPass(pr, a), end)
  <2>1. rs <= ReadableEnd(ChunkReader(j, a, stop))
        /\ pr = ParseFromBoundary(j.config, ChunkReader(j, a, stop), rs)
    BY <1>3, <1>10 DEF c
  <2> QED BY <1>2, <1>3, <1>4, <1>8, <1>9, <2>1, PassIsGood DEF w
<1> QED BY <1>2, <1>11 DEF a, upto

(* The chunk that is parsed again.                                         *)
LEMMA ReparseIs ==
  ASSUME NEW j \in Jobs, NEW next \in Nat, next <= FileSize(j), NEW upto \in Nat, next <= upto
  PROVE  LET to == Min({upto, FileSize(j)})
             r == ChunkReader(j, next, to)
             pr == Parse(j.config, r, "OutOfQuotes", "No")
         IN  /\ to \in Nat /\ next <= to /\ (upto <= to \/ FileSize(j) <= to)
             /\ GoodReader(j.config, r) /\ EofOf(r) = FileSize(j) - next
             /\ pr = ParseFromBoundary(j.config, r, 0) /\ Typed(r, pr)
             /\ ReparseChunk(j, next, upto) = [pass |-> ResolvedPass(pr, next),
                                               record_end |-> pr.record_end]
<1> DEFINE to == Min({upto, FileSize(j)})
           r == ChunkReader(j, next, to)
           pr == Parse(j.config, r, "OutOfQuotes", "No")
<1>1. FileSize(j) \in Nat
  BY JobIs
<1>2. to = IF upto <= FileSize(j) THEN upto ELSE FileSize(j)
  BY <1>1, MinOfTwo
<1>3. ReparseChunk(j, next, upto) = [pass |-> ResolvedPass(pr, next),
                                     record_end |-> pr.record_end]
  BY DEF ReparseChunk, Reparsed
<1> HIDE DEF to
<1>4. /\ to \in Nat /\ next <= to /\ next \in 0..FileSize(j)
      /\ upto <= to \/ FileSize(j) <= to
  BY <1>1, <1>2
<1>5. GoodReader(j.config, r) /\ EofOf(r) = FileSize(j) - next
  BY <1>4, ChunkReaderIs
<1>6. pr = ParseFromBoundary(j.config, r, 0)
  BY DEF Parse, Scan, ParseScanned
<1> HIDE DEF r, pr
<1>7. ReadableEnd(r) \in Nat
  BY <1>5, ReaderIs
<1>8. Typed(r, ParseFromBoundary(j.config, r, 0))
  <2>1. 0 \in Nat /\ 0 <= ReadableEnd(r)
    BY <1>7
  <2> QED BY <1>5, <2>1, BoundaryParseIs
<1> QED BY <1>3, <1>4, <1>5, <1>6, <1>8 DEF to, r, pr

LEMMA ReparseIsGood ==
  ASSUME NEW j \in Jobs, Starts(j), NEW next \in Nat, NEW before, At(j, next, before),
         NEW upto \in Nat, next <= upto
  PROVE  LET again == ReparseChunk(j, next, upto)
         IN  GoodPass(j, next, upto, before, again.pass, Shift(again.record_end, next))
<1> DEFINE again == ReparseChunk(j, next, upto)
           to == Min({upto, FileSize(j)})
           r == ChunkReader(j, next, to)
           pr == Parse(j.config, r, "OutOfQuotes", "No")
<1>1. next <= ReadableEnd(Whole(j)) /\ ReadableEnd(Whole(j)) \in Nat
      /\ ReadableEnd(Whole(j)) <= FileSize(j) /\ FileSize(j) \in Nat
  <2>1. next \in First(j)..ReadableEnd(Whole(j))
    BY DEF At, Boundary
  <2>2. ReadableEnd(Whole(j)) \in Nat /\ ReadableEnd(Whole(j)) <= FileSize(j)
    BY WholeReader
  <2>3. FileSize(j) \in Nat
    BY JobIs
  <2> QED BY <2>1, <2>2, <2>3
<1>2. next <= FileSize(j)
  BY <1>1
<1>3. /\ to \in Nat /\ next <= to /\ (upto <= to \/ FileSize(j) <= to)
      /\ GoodReader(j.config, r)
      /\ pr = ParseFromBoundary(j.config, r, 0)
      /\ again = [pass |-> ResolvedPass(pr, next), record_end |-> pr.record_end]
  BY <1>2, ReparseIs
<1>4. again.pass = ResolvedPass(pr, next) /\ again.record_end = pr.record_end
  BY <1>3
<1> HIDE DEF again, to, pr
<1>5. 0 <= ReadableEnd(r) /\ 0 \in Nat
  <2>1. ReadableEnd(r) \in Nat
    BY <1>3, ReaderIs
  <2> HIDE DEF r
  <2> QED BY <2>1
<1>6. At(j, next + 0, before) /\ next + 0 <= upto
  <2>1. next + 0 = next
    OBVIOUS
  <2> QED BY <2>1
<1> DEFINE end == Shift(pr.record_end, next)
<1>7. pr.error = NoError => end = Shift(pr.record_end, next)
  OBVIOUS
<1> HIDE DEF end
<1>8. GoodPass(j, next, upto, before, ResolvedPass(pr, next), end)
  BY <1>1, <1>3, <1>5, <1>6, <1>7, PassIsGood
<1> QED BY <1>4, <1>8 DEF again, end

(* Without an end of the header row, there is one chunk, without passes.   *)
LEMMA HeadlessIs ==
  ASSUME NEW j \in Jobs, HeaderFits(j), ~Starts(j), NEW idx \in Chunks(j), NEW out,
         ChunkPasses(j, idx, out)
  PROVE  out.passes = <<>>
<1>1. /\ j.config.has_headers /\ HeaderScan(j).state # "RecordEnd"
      /\ j.chunk_size >= FileSize(j)
  BY DEF HeaderFits, Starts
<1>2. idx = 0
  <2>1. /\ idx \in Nat /\ StartOf(j, idx) < FileSize(j) /\ FileSize(j) \in Nat
        /\ j.chunk_size \in Nat /\ StartOf(j, idx) \in Nat
    BY ChunkBounds, JobIs
  <2>2. idx # 0 => 1 * j.chunk_size <= idx * j.chunk_size
    <3>1. idx # 0 => 1 <= idx /\ 1 \in Nat
      BY <2>1
    <3> QED BY <2>1, <3>1, TimesGrows
  <2>3. 1 * j.chunk_size = j.chunk_size
    BY <2>1
  <2>4. idx # 0 => j.chunk_size <= StartOf(j, idx)
    BY <2>2, <2>3 DEF StartOf
  <2> QED BY <1>1, <2>1, <2>4
<1>3. PICK find \in FindModes : find = FindMode(j, 0) /\ ChunkTried(j, 0, find, out)
  BY <1>2 DEF ChunkPasses
<1>4. find = "SkipHeaders"
  BY <1>1, <1>3 DEF FindMode
<1>5. PICK m \in Nat : DOMAIN out.passes = 1..m /\ (m = 0 <=> out.passes = <<>>)
  BY <1>3 DEF ChunkTried
<1>6. ASSUME m # 0  PROVE FALSE
  <2>1. 1 \in DOMAIN out.passes
    BY <1>5, <1>6
  <2>2. IsPassOf(j, 0, find, out.record_end, out.passes[1])
    BY <1>3, <2>1 DEF ChunkTried
  <2>3. PICK pr : Parsed(j.config, ReaderOf(j, 0), find, pr) /\ pr.record_start # NoOffset
    BY <2>2 DEF IsPassOf
  <2>4. ScanHeaderEnd(j.config, ReaderOf(j, 0)).state = "RecordEnd"
    BY <1>4, <2>3 DEF Parsed
  <2>5. 0 \in Chunks(j)
    BY <1>2
  <2> QED BY <1>1, <2>4, <2>5, HeaderIs
<1> QED BY <1>5, <1>6

LEMMA HeadedIs ==
  ASSUME NEW j \in Jobs, Starts(j), 0 \in Chunks(j), NEW out, ChunkPasses(j, 0, out)
  PROVE  out.passes # <<>>
<1>1. ChunkTried(j, 0, FindMode(j, 0), out)
  BY DEF ChunkPasses
<1>2. CASE j.config.has_headers
  <2>1. FindMode(j, 0) = "SkipHeaders" /\ HeaderScan(j).state = "RecordEnd"
    BY <1>2 DEF FindMode, Starts
  <2>2. ScanHeaderEnd(j.config, ReaderOf(j, 0)).state = "RecordEnd"
    BY <2>1, HeaderIs
  <2> QED BY <1>1, <2>1, <2>2 DEF ChunkTried
<1>3. CASE ~j.config.has_headers
  <2>1. FindMode(j, 0) = "No"
    BY <1>3 DEF FindMode
  <2> QED BY <1>1, <2>1 DEF ChunkTried
<1> QED BY <1>2, <1>3

-----------------------------------------------------------------------------
(* The steps of the merge.  The slots are what the workers made of the     *)
(* chunks, and the states are records.                                     *)
Slots ==
  /\ results = [idx \in Chunks(job) |-> ProcessChunk(job, idx)]
  /\ states \in Seq(Seq(Records))

Typing == TypeOK /\ Slots

LEMMA OutputIs ==
  ASSUME Typing, AtChunk
  PROVE  /\ job \in Jobs /\ chunk \in Chunks(job) /\ chunk \in Nat
         /\ chunk < CountOfChunks(job) /\ CountOfChunks(job) \in Nat
         /\ ChunkPasses(job, chunk, Output)
         /\ ChunkEnd = (chunk + 1) * job.chunk_size
<1>1. job \in Jobs /\ chunk \in 0..CountOfChunks(job) /\ chunk < CountOfChunks(job)
  BY DEF Typing, TypeOK, AtChunk
<1>2. CountOfChunks(job) \in Nat
  BY <1>1, CountIs
<1>3. chunk \in Nat /\ chunk \in 0..(CountOfChunks(job) - 1)
  BY <1>1, <1>2
<1>4. chunk \in Chunks(job)
  BY <1>3 DEF Chunks
<1>5. Output = ProcessChunk(job, chunk)
  BY <1>4 DEF Typing, Slots, Output
<1>6. ChunkPasses(job, chunk, Output)
  BY <1>1, <1>4, <1>5, ProcessChunkIs
<1> QED BY <1>1, <1>2, <1>3, <1>4, <1>6 DEF ChunkEnd

LEMMA PassTyped ==
  ASSUME NEW j \in Jobs, NEW idx \in Chunks(j), NEW out, ChunkPasses(j, idx, out),
         NEW k \in DOMAIN out.passes
  PROVE  /\ out.passes[k].records \in Seq(Records)
         /\ out.passes[k].error # NoError => out.passes[k].error.kind \in Kinds
         /\ out.record_end \in {NoOffset} \cup (0..FileSize(j))
<1>1. PICK find \in FindModes : ChunkTried(j, idx, find, out)
  BY DEF ChunkPasses
<1>2. IsPassOf(j, idx, find, out.record_end, out.passes[k])
      /\ out.record_end \in {NoOffset} \cup (0..FileSize(j))
  BY <1>1 DEF ChunkTried
<1> DEFINE a == StartOf(j, idx)
           r == ReaderOf(j, idx)
           pass == out.passes[k]
<1>3. PICK pr : pass = ResolvedPass(pr, a) /\ Parsed(j.config, r, find, pr)
  BY <1>2 DEF IsPassOf
<1>4. a \in Nat
  BY ChunkBounds
<1>5. Typed(r, pr)
  BY <1>3 DEF Parsed
<1> HIDE DEF a, r, pass
<1>6. pass.records \in Seq(Records) /\ (pass.error # NoError => pass.error.kind \in Kinds)
  BY <1>3, <1>4, <1>5, ResolvedIs
<1> QED BY <1>2, <1>6 DEF pass

LEMMA ReparseTyped ==
  ASSUME Typing, Mismatch
  PROVE  LET again == ReparseChunk(job, next_record, ChunkEnd)
         IN  /\ next_record \in Nat /\ next_record <= ChunkEnd /\ ChunkEnd \in Nat
             /\ again.pass.records \in Seq(Records)
             /\ again.pass.error # NoError => again.pass.error.kind \in Kinds
             /\ Shift(again.record_end, next_record) \in {NoOffset} \cup (0..FileSize(job))
<1> DEFINE again == ReparseChunk(job, next_record, ChunkEnd)
           size == FileSize(job)
<1>1. /\ AtChunk /\ ~BeginsLater /\ Output.passes # <<>>
      /\ \A k \in DOMAIN Output.passes : ~Aligned(Output.passes[k])
  BY DEF Mismatch
<1>2. /\ job \in Jobs /\ chunk \in Chunks(job) /\ chunk \in Nat
      /\ ChunkPasses(job, chunk, Output) /\ ChunkEnd = (chunk + 1) * job.chunk_size
  BY <1>1, OutputIs
<1>3. size \in Nat /\ job.chunk_size \in Nat
  BY <1>2, JobIs
<1>4. ChunkEnd \in Nat
  <2>1. chunk + 1 \in Nat
    BY <1>2
  <2>2. (chunk + 1) * job.chunk_size \in Nat
    BY <1>3, <2>1
  <2> QED BY <1>2, <2>2
<1>5. next_record # NoOffset
  <2>1. PICK m \in Nat : DOMAIN Output.passes = 1..m /\ m # 0
    BY <1>1, <1>2 DEF ChunkPasses, ChunkTried
  <2>2. 1 \in DOMAIN Output.passes
    BY <2>1
  <2> QED BY <1>1, <2>2 DEF Aligned
<1>6. next_record \in 0..size
  BY <1>5 DEF Typing, TypeOK
<1> HIDE DEF size
<1>7. next_record \in Nat /\ next_record <= size /\ next_record <= ChunkEnd
  <2>1. next_record \in Nat /\ next_record <= size
    BY <1>3, <1>6
  <2> QED BY <1>1, <1>4, <1>5, <2>1 DEF BeginsLater
<1> DEFINE to == Min({ChunkEnd, size})
           r == ChunkReader(job, next_record, to)
           pr == Parse(job.config, r, "OutOfQuotes", "No")
<1>8. /\ Typed(r, pr) /\ EofOf(r) = size - next_record
      /\ again = [pass |-> ResolvedPass(pr, next_record), record_end |-> pr.record_end]
  BY <1>2, <1>4, <1>7, ReparseIs DEF size
<1>9. again.pass = ResolvedPass(pr, next_record) /\ again.record_end = pr.record_end
  BY <1>8
<1> HIDE DEF again, r, pr
<1>10. again.pass.records \in Seq(Records)
       /\ (again.pass.error # NoError => again.pass.error.kind \in Kinds)
  BY <1>7, <1>8, <1>9, ResolvedIs
<1>11. Shift(again.record_end, next_record) \in {NoOffset} \cup (0..size)
  <2>1. again.record_end \in {NoOffset} \cup (0..(size - next_record))
    BY <1>8, <1>9 DEF Typed
  <2> DEFINE e == again.record_end
  <2> HIDE DEF e
  <2>2. CASE e = NoOffset
    BY <2>2 DEF Shift, e
  <2>3. CASE e # NoOffset
    <3>1. e \in 0..(size - next_record)
      BY <2>1, <2>3 DEF e
    <3>2. e + next_record \in 0..size
      BY <1>3, <1>7, <3>1
    <3> QED BY <2>3, <3>2 DEF Shift, e
  <2> QED BY <2>2, <2>3
<1> QED BY <1>4, <1>7, <1>10, <1>11 DEF again, size

LEMMA PushTyped ==
  ASSUME Typing, AtChunk, NEW pass, NEW end, Push(pass, end), pass.records \in Seq(Records),
         end \in {NoOffset} \cup (0..FileSize(job))
  PROVE  Typing'
<1>1. /\ states' = Append(states, pass.records) /\ next_record' = end /\ chunk' = chunk + 1
      /\ job' = job /\ results' = results /\ outcome' = outcome
  BY DEF Push, NextChunk
<1>2. /\ chunk \in Nat /\ chunk < CountOfChunks(job) /\ CountOfChunks(job) \in Nat
  BY OutputIs
<1>3. states \in Seq(Seq(Records)) /\ Len(states) <= chunk
  BY DEF Typing, TypeOK, Slots
<1>4. states' \in Seq(Seq(Records)) /\ Len(states') = Len(states) + 1 /\ Len(states) \in Nat
  BY <1>1, <1>3, AppendProperties
<1>5. Len(states') <= chunk' /\ chunk' \in 0..CountOfChunks(job)
  BY <1>1, <1>2, <1>3, <1>4
<1>6. TypeOK'
  BY <1>1, <1>5 DEF Typing, TypeOK
<1>7. Slots'
  BY <1>1, <1>4 DEF Typing, Slots
<1> QED BY <1>6, <1>7 DEF Typing

LEMMA AbortTyped ==
  ASSUME Typing, NEW error, Abort(error), error # NoError => error.kind \in Kinds
  PROVE  Typing'
<1>1. /\ outcome' = error /\ error # NoError /\ job' = job /\ results' = results
      /\ chunk' = chunk /\ next_record' = next_record /\ states' = states
  BY DEF Abort
<1>2. outcome'.kind \in Kinds
  BY <1>1
<1>3. TypeOK'
  BY <1>1, <1>2 DEF Typing, TypeOK, Kinds
<1>4. Slots'
  BY <1>1 DEF Typing, Slots
<1> QED BY <1>3, <1>4 DEF Typing

LEMMA TypingStep ==
  ASSUME Typing, [Next]_vars
  PROVE  Typing'
<1>1. CASE Skip
  <2>1. /\ chunk' = chunk + 1 /\ job' = job /\ results' = results
        /\ next_record' = next_record /\ states' = states /\ outcome' = outcome
    BY <1>1 DEF Skip, NextChunk
  <2>2. AtChunk
    BY <1>1 DEF Skip
  <2>3. /\ chunk \in Nat /\ chunk < CountOfChunks(job) /\ CountOfChunks(job) \in Nat
    BY <2>2, OutputIs
  <2>4. Len(states) \in Nat /\ Len(states) <= chunk
    BY DEF Typing, TypeOK, Slots
  <2>5. Len(states') <= chunk' /\ chunk' \in 0..CountOfChunks(job)
    BY <2>1, <2>3, <2>4
  <2>6. TypeOK'
    BY <2>1, <2>5 DEF Typing, TypeOK
  <2>7. Slots'
    BY <2>1 DEF Typing, Slots
  <2> QED BY <2>6, <2>7 DEF Typing
<1>2. CASE Select
  <2>1. AtChunk
    BY <1>2 DEF Select
  <2>2. PICK k \in DOMAIN Output.passes :
          Push(Output.passes[k], Output.record_end) \/ Abort(Output.passes[k].error)
    BY <1>2 DEF Select
  <2>3. /\ Output.passes[k].records \in Seq(Records)
        /\ Output.passes[k].error # NoError => Output.passes[k].error.kind \in Kinds
        /\ Output.record_end \in {NoOffset} \cup (0..FileSize(job))
    BY <2>1, OutputIs, PassTyped
  <2> QED BY <2>1, <2>2, <2>3, PushTyped, AbortTyped
<1>3. CASE Reparse
  <2> DEFINE again == ReparseChunk(job, next_record, ChunkEnd)
             end == Shift(again.record_end, next_record)
  <2>1. Mismatch /\ (Push(again.pass, end) \/ Abort(again.pass.error))
    BY <1>3 DEF Reparse
  <2>2. AtChunk
    BY <2>1 DEF Mismatch
  <2>3. /\ again.pass.records \in Seq(Records)
        /\ again.pass.error # NoError => again.pass.error.kind \in Kinds
        /\ end \in {NoOffset} \cup (0..FileSize(job))
    BY <2>1, ReparseTyped
  <2> HIDE DEF again, end
  <2> QED BY <2>1, <2>2, <2>3, PushTyped, AbortTyped
<1>4. CASE ReparseCannotOpen
  <2>1. Abort(IoError)
    BY <1>4 DEF ReparseCannotOpen
  <2>2. IoError.kind \in Kinds
    BY DEF IoError, Error, Kinds
  <2> QED BY <2>1, <2>2, AbortTyped
<1>5. CASE Finish
  <2>1. /\ outcome' = Merged /\ job' = job /\ results' = results
        /\ chunk' = chunk /\ next_record' = next_record /\ states' = states
    BY <1>5 DEF Finish
  <2>2. TypeOK'
    BY <2>1 DEF Typing, TypeOK, Merged
  <2> QED BY <2>1, <2>2 DEF Typing, Slots
<1>6. CASE UNCHANGED vars
  BY <1>6 DEF Typing, TypeOK, Slots, vars
<1> QED BY <1>1, <1>2, <1>3, <1>4, <1>5, <1>6 DEF Next

LEMMA TypingInit ==
  ASSUME Init
  PROVE  Typing
<1>1. job \in Jobs /\ chunk = 0 /\ next_record = NoOffset /\ states = <<>> /\ outcome = Running
      /\ results = [idx \in Chunks(job) |-> ProcessChunk(job, idx)]
  BY DEF Init
<1>2. CountOfChunks(job) \in Nat
  BY <1>1, CountIs
<1>3. chunk \in 0..CountOfChunks(job) /\ Len(states) <= chunk /\ states \in Seq(Seq(Records))
  BY <1>1, <1>2
<1>4. outcome.kind = "running"
  BY <1>1 DEF Running
<1> QED BY <1>1, <1>3, <1>4 DEF Typing, TypeOK, Slots

(* The merge keeps its variables in their types: a boundary is a place in  *)
(* the file, there is at most one state for each chunk, and a run ends     *)
(* merged or with an error.                                                *)
THEOREM MergeTyped == Spec => []TypeOK
<1>1. Init => Typing
  BY TypingInit
<1>2. Typing /\ [Next]_vars => Typing'
  BY TypingStep
<1>3. Typing => TypeOK
  BY DEF Typing
<1> QED BY <1>1, <1>2, <1>3, PTL DEF Spec

-----------------------------------------------------------------------------
(* How far the merge is: at a boundary of the one pass over the whole      *)
(* file, with the records of that pass up to there.                        *)
Chunkable(j) == HeaderFits(j) /\ LineComments(j)

Reached ==
  IF Starts(job) THEN Known(job, chunk, next_record, Merging)
  ELSE states = <<>> /\ next_record = NoOffset

Sound == Chunkable(job) => Reached /\ FailsAsOnePassDoes

LEMMA MergingIs ==
  ASSUME Slots
  PROVE  /\ Merging \in Seq(Records) /\ (states = <<>> => Merging = <<>>)
         /\ \A x \in Seq(Records) : FlattenSeq(Append(states, x)) = Merging \o x
<1>1. states \in Seq(Seq(Records))
  BY DEF Slots
<1> QED BY <1>1, FlattenIs DEF Merging

LEMMA NothingMerged ==
  ASSUME states = <<>>
  PROVE  Merging = <<>>
<1>1. states \in Seq(Seq({}))
  OBVIOUS
<1> QED BY <1>1, FlattenIs DEF Merging

LEMMA PushSound ==
  ASSUME Typing, Sound, AtChunk, Chunkable(job), Starts(job), NEW base, NEW pass, NEW end,
         GoodPass(job, base, ChunkEnd, Merging, pass, end), Push(pass, end)
  PROVE  Sound'
<1>1. /\ states' = Append(states, pass.records) /\ next_record' = end /\ chunk' = chunk + 1
      /\ job' = job /\ outcome' = outcome /\ pass.error = NoError
  BY DEF Push, NextChunk
<1>2. /\ pass.records \in Seq(Records)
      /\ \/ end \in Nat /\ At(job, end, Merging \o pass.records)
         \/ end = NoOffset /\ Still(job, ChunkEnd, Merging \o pass.records)
  BY <1>1 DEF GoodPass
<1>3. Merging' = Merging \o pass.records
  <2>1. FlattenSeq(Append(states, pass.records)) = Merging \o pass.records
    BY <1>2, MergingIs DEF Typing
  <2>2. Merging' = FlattenSeq(states')
    BY DEF Merging
  <2> QED BY <1>1, <2>1, <2>2
<1>4. chunk \in Nat /\ ChunkEnd = StartOf(job, chunk + 1) /\ outcome = Running
  BY OutputIs DEF StartOf, AtChunk
<1>5. chunk + 1 # 0
  BY <1>4
<1> DEFINE all == Merging \o pass.records
<1> HIDE DEF all
<1>6. Known(job, chunk + 1, end, all)
  BY <1>2, <1>4, <1>5 DEF Known, all
<1>7. Reached'
  <2>1. Known(job', chunk', next_record', Merging')
    BY <1>1, <1>3, <1>6 DEF all
  <2>2. Starts(job')
    BY <1>1
  <2> QED BY <2>1, <2>2 DEF Reached
<1>8. FailsAsOnePassDoes'
  BY <1>1, <1>4 DEF FailsAsOnePassDoes
<1> QED BY <1>7, <1>8 DEF Sound

LEMMA AbortSound ==
  ASSUME Sound, NEW error, Abort(error), NEW base \in BaseOfPass,
         error \in {RunStream(job).error, IoError} \cup
                   IF RunStream(job).error = HandedBack
                   THEN {WithBase(RunStream(job).error, base)} ELSE {}
  PROVE  Sound'
<1>1. /\ outcome' = error /\ job' = job /\ results' = results
      /\ chunk' = chunk /\ next_record' = next_record /\ states' = states
  BY DEF Abort
<1>2. error \in AsOnePass(RunStream(job).error)
  BY DEF AsOnePass
<1>3. AsOnePass(RunStream(job).error)' = AsOnePass(RunStream(job).error)
  BY <1>1 DEF AsOnePass, BaseOfPass
<1>4. FailsAsOnePassDoes'
  BY <1>1, <1>2, <1>3 DEF FailsAsOnePassDoes
<1>5. Reached => Reached'
  BY <1>1 DEF Reached, Merging
<1>6. Chunkable(job)' => Chunkable(job)
  BY <1>1
<1> QED BY <1>4, <1>5, <1>6 DEF Sound

LEMMA SkipSound ==
  ASSUME Typing, Sound, Skip
  PROVE  Sound'
<1>1. /\ chunk' = chunk + 1 /\ job' = job /\ results' = results
      /\ next_record' = next_record /\ states' = states /\ outcome' = outcome
      /\ AtChunk /\ (BeginsLater \/ Output.passes = <<>>)
  BY DEF Skip, NextChunk
<1>2. /\ job \in Jobs /\ chunk \in Chunks(job) /\ chunk \in Nat
      /\ ChunkPasses(job, chunk, Output)
  BY <1>1, OutputIs
<1>3. Chunkable(job)' => Chunkable(job)
  BY <1>1
<1>4. ASSUME FailsAsOnePassDoes  PROVE FailsAsOnePassDoes'
  <2>1. outcome = Running
    BY <1>1 DEF AtChunk
  <2> QED BY <1>1, <2>1 DEF FailsAsOnePassDoes
<1>5. ASSUME Reached, Chunkable(job)  PROVE Reached'
  <2>1. CASE ~Starts(job)
    BY <1>1, <1>5, <2>1 DEF Reached
  <2>2. CASE Starts(job)
    <3>1. Known(job, chunk, next_record, Merging)
      BY <1>5, <2>2 DEF Reached
    <3>2. chunk = 0 => next_record \in Nat
      <4>1. ASSUME chunk = 0, next_record \notin Nat  PROVE FALSE
        <5>1. next_record = NoOffset
          BY <3>1, <4>1 DEF Known
        <5>2. Output.passes # <<>>
          BY <1>2, <2>2, <4>1, HeadedIs
        <5> QED BY <1>1, <5>1, <5>2 DEF BeginsLater
      <4> QED BY <4>1
    <3>3. Known(job, chunk + 1, next_record, Merging)
      <4>1. CASE next_record \in Nat /\ At(job, next_record, Merging)
        BY <4>1 DEF Known
      <4>2. CASE chunk # 0 /\ next_record = NoOffset
                 /\ Still(job, StartOf(job, chunk), Merging)
        <5>1. job.chunk_size \in Nat /\ ReadableEnd(Whole(job)) \in Nat
          BY <1>2, JobIs, WholeReader
        <5>2. /\ StartOf(job, chunk) \in Nat /\ StartOf(job, chunk + 1) \in Nat
              /\ StartOf(job, chunk) <= StartOf(job, chunk + 1)
          <6>1. chunk + 1 \in Nat /\ chunk <= chunk + 1
            BY <1>2
          <6> QED BY <1>2, <5>1, <6>1, TimesGrows DEF StartOf
        <5>3. Still(job, StartOf(job, chunk + 1), Merging)
          BY <4>2, <5>1, <5>2, StillLater
        <5>4. chunk + 1 # 0
          BY <1>2
        <5> QED BY <4>2, <5>3, <5>4 DEF Known
      <4>3. CASE chunk = 0 /\ next_record = NoOffset
        BY <3>2, <4>3, ErrorsAre
      <4> QED BY <3>1, <4>1, <4>2, <4>3 DEF Known
    <3>4. Merging' = Merging
      BY <1>1 DEF Merging
    <3>5. Known(job', chunk', next_record', Merging')
      BY <1>1, <3>3, <3>4
    <3>6. Starts(job')
      BY <1>1, <2>2
    <3> QED BY <3>5, <3>6 DEF Reached
  <2> QED BY <2>1, <2>2
<1> QED BY <1>3, <1>4, <1>5 DEF Sound

(* A pass can only be chosen, or made again, where the header row ends.    *)
LEMMA PassesStart ==
  ASSUME Typing, AtChunk, Chunkable(job), Output.passes # <<>>
  PROVE  Starts(job)
<1>1. job \in Jobs /\ chunk \in Chunks(job) /\ ChunkPasses(job, chunk, Output)
  BY OutputIs
<1>2. HeaderFits(job)
  BY DEF Chunkable
<1> QED BY <1>1, <1>2, HeadlessIs

(* What a chosen or repeated pass comes to: it continues what is merged so *)
(* far, and is pushed, or its error is the run's.                          *)
Chosen(base, pass, end) ==
  /\ GoodPass(job, base, ChunkEnd, Merging, pass, end) /\ base \in BaseOfPass
  /\ Push(pass, end) \/ Abort(pass.error)

LEMMA SelectChooses ==
  ASSUME Typing, Sound, Select, Chunkable(job)
  PROVE  AtChunk /\ Starts(job) /\ \E base, pass, end : Chosen(base, pass, end)
<1>1. AtChunk
  BY DEF Select
<1>2. PICK k \in DOMAIN Output.passes :
        /\ IsSelected(k)
        /\ Push(Output.passes[k], Output.record_end) \/ Abort(Output.passes[k].error)
  BY DEF Select
<1> DEFINE pass == Output.passes[k]
           end == Output.record_end
           base == StartOf(job, chunk)
<1>3. /\ job \in Jobs /\ chunk \in Chunks(job) /\ chunk \in Nat
      /\ ChunkPasses(job, chunk, Output) /\ ChunkEnd = (chunk + 1) * job.chunk_size
  BY <1>1, OutputIs
<1>4. Output.passes # <<>>
  <2>1. DOMAIN Output.passes # {}
    BY <1>2
  <2> QED BY <2>1
<1>5. Starts(job) /\ LineComments(job)
  BY <1>1, <1>4, PassesStart DEF Chunkable
<1>6. Known(job, chunk, next_record, Merging)
  BY <1>5 DEF Sound, Reached
<1>7. next_record = NoOffset \/ pass.record_start = next_record
  BY <1>2 DEF IsSelected, Aligned
<1>8. \E find \in FindModes :
        /\ chunk = 0 => find = FindMode(job, 0)
        /\ chunk # 0 => find \in {"Strict", "Lenient"}
        /\ IsPassOf(job, chunk, find, end, pass)
  BY <1>2, <1>3 DEF ChunkPasses, ChunkTried
<1>9. Push(pass, end) \/ Abort(pass.error)
  BY <1>2
<1>10. base \in BaseOfPass
  BY DEF StartOf, BaseOfPass
<1> HIDE DEF pass, end
<1>11. Selectable(job, chunk, next_record, Merging, pass, end)
  BY <1>6, <1>7, <1>8 DEF Selectable
<1>12. GoodPass(job, base, ChunkEnd, Merging, pass, end)
  BY <1>3, <1>5, <1>11, SelectIsGood
<1> HIDE DEF base
<1>13. Chosen(base, pass, end)
  BY <1>9, <1>10, <1>12 DEF Chosen
<1> QED BY <1>1, <1>5, <1>13

LEMMA ReparseChooses ==
  ASSUME Typing, Sound, Reparse, Chunkable(job)
  PROVE  AtChunk /\ Starts(job) /\ \E base, pass, end : Chosen(base, pass, end)
<1> DEFINE again == ReparseChunk(job, next_record, ChunkEnd)
           pass == again.pass
           end == Shift(again.record_end, next_record)
<1>1. Mismatch /\ (Push(pass, end) \/ Abort(pass.error))
  BY DEF Reparse
<1>2. AtChunk /\ Output.passes # <<>>
  BY <1>1 DEF Mismatch
<1>3. job \in Jobs
  BY <1>2, OutputIs
<1>4. next_record \in Nat /\ next_record <= ChunkEnd /\ ChunkEnd \in Nat
  BY <1>1, ReparseTyped
<1>5. Starts(job)
  BY <1>2, PassesStart
<1>6. At(job, next_record, Merging)
  <2>1. Known(job, chunk, next_record, Merging)
    BY <1>5 DEF Sound, Reached
  <2> QED BY <1>4, <2>1, ErrorsAre DEF Known
<1>7. GoodPass(job, next_record, ChunkEnd, Merging, pass, end)
  BY <1>3, <1>4, <1>5, <1>6, ReparseIsGood
<1>8. next_record \in BaseOfPass
  BY DEF BaseOfPass
<1> HIDE DEF pass, end
<1>9. Chosen(next_record, pass, end)
  BY <1>1, <1>7, <1>8 DEF Chosen, pass, end
<1> QED BY <1>2, <1>5, <1>9

LEMMA ChosenSound ==
  ASSUME Typing, Sound, Select \/ Reparse
  PROVE  Sound'
<1>1. job' = job
  BY DEF Select, Reparse, Push, Abort, NextChunk
<1>2. CASE ~Chunkable(job)
  <2>1. ~Chunkable(job)'
    BY <1>1, <1>2
  <2> QED BY <2>1 DEF Sound
<1>3. CASE Chunkable(job)
  <2>1. AtChunk /\ Starts(job) /\ \E base, pass, end : Chosen(base, pass, end)
    BY <1>3, SelectChooses, ReparseChooses
  <2>2. PICK base, pass, end : Chosen(base, pass, end)
    BY <2>1
  <2>3. GoodPass(job, base, ChunkEnd, Merging, pass, end) /\ base \in BaseOfPass
    BY <2>2 DEF Chosen
  <2>4. CASE Push(pass, end)
    BY <1>3, <2>1, <2>3, <2>4, PushSound
  <2>5. CASE Abort(pass.error)
    <3>1. pass.error # NoError
      BY <2>5 DEF Abort
    <3>2. pass.error \in {RunStream(job).error, IoError} \cup
                         IF RunStream(job).error = HandedBack
                         THEN {WithBase(RunStream(job).error, base)} ELSE {}
      BY <2>3, <3>1 DEF GoodPass
    <3> QED BY <2>3, <2>5, <3>2, AbortSound
  <2> QED BY <2>2, <2>4, <2>5 DEF Chosen
<1> QED BY <1>2, <1>3

LEMMA SoundStep ==
  ASSUME Typing, Sound, [Next]_vars
  PROVE  Sound'
<1>1. CASE Skip
  BY <1>1, SkipSound
<1>2. CASE Select
  BY <1>2, ChosenSound
<1>3. CASE Reparse
  BY <1>3, ChosenSound
<1>4. CASE ReparseCannotOpen
  <2>1. Abort(IoError)
    BY <1>4 DEF ReparseCannotOpen
  <2>2. next_record \in BaseOfPass
    BY DEF BaseOfPass
  <2> QED BY <2>1, <2>2, AbortSound
<1>5. CASE Finish
  <2>1. /\ outcome' = Merged /\ job' = job /\ chunk' = chunk
        /\ next_record' = next_record /\ states' = states
    BY <1>5 DEF Finish
  <2>2. FailsAsOnePassDoes'
    BY <2>1 DEF FailsAsOnePassDoes
  <2>3. Reached => Reached'
    BY <2>1 DEF Reached, Merging
  <2>4. Chunkable(job)' => Chunkable(job)
    BY <2>1
  <2> QED BY <2>2, <2>3, <2>4 DEF Sound
<1>6. CASE UNCHANGED vars
  <2>1. /\ outcome' = outcome /\ job' = job /\ chunk' = chunk
        /\ next_record' = next_record /\ states' = states
    BY <1>6 DEF vars
  <2>2. FailsAsOnePassDoes => FailsAsOnePassDoes'
    BY <2>1 DEF FailsAsOnePassDoes, AsOnePass, BaseOfPass
  <2>3. Reached => Reached'
    BY <2>1 DEF Reached, Merging
  <2>4. Chunkable(job)' => Chunkable(job)
    BY <2>1
  <2> QED BY <2>2, <2>3, <2>4 DEF Sound
<1> QED BY <1>1, <1>2, <1>3, <1>4, <1>5, <1>6 DEF Next

LEMMA SoundInit ==
  ASSUME Init
  PROVE  Sound
<1>1. chunk = 0 /\ next_record = NoOffset /\ states = <<>> /\ outcome = Running
  BY DEF Init
<1>2. Merging = <<>>
  BY <1>1, TypingInit, MergingIs DEF Typing
<1>3. Reached
  BY <1>1, <1>2 DEF Reached, Known
<1>4. FailsAsOnePassDoes
  BY <1>1 DEF FailsAsOnePassDoes
<1> QED BY <1>3, <1>4 DEF Sound

LEMMA NothingIsInvented ==
  ASSUME Typing, Sound, Chunkable(job)
  PROVE  NothingInvented
<1> DEFINE T == RunStream(job)
<1>1. job \in Jobs /\ Merging \in Seq(Records) /\ (states = <<>> => Merging = <<>>)
  BY MergingIs DEF Typing, TypeOK
<1>2. T.records \in Seq(Records)
  <2> DEFINE find == FindMode(job, 0)
             pr == Parse(job.config, Whole(job), "OutOfQuotes", find)
  <2>1. find \in FindModes /\ "OutOfQuotes" \in Assumptions
    BY DEF FindMode, FindModes, Assumptions
  <2>2. job.config \in Dialects /\ GoodReader(job.config, Whole(job))
    BY <1>1, JobIs, WholeReader
  <2>3. T = pr
    BY DEF RunStream, Whole
  <2> HIDE DEF find
  <2>4. Parsed(job.config, Whole(job), find, pr)
    BY <2>1, <2>2, ParseIsParsed
  <2> HIDE DEF pr, T
  <2> QED BY <2>3, <2>4 DEF Parsed, Typed
<1>3. CASE Merging = <<>>
  <2>1. Len(T.records) \in Nat /\ Len(Merging) = 0 /\ \A k \in 1..Len(Merging) : FALSE
    BY <1>2, <1>3
  <2>2. Extends(Merging, T.records)
    BY <2>1 DEF Extends
  <2> HIDE DEF T
  <2>3. IsPrefix(Merging, T.records)
    BY <1>1, <1>2, <2>2, PrefixIs
  <2> QED BY <2>3 DEF NothingInvented, T
<1>4. CASE Starts(job) /\ Merging # <<>>
  <2> DEFINE c == job.config
             w == Whole(job)
             first == First(job)
             f == TheRun(job)
  <2>1. WholeRun(c, w, first, f) /\ Truth(c, w, first, f, T)
    BY <1>1, <1>4, StreamIs
  <2>2. \/ At(job, next_record, Merging)
        \/ Still(job, StartOf(job, chunk), Merging)
    BY <1>4 DEF Sound, Reached, Known
  <2>3. Boundary(c, w, first, f, next_record, Merging) \/ AllRead(c, w, f, Merging)
    BY <2>2 DEF At, Still, Quiet
  <2> HIDE DEF c, w, first, f, T
  <2>4. IsPrefix(Merging, T.records)
    BY <2>1, <2>3, BoundaryHolds
  <2> QED BY <2>4 DEF NothingInvented, T
<1>5. CASE ~Starts(job)
  <2>1. Merging = <<>>
    BY <1>1, <1>5 DEF Sound, Reached
  <2> QED BY <1>3, <2>1
<1> QED BY <1>3, <1>4, <1>5

(* Whatever speculation missed: no record of a wrong guess survives, none  *)
(* is emitted twice and none is out of order.                              *)
THEOREM MergeInventsNothing == Spec => [](Chunkable(job) => NothingInvented)
<1>1. Init => Typing /\ Sound
  BY TypingInit, SoundInit
<1>2. (Typing /\ Sound) /\ [Next]_vars => (Typing /\ Sound)'
  BY TypingStep, SoundStep
<1>3. Typing /\ Sound => (Chunkable(job) => NothingInvented)
  BY NothingIsInvented
<1> QED BY <1>1, <1>2, <1>3, PTL DEF Spec

(* A run that fails fails with the error of the one pass, at its place in  *)
(* the file (error.rs:64, with_base), and never with that of a wrong       *)
(* guess.                                                                  *)
THEOREM MergeFailsRightly == Spec => [](Chunkable(job) => FailsAsOnePassDoes)
<1>1. Init => Typing /\ Sound
  BY TypingInit, SoundInit
<1>2. (Typing /\ Sound) /\ [Next]_vars => (Typing /\ Sound)'
  BY TypingStep, SoundStep
<1>3. Typing /\ Sound => (Chunkable(job) => FailsAsOnePassDoes)
  BY DEF Sound
<1> QED BY <1>1, <1>2, <1>3, PTL DEF Spec

-----------------------------------------------------------------------------
(* What the search finds.  The search reads every dialect as Toggle, and   *)
(* its strict probe rejects what Strict would.  A cell that the probe lets *)
(* pass is the same in every dialect.                                      *)
Plain(cell) == ~cell.strict /\ cell.next # "Error"

LEMMA PlainCells ==
  ASSUME NEW c \in Dialects, ValidDialect(c), NEW h \in QuoteHandlings,
         NEW state \in InteriorStates, NEW b, Plain(Transition(c, state, b))
  PROVE  Transition([c EXCEPT !.quote_handling = h], state, b) = Transition(c, state, b)
<1> DEFINE d == [c EXCEPT !.quote_handling = h]
<1>1. /\ d.quote_handling = h /\ d.delimiter = c.delimiter /\ d.quote = c.quote
      /\ d.escape = c.escape /\ d.comment = c.comment /\ d.terminator = c.terminator
  BY DEF Dialects
<1> HIDE DEF d
<1>2. /\ Terminators(d) = Terminators(c) /\ DoubledQuotes(d) = DoubledQuotes(c)
      /\ CommentEnds(d) = CommentEnds(c)
  BY <1>1 DEF Terminators, DoubledQuotes, CommentEnds
<1>3. c.quote_handling \in QuoteHandlings
  BY DEF ValidDialect
<1>4. FieldStartCell(d, b) = FieldStartCell(c, b)
  BY <1>1, <1>2 DEF FieldStartCell
<1>5. Plain(InFieldCell(c, b)) => InFieldCell(d, b) = InFieldCell(c, b)
  BY <1>1, <1>2, <1>3 DEF InFieldCell, MidFieldQuoteCell, Plain, Cell, Consume, QuoteHandlings
<1>6. InQuotedFieldCell(d, b) = InQuotedFieldCell(c, b)
  BY <1>1, <1>2 DEF InQuotedFieldCell
<1>7. Plain(AfterClosingQuoteCell(c, b)) =>
        AfterClosingQuoteCell(d, b) = AfterClosingQuoteCell(c, b)
  BY <1>1, <1>2, <1>3 DEF AfterClosingQuoteCell, Plain, Cell, Consume, Emit, QuoteHandlings
<1>8. RecordStartCell(d, b) = RecordStartCell(c, b)
  BY <1>1, <1>2, <1>4 DEF RecordStartCell
<1>9. InCommentCell(d, b) = InCommentCell(c, b)
  BY <1>2 DEF InCommentCell
<1> QED BY <1>4, <1>5, <1>6, <1>7, <1>8, <1>9 DEF Transition, InteriorStates, d

(* The state that a byte leads to, when nothing is wrong with it.          *)
Onward(cell) ==
  IF cell.next = "FieldEnd" THEN "FieldStart"
  ELSE IF cell.next = "RecordEnd" THEN "RecordStart" ELSE cell.next
LEMMA EndsAreSame ==
  ASSUME NEW c, LineEnds(c), c.comment # NoByte
  PROVE  Terminators(c) = CommentEnds(c)
<1>1. Terminators(c) \subseteq CommentEnds(c)
  BY DEF LineEnds
<1>2. CASE c.terminator = "CRLF"
  BY <1>2 DEF Terminators, CommentEnds
<1>3. CASE c.terminator # "CRLF"
  BY <1>1, <1>3 DEF Terminators, CommentEnds
<1> QED BY <1>2, <1>3

(* The search begins in the middle of what the one pass is in, and knows   *)
(* less of it: whether a field or a record has begun, whether a quote has  *)
(* closed, whether all of it is a comment.                                 *)
Tracks(z, t) ==
  \/ z = t /\ t \in {"FieldStart", "InField", "InQuotedField", "AfterClosingQuote",
                     "InEscapedQuote"}
  \/ z = "FieldStart" /\ t \in {"InField", "AfterClosingQuote", "RecordStart", "InComment"}
  \/ z = "InField" /\ t = "InComment"

(* A byte that the one pass takes, and the state of the search after it.   *)
Tracked(c, z, t, b) ==
  LET cell == Transition(c, t, b)
      found == Transition(FindDfa(c), z, b)
  IN  /\ ~found.strict
      /\ \/ found.next = "RecordEnd"
         \/ found.next # "Error" /\ Tracks(Onward(found), Onward(cell))
      /\ b \in Terminators(c) /\ Onward(cell) = "RecordStart" => found.next = "RecordEnd"

LEMMA SearchTracks ==
  ASSUME NEW c \in Dialects, ValidDialect(c), LineEnds(c), NEW t, NEW z, Tracks(z, t),
         NEW b, b # NoByte, Plain(Transition(c, t, b)),
         t = "InComment" => c.comment # NoByte /\ b # c.quote
  PROVE  Tracked(c, z, t, b)
<1> DEFINE d == FindDfa(c)
           cell == Transition(c, t, b)
           found == Transition(d, z, b)
<1>1. d = [c EXCEPT !.quote_handling = "Toggle"] /\ "Toggle" \in QuoteHandlings
  BY DEF FindDfa, QuoteHandlings
<1>2. /\ d.quote_handling = "Toggle" /\ d.delimiter = c.delimiter /\ d.quote = c.quote
      /\ d.escape = c.escape /\ d.comment = c.comment /\ d.terminator = c.terminator
  BY DEF FindDfa, Dialects
<1>3. Terminators(d) = Terminators(c) /\ DoubledQuotes(d) = DoubledQuotes(c)
  BY <1>2 DEF Terminators, DoubledQuotes
<1>4. t \in InteriorStates
  BY DEF Tracks, InteriorStates
<1>5. /\ b \in Terminators(c) => b # c.quote /\ b # c.delimiter /\ b # c.escape /\ b # c.comment
      /\ b = c.comment => b # c.quote /\ b # c.delimiter /\ b # c.escape
      /\ b = c.delimiter => b # c.quote
  <2>1. c.comment # NoByte => c.comment # c.quote /\ c.comment # c.escape
    BY DEF ValidDialect
  <2>2. ({c.delimiter, c.quote, c.escape, c.comment} \ {NoByte}) \cap Terminators(c) = {}
        /\ c.delimiter # c.quote /\ c.delimiter # c.comment
    BY DEF ValidDialect
  <2> QED BY <2>1, <2>2
<1> HIDE DEF d
<1>6. CASE z = t
  <2>1. found = cell
    BY <1>1, <1>4, <1>6, PlainCells
  <2>2. t \in {"FieldStart", "InField", "InQuotedField", "AfterClosingQuote", "InEscapedQuote"}
    BY <1>6 DEF Tracks
  <2>3. cell.next = "RecordEnd" \/ Tracks(Onward(cell), Onward(cell))
    <3>1. CASE t = "FieldStart"
      BY <3>1 DEF Transition, FieldStartCell, Consume, Emit, Cell, Onward, Tracks
    <3>2. CASE t = "InField"
      BY <3>2 DEF Transition, InFieldCell, MidFieldQuoteCell, ValidDialect, QuoteHandlings, Plain,
                  Consume, Emit, Cell, Onward, Tracks
    <3>3. CASE t = "InQuotedField"
      BY <3>3 DEF Transition, InQuotedFieldCell, Consume, Emit, Cell, Onward, Tracks
    <3>4. CASE t = "AfterClosingQuote"
      BY <3>4 DEF Transition, AfterClosingQuoteCell, Plain, Consume, Emit, Cell, Onward, Tracks
    <3>5. CASE t = "InEscapedQuote"
      BY <3>5 DEF Transition, Consume, Emit, Cell, Onward, Tracks
    <3> QED BY <2>2, <3>1, <3>2, <3>3, <3>4, <3>5
  <2>4. cell.next # "RecordStart"
    <3>1. CASE t = "FieldStart"
      BY <3>1 DEF Transition, FieldStartCell, Consume, Emit, Cell
    <3>2. CASE t = "InField"
      BY <3>2 DEF Transition, InFieldCell, MidFieldQuoteCell, ValidDialect, QuoteHandlings, Plain,
                  Consume, Emit, Cell
    <3>3. CASE t = "InQuotedField"
      BY <3>3 DEF Transition, InQuotedFieldCell, Consume, Emit, Cell
    <3>4. CASE t = "AfterClosingQuote"
      BY <3>4 DEF Transition, AfterClosingQuoteCell, Plain, Consume, Emit, Cell
    <3>5. CASE t = "InEscapedQuote"
      BY <3>5 DEF Transition, Consume, Emit, Cell
    <3> QED BY <2>2, <3>1, <3>2, <3>3, <3>4, <3>5
  <2>5. Onward(cell) = "RecordStart" => cell.next = "RecordEnd"
    BY <2>4 DEF Onward
  <2> HIDE DEF cell, found
  <2> QED BY <2>1, <2>3, <2>5 DEF Tracked, Plain, cell, found, d
<1>7. CASE z = "FieldStart" /\ t \in {"InField", "AfterClosingQuote", "RecordStart", "InComment"}
  <2>1. found = FieldStartCell(d, b)
    BY <1>7 DEF Transition
  <2>2. found = (CASE b = c.quote           -> Consume("InQuotedField")
                   [] b = c.delimiter       -> Consume("FieldEnd")
                   [] b \in Terminators(c)  -> Consume("RecordEnd")
                   [] OTHER                 -> Emit("InField"))
    BY <1>2, <1>3, <2>1 DEF FieldStartCell
  <2>3. /\ ~found.strict /\ found.next # "Error"
        /\ b \in Terminators(c) => found.next = "RecordEnd"
        /\ b = c.delimiter => Onward(found) = "FieldStart"
        /\ b = c.quote => Onward(found) = "InQuotedField"
        /\ b \notin Terminators(c) /\ b # c.delimiter /\ b # c.quote => Onward(found) = "InField"
    BY <1>5, <2>2 DEF Consume, Emit, Cell, Onward
  <2>4. b \notin Terminators(c) => Tracks(Onward(found), Onward(cell))
    <3> SUFFICES ASSUME b \notin Terminators(c)  PROVE Tracks(Onward(found), Onward(cell))
      OBVIOUS
    <3> HIDE DEF found
    <3>1. CASE t = "InField"
      BY <2>3, <3>1 DEF Transition, InFieldCell, MidFieldQuoteCell, ValidDialect, QuoteHandlings,
                        Plain, Consume, Emit, Cell, Onward, Tracks
    <3>2. CASE t = "AfterClosingQuote"
      BY <2>3, <3>2 DEF Transition, AfterClosingQuoteCell, Plain, Consume, Emit, Cell, Onward, Tracks
    <3>3. CASE t = "RecordStart"
      BY <1>5, <2>3, <3>3 DEF Transition, RecordStartCell, FieldStartCell, Consume, Emit, Cell,
                              Onward, Tracks
    <3>4. CASE t = "InComment"
      <4>1. b \notin CommentEnds(c) /\ b # c.quote
        BY <3>4, EndsAreSame
      <4>2. Onward(cell) = "InComment"
        BY <3>4, <4>1 DEF Transition, InCommentCell, Consume, Cell, Onward
      <4>3. Onward(found) \in {"FieldStart", "InField"}
        BY <2>3, <4>1
      <4> QED BY <4>2, <4>3 DEF Tracks
    <3> QED BY <1>7, <3>1, <3>2, <3>3, <3>4
  <2> HIDE DEF cell, found
  <2> QED BY <2>3, <2>4 DEF Tracked, cell, found, d
<1>8. CASE z = "InField" /\ t = "InComment"
  <2>1. b # c.quote
    BY <1>8
  <2>2. found = InFieldCell(d, b)
    BY <1>8 DEF Transition
  <2>3. found = (CASE b = c.delimiter       -> Consume("FieldEnd")
                   [] b \in Terminators(c)  -> Consume("RecordEnd")
                   [] OTHER                 -> Emit("InField"))
    BY <1>2, <1>3, <2>1, <2>2 DEF InFieldCell
  <2>4. /\ ~found.strict /\ found.next # "Error"
        /\ b \in Terminators(c) => found.next = "RecordEnd"
        /\ b \notin Terminators(c) => Onward(found) \in {"FieldStart", "InField"}
    BY <1>5, <2>3 DEF Consume, Emit, Cell, Onward
  <2>5. b \notin Terminators(c) => Onward(cell) = "InComment"
    <3>1. b \notin Terminators(c) => b \notin CommentEnds(c)
      BY <1>8, EndsAreSame
    <3> QED BY <1>8, <3>1 DEF Transition, InCommentCell, Consume, Cell, Onward
  <2> HIDE DEF cell, found
  <2> QED BY <2>4, <2>5 DEF Tracked, Tracks, cell, found, d
<1> QED BY <1>6, <1>7, <1>8 DEF Tracks

LEMMA EmptyLineStays ==
  ASSUME NEW c, ValidDialect(c), NEW b, b # NoByte, b \in Terminators(c)
  PROVE  Transition(c, "RecordStart", b).next = "RecordStart"
<1>1. b # c.comment
  BY DEF ValidDialect
<1>2. Transition(c, "RecordStart", b) = RecordStartCell(c, b)
  BY DEF Transition
<1>3. RecordStartCell(c, b) = Consume("RecordStart")
  BY <1>1 DEF RecordStartCell
<1> QED BY <1>2, <1>3 DEF Consume, Cell

LEMMA EmittedStarts ==
  ASSUME NEW c, NEW s \in Steppers, NEW i \in Nat
  PROVE  LET t == EmitRecord(c, s, i)
         IN  t.done \/ (t \in Steppers /\ t.state = "RecordStart")
<1> DEFINE t == EmitRecord(c, s, i)
<1>1. /\ ErrorOf(c, s) \in Errors
      /\ ErrorOf(c, s) # NoError => t = Stop(s, ErrorOf(c, s))
      /\ ErrorOf(c, s) = NoError => t \in Steppers /\ t.state = "RecordStart"
  BY EmitIs
<1> HIDE DEF t
<1>2. CASE ErrorOf(c, s) # NoError
  <2>1. t = Stop(s, ErrorOf(c, s)) /\ ErrorOf(c, s) \in Errors
    BY <1>1, <1>2
  <2>2. t.done
    BY <2>1, StopIs
  <2> QED BY <2>2 DEF t
<1>3. CASE ErrorOf(c, s) = NoError
  BY <1>1, <1>3 DEF t
<1> QED BY <1>2, <1>3

(* One byte of a run that goes on: the run was going on, the byte was not  *)
(* rejected, and the state is the one that the table says.                 *)
WentOnTo(s, cell, t) ==
  ~t.done => ~s.done /\ cell.next # "Error" /\ t.state = Onward(cell)

LEMMA StepGoesOn ==
  ASSUME NEW c, ValidDialect(c), NEW r, r.limit \in Int, NEW s \in Steppers, NEW i \in Nat,
         i < r.limit, NEW b \in STRING, b # NoByte, ByteAt(r, i) = b
  PROVE  WentOnTo(s, Transition(c, s.state, b), StepByte(c, r, s, i))
<1> DEFINE cell == Transition(c, s.state, b)
           t == StepByte(c, r, s, i)
           read == Reading(s, i, b, cell)
           pushed == PushField(read, i + 1)
           emitted == EmitRecord(c, pushed, i)
<1> SUFFICES ASSUME ~t.done
             PROVE  ~s.done /\ cell.next # "Error" /\ t.state = Onward(cell)
  BY DEF WentOnTo
<1>1. ~s.done
  <2>1. s.done => t = s
    BY DEF StepByte
  <2> HIDE DEF t
  <2> QED BY <2>1
<1> HIDE DEF t
<1>2. Stepped(c, r, s, i, b, t)
  BY <1>1, StepIs DEF t
<1> HIDE DEF cell
<1>3. read \in Steppers /\ read.state = s.state
  BY ReadingIs
<1>4. s.state \in InteriorStates
  BY StepperTypes
<1>5. cell.next \in InteriorStates \cup ActionStates
  BY <1>4, CellsAre DEF cell
<1>6. i + 1 \in Nat
  OBVIOUS
<1> HIDE DEF read
<1>7. pushed \in Steppers /\ pushed.state = "FieldStart"
  BY <1>3, <1>6, PushIs
<1> HIDE DEF pushed
<1>8. emitted.done \/ (emitted \in Steppers /\ emitted.state = "RecordStart")
  BY <1>7, EmittedStarts
<1>9. /\ s.state = "RecordStart" /\ b \in Terminators(c) => t = s
      /\ ~(s.state = "RecordStart" /\ b \in Terminators(c)) /\ cell.next \notin ActionStates
           => t = [read EXCEPT !.state = cell.next]
      /\ ~(s.state = "RecordStart" /\ b \in Terminators(c)) /\ cell.next = "Error"
           => t = Stop(read, Error("InvalidQuote", i))
      /\ ~(s.state = "RecordStart" /\ b \in Terminators(c)) /\ cell.next = "FieldEnd"
           => t = pushed
      /\ ~(s.state = "RecordStart" /\ b \in Terminators(c)) /\ cell.next = "RecordEnd"
           => t = IF emitted.done THEN emitted ELSE StopAtBoundary(r, emitted, i)
  <2> QED BY <1>2 DEF Stepped, cell, read, pushed
<1> HIDE DEF emitted
<1>10. s.state = "RecordStart" /\ b \in Terminators(c) => cell.next = "RecordStart"
  BY EmptyLineStays DEF cell
<1>11. cell.next # "Error" /\ t.state = Onward(cell)
  <2>1. CASE s.state = "RecordStart" /\ b \in Terminators(c)
    BY <1>9, <1>10, <2>1 DEF Onward
  <2>2. CASE ~(s.state = "RecordStart" /\ b \in Terminators(c)) /\ cell.next \notin ActionStates
    <3>1. t = [read EXCEPT !.state = cell.next]
      BY <1>9, <2>2
    <3>2. t.state = cell.next
      BY <1>3, <3>1 DEF Steppers
    <3> QED BY <2>2, <3>2 DEF Onward, ActionStates
  <2>3. CASE ~(s.state = "RecordStart" /\ b \in Terminators(c)) /\ cell.next = "Error"
    <3>1. t = Stop(read, Error("InvalidQuote", i)) /\ Error("InvalidQuote", i) \in Errors
      BY <1>9, <2>3, ErrorsAre DEF Kinds
    <3>2. t.done
      BY <1>3, <3>1, StopIs
    <3> QED BY <3>2
  <2>4. CASE ~(s.state = "RecordStart" /\ b \in Terminators(c)) /\ cell.next = "FieldEnd"
    BY <1>7, <1>9, <2>4 DEF Onward
  <2>5. CASE ~(s.state = "RecordStart" /\ b \in Terminators(c)) /\ cell.next = "RecordEnd"
    <3>1. t = IF emitted.done THEN emitted ELSE StopAtBoundary(r, emitted, i)
      BY <1>9, <2>5
    <3>2. ~emitted.done /\ t = StopAtBoundary(r, emitted, i)
      BY <3>1
    <3>3. emitted \in Steppers /\ emitted.state = "RecordStart"
      BY <1>8, <3>2
    <3>4. AtBoundary(r, emitted, i, t)
      BY <3>2, <3>3, BoundaryIs
    <3>5. t.state = "RecordStart"
      BY <3>3, <3>4 DEF AtBoundary
    <3> QED BY <2>5, <3>5 DEF Onward
  <2> QED BY <1>5, <2>1, <2>2, <2>3, <2>4, <2>5 DEF ActionStates
<1> QED BY <1>1, <1>11

(* The same along the one pass.                                            *)
LEMMA RunGoesOn ==
  ASSUME NEW c, NEW w, NEW first, NEW f, WholeRun(c, w, first, f),
         NEW i \in first..(ReadableEnd(w) - 1), ~f[i + 1].done
  PROVE  /\ ~f[i].done /\ f[i] \in Steppers /\ f[i].state \in InteriorStates
         /\ ByteAt(w, i) \in STRING /\ ByteAt(w, i) # NoByte
         /\ Transition(c, f[i].state, ByteAt(w, i)).next # "Error"
         /\ f[i + 1].state = Onward(Transition(c, f[i].state, ByteAt(w, i)))
<1> DEFINE E == ReadableEnd(w)
           b == ByteAt(w, i)
<1>1. /\ GoodReader(c, w) /\ E \in Nat /\ first \in Nat /\ first <= E /\ RunsFrom(f, c, w, first, E)
      /\ E < w.limit /\ w.limit \in Nat
  BY WholeIs
<1>2. /\ i \in Nat /\ i + 1 \in first..E /\ i + 1 # first /\ (i + 1) - 1 = i /\ i < w.limit
      /\ w.limit \in Int
  BY <1>1
<1>3. /\ f[i + 1] = StepByte(c, w, f[i], i) /\ f[i] \in Steppers /\ b \in STRING /\ b # NoByte
  BY <1>1, <1>2, RunStep, E <= E
<1>4. f[i].state \in InteriorStates
  BY <1>3, StepperTypes
<1>5. ValidDialect(c)
  BY <1>1 DEF GoodReader
<1>6. ByteAt(w, i) = b
  OBVIOUS
<1> HIDE DEF b
<1>7. WentOnTo(f[i], Transition(c, f[i].state, b), f[i + 1])
  BY <1>2, <1>3, <1>5, <1>6, StepGoesOn
<1> QED BY <1>3, <1>4, <1>7 DEF WentOnTo, b

(* A run that goes on has gone on until then.                              *)
LEMMA WentOn ==
  ASSUME NEW c, NEW w, NEW first, NEW f, WholeRun(c, w, first, f),
         NEW n \in first..ReadableEnd(w), ~f[n].done, NEW i \in first..n
  PROVE  ~f[i].done
<1>1. /\ first \in Nat /\ n \in Nat /\ first <= n /\ ReadableEnd(w) \in Nat /\ n <= ReadableEnd(w)
      /\ StepsByTheBytes(f, c, w, first, ReadableEnd(w))
  BY WholeIs DEF RunsFrom
<1>2. StepsByTheBytes(f, c, w, first, n)
  BY <1>1 DEF StepsByTheBytes
<1>3. f[i].done => f[n] = f[i]
  BY <1>1, <1>2, ParseStays
<1> QED BY <1>3

(* What the state of a run says of the dialect and of the bytes before it. *)
CommentSince(c, w, first, i) ==
  \E from \in first..(i - 1) :
    /\ ByteAt(w, from) = c.comment
    /\ \A k \in (from + 1)..(i - 1) : ByteAt(w, k) \notin CommentEnds(c)
Tells(c, w, first, state, i) ==
  /\ state \in {"InQuotedField", "InEscapedQuote"} => c.quote # NoByte
  /\ state = "InEscapedQuote" => c.escape # NoByte /\ ~DoubledQuotes(c)
  /\ state = "InComment" => c.comment # NoByte /\ CommentSince(c, w, first, i)

(* How a byte leads to those states.                                       *)
LEMMA WaysIn ==
  ASSUME NEW c, ValidDialect(c), NEW state \in InteriorStates, NEW b, b # NoByte
  PROVE  LET next == Onward(Transition(c, state, b))
         IN  /\ next \in {"InQuotedField", "InEscapedQuote"} =>
                  c.quote # NoByte \/ state \in {"InQuotedField", "InEscapedQuote"}
             /\ next = "InEscapedQuote" => c.escape # NoByte /\ ~DoubledQuotes(c)
             /\ next = "InComment" =>
                  \/ b = c.comment
                  \/ state = "InComment" /\ b \notin CommentEnds(c)
<1>1. CASE state = "FieldStart"
  BY <1>1 DEF Transition, FieldStartCell, Consume, Emit, Cell, Onward
<1>2. CASE state = "InField"
  BY <1>2 DEF Transition, InFieldCell, MidFieldQuoteCell, ValidDialect, QuoteHandlings, Consume,
              Emit, Cell, Onward
<1>3. CASE state = "InQuotedField"
  BY <1>3 DEF Transition, InQuotedFieldCell, Consume, Emit, Cell, Onward
<1>4. CASE state = "AfterClosingQuote"
  BY <1>4 DEF Transition, AfterClosingQuoteCell, ValidDialect, QuoteHandlings, DoubledQuotes,
              Consume, Emit, Cell, Onward
<1>5. CASE state = "InEscapedQuote"
  BY <1>5 DEF Transition, Consume, Emit, Cell, Onward
<1>6. CASE state = "InComment"
  BY <1>6 DEF Transition, InCommentCell, Consume, Emit, Cell, Onward
<1>7. CASE state = "RecordStart"
  BY <1>7 DEF Transition, RecordStartCell, FieldStartCell, Consume, Emit, Cell, Onward
<1> QED BY <1>1, <1>2, <1>3, <1>4, <1>5, <1>6, <1>7 DEF InteriorStates

LEMMA TellsOn ==
  ASSUME NEW c, ValidDialect(c), NEW w, NEW first \in Nat, NEW i \in Nat, first <= i,
         NEW state \in InteriorStates, NEW b, b # NoByte, ByteAt(w, i) = b,
         Tells(c, w, first, state, i)
  PROVE  Tells(c, w, first, Onward(Transition(c, state, b)), i + 1)
<1> DEFINE next == Onward(Transition(c, state, b))
<1>1. /\ next \in {"InQuotedField", "InEscapedQuote"} =>
           c.quote # NoByte \/ state \in {"InQuotedField", "InEscapedQuote"}
      /\ next = "InEscapedQuote" => c.escape # NoByte /\ ~DoubledQuotes(c)
      /\ next = "InComment" => b = c.comment \/ (state = "InComment" /\ b \notin CommentEnds(c))
  BY WaysIn
<1> HIDE DEF next
<1>2. next = "InComment" => c.comment # NoByte /\ CommentSince(c, w, first, i + 1)
  <2> SUFFICES ASSUME next = "InComment"
               PROVE  c.comment # NoByte /\ CommentSince(c, w, first, i + 1)
    OBVIOUS
  <2>1. CASE b = c.comment
    <3>1. i \in first..((i + 1) - 1) /\ (i + 1)..((i + 1) - 1) = {}
      OBVIOUS
    <3> QED BY <2>1, <3>1 DEF CommentSince
  <2>2. CASE state = "InComment" /\ b \notin CommentEnds(c)
    <3>1. c.comment # NoByte /\ CommentSince(c, w, first, i)
      BY <2>2 DEF Tells
    <3>2. PICK from \in first..(i - 1) :
            /\ ByteAt(w, from) = c.comment
            /\ \A k \in (from + 1)..(i - 1) : ByteAt(w, k) \notin CommentEnds(c)
      BY <3>1 DEF CommentSince
    <3>3. from \in first..((i + 1) - 1)
      OBVIOUS
    <3>4. ASSUME NEW k \in (from + 1)..((i + 1) - 1)  PROVE ByteAt(w, k) \notin CommentEnds(c)
      <4>1. CASE k = i
        BY <2>2, <4>1
      <4>2. CASE k # i
        <5>1. k \in (from + 1)..(i - 1)
          BY <4>2
        <5> QED BY <3>2, <5>1
      <4> QED BY <4>1, <4>2
    <3> QED BY <3>1, <3>2, <3>3, <3>4 DEF CommentSince
  <2> QED BY <1>1, <2>1, <2>2
<1> QED BY <1>1, <1>2 DEF Tells, next

LEMMA RunTells ==
  ASSUME NEW c, NEW w, NEW first, NEW f, WholeRun(c, w, first, f)
  PROVE  \A i \in first..ReadableEnd(w) : ~f[i].done => Tells(c, w, first, f[i].state, i)
<1> DEFINE E == ReadableEnd(w)
           T == {i \in first..E : ~f[i].done /\ ~Tells(c, w, first, f[i].state, i)}
<1>1. first \in Nat /\ E \in Nat /\ first <= E /\ RunsFrom(f, c, w, first, E) /\ ValidDialect(c)
  BY WholeIs DEF GoodReader
<1> SUFFICES ASSUME T # {}  PROVE FALSE
  OBVIOUS
<1>2. T \in SUBSET Nat
  BY <1>1
<1>3. PICK m \in T : \A k \in T : m <= k
  BY <1>2, LeastElement
<1>4. m \in first..E /\ ~f[m].done /\ ~Tells(c, w, first, f[m].state, m)
  BY <1>3
<1>5. CASE m = first
  <2>1. f[first].state = "RecordStart"
    BY <1>1, StartIs DEF RunsFrom
  <2> QED BY <1>4, <1>5, <2>1 DEF Tells
<1>6. CASE m # first
  <2> DEFINE i == m - 1
             b == ByteAt(w, i)
  <2>1. i \in first..(E - 1) /\ i + 1 = m /\ i \in Nat /\ first <= i /\ i \in first..E /\ ~(m <= i)
    BY <1>1, <1>4, <1>6
  <2> HIDE DEF i
  <2>2. ~f[i + 1].done
    BY <1>4, <2>1
  <2>3. /\ ~f[i].done /\ f[i].state \in InteriorStates /\ b # NoByte
        /\ f[i + 1].state = Onward(Transition(c, f[i].state, b))
    BY <2>1, <2>2, RunGoesOn
  <2>4. Tells(c, w, first, f[i].state, i)
    BY <1>3, <2>1, <2>3
  <2>5. Tells(c, w, first, f[i + 1].state, i + 1)
    BY <1>1, <2>1, <2>3, <2>4, TellsOn
  <2> QED BY <1>4, <2>1, <2>5
<1> QED BY <1>5, <1>6

-----------------------------------------------------------------------------
(* Input that Strict does not reject.  No byte of the one pass, whatever   *)
(* its dialect, is one that the strict probe rejects.                      *)
Untagged(c, w, first, f) ==
  \A i \in first..(ReadableEnd(w) - 1) :
    f[i + 1].done \/ ~Transition(c, f[i].state, ByteAt(w, i)).strict

LEMMA StrictCells ==
  ASSUME NEW c, c.quote_handling = "Strict", NEW state \in InteriorStates, NEW b
  PROVE  ~Transition(c, state, b).strict
<1>1. ~FieldStartCell(c, b).strict
  BY DEF FieldStartCell, Consume, Emit, Cell
<1>2. ~InFieldCell(c, b).strict
  BY DEF InFieldCell, MidFieldQuoteCell, Consume, Emit, Cell
<1>3. ~InQuotedFieldCell(c, b).strict
  BY DEF InQuotedFieldCell, Consume, Emit, Cell
<1>4. ~AfterClosingQuoteCell(c, b).strict
  BY DEF AfterClosingQuoteCell, Consume, Emit, Cell
<1>5. ~RecordStartCell(c, b).strict
  BY <1>1 DEF RecordStartCell, Consume, Cell
<1>6. ~InCommentCell(c, b).strict
  BY DEF InCommentCell, Consume, Cell
<1>7. ~Emit("InQuotedField").strict
  BY DEF Emit, Cell
<1> QED BY <1>1, <1>2, <1>3, <1>4, <1>5, <1>6, <1>7 DEF Transition, InteriorStates

(* The same dialect, read as Strict.                                       *)
StrictOf(c) == [c EXCEPT !.quote_handling = "Strict"]

LEMMA StrictOfIs ==
  ASSUME NEW c \in Dialects, ValidDialect(c)
  PROVE  /\ StrictOf(c) \in Dialects /\ ValidDialect(StrictOf(c))
         /\ StrictOf(c).quote_handling = "Strict"
         /\ StrictOf(c).delimiter = c.delimiter /\ StrictOf(c).quote = c.quote
         /\ StrictOf(c).escape = c.escape /\ StrictOf(c).comment = c.comment
         /\ StrictOf(c).terminator = c.terminator
         /\ StrictOf(c).field_count = c.field_count /\ StrictOf(c).has_headers = c.has_headers
         /\ Terminators(StrictOf(c)) = Terminators(c)
<1> DEFINE d == StrictOf(c)
<1>1. d \in Dialects
  BY DEF StrictOf, Dialects, QuoteHandlings
<1>2. /\ d.quote_handling = "Strict" /\ d.delimiter = c.delimiter /\ d.quote = c.quote
      /\ d.escape = c.escape /\ d.comment = c.comment /\ d.terminator = c.terminator
      /\ d.field_count = c.field_count /\ d.has_headers = c.has_headers
  BY DEF StrictOf, Dialects
<1> HIDE DEF d
<1>3. Terminators(d) = Terminators(c)
  BY <1>2 DEF Terminators
<1>4. ValidDialect(d)
  BY <1>2, <1>3 DEF ValidDialect, QuoteHandlings
<1> QED BY <1>1, <1>2, <1>3, <1>4 DEF d

(* It rejects what the strict probe does, and takes the rest alike.        *)
LEMMA StrictRejects ==
  ASSUME NEW c \in Dialects, ValidDialect(c), NEW state \in InteriorStates,
         NEW b, b # NoByte
  PROVE  LET cell == Transition(c, state, b)
             strict == Transition(StrictOf(c), state, b)
         IN  /\ strict = cell \/ strict.next = "Error"
             /\ cell.strict => strict.next = "Error" /\ state # "RecordStart"
<1> DEFINE d == StrictOf(c)
           cell == Transition(c, state, b)
           strict == Transition(d, state, b)
<1>1. /\ d.quote_handling = "Strict" /\ d.delimiter = c.delimiter /\ d.quote = c.quote
      /\ d.escape = c.escape /\ d.comment = c.comment /\ d.terminator = c.terminator
      /\ Terminators(d) = Terminators(c)
  BY StrictOfIs
<1>2. d = [c EXCEPT !.quote_handling = "Strict"] /\ "Strict" \in QuoteHandlings
  BY DEF StrictOf, QuoteHandlings
<1> HIDE DEF d
<1>3. CASE Plain(cell)
  <2>1. strict = cell
    BY <1>2, <1>3, PlainCells
  <2> HIDE DEF cell, strict
  <2> QED BY <1>3, <2>1 DEF Plain, cell, strict, d
<1>4. CASE ~Plain(cell)
  <2>1. DoubledQuotes(d) = DoubledQuotes(c) /\ c.quote_handling \in QuoteHandlings
    BY <1>1 DEF DoubledQuotes, ValidDialect
  <2>2. state \in {"InField", "AfterClosingQuote"}
    <3>1. CASE state = "FieldStart"
      BY <1>4, <3>1 DEF Plain, Transition, FieldStartCell, Consume, Emit, Cell
    <3>2. CASE state = "RecordStart"
      BY <1>4, <3>2 DEF Plain, Transition, RecordStartCell, FieldStartCell, Consume, Emit, Cell
    <3>3. CASE state = "InQuotedField"
      BY <1>4, <3>3 DEF Plain, Transition, InQuotedFieldCell, Consume, Emit, Cell
    <3>4. CASE state = "InEscapedQuote"
      BY <1>4, <3>4 DEF Plain, Transition, Emit, Cell
    <3>5. CASE state = "InComment"
      BY <1>4, <3>5 DEF Plain, Transition, InCommentCell, Consume, Cell
    <3> QED BY <3>1, <3>2, <3>3, <3>4, <3>5 DEF InteriorStates
  <2>3. strict.next = "Error"
    <3>1. CASE state = "InField"
      <4>1. cell = InFieldCell(c, b) /\ strict = InFieldCell(d, b)
        BY <3>1 DEF Transition
      <4> HIDE DEF cell, strict
      <4>2. b = c.quote \/ b = c.delimiter => b \notin Terminators(c)
        BY DEF ValidDialect
      <4>3. b \notin Terminators(c)
        BY <1>4, <4>1, <4>2 DEF InFieldCell, Plain, Consume, Cell
      <4>4. b # c.delimiter
        <5>1. c.delimiter # c.quote
          BY DEF ValidDialect
        <5> QED BY <1>4, <4>1, <4>3, <5>1 DEF InFieldCell, Plain, Consume, Cell
      <4>5. b = c.quote
        BY <1>4, <4>1, <4>3, <4>4 DEF InFieldCell, Plain, Emit, Cell
      <4>6. strict = MidFieldQuoteCell(d)
        BY <1>1, <4>1, <4>3, <4>4, <4>5 DEF InFieldCell
      <4> QED BY <1>1, <4>6 DEF MidFieldQuoteCell, Consume, Cell
    <3>2. CASE state = "AfterClosingQuote"
      <4>1. cell = AfterClosingQuoteCell(c, b) /\ strict = AfterClosingQuoteCell(d, b)
        BY <3>2 DEF Transition
      <4> HIDE DEF cell, strict
      <4>2. ~(b = c.quote /\ DoubledQuotes(c)) /\ b # c.delimiter /\ b \notin Terminators(c)
        BY <1>4, <4>1 DEF AfterClosingQuoteCell, Plain, Consume, Emit, Cell
      <4> QED BY <1>1, <2>1, <4>1, <4>2 DEF AfterClosingQuoteCell, Consume, Cell
    <3> QED BY <2>2, <3>1, <3>2
  <2>4. state # "RecordStart"
    BY <2>2
  <2> HIDE DEF cell, strict
  <2> QED BY <2>3, <2>4 DEF cell, strict, d
<1> QED BY <1>3, <1>4

(* A step depends on the dialect by the cell, by what ends a record and by *)
(* the number of fields.                                                   *)
LEMMA SameStep ==
  ASSUME NEW c, NEW d, Terminators(d) = Terminators(c), d.field_count = c.field_count,
         NEW r, NEW st, NEW i,
         Transition(d, st.state, ByteAt(r, i)) = Transition(c, st.state, ByteAt(r, i))
  PROVE  StepByte(d, r, st, i) = StepByte(c, r, st, i)
<1>1. \A s, e : EmitRecord(d, s, e) = EmitRecord(c, s, e)
  BY DEF EmitRecord
<1>2. \A s, a : ApplyAction(d, r, s, a, i) = ApplyAction(c, r, s, a, i)
  BY <1>1 DEF ApplyAction
<1>3. \A cell : StepTaking(cell, d, r, st, i) = StepTaking(cell, c, r, st, i)
  BY <1>2 DEF StepTaking
<1> QED BY <1>3 DEF StepByte

(* A header row that the dialect accepts, Strict accepts as well, or it    *)
(* rejects it.                                                             *)
LEMMA StrictHeader ==
  ASSUME NEW c \in Dialects, ValidDialect(c), NEW w, GoodReader(c, w),
         ScanHeaderEnd(c, w).state = "RecordEnd"
  PROVE  \/ ScanHeaderEnd(StrictOf(c), w) = ScanHeaderEnd(c, w)
         \/ ScanHeaderEnd(StrictOf(c), w).state = "Error"
<1> DEFINE d == StrictOf(c)
           n == BufEnd(w)
           strict == FALSE
           f == CHOOSE h : ScanRunOf(h, c, strict, w, "RecordStart", n)
           g == CHOOSE h : ScanRunOf(h, d, strict, w, "RecordStart", n)
<1>1. n \in Nat /\ n <= ReadableEnd(w) /\ ReadableEnd(w) \in Nat
  BY BufEndIs
<1>2. /\ ScanHeaderEnd(c, w) = UnlessUnreadable(w, n, ScanTo(c, strict, w, "RecordStart", n))
      /\ ScanHeaderEnd(d, w) = UnlessUnreadable(w, n, ScanTo(d, strict, w, "RecordStart", n))
  BY DEF ScanHeaderEnd, FindRecordStartFrom, BufEnd
<1> HIDE DEF n, strict, d
<1>3. ScanRunOf(f, c, strict, w, "RecordStart", n)
      /\ ScanTo(c, strict, w, "RecordStart", n) = f[n]
  BY <1>1, ScanToIs
<1>4. ScanRunOf(g, d, strict, w, "RecordStart", n)
      /\ ScanTo(d, strict, w, "RecordStart", n) = g[n]
  BY <1>1, ScanToIs
<1> HIDE DEF f, g
<1>5. /\ f[0] = [state |-> "RecordStart", at |-> NoOffset]
      /\ FollowsTheBytes(f, c, strict, w, n)
  BY <1>1, <1>3, ScanRunIs
<1>6. /\ g[0] = [state |-> "RecordStart", at |-> NoOffset]
      /\ FollowsTheBytes(g, d, strict, w, n)
  BY <1>1, <1>4, ScanRunIs
<1>7. \A i \in 0..n : GoodScan(c, w, f[i], i)
  <2>1. "RecordStart" \in InteriorStates
    BY DEF InteriorStates
  <2> QED BY <1>1, <1>3, <2>1, ScanRunGood
<1> DEFINE T == {k \in 0..n : f[k] # g[k] /\ g[k].state # "Error"}
<1>8. ASSUME NEW x \in T, \A y \in T : x <= y  PROVE FALSE
  <2> DEFINE i == x - 1
             b == ByteAt(w, i)
             s == f[i]
  <2>1. x \in 0..n /\ f[x] # g[x] /\ g[x].state # "Error" /\ x # 0
    BY <1>5, <1>6
  <2>2. x \in 1..n /\ i \in 0..n /\ ~(x <= i) /\ i \in 0..(ReadableEnd(w) - 1)
    BY <1>1, <2>1
  <2>3. f[x] = ScanByte(c, strict, w, f[i], i) /\ g[x] = ScanByte(d, strict, w, g[i], i)
    BY <1>5, <1>6, <2>2 DEF FollowsTheBytes
  <2>4. b # NoByte
    BY <2>2, ReaderIs
  <2> HIDE DEF i, b, T
  <2>5. g[i].state # "Error"
    <3>1. g[i].state = "Error" => g[x] = g[i]
      BY <2>3 DEF ScanByte, ScanOutcomes
    <3> QED BY <2>1, <3>1
  <2>6. g[i] = s
    <3>1. i \notin T
      BY <1>8, <2>2
    <3> QED BY <2>2, <2>5, <3>1 DEF T
  <2>7. GoodScan(c, w, s, i)
    BY <1>7, <2>2
  <2> HIDE DEF s
  <2>8. f[x] = ScanByte(c, strict, w, s, i) /\ g[x] = ScanByte(d, strict, w, s, i)
    BY <2>3, <2>6 DEF s
  <2>9. s.state \notin ScanOutcomes
    <3>1. s.state \in ScanOutcomes => f[x] = s /\ g[x] = s
      BY <2>8 DEF ScanByte
    <3> QED BY <2>1, <3>1
  <2>10. s.state \in InteriorStates
    BY <2>7, <2>9 DEF GoodScan
  <2>11. /\ f[x] = ScanTaking(Transition(c, s.state, b), strict, i)
         /\ g[x] = ScanTaking(Transition(d, s.state, b), strict, i)
    BY <2>8, <2>9 DEF ScanByte, b
  <2>12. \/ Transition(d, s.state, b) = Transition(c, s.state, b)
         \/ Transition(d, s.state, b).next = "Error"
    BY <2>4, <2>10, StrictRejects DEF d
  <2>13. Transition(d, s.state, b) = Transition(c, s.state, b) => g[x] = f[x]
    BY <2>11
  <2>14. Transition(d, s.state, b).next = "Error" => g[x].state = "Error"
    BY <2>11 DEF ScanTaking, strict
  <2> QED BY <2>1, <2>12, <2>13, <2>14
<1>9. T = {}
  <2>1. T \in SUBSET Nat
    OBVIOUS
  <2> HIDE DEF T
  <2> QED BY <1>8, <2>1, LeastElement
<1>10. g[n] = f[n] \/ g[n].state = "Error"
  <2>1. n \in 0..n
    BY <1>1
  <2> QED BY <1>9, <2>1
<1>11. ScanHeaderEnd(c, w) = f[n]
  <2>1. ScanHeaderEnd(c, w) = UnlessUnreadable(w, n, f[n])
    BY <1>2, <1>3
  <2>2. UnlessUnreadable(w, n, f[n]) \in {f[n], [state |-> "IoError", at |-> n]}
    BY DEF UnlessUnreadable
  <2>3. ScanHeaderEnd(c, w).state = "RecordEnd"
    OBVIOUS
  <2>4. ScanHeaderEnd(c, w) # [state |-> "IoError", at |-> n]
    BY <2>3
  <2> QED BY <2>1, <2>2, <2>3, <2>4
<1>12. g[n].state \in ScanOutcomes
  BY <1>10, <1>11 DEF ScanOutcomes
<1>13. ScanHeaderEnd(d, w) = g[n]
  <2>1. ScanHeaderEnd(d, w) = UnlessUnreadable(w, n, g[n])
    BY <1>2, <1>4
  <2> QED BY <1>12, <2>1 DEF UnlessUnreadable
<1> QED BY <1>10, <1>11, <1>13 DEF d

(* Up to the first byte that the probe rejects, Strict reads what the      *)
(* dialect reads; there it stops.                                          *)
Tagged(c, w, f, i) ==
  ~f[i + 1].done /\ Transition(c, f[i].state, ByteAt(w, i)).strict

LEMMA SameUpToTag ==
  ASSUME NEW c \in Dialects, NEW w, NEW first, NEW f, WholeRun(c, w, first, f), NEW g,
         WholeRun(StrictOf(c), w, first, g), NEW n \in first..(ReadableEnd(w) - 1),
         ~f[n].done, \A i \in first..(n - 1) : ~Tagged(c, w, f, i)
  PROVE  \A i \in first..n : g[i] = f[i]
<1> DEFINE d == StrictOf(c)
           E == ReadableEnd(w)
           T == {i \in first..n : g[i] # f[i]}
<1>1. first \in Nat /\ E \in Nat /\ first <= E /\ RunsFrom(f, c, w, first, E) /\ ValidDialect(c)
  BY WholeIs DEF GoodReader
<1>2. RunsFrom(g, d, w, first, E)
  BY WholeIs
<1>3. Terminators(d) = Terminators(c) /\ d.field_count = c.field_count
  BY <1>1, StrictOfIs
<1> HIDE DEF d
<1> SUFFICES ASSUME T # {}  PROVE FALSE
  OBVIOUS
<1>4. T \in SUBSET Nat
  BY <1>1
<1>5. PICK m \in T : \A k \in T : m <= k
  BY <1>4, LeastElement
<1>6. m \in first..n /\ g[m] # f[m]
  BY <1>5
<1>7. m # first
  BY <1>1, <1>2, <1>6 DEF RunsFrom
<1> DEFINE i == m - 1
           b == ByteAt(w, i)
<1>8. /\ i \in first..(n - 1) /\ i \in first..n /\ i + 1 = m /\ ~(m <= i) /\ i \in first..(E - 1)
      /\ m \in (first + 1)..E /\ n \in first..E
  BY <1>1, <1>6, <1>7
<1>9. g[i] = f[i]
  BY <1>5, <1>8
<1>10. f[m] = StepByte(c, w, f[i], i) /\ g[m] = StepByte(d, w, g[i], i)
  BY <1>1, <1>2, <1>8 DEF RunsFrom, StepsByTheBytes
<1> HIDE DEF i
<1>11. ~f[i + 1].done
  <2>1. m \in first..n
    BY <1>6
  <2>2. ~f[m].done
    BY <1>8, <2>1, WentOn
  <2> QED BY <1>8, <2>2
<1>12. /\ f[i].state \in InteriorStates /\ b # NoByte
       /\ Transition(c, f[i].state, b).next # "Error"
  BY <1>8, <1>11, RunGoesOn
<1>13. ~Transition(c, f[i].state, b).strict
  BY <1>8, <1>11 DEF Tagged
<1> HIDE DEF b
<1>14. Transition(d, f[i].state, b) = Transition(c, f[i].state, b)
  <2>1. Plain(Transition(c, f[i].state, b))
    BY <1>12, <1>13 DEF Plain
  <2>2. d = [c EXCEPT !.quote_handling = "Strict"] /\ "Strict" \in QuoteHandlings
    BY DEF d, StrictOf, QuoteHandlings
  <2> QED BY <1>1, <1>12, <2>1, <2>2, PlainCells
<1>15. StepByte(d, w, f[i], i) = StepByte(c, w, f[i], i)
  BY <1>3, <1>14, SameStep DEF b
<1> QED BY <1>6, <1>9, <1>10, <1>15

LEMMA TaggedIsRejected ==
  ASSUME NEW c \in Dialects, NEW w, NEW first, NEW f, WholeRun(c, w, first, f), NEW g,
         WholeRun(StrictOf(c), w, first, g), NEW n \in first..(ReadableEnd(w) - 1),
         Tagged(c, w, f, n), \A i \in first..(n - 1) : ~Tagged(c, w, f, i)
  PROVE  g[ReadableEnd(w)].done /\ g[ReadableEnd(w)].error.kind = "InvalidQuote"
<1> DEFINE d == StrictOf(c)
           E == ReadableEnd(w)
           s == f[n]
           t == g[n + 1]
           b == ByteAt(w, n)
           cell == Transition(d, s.state, b)
           read == Reading(s, n, b, cell)
           e == Error("InvalidQuote", n)
<1>1. /\ first \in Nat /\ E \in Nat /\ first <= E /\ n \in Nat /\ n \in first..n
      /\ n + 1 \in first..E /\ ValidDialect(c) /\ w.limit \in Int
  BY WholeIs DEF GoodReader
<1>2. /\ ~s.done /\ s \in Steppers /\ s.state \in InteriorStates /\ b \in STRING /\ b # NoByte
      /\ Transition(c, s.state, b).strict
  <2>1. ~f[n + 1].done /\ Transition(c, s.state, b).strict
    BY DEF Tagged
  <2> QED BY <2>1, RunGoesOn
<1>3. g[n] = s
  <2>1. \A i \in first..n : g[i] = f[i]
    BY <1>2, SameUpToTag
  <2> QED BY <1>1, <2>1
<1>4. StepsByTheBytes(g, d, w, first, E) /\ g[n + 1] = StepByte(d, w, g[n], n)
  <2>1. StepsByTheBytes(g, d, w, first, E)
    BY WholeIs DEF RunsFrom
  <2>2. n + 1 \in (first + 1)..E /\ (n + 1) - 1 = n
    BY <1>1
  <2> QED BY <2>1, <2>2 DEF StepsByTheBytes
<1>5. cell.next = "Error" /\ s.state # "RecordStart"
  BY <1>1, <1>2, StrictRejects
<1>6. Stepped(d, w, s, n, b, t)
  <2>1. ByteAt(w, n) = b
    OBVIOUS
  <2> HIDE DEF b, s, d
  <2>2. Stepped(d, w, s, n, b, StepByte(d, w, s, n))
    BY <1>1, <1>2, <2>1, StepIs
  <2>3. t = StepByte(d, w, s, n)
    BY <1>3, <1>4
  <2> QED BY <2>2, <2>3
<1> HIDE DEF s, t, b, cell, d
<1>7. t = Stop(read, e)
  BY <1>5, <1>6 DEF Stepped, cell
<1>8. e \in Errors /\ e.kind = "InvalidQuote"
  BY <1>1, ErrorsAre DEF Kinds
<1>9. read \in Steppers
  BY <1>1, <1>2, ReadingIs
<1> HIDE DEF read, e
<1>10. t.done /\ t.error = e
  BY <1>7, <1>8, <1>9, StopIs
<1>11. g[E] = t
  <2>1. g[n + 1].done
    BY <1>10 DEF t
  <2>2. g[E] = g[n + 1]
    BY <1>1, <1>4, <2>1, ParseStays
  <2> QED BY <2>2 DEF t
<1> QED BY <1>8, <1>10, <1>11

(* So a pass of Strict that does not fail on a quote has none to fail on.  *)
LEMMA AcceptedIsUntagged ==
  ASSUME NEW c \in Dialects, NEW w, NEW first, NEW f, WholeRun(c, w, first, f), NEW T,
         T = ParseFromBoundary(StrictOf(c), w, first), T.error.kind \notin {"InvalidQuote", "IO"}
  PROVE  Untagged(c, w, first, f)
<1> DEFINE d == StrictOf(c)
           E == ReadableEnd(w)
           S == {n \in first..(E - 1) : Tagged(c, w, f, n)}
<1>1. /\ first \in Nat /\ E \in Nat /\ first <= E /\ GoodReader(c, w) /\ ValidDialect(c)
      /\ first \in 0..E /\ E < w.limit
  BY WholeIs DEF GoodReader
<1>2. GoodReader(d, w)
  <2>1. ValidDialect(d)
    BY <1>1, StrictOfIs
  <2> QED BY <1>1, <2>1 DEF GoodReader
<1> HIDE DEF d
<1>3. \E g : WholeRun(d, w, first, g)
  <2>1. PICK g : RunsFrom(g, d, w, first, E)
    BY <1>1, <1>2, ParseIs
  <2> QED BY <1>1, <1>2, <2>1 DEF WholeRun
<1>4. PICK g : WholeRun(d, w, first, g)
  BY <1>3
<1>5. Truth(d, w, first, g, T)
  BY <1>4, TruthIs DEF d
<1>6. ASSUME NEW n \in S, \A m \in S : n <= m  PROVE FALSE
  <2>1. n \in first..(E - 1) /\ Tagged(c, w, f, n)
    OBVIOUS
  <2>2. ASSUME NEW i \in first..(n - 1)  PROVE ~Tagged(c, w, f, i)
    <3>1. i \in first..(E - 1) /\ ~(n <= i)
      BY <1>1, <2>1
    <3> QED BY <1>6, <3>1
  <2>3. g[E].done /\ g[E].error.kind = "InvalidQuote"
    BY <1>4, <2>1, <2>2, TaggedIsRejected DEF d
  <2>4. Final(d, w, g) = g[E]
    BY <2>3 DEF Final
  <2>5. T.error = IoError \/ T.error = g[E].error
    BY <1>5, <2>4 DEF Truth
  <2>6. IoError.kind = "IO"
    BY DEF IoError, Error
  <2> QED BY <2>3, <2>5, <2>6
<1>7. S = {}
  <2>1. S \in SUBSET Nat
    BY <1>1
  <2> HIDE DEF S
  <2> QED BY <1>6, <2>1, LeastElement
<1> QED BY <1>7 DEF Untagged, Tagged

(* A job, read as Strict.                                                  *)
StrictJob(j) == [j EXCEPT !.config.quote_handling = "Strict"]

LEMMA StrictJobIs ==
  ASSUME NEW j \in Jobs
  PROVE  LET s == StrictJob(j)
         IN  /\ s.config = StrictOf(j.config) /\ Whole(s) = Whole(j)
             /\ FindMode(s, 0) = FindMode(j, 0)
<1> DEFINE s == StrictJob(j)
<1>1. j \in [config : Dialects, file : Seq(STRING), chunk_size : Nat \ {0},
             bad : {NoOffset} \cup Nat]
  BY JobsAssumption
<1>2. s.config = StrictOf(j.config) /\ s.file = j.file /\ s.bad = j.bad
  BY <1>1 DEF StrictJob, StrictOf
<1> HIDE DEF s
<1>3. Whole(s) = Whole(j)
  BY <1>2 DEF Whole, ChunkReader, FileSize
<1>4. s.config.has_headers = j.config.has_headers
  BY <1>2, StrictOfIs, JobIs
<1>5. FindMode(s, 0) = FindMode(j, 0)
  BY <1>4 DEF FindMode
<1> QED BY <1>2, <1>3, <1>5 DEF s

Accepted(j) == RunStream(StrictJob(j)).error.kind \notin {"InvalidQuote", "IO"}

LEMMA WellQuotedIsUntagged ==
  ASSUME NEW j \in Jobs, Starts(j), Accepted(j)
  PROVE  Untagged(j.config, Whole(j), First(j), TheRun(j))
<1> DEFINE c == j.config
           d == StrictOf(c)
           s == StrictJob(j)
           w == Whole(j)
           first == First(j)
           find == FindMode(j, 0)
           scan == Scan(d, w, "OutOfQuotes", find)
<1>1. /\ WholeRun(c, w, first, TheRun(j)) /\ c \in Dialects /\ ValidDialect(c)
      /\ GoodReader(c, w)
  BY StreamIs, JobIs, WholeReader
<1>2. RunStream(s) = ParseScanned(d, w, scan)
  <2>1. s.config = d /\ FindMode(s, 0) = find
    BY StrictJobIs
  <2>2. ChunkReader(s, 0, FileSize(s) + 1) = w
    BY StrictJobIs DEF Whole
  <2> HIDE DEF s, d, w, find
  <2> QED BY <2>1, <2>2 DEF RunStream, Parse, scan
<1>3. RunStream(s).error.kind \notin {"InvalidQuote", "IO"}
  BY DEF Accepted
<1>4. scan.state = "RecordEnd" /\ scan.at = first
  <2>1. CASE c.has_headers
    <3>1. HeaderScan(j) = ScanHeaderEnd(c, Heading(j)) /\ HeaderScan(j).state = "RecordEnd"
          /\ first = HeaderScan(j).at
      BY <2>1 DEF HeaderScan, Heading, Starts, First
    <3>2. /\ GoodReader(c, Heading(j)) /\ GoodReader(c, w) /\ Heading(j).bytes = w.bytes
          /\ BufEnd(Heading(j)) <= BufEnd(w)
      BY HeadReaders
    <3>3. scan = ScanHeaderEnd(d, w)
      BY <2>1 DEF Scan, FindMode
    <3> HIDE DEF first, w, c, d, s, scan
    <3>4. ScanHeaderEnd(c, w) = HeaderScan(j)
      <4>1. ScanHeaderEnd(c, Heading(j)).state = "RecordEnd"
        BY <3>1
      <4>2. ScanHeaderEnd(c, w) = ScanHeaderEnd(c, Heading(j))
        BY <3>2, <4>1, SameHeader
      <4> QED BY <3>1, <4>2
    <3>5. scan = HeaderScan(j) \/ scan.state = "Error"
      <4>1. ScanHeaderEnd(c, w).state = "RecordEnd"
        BY <3>1, <3>4
      <4> QED BY <1>1, <3>3, <3>4, <4>1, StrictHeader DEF d
    <3>6. scan.state # "Error"
      <4>1. scan.state = "Error" =>
              RunStream(s) = Failed(Error("InvalidQuote", scan.at))
        BY <1>2 DEF ParseScanned
      <4>2. Failed(Error("InvalidQuote", scan.at)).error.kind = "InvalidQuote"
        BY DEF Failed, PassResult, Error
      <4> QED BY <1>3, <4>1, <4>2
    <3> QED BY <3>1, <3>5, <3>6
  <2>2. CASE ~c.has_headers
    BY <2>2 DEF First, Scan, FindMode
  <2> QED BY <2>1, <2>2
<1> HIDE DEF first, w, c, scan, s
<1>5. RunStream(s) = ParseFromBoundary(d, w, first)
  BY <1>2, <1>4 DEF ParseScanned
<1> HIDE DEF d
<1>6. Untagged(c, w, first, TheRun(j))
  BY <1>1, <1>3, <1>5, AcceptedIsUntagged DEF d
<1> QED BY <1>6 DEF c, w, first

(* A dialect that rejects such quotes itself has none either.              *)
LEMMA StrictIsUntagged ==
  ASSUME NEW j \in Jobs, Starts(j), j.config.quote_handling = "Strict"
  PROVE  Untagged(j.config, Whole(j), First(j), TheRun(j))
<1> DEFINE c == j.config
           w == Whole(j)
           first == First(j)
           f == TheRun(j)
<1>1. WholeRun(c, w, first, f)
  BY StreamIs
<1> HIDE DEF w, first, f
<1>2. ASSUME NEW i \in first..(ReadableEnd(w) - 1), ~f[i + 1].done
      PROVE  ~Transition(c, f[i].state, ByteAt(w, i)).strict
  <2>1. f[i].state \in InteriorStates
    BY <1>1, <1>2, RunGoesOn
  <2> QED BY <2>1, StrictCells
<1> QED BY <1>2 DEF Untagged, w, first, f

-----------------------------------------------------------------------------
(* The search finds what is there.  A chunk that a record begins in, behind*)
(* a boundary the one pass rests at, has an assumption whose search ends at*)
(* a terminator: no later than at that boundary.                           *)
QuietComments(c, w, first, f) ==
  \A i \in first..(ReadableEnd(w) - 1) :
    ~f[i].done /\ f[i].state = "InComment" => c.comment # NoByte /\ ByteAt(w, i) # c.quote

(* The state of the search after a byte that it reads in step with the     *)
(* one pass.                                                               *)
Sought(c, t, b, u) ==
  LET after == Onward(Transition(c, t, b))
  IN  /\ u.state = "RecordEnd" \/ Tracks(u.state, after)
      /\ b \in Terminators(c) /\ after = "RecordStart" => u.state = "RecordEnd"

LEMMA TracksOn ==
  ASSUME NEW c, NEW z, NEW t, NEW b, Tracked(c, z, t, b), NEW probe, NEW i
  PROVE  Sought(c, t, b, ScanTaking(Transition(FindDfa(c), z, b), probe, i))
<1> DEFINE cell == Transition(c, t, b)
           found == Transition(FindDfa(c), z, b)
           u == ScanTaking(found, probe, i)
<1>1. /\ ~found.strict
      /\ found.next = "RecordEnd"
         \/ (found.next # "Error" /\ Tracks(Onward(found), Onward(cell)))
      /\ b \in Terminators(c) /\ Onward(cell) = "RecordStart" => found.next = "RecordEnd"
  BY DEF Tracked
<1> HIDE DEF cell, found
<1>2. u.state = IF found.next = "FieldEnd" THEN "FieldStart" ELSE found.next
  BY <1>1 DEF ScanTaking
<1> HIDE DEF u
<1>3. found.next # "RecordEnd" => u.state = Onward(found)
  BY <1>2 DEF Onward
<1>4. found.next = "RecordEnd" => u.state = "RecordEnd"
  BY <1>2
<1>5. u.state = "RecordEnd" \/ Tracks(u.state, Onward(cell))
  <2>1. CASE found.next = "RecordEnd"
    BY <1>4, <2>1
  <2>2. CASE found.next # "RecordEnd"
    <3>1. Tracks(Onward(found), Onward(cell)) /\ u.state = Onward(found)
      BY <1>1, <1>3, <2>2
    <3> QED BY <3>1
  <2> QED BY <2>1, <2>2
<1>6. b \in Terminators(c) /\ Onward(cell) = "RecordStart" => u.state = "RecordEnd"
  BY <1>1, <1>4
<1> QED BY <1>5, <1>6 DEF Sought, cell, found, u

(* The byte at i, under the one pass and under a search that tracks it.    *)
LEMMA TrackedAlong ==
  ASSUME NEW c \in Dialects, LineEnds(c), NEW w, NEW first, NEW f, WholeRun(c, w, first, f),
         Untagged(c, w, first, f), QuietComments(c, w, first, f),
         NEW i \in first..(ReadableEnd(w) - 1), ~f[i + 1].done, NEW z, Tracks(z, f[i].state)
  PROVE  /\ Tracked(c, z, f[i].state, ByteAt(w, i))
         /\ f[i + 1].state = Onward(Transition(c, f[i].state, ByteAt(w, i)))
<1> DEFINE t == f[i].state
           b == ByteAt(w, i)
<1>1. /\ ~f[i].done /\ b # NoByte /\ Transition(c, t, b).next # "Error"
      /\ f[i + 1].state = Onward(Transition(c, t, b))
  BY RunGoesOn
<1>2. Plain(Transition(c, t, b))
  BY <1>1 DEF Untagged, Plain
<1>3. t = "InComment" => c.comment # NoByte /\ b # c.quote
  BY <1>1 DEF QuietComments
<1>4. ValidDialect(c)
  BY WholeIs DEF GoodReader
<1>5. Tracks(z, t)
  OBVIOUS
<1> HIDE DEF t, b
<1>6. Tracked(c, z, t, b)
  BY <1>1, <1>2, <1>3, <1>4, <1>5, SearchTracks
<1> QED BY <1>1, <1>6 DEF t, b

(* Where a record may start, as the search has it to find.                 *)
StartsAfter(c, w, f, n) ==
  /\ n < ReadableEnd(w) /\ ByteAt(w, n) \in Terminators(c)
  /\ ~f[n + 1].done /\ f[n + 1].state = "RecordStart"

LEMMA SearchEnds ==
  ASSUME NEW c \in Dialects, LineEnds(c), NEW r, NEW w, NEW a, PartOf(c, r, w, a),
         NEW first, NEW f, WholeRun(c, w, first, f), first <= a,
         Untagged(c, w, first, f), QuietComments(c, w, first, f),
         NEW n \in Nat, a <= n, n - a < r.limit, StartsAfter(c, w, f, n),
         NEW z, Tracks(z, f[a].state)
  PROVE  FindRecordStartFrom(FindDfa(c), TRUE, r, z).state = "RecordEnd"
<1> DEFINE d == FindDfa(c)
           probe == TRUE
           E == ReadableEnd(w)
           m == BufEnd(r)
           g == CHOOSE h : ScanRunOf(h, d, probe, r, z, m)
           scan == FindRecordStartFrom(d, probe, r, z)
           last == n - a
<1>1. /\ GoodReader(c, r) /\ a \in Nat /\ ReadableEnd(r) \in Nat /\ E \in Nat
      /\ E = a + ReadableEnd(r) /\ \A i \in 0..(ReadableEnd(r) - 1) : ByteAt(w, a + i) = ByteAt(r, i)
  BY PartIs
<1>2. /\ m = (IF r.limit <= ReadableEnd(r) THEN r.limit ELSE ReadableEnd(r)) /\ m \in Nat
      /\ r.limit \in Nat
  BY <1>1, BufEndIs
<1>3. scan = UnlessUnreadable(r, m, ScanTo(d, probe, r, z, m))
  BY DEF FindRecordStartFrom, BufEnd
<1>4. first \in Nat /\ first <= E
  BY WholeIs
<1>5. n < E /\ ByteAt(w, n) \in Terminators(c) /\ ~f[n + 1].done /\ f[n + 1].state = "RecordStart"
  BY DEF StartsAfter
<1> HIDE DEF m, d, probe, E, scan
<1>6. /\ last \in Nat /\ a + last = n /\ last < m /\ last < ReadableEnd(r) /\ last < r.limit
      /\ a \in Nat /\ E \in Nat /\ m \in Nat /\ ReadableEnd(r) \in Nat
  BY <1>1, <1>2, <1>5
<1>7. ScanRunOf(g, d, probe, r, z, m) /\ ScanTo(d, probe, r, z, m) = g[m]
  BY <1>2, ScanToIs, ZenonT(30)
<1> HIDE DEF g, last
<1>8. g[0] = [state |-> z, at |-> NoOffset] /\ FollowsTheBytes(g, d, probe, r, m)
  BY <1>2, <1>7, ScanRunIs
<1> DEFINE InStep(k) == g[k].state = "RecordEnd" \/ Tracks(g[k].state, f[a + k].state)
<1>9. ASSUME NEW k \in 0..last, InStep(k), g[k].state # "RecordEnd"
      PROVE  /\ Sought(c, f[a + k].state, ByteAt(w, a + k), g[k + 1])
             /\ f[a + k + 1].state = Onward(Transition(c, f[a + k].state, ByteAt(w, a + k)))
  <2> DEFINE i == a + k
             b == ByteAt(w, i)
             s == g[k]
  <2>1. /\ i \in first..(E - 1) /\ i + 1 \in first..(n + 1) /\ n + 1 \in first..E
        /\ k + 1 \in 1..m /\ (k + 1) - 1 = k /\ k \in 0..(ReadableEnd(r) - 1)
    <3> HIDE DEF InStep
    <3>1. k \in Nat /\ k <= last
      BY <1>6
    <3>2. a + k \in Nat /\ a + k <= n /\ first <= a + k
      BY <1>4, <1>6, <3>1
    <3> QED BY <1>4, <1>5, <1>6, <3>1, <3>2
  <2>2. ByteAt(r, k) = b
    BY <1>1, <2>1
  <2> HIDE DEF i
  <2>3. ~f[i + 1].done
    BY <1>5, <2>1, WentOn DEF E
  <2>4. Tracks(s.state, f[i].state)
    BY <1>9 DEF i
  <2>5. /\ Tracked(c, s.state, f[i].state, b)
        /\ f[i + 1].state = Onward(Transition(c, f[i].state, b))
    BY <2>1, <2>3, <2>4, TrackedAlong DEF E
  <2>6. s.state \notin ScanOutcomes
    BY <2>4 DEF Tracks, ScanOutcomes
  <2>7. g[k + 1] = ScanByte(d, probe, r, s, k)
    BY <1>8, <2>1 DEF FollowsTheBytes
  <2>8. g[k + 1] = ScanTaking(Transition(d, s.state, b), probe, k)
    BY <2>2, <2>6, <2>7 DEF ScanByte
  <2> HIDE DEF b, s
  <2>9. Sought(c, f[i].state, b, g[k + 1])
    BY <2>5, <2>8, TracksOn DEF d
  <2> QED BY <2>5, <2>9 DEF i, b
<1> DEFINE T == {k \in 0..last : ~InStep(k)}
<1>10. ASSUME NEW x \in T, \A y \in T : x <= y  PROVE FALSE
  <2> DEFINE k == x - 1
  <2>1. x \in 0..last /\ ~InStep(x)
    OBVIOUS
  <2>2. x # 0
    <3>1. InStep(0)
      BY <1>1, <1>8
    <3> QED BY <2>1, <3>1
  <2>3. k \in 0..last /\ k + 1 = x /\ ~(x <= k) /\ x \in 1..m /\ a + k + 1 = a + x
    <3> HIDE DEF InStep
    <3> QED BY <1>6, <2>1, <2>2
  <2>4. InStep(k)
    BY <1>10, <2>3
  <2> HIDE DEF k, T, InStep
  <2>5. CASE g[k].state = "RecordEnd"
    <3>1. g[x] = ScanByte(d, probe, r, g[x - 1], x - 1) /\ x - 1 = k
      BY <1>8, <2>3 DEF FollowsTheBytes, k
    <3>2. g[x] = g[k]
      BY <2>5, <3>1 DEF ScanByte, ScanOutcomes
    <3> QED BY <2>1, <2>5, <3>2 DEF InStep
  <2>6. CASE g[k].state # "RecordEnd"
    <3>1. /\ Sought(c, f[a + k].state, ByteAt(w, a + k), g[k + 1])
          /\ f[a + k + 1].state = Onward(Transition(c, f[a + k].state, ByteAt(w, a + k)))
      BY <1>9, <2>3, <2>4, <2>6
    <3>2. g[x].state = "RecordEnd" \/ Tracks(g[x].state, f[a + x].state)
      BY <2>3, <3>1 DEF Sought
    <3> QED BY <2>1, <3>2 DEF InStep
  <2> QED BY <2>5, <2>6
<1>11. InStep(last)
  <2>1. T \in SUBSET Nat
    BY <1>6
  <2> HIDE DEF T
  <2>2. T = {}
    BY <1>10, <2>1, LeastElement
  <2>3. last \in 0..last
    BY <1>6
  <2> QED BY <2>2, <2>3 DEF T
<1>12. \E k \in 0..m : g[k].state = "RecordEnd"
  <2>1. CASE g[last].state = "RecordEnd"
    <3>1. last \in 0..m
      BY <1>2, <1>6
    <3> QED BY <2>1, <3>1
  <2>2. CASE g[last].state # "RecordEnd"
    <3>1. last \in 0..last /\ last + 1 \in 0..m
      BY <1>2, <1>6
    <3> HIDE DEF InStep
    <3>2. /\ Sought(c, f[a + last].state, ByteAt(w, a + last), g[last + 1])
          /\ f[a + last + 1].state = Onward(Transition(c, f[a + last].state, ByteAt(w, a + last)))
      BY <1>9, <1>11, <2>2, <3>1
    <3>3. g[last + 1].state = "RecordEnd"
      BY <1>5, <1>6, <3>2 DEF Sought
    <3> QED BY <3>1, <3>3
  <2> QED BY <2>1, <2>2
<1>13. PICK k \in 0..m : g[k].state = "RecordEnd"
  BY <1>12
<1>14. g[m] = g[k]
  <2>1. g[k].state \in ScanOutcomes
    BY <1>13 DEF ScanOutcomes
  <2> QED BY <1>2, <1>7, <2>1, ScanStays
<1>15. scan = g[m]
  BY <1>3, <1>7, <1>13, <1>14 DEF UnlessUnreadable, ScanOutcomes
<1> QED BY <1>13, <1>14, <1>15 DEF scan, d, probe

(* One of the assumptions is true of any state that the one pass is in.    *)
LEMMA AssumptionFits ==
  ASSUME NEW c, ValidDialect(c), NEW w, NEW first, NEW i, NEW t \in InteriorStates,
         Tells(c, w, first, t, i)
  PROVE  \E q \in DOMAIN AssumptionsForConfig(c) :
           /\ AssumptionsForConfig(c)[q] \in Assumptions
           /\ Tracks(AssumptionToState(c, AssumptionsForConfig(c)[q]), t)
<1> DEFINE s == AssumptionsForConfig(c)
<1>1. 1 \in DOMAIN s /\ s[1] = "OutOfQuotes"
  BY DEF AssumptionsForConfig
<1>2. AssumptionToState(c, "OutOfQuotes") = "FieldStart"
      /\ AssumptionToState(c, "InQuotes") = "InQuotedField"
  BY DEF AssumptionToState
<1>3. CASE t = "InQuotedField"
  <2>1. c.quote # NoByte
    BY <1>3 DEF Tells
  <2>2. 2 \in DOMAIN s /\ s[2] = "InQuotes"
    BY <2>1 DEF AssumptionsForConfig
  <2> HIDE DEF s
  <2>3. Tracks(AssumptionToState(c, s[2]), t) /\ s[2] \in Assumptions
    BY <1>2, <1>3, <2>2 DEF Tracks, Assumptions
  <2> QED BY <2>2, <2>3 DEF s
<1>4. CASE t = "InEscapedQuote"
  <2>1. c.quote # NoByte /\ c.escape # NoByte /\ ~DoubledQuotes(c)
    BY <1>4 DEF Tells
  <2>2. 3 \in DOMAIN s /\ s[3] = "InQuotesAfterEscape"
    BY <2>1 DEF AssumptionsForConfig
  <2>3. AssumptionToState(c, "InQuotesAfterEscape") = "InEscapedQuote"
    BY <2>1 DEF AssumptionToState
  <2> HIDE DEF s
  <2>4. Tracks(AssumptionToState(c, s[3]), t) /\ s[3] \in Assumptions
    BY <1>4, <2>2, <2>3 DEF Tracks, Assumptions
  <2> QED BY <2>2, <2>4 DEF s
<1>5. CASE t \notin {"InQuotedField", "InEscapedQuote"}
  <2> HIDE DEF s
  <2>1. Tracks("FieldStart", t)
    BY <1>5 DEF Tracks, InteriorStates
  <2>2. Tracks(AssumptionToState(c, s[1]), t) /\ s[1] \in Assumptions
    BY <1>1, <1>2, <2>1 DEF Assumptions
  <2> QED BY <1>1, <2>2 DEF s
<1> QED BY <1>3, <1>4, <1>5

LEMMA CommentsAreQuiet ==
  ASSUME NEW j \in Jobs, Starts(j), LineComments(j), PlainComments(j)
  PROVE  QuietComments(j.config, Whole(j), First(j), TheRun(j))
<1> DEFINE c == j.config
           w == Whole(j)
           first == First(j)
           f == TheRun(j)
           E == ReadableEnd(w)
           size == FileSize(j)
<1>1. WholeRun(c, w, first, f) /\ ValidDialect(c)
  BY StreamIs, JobIs
<1>2. /\ E \in Nat /\ size \in Nat /\ E <= size
      /\ \A k \in 0..(size - 1) : ByteAt(w, k) = j.file[k + 1]
  BY WholeReader, JobIs
<1>3. first \in Nat
  BY <1>1, WholeIs
<1>4. DOMAIN j.file = 1..size
  BY JobIs DEF FileSize
<1>5. \A k \in first..E : ~f[k].done => Tells(c, w, first, f[k].state, k)
  BY <1>1, RunTells
<1>6. c.comment # NoByte => Terminators(c) = CommentEnds(c)
  <2>1. LineEnds(c)
    BY DEF LineComments, LineEnds
  <2> HIDE DEF c
  <2> QED BY <2>1, EndsAreSame
<1>7. \A from, to \in DOMAIN j.file :
        from < to /\ j.file[from] = c.comment /\ j.file[to] = c.quote
          => \E end \in from..to : j.file[end] \in CommentEnds(c)
  BY DEF PlainComments
<1> HIDE DEF w, first, f, c, size, E
<1>8. ASSUME NEW i \in first..(E - 1), ~f[i].done, f[i].state = "InComment"
      PROVE  c.comment # NoByte /\ ByteAt(w, i) # c.quote
  <2>1. /\ i \in first..E /\ i \in Nat /\ i < size /\ i \in 0..(size - 1) /\ i + 1 \in 1..size
        /\ size \in Nat
    BY <1>2, <1>3
  <2>2. c.comment # NoByte /\ CommentSince(c, w, first, i)
    BY <1>5, <1>8, <2>1 DEF Tells
  <2>3. PICK from \in first..(i - 1) :
          /\ ByteAt(w, from) = c.comment
          /\ \A k \in (from + 1)..(i - 1) : ByteAt(w, k) \notin CommentEnds(c)
    BY <2>2 DEF CommentSince
  <2>4. /\ from \in Nat /\ from \in 0..(size - 1) /\ from + 1 \in 1..size /\ from + 1 < i + 1
    BY <1>3, <2>1
  <2>5. j.file[from + 1] = c.comment /\ j.file[i + 1] = ByteAt(w, i)
    BY <1>2, <2>1, <2>3, <2>4
  <2>6. ByteAt(w, i) # NoByte
    <3>1. GoodReader(c, w) /\ i \in 0..(E - 1)
      BY <1>1, <1>2, <2>1, WholeIs DEF E
    <3> QED BY <3>1, ReaderIs DEF E
  <2>7. ASSUME ByteAt(w, i) = c.quote  PROVE FALSE
    <3>1. PICK end \in (from + 1)..(i + 1) : j.file[end] \in CommentEnds(c)
      <4>1. from + 1 \in DOMAIN j.file /\ i + 1 \in DOMAIN j.file
        BY <1>4, <2>1, <2>4
      <4> QED BY <1>7, <2>4, <2>5, <2>7, <4>1
    <3>2. c.comment \notin Terminators(c) /\ c.quote \notin Terminators(c)
      <4>1. c.quote # NoByte
        BY <2>6, <2>7
      <4> QED BY <1>1, <2>2, <4>1 DEF ValidDialect
    <3>3. end # from + 1 /\ end # i + 1
      BY <1>6, <2>2, <2>5, <2>7, <3>1, <3>2
    <3>4. end - 1 \in (from + 1)..(i - 1) /\ end - 1 \in 0..(size - 1) /\ (end - 1) + 1 = end
      BY <2>1, <2>4, <3>1, <3>3
    <3>5. ByteAt(w, end - 1) = j.file[end]
      BY <1>2, <3>4
    <3> QED BY <2>3, <3>1, <3>4, <3>5
  <2> QED BY <2>2, <2>7
<1> QED BY <1>8 DEF QuietComments, w, first, f, c, E

(* A pass whose search found a boundary is kept.                           *)
LEMMA BoundaryIsKept ==
  ASSUME NEW j \in Jobs, NEW idx \in Chunks(j), idx # 0,
         NEW q \in DOMAIN AssumptionsForConfig(j.config),
         HasBoundary(Parse(j.config, ReaderOf(j, idx), AssumptionsForConfig(j.config)[q], "Strict"))
  PROVE  ProcessChunk(j, idx).passes # <<>>
<1> DEFINE c == j.config
           r == ReaderOf(j, idx)
           start == StartOf(j, idx)
           find == "Strict"
           assumptions == AssumptionsForConfig(c)
           R == EachAssumption(j, r, find)
           tried == UpToSuccess(R)
           kept == Kept(tried)
           n == Len(tried)
           out == TryChunk(j, idx, find)
<1>1. out = TryOutcome(start, tried)
  <2>1. out = The({TryOutcome(start, UpToSuccess(x)) : x \in {R}})
    BY DEF TryChunk, TryAssumptions, ReaderOf, StartOf, StopOf
  <2>2. {TryOutcome(start, UpToSuccess(x)) : x \in {R}} = {TryOutcome(start, tried)}
    OBVIOUS
  <2> QED BY <2>1, <2>2, TheOneIs
<1>2. PICK m \in Nat : m > 0 /\ DOMAIN assumptions = 1..m
  BY AssumptionsAre
<1>3. R = [k \in 1..m |-> Parse(c, r, assumptions[k], find)]
  <2>1. R = [k \in DOMAIN assumptions |-> Parse(c, r, assumptions[k], find)]
    BY DEF EachAssumption
  <2> QED BY <1>2, <2>1
<1>4. q \in 1..m /\ HasBoundary(R[q])
  <2>1. HasBoundary(Parse(c, r, assumptions[q], find)) /\ q \in DOMAIN assumptions
    OBVIOUS
  <2> HIDE DEF c, r, assumptions, R, find
  <2> QED BY <1>2, <1>3, <2>1
<1> HIDE DEF c, r, start, assumptions, R
<1>5. TriedOf(R, m, tried)
  <2>1. R \in [1..m -> {R[k] : k \in 1..m}]
    BY <1>3
  <2> QED BY <1>2, <2>1, UpToSuccessIs
<1> HIDE DEF tried
<1>6. /\ n \in 1..m /\ \A k \in 1..n : tried[k] = R[k]
      /\ n # m => Succeeded(tried[n])
  BY <1>5 DEF TriedOf
<1> HIDE DEF n
<1>7. \E k \in 1..n : HasBoundary(tried[k])
  <2>1. CASE q <= n
    <3>1. q \in 1..n
      BY <1>4, <1>6, <2>1
    <3> QED BY <1>4, <1>6, <3>1
  <2>2. CASE ~(q <= n)
    <3>1. n # m /\ n \in 1..n
      BY <1>4, <1>6, <2>2
    <3>2. HasBoundary(tried[n])
      BY <1>6, <3>1 DEF Succeeded, HasBoundary
    <3> QED BY <3>1, <3>2
  <2> QED BY <2>1, <2>2
<1>8. kept \in Seq(KeptFrom(tried)) /\ kept # <<>>
  <2>1. Len(tried) \in Nat /\ \E k \in 1..Len(tried) : HasBoundary(tried[k])
    BY <1>6, <1>7 DEF n
  <2> QED BY <2>1, KeptIs
<1> HIDE DEF kept
<1>9. /\ out.outcome = "Resolved"
      /\ out.output.passes = [k \in DOMAIN kept |-> ResolvedPass(kept[k], start)]
  BY <1>1, <1>8 DEF TryOutcome, ChunkOutput, kept
<1>10. out.output.passes # <<>>
  <2>1. 1 \in DOMAIN kept
    BY <1>8
  <2>2. 1 \in DOMAIN out.output.passes
    BY <1>9, <2>1
  <2>3. DOMAIN <<>> = {}
    OBVIOUS
  <2> HIDE DEF out
  <2> QED BY <2>2, <2>3
<1>11. ProcessChunk(j, idx) = out.output
  <2>1. FindMode(j, idx) = find
    BY DEF FindMode
  <2>2. ProcessChunk(j, idx) = RetryIfAllFailed(j, idx, out)
    BY <2>1 DEF ProcessChunk
  <2> HIDE DEF out
  <2> QED BY <1>9, <2>2 DEF RetryIfAllFailed
<1> QED BY <1>10, <1>11

-----------------------------------------------------------------------------
(* Nothing is missed.  A job whose chunks can be parsed apart: no byte of  *)
(* the one pass is one that a search would reject or lose its way at.      *)
Apart(j) ==
  /\ Chunkable(j) /\ PlainComments(j)
  /\ Starts(j) => Untagged(j.config, Whole(j), First(j), TheRun(j))

(* A chunk that holds the boundary the next record starts after has passes.*)
LEMMA BoundaryIsFound ==
  ASSUME NEW j \in Jobs, Starts(j), Apart(j), NEW idx \in Chunks(j), idx # 0,
         NEW n \in Nat, StartOf(j, idx) <= n, n < StopOf(j, idx), n < ReadableEnd(Whole(j)),
         ByteAt(Whole(j), n) \in Terminators(j.config), NEW records, At(j, n, records)
  PROVE  ProcessChunk(j, idx).passes # <<>>
<1> DEFINE c == j.config
           w == Whole(j)
           first == First(j)
           f == TheRun(j)
           E == ReadableEnd(w)
           r == ReaderOf(j, idx)
           a == StartOf(j, idx)
           assumptions == AssumptionsForConfig(c)
<1>1. WholeRun(c, w, first, f) /\ c \in Dialects /\ ValidDialect(c)
  BY StreamIs, JobIs
<1>2. /\ GoodReader(c, w) /\ E \in Nat /\ E < w.limit /\ first \in Nat /\ first <= E
      /\ \A k \in first..E : f[k] \in Steppers
  BY <1>1, WholeIs
<1>3. /\ a \in Nat /\ StopOf(j, idx) \in Nat /\ a <= StopOf(j, idx) /\ idx \in Nat
  BY ChunkBounds
<1>4. GoodReader(c, r) /\ r.limit = StopOf(j, idx) - a
  BY ReaderOfIs
<1>5. first <= a
  <2>1. first <= j.chunk_size /\ j.chunk_size \in Nat
    BY FirstIs, JobIs
  <2>2. 1 \in Nat /\ 1 <= idx
    BY <1>3
  <2>3. 1 * j.chunk_size <= a
    BY <1>3, <2>1, <2>2, TimesGrows DEF StartOf
  <2> HIDE DEF a, first
  <2> QED BY <1>2, <1>3, <2>1, <2>3
<1>6. PartOf(c, r, w, a)
  <2>1. a <= ReadableEnd(Whole(j))
    BY <1>2, <1>3
  <2> QED BY <1>3, <2>1, ChunkIsPart DEF ReaderOf
<1>7. LineEnds(c) /\ Untagged(c, w, first, f) /\ QuietComments(c, w, first, f)
  <2>1. LineComments(j) /\ PlainComments(j) /\ Untagged(c, w, first, f)
    BY DEF Apart, Chunkable
  <2>2. QuietComments(c, w, first, f)
    BY <2>1, CommentsAreQuiet
  <2> QED BY <2>1, <2>2 DEF LineComments, LineEnds
<1>8. a <= n /\ n - a < r.limit /\ n < E /\ ByteAt(w, n) \in Terminators(c)
  BY <1>3, <1>4
<1>9. Boundary(c, w, first, f, n, records)
  BY DEF At
<1> HIDE DEF c, w, first, f, E, r, a
<1>10. n + 1 \in first..E /\ n \in first..E /\ n \in n..(n + 1) /\ n + 1 \in n..E /\ a \in first..(n + 1)
       /\ a \in first..E
  BY <1>2, <1>3, <1>5, <1>8
<1>11. RestsAt(f, n + 1, records)
  <2>1. RestsAt(f, n, records) \/ RestsAt(f, n + 1, records)
    BY <1>2, <1>8, <1>9 DEF Boundary, E
  <2>2. ASSUME RestsAt(f, n, records)  PROVE RestsAt(f, n + 1, records)
    <3>1. \A k \in n..((n + 1) - 1) : ByteAt(w, k) \in Terminators(c)
      BY <1>8
    <3>2. \A k \in n..(n + 1) : RestsAt(f, k, records)
      <4>1. first <= ReadableEnd(w) /\ RunsFrom(f, c, w, first, ReadableEnd(w))
        BY <1>1, WholeIs
      <4> QED BY <1>2, <1>10, <2>2, <3>1, <4>1, RestsOn DEF E
    <3>3. n + 1 \in n..(n + 1)
      OBVIOUS
    <3> QED BY <3>2, <3>3
  <2> QED BY <2>1, <2>2
<1>12. StartsAfter(c, w, f, n) /\ ~f[n + 1].done
  BY <1>8, <1>11 DEF StartsAfter, RestsAt, AtRest, E
<1>13. ~f[a].done
  BY <1>1, <1>10, <1>12, WentOn DEF E
<1> DEFINE t == f[a].state
<1>14. t \in InteriorStates /\ Tells(c, w, first, t, a)
  <2>1. f[a] \in Steppers
    BY <1>2, <1>10
  <2>2. t \in InteriorStates
    BY <2>1, StepperTypes
  <2>3. Tells(c, w, first, f[a].state, a)
    BY <1>1, <1>10, <1>13, RunTells DEF E
  <2> QED BY <2>2, <2>3
<1>15. PICK q \in DOMAIN assumptions :
         assumptions[q] \in Assumptions /\ Tracks(AssumptionToState(c, assumptions[q]), t)
  BY <1>1, <1>14, AssumptionFits
<1> DEFINE assumption == assumptions[q]
           z == AssumptionToState(c, assumption)
           scan == Scan(c, r, assumption, "Strict")
           pr == Parse(c, r, assumption, "Strict")
<1>16. scan = FindRecordStartFrom(FindDfa(c), TRUE, r, z)
  BY DEF Scan, ScanRecordStart
<1>17. pr = ParseScanned(c, r, scan)
  BY DEF Parse
<1>18. assumption \in Assumptions /\ Tracks(z, f[a].state)
  BY <1>15
<1> HIDE DEF t, z, assumption, assumptions, scan
<1>19. scan.state = "RecordEnd"
  <2>1. first <= a /\ a <= n /\ n - a < r.limit
    BY <1>5, <1>8
  <2> QED BY <1>1, <1>6, <1>7, <1>12, <1>16, <1>18, <2>1, SearchEnds
<1>20. scan.at \in Nat /\ scan.at <= ReadableEnd(r)
  <2>1. "Strict" \in FindModes /\ "Strict" # "No"
    BY DEF FindModes
  <2>2. Found(c, r, scan)
    BY <1>1, <1>4, <1>18, <2>1, ScanIsFound DEF scan
  <2>3. ReadableEnd(r) \in Nat
    BY <1>4, ReaderIs
  <2> QED BY <1>19, <2>2, <2>3 DEF Found, ScanOutcomes
<1>21. pr = ParseFromBoundary(c, r, scan.at)
  BY <1>17, <1>19 DEF ParseScanned
<1> HIDE DEF pr
<1>22. HasBoundary(pr)
  <2>1. pr.record_start = scan.at
    BY <1>4, <1>20, <1>21, BoundaryParseIs
  <2>2. NoOffset \notin Nat
    BY ErrorsAre
  <2> QED BY <1>20, <2>1, <2>2 DEF HasBoundary
<1>23. q \in DOMAIN AssumptionsForConfig(j.config)
       /\ HasBoundary(Parse(j.config, ReaderOf(j, idx), AssumptionsForConfig(j.config)[q], "Strict"))
  BY <1>22 DEF pr, assumption, assumptions, c, r
<1> QED BY <1>23, BoundaryIsKept

(* The boundary that is known is in the file and at a terminator, in a     *)
(* chunk that is still to come, or every record is merged.                 *)
Caught ==
  Apart(job) /\ Starts(job) /\ next_record # NoOffset =>
    Ahead(job, StartOf(job, chunk), next_record, Merging)

LEMMA CaughtInit ==
  ASSUME Init
  PROVE  Caught
BY DEF Init, Caught

LEMMA CaughtOnPush ==
  ASSUME Typing, AtChunk, NEW base, NEW pass, NEW end,
         GoodPass(job, base, ChunkEnd, Merging, pass, end), Push(pass, end)
  PROVE  Caught'
<1>1. /\ states' = Append(states, pass.records) /\ next_record' = end /\ chunk' = chunk + 1
      /\ job' = job /\ pass.error = NoError
  BY DEF Push, NextChunk
<1>2. pass.records \in Seq(Records)
  BY DEF GoodPass
<1>3. end # NoOffset => Ahead(job, ChunkEnd, end, Merging \o pass.records)
  BY <1>1 DEF GoodPass
<1>4. Merging' = Merging \o pass.records
  <2>1. FlattenSeq(Append(states, pass.records)) = Merging \o pass.records
    BY <1>2, MergingIs DEF Typing
  <2>2. Merging' = FlattenSeq(states')
    BY DEF Merging
  <2> QED BY <1>1, <2>1, <2>2
<1>5. ChunkEnd = StartOf(job, chunk + 1)
  BY OutputIs DEF StartOf
<1>6. next_record' # NoOffset => Ahead(job', StartOf(job', chunk'), next_record', Merging')
  BY <1>1, <1>3, <1>4, <1>5
<1> QED BY <1>6 DEF Caught

LEMMA CaughtOnSkip ==
  ASSUME Typing, Sound, Caught, Skip
  PROVE  Caught'
<1>1. /\ chunk' = chunk + 1 /\ job' = job /\ results' = results
      /\ next_record' = next_record /\ states' = states
      /\ AtChunk /\ (BeginsLater \/ Output.passes = <<>>)
  BY DEF Skip, NextChunk
<1>2. /\ job \in Jobs /\ chunk \in Chunks(job) /\ chunk \in Nat
      /\ ChunkPasses(job, chunk, Output) /\ ChunkEnd = StartOf(job, chunk + 1)
  BY <1>1, OutputIs DEF StartOf
<1>3. Merging' = Merging
  BY <1>1 DEF Merging
<1> DEFINE n == next_record
           w == Whole(job)
           E == ReadableEnd(w)
<1>4. ASSUME Apart(job), Starts(job), n # NoOffset
      PROVE  Ahead(job, StartOf(job, chunk + 1), n, Merging)
  <2>1. Ahead(job, StartOf(job, chunk), n, Merging)
    BY <1>4 DEF Caught
  <2>2. n \in Nat /\ At(job, n, Merging)
    <3>1. Chunkable(job)
      BY <1>4 DEF Apart
    <3>2. Known(job, chunk, n, Merging)
      BY <1>4, <3>1 DEF Sound, Reached
    <3> QED BY <1>4, <3>2 DEF Known
  <2>3. CASE AllRead(job.config, w, TheRun(job), Merging)
    BY <2>3 DEF Ahead
  <2>4. CASE ~AllRead(job.config, w, TheRun(job), Merging)
    <3>1. n >= StartOf(job, chunk) /\ n < E /\ ByteAt(w, n) \in Terminators(job.config)
      BY <2>1, <2>4 DEF Ahead
    <3>2. /\ StartOf(job, chunk) \in Nat /\ StopOf(job, chunk) \in Nat /\ FileSize(job) \in Nat
          /\ job.chunk_size \in Nat
          /\ StopOf(job, chunk) = Min({StartOf(job, chunk) + job.chunk_size, FileSize(job)})
          /\ ChunkEnd = StartOf(job, chunk) + job.chunk_size
      BY <1>2, ChunkBounds, JobIs DEF StopOf, StartOf
    <3>3. E \in Nat /\ E <= FileSize(job)
      BY <1>2, WholeReader
    <3> HIDE DEF E
    <3>4. n >= ChunkEnd
      <4>1. CASE BeginsLater
        BY <2>2, <3>2, <4>1 DEF BeginsLater
      <4>2. CASE Output.passes = <<>>
        <5>1. chunk # 0
          BY <1>2, <1>4, <4>2, HeadedIs
        <5>2. Output = ProcessChunk(job, chunk)
          BY <1>2 DEF Typing, Slots, Output
        <5>3. ~(n < StopOf(job, chunk))
          <6>1. StartOf(job, chunk) <= n /\ n < ReadableEnd(Whole(job))
                /\ ByteAt(Whole(job), n) \in Terminators(job.config)
            BY <2>2, <3>1, <3>2 DEF E
          <6> HIDE DEF w, n
          <6> QED BY <1>2, <1>4, <2>2, <4>2, <5>1, <5>2, <6>1, BoundaryIsFound
        <5>4. StopOf(job, chunk) = IF StartOf(job, chunk) + job.chunk_size <= FileSize(job)
                                   THEN StartOf(job, chunk) + job.chunk_size ELSE FileSize(job)
          <6>1. StartOf(job, chunk) + job.chunk_size \in Nat
            BY <3>2
          <6> QED BY <3>2, <6>1, MinOfTwo
        <5> QED BY <2>2, <3>1, <3>2, <3>3, <5>3, <5>4
      <4> QED BY <1>1, <4>1, <4>2
    <3> QED BY <1>2, <3>1, <3>4 DEF Ahead, E
  <2> QED BY <2>3, <2>4
<1>5. Apart(job') /\ Starts(job') /\ next_record' # NoOffset =>
        Ahead(job', StartOf(job', chunk'), next_record', Merging')
  BY <1>1, <1>3, <1>4
<1> QED BY <1>5 DEF Caught

LEMMA CaughtStep ==
  ASSUME Typing, Sound, Caught, [Next]_vars
  PROVE  Caught'
<1>1. CASE Skip
  BY <1>1, CaughtOnSkip
<1>2. ASSUME UNCHANGED <<job, chunk, next_record, states>>  PROVE Caught'
  BY <1>2 DEF Caught, Merging
<1>3. CASE Select \/ Reparse
  <2>1. job' = job
    BY <1>3 DEF Select, Reparse, Push, Abort, NextChunk
  <2>2. CASE ~Chunkable(job)
    <3>1. ~Chunkable(job)'
      BY <2>1, <2>2
    <3> QED BY <3>1 DEF Caught, Apart
  <2>3. CASE Chunkable(job)
    <3>1. AtChunk /\ \E base, pass, end : Chosen(base, pass, end)
      BY <1>3, <2>3, SelectChooses, ReparseChooses
    <3>2. PICK base, pass, end : Chosen(base, pass, end)
      BY <3>1
    <3>3. CASE Push(pass, end)
      BY <3>1, <3>2, <3>3, CaughtOnPush DEF Chosen
    <3>4. CASE Abort(pass.error)
      BY <1>2, <3>4 DEF Abort
    <3> QED BY <3>2, <3>3, <3>4 DEF Chosen
  <2> QED BY <2>2, <2>3
<1>4. CASE ReparseCannotOpen
  BY <1>2, <1>4 DEF ReparseCannotOpen, Abort
<1>5. CASE Finish
  BY <1>2, <1>5 DEF Finish
<1>6. CASE UNCHANGED vars
  BY <1>2, <1>6 DEF vars
<1> QED BY <1>1, <1>3, <1>4, <1>5, <1>6 DEF Next

-----------------------------------------------------------------------------
(* The end of the walk.  The chunks reach to the end of the file.          *)
LEMMA ChunksCover ==
  ASSUME NEW j \in Jobs
  PROVE  /\ StartOf(j, CountOfChunks(j)) \in Nat
         /\ FileSize(j) <= StartOf(j, CountOfChunks(j))
         /\ CountOfChunks(j) = 0 => FileSize(j) = 0
<1> DEFINE a == FileSize(j)
           c == j.chunk_size
           q == (a + c - 1) \div c
<1>1. a \in Nat /\ c \in Nat /\ c > 0
  BY JobIs
<1>2. q \in Nat /\ CountOfChunks(j) = q
  BY CountIs DEF CountOfChunks
<1> HIDE DEF a, c
<1>3. a + c - 1 < q * c + c
  BY <1>1
<1>4. StartOf(j, q) = q * c
  BY DEF StartOf, c
<1> HIDE DEF q
<1>5. q * c \in Nat /\ 0 * c = 0
  BY <1>1, <1>2
<1> DEFINE x == q * c
<1>6. x \in Nat /\ a + c - 1 < x + c
  BY <1>3, <1>5
<1>7. q = 0 => x = 0
  BY <1>5
<1> HIDE DEF x
<1>8. a <= x
  BY <1>1, <1>6
<1>9. q = 0 => a = 0
  BY <1>1, <1>7, <1>8
<1> QED BY <1>2, <1>4, <1>6, <1>8, <1>9 DEF x, a

(* A file that is all header row has no records and no error.              *)
LEMMA HeadlessStream ==
  ASSUME NEW j \in Jobs, HeaderFits(j), ~Starts(j)
  PROVE  RunStream(j).records = <<>> /\ RunStream(j).error = NoError
<1> DEFINE c == j.config
           h == Heading(j)
           w == Whole(j)
           s == ScanHeaderEnd(c, h)
           t == ScanHeaderEnd(c, w)
           E == ReadableEnd(w)
           nh == BufEnd(h)
           nw == BufEnd(w)
           strict == FALSE
           th == ScanTo(c, strict, h, "RecordStart", nh)
           tw == ScanTo(c, strict, w, "RecordStart", nw)
<1>1. /\ c.has_headers /\ HeaderScan(j) = s
      /\ s.state \notin {"RecordEnd", "Error", "IoError"} /\ j.chunk_size >= FileSize(j)
  BY DEF HeaderFits, Starts, HeaderScan, Heading
<1>2. GoodReader(c, h) /\ GoodReader(c, w) /\ h.bytes = w.bytes /\ nh <= nw
  BY HeadReaders
<1>3. h.bad = w.bad /\ h.limit = j.chunk_size /\ ValidDialect(c)
  <2>1. h.limit = j.chunk_size - 0 /\ j.chunk_size \in Nat
    BY JobIs DEF Heading, ChunkReader
  <2>2. h.bad = w.bad
    BY DEF Heading, Whole, ChunkReader
  <2> QED BY <2>1, <2>2, JobIs
<1>4. E \in Nat /\ E <= FileSize(j) /\ E < w.limit /\ FileSize(j) \in Nat /\ j.chunk_size \in Nat
  BY WholeReader, JobIs
<1>5. ReadableEnd(h) = E
  <2>1. EofOf(h) = EofOf(w)
    BY <1>2 DEF EofOf
  <2> QED BY <1>3, <2>1 DEF ReadableEnd
<1>6. nh = (IF h.limit <= ReadableEnd(h) THEN h.limit ELSE ReadableEnd(h))
  BY <1>2, BufEndIs
<1>7. nw = (IF w.limit <= E THEN w.limit ELSE E) /\ w.limit \in Nat
  BY <1>2, BufEndIs
<1>8. /\ s = UnlessUnreadable(h, nh, th)
      /\ t = UnlessUnreadable(w, nw, tw)
  BY DEF ScanHeaderEnd, FindRecordStartFrom, BufEnd
<1>9. RunStream(j) = ParseScanned(c, w, t)
  <2>1. Scan(c, w, "OutOfQuotes", FindMode(j, 0)) = t
    BY <1>1 DEF Scan, FindMode
  <2> HIDE DEF t, c
  <2> QED BY <2>1 DEF RunStream, Parse, Whole, c
<1>10. "RecordStart" \in InteriorStates
  BY DEF InteriorStates
<1>11. Found(c, w, t)
  BY <1>2, <1>3, <1>10, ScanFinds DEF ScanHeaderEnd
<1> HIDE DEF h, w, c, s, t, E, nh, nw, th, tw, strict
<1>12. nh = nw
  BY <1>1, <1>3, <1>4, <1>5, <1>6, <1>7
<1>13. t.state \notin ScanOutcomes
  <2>1. ASSUME t.state \in ScanOutcomes  PROVE FALSE
    <3>1. nw <= nh
      BY <1>4, <1>7, <1>12
    <3>2. w.bytes = h.bytes
      BY <1>2
    <3>3. BufEnd(w) <= BufEnd(h) /\ ScanHeaderEnd(c, w).state \in ScanOutcomes
      BY <2>1, <3>1 DEF nh, nw, t
    <3>4. ScanHeaderEnd(c, h) = ScanHeaderEnd(c, w)
      BY <1>2, <3>2, <3>3, SameScan
    <3> QED BY <1>1, <2>1, <3>4 DEF s, t, ScanOutcomes
  <2> QED BY <2>1
<1>14. t.state # "IoError"
  <2>1. ASSUME t.state = "IoError"  PROVE FALSE
    <3>1. CASE nh = h.bad
      <4>1. s = th /\ th.state \in ScanOutcomes
        <5>1. th.state \notin ScanOutcomes => s = [state |-> "IoError", at |-> nh]
          BY <1>8, <3>1 DEF UnlessUnreadable
        <5>2. th.state \in ScanOutcomes => s = th
          BY <1>8 DEF UnlessUnreadable
        <5> QED BY <1>1, <5>1, <5>2
      <4> QED BY <1>1, <4>1 DEF ScanOutcomes
    <3>2. CASE nh # h.bad
      <4>1. t = tw
        BY <1>3, <1>8, <1>12, <3>2 DEF UnlessUnreadable
      <4>2. tw.state \in InteriorStates \cup ScanOutcomes
        <5>1. nw \in Nat /\ nw \in 0..nw
          BY <1>4, <1>7
        <5>2. LET f == CHOOSE g : ScanRunOf(g, c, strict, w, "RecordStart", nw)
              IN  ScanRunOf(f, c, strict, w, "RecordStart", nw) /\ tw = f[nw]
          BY <5>1, ScanToIs DEF tw
        <5>3. PICK f : ScanRunOf(f, c, strict, w, "RecordStart", nw) /\ tw = f[nw]
          BY <5>2
        <5>4. GoodScan(c, w, f[nw], nw)
          BY <1>3, <1>10, <5>1, <5>3, ScanRunGood
        <5> QED BY <5>3, <5>4 DEF GoodScan
      <4>3. "IoError" \notin InteriorStates \cup ScanOutcomes
        BY DEF InteriorStates, ScanOutcomes
      <4> QED BY <2>1, <4>1, <4>2, <4>3
    <3> QED BY <3>1, <3>2
  <2> QED BY <2>1
<1>15. t.state \notin {"RecordEnd", "Error", "IoError"}
  BY <1>13, <1>14 DEF ScanOutcomes
<1>16. RunStream(j) = NoRecord
  BY <1>9, <1>15 DEF ParseScanned
<1> QED BY <1>16 DEF NoRecord, PassResult

(* An empty file has no records, and an error only if it cannot be read.   *)
LEMMA EmptyStream ==
  ASSUME NEW j \in Jobs, Starts(j), FileSize(j) = 0
  PROVE  RunStream(j).records = <<>> /\ (RunStream(j).error = NoError \/ j.bad = 0)
<1> DEFINE c == j.config
           w == Whole(j)
           first == First(j)
           f == TheRun(j)
           E == ReadableEnd(w)
           T == RunStream(j)
<1>1. WholeRun(c, w, first, f) /\ Truth(c, w, first, f, T)
  BY StreamIs
<1>2. E \in Nat /\ E <= 0 /\ w.bad = j.bad
  BY WholeReader
<1>3. first \in Nat /\ first <= E /\ RunsFrom(f, c, w, first, E)
  BY <1>1, WholeIs
<1> HIDE DEF c, w, first, f, E, T
<1>4. E = 0 /\ first = 0
  BY <1>2, <1>3
<1>5. f[E] = NewStepper(0)
  BY <1>3, <1>4 DEF RunsFrom
<1> DEFINE s == NewStepper(0)
<1>6. s.state = "RecordStart" /\ s.records = <<>> /\ s.error = NoError
  BY StartIs
<1> HIDE DEF s
<1>7. Finalize(c, w, s) = s
  BY <1>6 DEF Finalize
<1>8. Final(c, w, f) = s
  BY <1>5, <1>7 DEF Final, E, s
<1>9. E # w.bad => ~CutOff(w, SkipEmptyLines(c, w, first).at, f[E])
  BY DEF CutOff, E
<1>10. T.records = <<>> /\ (E # w.bad => T.error = NoError)
  BY <1>1, <1>6, <1>8, <1>9 DEF Truth, E
<1> QED BY <1>2, <1>4, <1>10 DEF T

(* Every record is merged, and there is no error but the one of an empty   *)
(* file, which is not read: it has no chunks.                              *)
AllMerged(j, records) ==
  /\ records = RunStream(j).records
  /\ RunStream(j).error = NoError \/ (FileSize(j) = 0 /\ j.bad = 0)

LEMMA ReadIsMerged ==
  ASSUME NEW j \in Jobs, Starts(j), NEW records,
         AllRead(j.config, Whole(j), TheRun(j), records)
  PROVE  AllMerged(j, records)
<1> DEFINE c == j.config
           w == Whole(j)
           first == First(j)
           f == TheRun(j)
           T == RunStream(j)
<1>1. Truth(c, w, first, f, T)
  BY StreamIs
<1> HIDE DEF c, w, first, f, T
<1>2. /\ ReadableEnd(w) # w.bad
      /\ Final(c, w, f).records = records /\ Final(c, w, f).error = NoError
  BY DEF AllRead, c, w, f
<1>3. ~CutOff(w, SkipEmptyLines(c, w, first).at, f[ReadableEnd(w)])
  BY <1>2 DEF CutOff
<1>4. T.records = records /\ T.error = NoError
  BY <1>1, <1>2, <1>3 DEF Truth
<1> QED BY <1>4 DEF AllMerged, T

LEMMA AllThere ==
  ASSUME Typing, Sound, Caught, Apart(job), chunk = CountOfChunks(job)
  PROVE  AllMerged(job, Merging)
<1> DEFINE n == next_record
           E == ReadableEnd(Whole(job))
<1>1. /\ job \in Jobs /\ (states = <<>> => Merging = <<>>)
  BY MergingIs DEF Typing, TypeOK
<1>2. Chunkable(job) /\ HeaderFits(job)
  BY DEF Apart, Chunkable
<1>3. Reached
  BY <1>2 DEF Sound
<1>4. CASE ~Starts(job)
  <2>1. Merging = <<>>
    BY <1>1, <1>3, <1>4 DEF Reached
  <2>2. RunStream(job).records = <<>> /\ RunStream(job).error = NoError
    BY <1>1, <1>2, <1>4, HeadlessStream
  <2> QED BY <2>1, <2>2 DEF AllMerged
<1>5. CASE Starts(job)
  <2>1. Known(job, chunk, n, Merging)
    BY <1>3, <1>5 DEF Reached
  <2>2. CASE chunk = 0 /\ n = NoOffset /\ Merging = <<>>
    <3>1. FileSize(job) = 0
      BY <1>1, <2>2, ChunksCover
    <3>2. RunStream(job).records = <<>> /\ (RunStream(job).error = NoError \/ job.bad = 0)
      BY <1>1, <1>5, <3>1, EmptyStream
    <3> QED BY <2>2, <3>1, <3>2 DEF AllMerged
  <2>3. CASE n \in Nat
    <3>1. n # NoOffset
      BY <2>3, ErrorsAre
    <3>2. Ahead(job, StartOf(job, chunk), n, Merging)
      BY <1>5, <3>1 DEF Caught
    <3>3. ~(n >= StartOf(job, chunk) /\ n < E)
      <4>1. /\ StartOf(job, chunk) \in Nat /\ FileSize(job) <= StartOf(job, chunk)
        BY <1>1, ChunksCover
      <4>2. E \in Nat /\ E <= FileSize(job) /\ FileSize(job) \in Nat
        BY <1>1, WholeReader, JobIs
      <4> HIDE DEF E
      <4> QED BY <2>3, <4>1, <4>2
    <3>4. AllRead(job.config, Whole(job), TheRun(job), Merging)
      BY <3>2, <3>3 DEF Ahead
    <3> QED BY <1>1, <1>5, <3>4, ReadIsMerged
  <2>4. CASE Still(job, StartOf(job, chunk), Merging)
    <3>1. AllRead(job.config, Whole(job), TheRun(job), Merging)
      BY <2>4 DEF Still, Quiet
    <3> QED BY <1>1, <1>5, <3>1, ReadIsMerged
  <2> QED BY <2>1, <2>2, <2>3, <2>4 DEF Known
<1> QED BY <1>4, <1>5

-----------------------------------------------------------------------------
(* A run that merges has walked every chunk.                               *)
AtEnd == outcome = Merged => chunk = CountOfChunks(job)

LEMMA AtEndStep ==
  ASSUME Typing, AtEnd, [Next]_vars
  PROVE  AtEnd'
<1>1. ASSUME NEW error, Abort(error), error # NoError => error.kind \in Kinds
      PROVE  AtEnd'
  <2>1. outcome' = error /\ error.kind \in Kinds
    BY <1>1 DEF Abort
  <2>2. Merged.kind \notin Kinds
    BY DEF Merged, Kinds
  <2> QED BY <2>1, <2>2 DEF AtEnd
<1>2. ASSUME AtChunk, outcome' = outcome  PROVE AtEnd'
  BY <1>2 DEF AtEnd, AtChunk, Running, Merged
<1>3. CASE Skip
  BY <1>2, <1>3 DEF Skip
<1>4. CASE Select
  <2>1. AtChunk
    BY <1>4 DEF Select
  <2>2. PICK k \in DOMAIN Output.passes :
          Push(Output.passes[k], Output.record_end) \/ Abort(Output.passes[k].error)
    BY <1>4 DEF Select
  <2>3. Output.passes[k].error # NoError => Output.passes[k].error.kind \in Kinds
    BY <2>1, OutputIs, PassTyped
  <2>4. CASE Push(Output.passes[k], Output.record_end)
    BY <1>2, <2>1, <2>4 DEF Push
  <2>5. CASE Abort(Output.passes[k].error)
    BY <1>1, <2>3, <2>5
  <2> QED BY <2>2, <2>4, <2>5
<1>5. CASE Reparse
  <2> DEFINE again == ReparseChunk(job, next_record, ChunkEnd)
             end == Shift(again.record_end, next_record)
  <2>1. Mismatch /\ (Push(again.pass, end) \/ Abort(again.pass.error))
    BY <1>5 DEF Reparse
  <2>2. AtChunk
    BY <2>1 DEF Mismatch
  <2>3. again.pass.error # NoError => again.pass.error.kind \in Kinds
    BY <2>1, ReparseTyped
  <2> HIDE DEF again, end
  <2>4. CASE Push(again.pass, end)
    BY <1>2, <2>2, <2>4 DEF Push
  <2>5. CASE Abort(again.pass.error)
    BY <1>1, <2>3, <2>5
  <2> QED BY <2>1, <2>4, <2>5
<1>6. CASE ReparseCannotOpen
  <2>1. Abort(IoError)
    BY <1>6 DEF ReparseCannotOpen
  <2>2. IoError.kind \in Kinds
    BY DEF IoError, Error, Kinds
  <2> QED BY <1>1, <2>1, <2>2
<1>7. CASE Finish
  BY <1>7 DEF Finish, AtEnd
<1>8. CASE UNCHANGED vars
  BY <1>8 DEF AtEnd, vars
<1> QED BY <1>3, <1>4, <1>5, <1>6, <1>7, <1>8 DEF Next

(* What the merge keeps.                                                   *)
Walk == Typing /\ Sound /\ Caught /\ AtEnd

LEMMA WalkInit ==
  ASSUME Init
  PROVE  Walk
<1>1. AtEnd
  BY DEF Init, AtEnd, Running, Merged
<1> QED BY <1>1, TypingInit, SoundInit, CaughtInit DEF Walk

LEMMA WalkStep ==
  ASSUME Walk, [Next]_vars
  PROVE  Walk'
BY TypingStep, SoundStep, CaughtStep, AtEndStep DEF Walk

LEMMA WalkIsComplete ==
  ASSUME Walk, HeaderFits(job)
  PROVE  WellQuotedIsComplete
<1> SUFFICES ASSUME outcome = Merged, WellQuoted  PROVE Merging = RunStream(job).records
  BY DEF WellQuotedIsComplete
<1>1. job \in Jobs /\ chunk = CountOfChunks(job)
  BY DEF Walk, Typing, TypeOK, AtEnd
<1>2. LineComments(job) /\ PlainComments(job) /\ Accepted(job)
  BY DEF WellQuoted, Accepted, StrictJob
<1>3. Starts(job) => Untagged(job.config, Whole(job), First(job), TheRun(job))
  BY <1>1, <1>2, WellQuotedIsUntagged
<1>4. Apart(job)
  BY <1>2, <1>3 DEF Apart, Chunkable
<1>5. AllMerged(job, Merging)
  BY <1>1, <1>4, AllThere DEF Walk
<1> QED BY <1>5 DEF AllMerged

(* With every quote where RFC 4180 allows one and none of them in a        *)
(* comment, a run that merges has every record of the one pass: the        *)
(* searches, the lenient retry and the reparse leave none out              *)
(* (collect_and_merge, merge.rs).                                          *)
THEOREM MergeLosesNothing == Spec => [](HeaderFits(job) => WellQuotedIsComplete)
<1>1. Init => Walk
  BY WalkInit
<1>2. Walk /\ [Next]_vars => Walk'
  BY WalkStep
<1>3. Walk => (HeaderFits(job) => WellQuotedIsComplete)
  BY WalkIsComplete
<1> QED BY <1>1, <1>2, <1>3, PTL DEF Spec

-----------------------------------------------------------------------------
(* The merge implements the one pass.                                      *)
LEMMA IsPrefixOf ==
  ASSUME NEW S, NEW s \in Seq(S), NEW t \in Seq(S), IsPrefix(s, t)
  PROVE  Len(s) <= Len(t) /\ s = SubSeq(t, 1, Len(s))
<1>1. Len(s) <= Len(t) /\ SubSeq(s, 1, Len(s)) = SubSeq(t, 1, Len(s))
  BY DEF IsPrefix
<1>2. SubSeq(s, 1, Len(s)) = s
  OBVIOUS
<1> QED BY <1>1, <1>2

(* What the input has to be: chunks of it can be parsed apart, the dialect *)
(* is Strict or has nothing to reject, the callback hands back no error    *)
(* with a place in it, and the file is not one that cannot be read at its  *)
(* first byte, which it does not have.                                     *)
Fit(j) ==
  /\ Chunkable(j) /\ PlainComments(j)
  /\ j.config.quote_handling = "Strict" \/ Accepted(j)
  /\ RunStream(j).error # HandedBack
  /\ j.file # <<>> \/ j.bad # 0

LEMMA FitIsApart ==
  ASSUME NEW j \in Jobs, Fit(j)
  PROVE  Apart(j)
<1>1. Chunkable(j) /\ PlainComments(j) /\ (j.config.quote_handling = "Strict" \/ Accepted(j))
  BY DEF Fit
<1>2. Starts(j) => Untagged(j.config, Whole(j), First(j), TheRun(j))
  BY <1>1, StrictIsUntagged, WellQuotedIsUntagged
<1> QED BY <1>1, <1>2 DEF Apart

LEMMA PushYields ==
  ASSUME Typing, AtChunk, Starts(job), NEW base, NEW pass, NEW end,
         GoodPass(job, base, ChunkEnd, Merging, pass, end), Push(pass, end)
  PROVE  [Sequential!Next]_(Sequential!vars)
<1> DEFINE all == Merging \o pass.records
           c == job.config
           w == Whole(job)
           first == First(job)
           f == TheRun(job)
           T == RunStream(job)
<1>1. /\ states' = Append(states, pass.records) /\ job' = job /\ outcome' = outcome
      /\ pass.error = NoError
  BY DEF Push, NextChunk
<1>2. /\ pass.records \in Seq(Records)
      /\ \/ At(job, end, all)
         \/ Still(job, ChunkEnd, all)
  BY <1>1 DEF GoodPass
<1>3. job \in Jobs /\ Merging \in Seq(Records)
  BY MergingIs DEF Typing, TypeOK
<1>4. Merging' = all
  <2>1. FlattenSeq(Append(states, pass.records)) = all
    BY <1>2, MergingIs DEF Typing
  <2>2. Merging' = FlattenSeq(states')
    BY DEF Merging
  <2> HIDE DEF all
  <2> QED BY <1>1, <2>1, <2>2
<1>5. WholeRun(c, w, first, f) /\ Truth(c, w, first, f, T)
  BY <1>3, StreamIs
<1>6. Boundary(c, w, first, f, end, all) \/ AllRead(c, w, f, all)
  BY <1>2 DEF At, Still, Quiet
<1> HIDE DEF c, w, first, f, T
<1>7. all \in Seq(Records) /\ T.records \in Seq(Records) /\ IsPrefix(all, T.records)
  <2> HIDE DEF all
  <2> QED BY <1>5, <1>6, BoundaryHolds
<1>8. /\ Len(all) = Len(Merging) + Len(pass.records) /\ Len(Merging) \in Nat
      /\ Len(pass.records) \in Nat
      /\ Len(pass.records) = 0 => all = Merging
  BY <1>2, <1>3
<1> HIDE DEF all
<1>9. Len(all) <= Len(T.records) /\ all = SubSeq(T.records, 1, Len(all)) /\ Len(T.records) \in Nat
  BY <1>7, IsPrefixOf
<1>10. outcome = Running
  BY DEF AtChunk
<1>11. CASE Len(pass.records) = 0
  <2>1. Merging' = Merging
    BY <1>4, <1>8, <1>11
  <2> QED BY <1>1, <2>1 DEF Sequential!vars
<1>12. CASE Len(pass.records) # 0
  <2>1. Len(all) \in (Len(Merging) + 1)..Len(T.records)
    BY <1>8, <1>9, <1>12
  <2>2. \E n \in (Len(Merging) + 1)..Len(RunStream(job).records) :
          Merging' = SubSeq(RunStream(job).records, 1, n)
    BY <1>4, <1>9, <2>1 DEF T
  <2>3. outcome = Sequential!Running
    BY <1>10 DEF Running, Sequential!Running, NoOffset
  <2>4. Sequential!Yield
    BY <1>1, <2>2, <2>3 DEF Sequential!Yield
  <2> QED BY <2>4 DEF Sequential!Next
<1> QED BY <1>11, <1>12

LEMMA AbortFails ==
  ASSUME outcome = Running, NEW error, Abort(error), error \in {RunStream(job).error, IoError}
  PROVE  Sequential!Next
<1>1. outcome' = error /\ error # NoError /\ job' = job /\ states' = states
  BY DEF Abort
<1>2. Merging' = Merging
  BY <1>1 DEF Merging
<1>3. outcome = Sequential!Running
  BY DEF Running, Sequential!Running, NoOffset
<1>4. Sequential!Fail
  BY <1>1, <1>2, <1>3 DEF Sequential!Fail
<1> QED BY <1>4 DEF Sequential!Next

LEMMA FinishCompletes ==
  ASSUME Walk, Fit(job), Finish
  PROVE  Sequential!Next
<1>1. /\ outcome = Running /\ chunk = CountOfChunks(job) /\ outcome' = Merged
      /\ job' = job /\ states' = states
  BY DEF Finish
<1>2. job \in Jobs /\ job.file \in Seq(STRING)
  BY JobIs DEF Walk, Typing, TypeOK
<1>3. AllMerged(job, Merging)
  BY <1>1, <1>2, FitIsApart, AllThere DEF Walk
<1>4. ~(FileSize(job) = 0 /\ job.bad = 0)
  <2>1. FileSize(job) = 0 => job.file = <<>>
    BY <1>2 DEF FileSize
  <2> QED BY <2>1 DEF Fit
<1>5. Merging = RunStream(job).records /\ RunStream(job).error = NoError
  BY <1>3, <1>4 DEF AllMerged
<1>6. Merging' = Merging
  BY <1>1 DEF Merging
<1>7. outcome = Sequential!Running /\ outcome' = Sequential!Merged
  BY <1>1 DEF Running, Merged, Sequential!Running, Sequential!Merged, NoOffset
<1>8. Sequential!Complete
  BY <1>1, <1>5, <1>6, <1>7 DEF Sequential!Complete
<1> QED BY <1>8 DEF Sequential!Next

LEMMA StepIsOnePass ==
  ASSUME Walk, Fit(job), [Next]_vars
  PROVE  [Sequential!Next]_(Sequential!vars)
<1>1. Chunkable(job) /\ RunStream(job).error # HandedBack
  BY DEF Fit
<1>2. ASSUME UNCHANGED <<job, states, outcome>>  PROVE UNCHANGED Sequential!vars
  BY <1>2 DEF Sequential!vars, Merging
<1>3. CASE Select \/ Reparse
  <2>1. AtChunk /\ Starts(job) /\ \E base, pass, end : Chosen(base, pass, end)
    BY <1>1, <1>3, SelectChooses, ReparseChooses DEF Walk
  <2>2. PICK base, pass, end : Chosen(base, pass, end)
    BY <2>1
  <2>3. GoodPass(job, base, ChunkEnd, Merging, pass, end)
    BY <2>2 DEF Chosen
  <2>4. CASE Push(pass, end)
    BY <2>1, <2>3, <2>4, PushYields DEF Walk
  <2>5. CASE Abort(pass.error)
    <3>1. pass.error # NoError
      BY <2>5 DEF Abort
    <3>2. pass.error \in {RunStream(job).error, IoError}
      BY <1>1, <2>3, <3>1 DEF GoodPass
    <3>3. outcome = Running
      BY <2>1 DEF AtChunk
    <3> QED BY <2>5, <3>2, <3>3, AbortFails
  <2> QED BY <2>2, <2>4, <2>5 DEF Chosen
<1>4. CASE Skip
  BY <1>2, <1>4 DEF Skip, NextChunk
<1>5. CASE ReparseCannotOpen
  <2>1. Abort(IoError) /\ outcome = Running
    BY <1>5 DEF ReparseCannotOpen, Mismatch, AtChunk
  <2> QED BY <2>1, AbortFails
<1>6. CASE Finish
  BY <1>6, FinishCompletes
<1>7. CASE UNCHANGED vars
  BY <1>2, <1>7 DEF vars
<1> QED BY <1>3, <1>4, <1>5, <1>6, <1>7 DEF Next

(* The merge of the speculative passes implements one pass over the file,  *)
(* step by step: what it pushes are the next records of that pass, it      *)
(* merges when there are no more, and fails as that pass does or because   *)
(* a read failed (scheduler/mod.rs:839).                                   *)
THEOREM MergeIsOnePass == Spec /\ Fit(job) => ImplementsSequentialParse
<1>1. Init => Walk
  BY WalkInit
<1>2. Walk /\ [Next]_vars => Walk'
  BY WalkStep
<1>3. Walk /\ Fit(job) /\ [Next]_vars => [Sequential!Next]_(Sequential!vars)
  BY StepIsOnePass
<1>4. Init => Sequential!Init
  <2>1. Init => Merging = <<>>
    BY TypingInit, MergingIs DEF Init, Typing
  <2>2. Running = Sequential!Running
    BY DEF Running, Sequential!Running, NoOffset
  <2> QED BY <2>1, <2>2 DEF Init, Sequential!Init
<1>5. Fit(job) /\ [Next]_vars => Fit(job)'
  BY DEF Next, Skip, Select, Reparse, ReparseCannotOpen, Finish, Push, Abort, NextChunk, vars
<1> QED BY <1>1, <1>2, <1>3, <1>4, <1>5, PTL DEF Spec, ImplementsSequentialParse, Sequential!Spec

=============================================================================
