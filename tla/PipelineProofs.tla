--------------------------- MODULE PipelineProofs ---------------------------
(***************************************************************************)
(* Proofs about modules Scheduler and Pipeline, for every number of        *)
(* threads and chunks and every input.                                     *)
(*                                                                         *)
(* The slots are safe because of ownership: from the moment a chunk is     *)
(* handed out (at the start, or by the counter) until its slot is written, *)
(* exactly one thread owns it.  The inductive invariant says who owns what *)
(* (Ownership), that a chunk below the counter with an empty slot has an   *)
(* owner unless a thread was refused (NothingForgotten), and what thread 0 *)
(* knows of the others in each phase (CallerKnows).                        *)
(*                                                                         *)
(* The threads of a run are those of module Scheduler, so that what is     *)
(* proved of them holds of a run as well; and with the ownership argument  *)
(* the merge of a run is that of module Merge, from its first state on.    *)
(***************************************************************************)
EXTENDS Pipeline, TLAPS

-----------------------------------------------------------------------------
(* A chunk that has an owner was handed out and is not written yet.        *)
Ownership ==
  \A t \in Threads : Owns(t) =>
    /\ idx[t] \in Chunks /\ idx[t] < next_chunk
    /\ results[idx[t]] = Unset
    /\ \A u \in Threads \ {t} : Owns(u) => idx[u] # idx[t]

(* No slot is written before the counter has passed its chunk.  One it has *)
(* passed is written, or somebody is to write it, or was refused.          *)
NotYetClaimed == \A c \in Chunks : c >= next_chunk => results[c] = Unset

NothingForgotten ==
  \A c \in Chunks : c < next_chunk /\ results[c] = Unset =>
    SpawnFailed \/ \E t \in Threads : Owns(t) /\ idx[t] = c

(* A thread stops only because the counter is exhausted, and so does every *)
(* thread once one was refused.                                            *)
Exhausted ==
  /\ \A t \in Threads : pc[t] = "done" => next_chunk >= ChunkCount
  /\ SpawnFailed => next_chunk >= ChunkCount

(* Which threads exist in each phase.                                      *)
Born ==
  /\ \A t \in Threads : t > handles => pc[t] = "unborn"
  /\ phase = "spawning" \/ SpawnFailed => pc[0] = "unborn"
  /\ phase # "spawning" /\ ~SpawnFailed => handles = ThreadCount - 1
  /\ phase \in {"spawning", "working"} => joined = 0 /\ errors = <<>> /\ panic = NoThread
  /\ phase = "joining" /\ ~SpawnFailed => pc[0] \in {"done", "failed"}
  /\ phase = "returned" => \A t \in Threads : pc[t] \in Finished \cup {"unborn"}

(* What thread 0 has collected from the threads it has joined.             *)
Collected ==
  /\ \A t \in 1..joined : pc[t] \in Finished
  /\ \A t \in 1..joined : pc[t] = "panicked" => panic # NoThread
  /\ panic # NoThread => pc[panic] = "panicked"
  /\ \A t \in 0..joined : pc[t] = "failed" /\ phase # "working" => errors # <<>>

(* The error that will be reported, unless somebody panicked.              *)
FirstError ==
  errors # <<>> /\ ~SpawnFailed =>
    LET t == errors[1].thread
    IN  /\ t <= joined /\ pc[t] = "failed"
        /\ \A u \in 0..(t - 1) : pc[u] \in {"done", "panicked"}

(* What each way of leaving the parallel section says of the threads.      *)
Left ==
  /\ phase = "returned" <=> fate # "running"
  /\ fate = "merge" => ~SpawnFailed /\ \A t \in Threads : pc[t] = "done"
  /\ fate = "error" => errors # <<>>
  /\ fate = "panic" <=> phase = "returned" /\ \E t \in Threads : pc[t] = "panicked"

IInv == TypeOK /\ Ownership /\ NotYetClaimed /\ NothingForgotten /\ Exhausted
        /\ Born /\ Collected /\ FirstError /\ Left

-----------------------------------------------------------------------------
(* Appending to the errors leaves the first one in its place.              *)
LEMMA AppendKeepsFirst ==
  ASSUME NEW S, NEW s \in Seq(S), NEW e \in S
  PROVE  /\ Append(s, e) \in Seq(S)
         /\ Append(s, e) # <<>>
         /\ s = <<>> => Append(s, e)[1] = e
         /\ s # <<>> => Append(s, e)[1] = s[1]
  OBVIOUS

(* A sequence that is not empty has a first element, of its type.          *)
LEMMA FirstIsAnElement ==
  ASSUME NEW S, NEW s \in Seq(S), s # <<>>
  PROVE  s[1] \in S
  OBVIOUS

(* Every step keeps the types, whatever threads there are.                 *)
LEMMA TypeOKInit == Init => TypeOK
  BY SchedulerAssumption
     DEF Init, TypeOK, Threads, Chunks, NoThread, Unset, Finished

(* ... step by step.                                                       *)
LEMMA TypeOKStep == TypeOK /\ [Next]_vars => TypeOK'
<1> SUFFICES ASSUME TypeOK, [Next]_vars PROVE TypeOK'
  OBVIOUS
<1> USE SchedulerAssumption DEF TypeOK, Threads, Chunks, NoThread, Unset, Finished
<1>1. ASSUME NEW t \in Threads, WorkLoop(t) PROVE TypeOK'
  <2>1. CASE OpenContext(t)
    BY <2>1 DEF OpenContext, Goto, main_vars
  <2>2. CASE ProcessChunk(t)
    BY <2>2 DEF ProcessChunk, Goto, main_vars
  <2>3. CASE SetSlot(t)
    BY <2>3 DEF SetSlot, Goto, main_vars
  <2>4. CASE ClaimChunk(t)
    BY <2>4 DEF ClaimChunk, Goto, main_vars
  <2>5. QED
    BY <1>1, <2>1, <2>2, <2>3, <2>4 DEF WorkLoop
<1>2. CASE Spawn
  BY <1>2 DEF Spawn, Goto
<1>3. CASE SpawnFails
  <2>1. SpawnError(handles + 1) \in [kind : {"spawn", "context"}, thread : Threads]
    BY <1>3 DEF SpawnFails, SpawnError
  <2>2. errors' \in Seq([kind : {"spawn", "context"}, thread : Threads])
    BY <1>3, <2>1, AppendKeepsFirst DEF SpawnFails
  <2>3. QED
    BY <1>3, <2>2 DEF SpawnFails
<1>4. CASE StartWorking
  BY <1>4 DEF StartWorking, Goto
<1>5. CASE StopWorking
  <2>1. ContextError(0) \in [kind : {"spawn", "context"}, thread : Threads]
    BY DEF ContextError
  <2>2. errors' \in Seq([kind : {"spawn", "context"}, thread : Threads])
    BY <1>5, <2>1, AppendKeepsFirst DEF StopWorking
  <2>3. QED
    BY <1>5, <2>2 DEF StopWorking, thread_vars
<1>6. CASE Join
  <2>1. joined + 1 \in Threads
    BY <1>6 DEF Join
  <2>2. ContextError(joined + 1) \in [kind : {"spawn", "context"}, thread : Threads]
    BY <2>1 DEF ContextError
  <2>3. errors' \in Seq([kind : {"spawn", "context"}, thread : Threads])
    BY <1>6, <2>2, AppendKeepsFirst DEF Join
  <2>4. QED
    BY <1>6, <2>1, <2>3 DEF Join, thread_vars
<1>7. CASE LeaveScope
  BY <1>7 DEF LeaveScope, thread_vars
<1>8. CASE Unwind
  BY <1>8 DEF Unwind, thread_vars
<1>9. CASE UNCHANGED vars
  BY <1>9 DEF vars, thread_vars, main_vars
<1>10. QED
  BY <1>1, <1>2, <1>3, <1>4, <1>5, <1>6, <1>7, <1>8, <1>9
     DEF Next, Caller, Returned

(* Type correctness.                                                       *)
THEOREM TypeCorrect == Spec => []TypeOK
<1>1. QED
  BY TypeOKInit, TypeOKStep, PTL DEF Spec

-----------------------------------------------------------------------------
(* The names of the steps, for the case analyses below.                    *)
LEMMA StepCases ==
  ASSUME [Next]_vars, NEW P,
         \A t \in Threads : OpenContext(t) => P,
         \A t \in Threads : ProcessChunk(t) => P,
         \A t \in Threads : SetSlot(t) => P,
         \A t \in Threads : ClaimChunk(t) => P,
         Spawn => P, SpawnFails => P, StartWorking => P, StopWorking => P,
         Join => P, LeaveScope => P, Unwind => P, UNCHANGED vars => P
  PROVE  P
  BY DEF Next, Caller, WorkLoop, Returned

(* Chunks keep one owner: a claim hands out a chunk nobody had, a set ends *)
(* an ownership, and no other step touches one.                            *)
LEMMA OwnershipStep ==
  TypeOK /\ Ownership /\ NotYetClaimed /\ Born /\ [Next]_vars => Ownership'
<1> SUFFICES ASSUME TypeOK, Ownership, NotYetClaimed, Born, [Next]_vars PROVE Ownership'
  OBVIOUS
<1> USE SchedulerAssumption
    DEF TypeOK, Ownership, Owns, Threads, Chunks, NoThread, Unset, Finished
<1>1. ASSUME NEW t \in Threads, OpenContext(t) PROVE Ownership'
  BY <1>1 DEF OpenContext, Goto
<1>2. ASSUME NEW t \in Threads, ProcessChunk(t) PROVE Ownership'
  BY <1>2 DEF ProcessChunk, Goto
<1>3. ASSUME NEW t \in Threads, SetSlot(t) PROVE Ownership'
  <2>1. \A u \in Threads : u # t /\ Owns(u) => results'[idx[u]] = results[idx[u]]
    BY <1>3 DEF SetSlot
  <2>2. \A u \in Threads : Owns(u)' => u # t /\ Owns(u)
    BY <1>3 DEF SetSlot, Goto
  <2>3. QED
    BY <1>3, <2>1, <2>2 DEF SetSlot
<1>4. ASSUME NEW t \in Threads, ClaimChunk(t) PROVE Ownership'
  <2>1. \A u \in Threads : u # t => idx'[u] = idx[u] /\ pc'[u] = pc[u]
    BY <1>4 DEF ClaimChunk, Goto
  <2>2. idx'[t] = next_chunk
    BY <1>4 DEF ClaimChunk
  <2>3. Owns(t)' => idx'[t] \in Chunks /\ results'[idx'[t]] = Unset
    BY <1>4, <2>2 DEF ClaimChunk, Goto, NotYetClaimed
  <2>4. \A u \in Threads : u # t /\ Owns(u) => idx'[u] < idx'[t]
    BY <2>1, <2>2
  <2>5. QED
    BY <1>4, <2>1, <2>2, <2>3, <2>4, SMTT(30) DEF ClaimChunk
<1>5. CASE Spawn
  BY <1>5 DEF Spawn, Goto, Born
<1>6. CASE SpawnFails
  BY <1>6 DEF SpawnFails
<1>7. CASE StartWorking
  BY <1>7 DEF StartWorking, Goto, Born
<1>8. CASE StopWorking \/ Join \/ LeaveScope \/ Unwind \/ UNCHANGED vars
  BY <1>8 DEF StopWorking, Join, LeaveScope, Unwind, vars, thread_vars
<1>9. QED
  BY <1>1, <1>2, <1>3, <1>4, <1>5, <1>6, <1>7, <1>8, StepCases

(* The counter only moves over chunks it hands out, or to its end.         *)
LEMMA NotYetClaimedStep ==
  TypeOK /\ Ownership /\ NotYetClaimed /\ [Next]_vars => NotYetClaimed'
<1> SUFFICES ASSUME TypeOK, Ownership, NotYetClaimed, [Next]_vars PROVE NotYetClaimed'
  OBVIOUS
<1> USE SchedulerAssumption DEF TypeOK, NotYetClaimed, Threads, Chunks, NoThread, Unset
<1>1. ASSUME NEW t \in Threads, SetSlot(t) PROVE NotYetClaimed'
  <2>1. idx[t] < next_chunk
    BY <1>1 DEF SetSlot, Ownership, Owns
  <2>2. QED
    BY <1>1, <2>1 DEF SetSlot
<1>2. ASSUME NEW t \in Threads, ClaimChunk(t) PROVE NotYetClaimed'
  BY <1>2 DEF ClaimChunk
<1>3. CASE SpawnFails
  BY <1>3 DEF SpawnFails
<1>4. ASSUME UNCHANGED <<next_chunk, results>> PROVE NotYetClaimed'
  BY <1>4
<1>5. QED
  BY <1>1, <1>2, <1>3, <1>4, StepCases
     DEF OpenContext, ProcessChunk, Spawn, StartWorking, StopWorking, Join,
         LeaveScope, Unwind, vars, thread_vars

-----------------------------------------------------------------------------
(* The error of a thread that could not open its context.                  *)
LEMMA ContextErrorAppended ==
  ASSUME TypeOK, NEW t \in Threads, errors' = Append(errors, ContextError(t))
  PROVE  /\ errors' # <<>>
         /\ errors = <<>> => errors'[1] = ContextError(t)
         /\ errors # <<>> => errors'[1] = errors[1]
         /\ ContextError(t).kind # "spawn" /\ ContextError(t).thread = t
<1> DEFINE E == [kind : {"spawn", "context"}, thread : Threads]
<1>1. errors \in Seq(E) /\ ContextError(t) \in E
  BY DEF TypeOK, ContextError
<1>2. ContextError(t).kind # "spawn" /\ ContextError(t).thread = t
  BY DEF ContextError
<1> HIDE DEF E
<1>3. QED
  BY <1>1, <1>2, AppendKeepsFirst

(* A refusal is never forgotten.                                           *)
LEMMA ErrorsStep ==
  ASSUME TypeOK, Born, [Next]_vars
  PROVE  /\ SpawnFailed => SpawnFailed'
         /\ ~SpawnFailed /\ SpawnFailed' => SpawnFails
         /\ errors # <<>> => errors' # <<>> /\ errors'[1] = errors[1]
<1> USE SchedulerAssumption DEF TypeOK, Threads
<1>1. ASSUME NEW t \in Threads, errors' = Append(errors, ContextError(t))
      PROVE  /\ SpawnFailed <=> SpawnFailed'
             /\ errors # <<>> => errors' # <<>> /\ errors'[1] = errors[1]
  BY <1>1, ContextErrorAppended DEF SpawnFailed
<1>2. CASE UNCHANGED errors
  BY <1>2 DEF SpawnFailed
<1>3. CASE SpawnFails
  <2>1. errors = <<>>
    BY <1>3 DEF SpawnFails, Born
  <2>2. QED
    BY <1>3, <2>1 DEF SpawnFailed
<1>4. CASE StopWorking
  <2>1. UNCHANGED errors \/ errors' = Append(errors, ContextError(0))
    BY <1>4 DEF StopWorking
  <2>2. 0 \in Threads
    OBVIOUS
  <2>3. QED
    BY <1>1, <1>2, <2>1, <2>2
<1>5. CASE Join
  <2>1. UNCHANGED errors \/ errors' = Append(errors, ContextError(joined + 1))
    BY <1>5 DEF Join
  <2>2. joined + 1 \in Threads
    BY <1>5 DEF Join
  <2>3. QED
    BY <1>1, <1>2, <2>1, <2>2
<1>6. QED
  BY <1>2, <1>3, <1>4, <1>5, StepCases
     DEF OpenContext, ProcessChunk, SetSlot, ClaimChunk, main_vars,
         Spawn, StartWorking, LeaveScope, Unwind, vars

(* A chunk leaves its owner only by being written, and the counter its     *)
(* chunk only to an owner, unless a thread was refused.                    *)
LEMMA NothingForgottenStep ==
  TypeOK /\ Ownership /\ NothingForgotten /\ Born /\ [Next]_vars => NothingForgotten'
<1> SUFFICES ASSUME TypeOK, Ownership, NothingForgotten, Born, [Next]_vars,
                    ~SpawnFailed',
                    NEW c \in Chunks, c < next_chunk', results'[c] = Unset
             PROVE  \E t \in Threads : Owns(t)' /\ idx'[t] = c
  BY DEF NothingForgotten
<1> DEFINE Kept == \E t \in Threads : Owns(t)' /\ idx'[t] = c
<1> USE SchedulerAssumption DEF TypeOK, Threads, Chunks, NoThread, Unset
<1>1. ~SpawnFailed
  BY ErrorsStep
<1>2. c < next_chunk /\ results[c] = Unset => \E t \in Threads : Owns(t) /\ idx[t] = c
  BY <1>1 DEF NothingForgotten
<1>3. ASSUME NEW t \in Threads, OpenContext(t) PROVE Kept
  BY <1>2, <1>3 DEF OpenContext, Goto, Owns
<1>4. ASSUME NEW t \in Threads, ProcessChunk(t) PROVE Kept
  BY <1>2, <1>4 DEF ProcessChunk, Goto, Owns
<1>5. ASSUME NEW t \in Threads, SetSlot(t) PROVE Kept
  <2>1. results'[idx[t]] = t
    BY <1>5 DEF SetSlot, Ownership, Owns
  <2>2. c # idx[t] /\ results[c] = Unset
    BY <1>5, <2>1 DEF SetSlot
  <2>3. PICK u \in Threads : Owns(u) /\ idx[u] = c
    BY <1>2, <1>5, <2>2 DEF SetSlot
  <2>4. QED
    BY <1>5, <2>2, <2>3 DEF SetSlot, Goto, Owns
<1>6. ASSUME NEW t \in Threads, ClaimChunk(t) PROVE Kept
  <2>1. CASE c = next_chunk
    BY <1>6, <2>1 DEF ClaimChunk, Goto, Owns
  <2>2. CASE c # next_chunk
    <3>1. PICK u \in Threads : Owns(u) /\ idx[u] = c
      BY <1>2, <1>6, <2>2 DEF ClaimChunk
    <3>2. u # t
      BY <1>6, <3>1 DEF ClaimChunk, Owns
    <3>3. QED
      BY <1>6, <3>1, <3>2 DEF ClaimChunk, Goto, Owns
  <2>3. QED
    BY <2>1, <2>2
<1>7. CASE Spawn
  BY <1>2, <1>7 DEF Spawn, Goto, Owns
<1>8. CASE SpawnFails
  <2>1. errors = <<>> /\ SpawnError(handles + 1)
                         \in [kind : {"spawn", "context"}, thread : Threads]
    BY <1>8 DEF SpawnFails, Born, SpawnError
  <2>2. SpawnFailed'
    BY <1>8, <2>1 DEF SpawnFails, SpawnFailed, SpawnError
  <2>3. QED
    BY <2>2
<1>9. CASE StartWorking
  BY <1>2, <1>9 DEF StartWorking, Goto, Owns
<1>10. CASE StopWorking \/ Join \/ LeaveScope \/ Unwind \/ UNCHANGED vars
  BY <1>2, <1>10 DEF StopWorking, Join, LeaveScope, Unwind, vars, thread_vars, Owns
<1>11. QED
  BY <1>3, <1>4, <1>5, <1>6, <1>7, <1>8, <1>9, <1>10, StepCases

(* A thread leaves its loop only when the counter is past the last chunk.  *)
LEMMA ExhaustedStep ==
  TypeOK /\ Exhausted /\ Born /\ [Next]_vars => Exhausted'
<1> SUFFICES ASSUME TypeOK, Exhausted, Born, [Next]_vars PROVE Exhausted'
  OBVIOUS
<1> USE SchedulerAssumption DEF TypeOK, Threads
<1>1. CASE SpawnFails
  <2>1. next_chunk' = ChunkCount
    BY <1>1 DEF SpawnFails
  <2>2. QED
    BY <2>1 DEF Exhausted
<1>2. CASE ~SpawnFails
  <2>1. next_chunk' >= next_chunk
    BY <1>2, StepCases
       DEF OpenContext, ProcessChunk, SetSlot, ClaimChunk, Spawn, StartWorking,
           StopWorking, Join, LeaveScope, Unwind, vars, thread_vars
  <2>2. SpawnFailed' => SpawnFailed
    BY <1>2, ErrorsStep
  <2>3. \A t \in Threads : pc'[t] = "done" => pc[t] = "done" \/ next_chunk >= ChunkCount
    BY <1>2, StepCases
       DEF OpenContext, ProcessChunk, SetSlot, ClaimChunk, Spawn, StartWorking,
           StopWorking, Join, LeaveScope, Unwind, vars, thread_vars, Goto
  <2>4. next_chunk' \in Nat
    BY TypeOKStep
  <2>5. QED
    BY <2>1, <2>2, <2>3, <2>4 DEF Exhausted
<1>3. QED
  BY <1>1, <1>2

(* A thread runs once it is spawned, thread 0 once all the others are.     *)
LEMMA BornStep ==
  TypeOK /\ Born /\ Collected /\ [Next]_vars => Born'
<1> SUFFICES ASSUME TypeOK, Born, Collected, [Next]_vars PROVE Born'
  OBVIOUS
<1> USE SchedulerAssumption DEF TypeOK, Threads, NoThread, Finished
<1>1. /\ SpawnFailed => SpawnFailed'
      /\ ~SpawnFailed /\ SpawnFailed' => SpawnFails
  BY ErrorsStep
<1>2. ASSUME NEW t \in Threads, WorkLoop(t) PROVE Born'
  <2>1. /\ pc[t] \notin Finished \cup {"unborn"} /\ pc'[t] # "unborn"
        /\ \A u \in Threads \ {t} : pc'[u] = pc[u]
        /\ UNCHANGED main_vars
    BY <1>2 DEF WorkLoop, OpenContext, ProcessChunk, SetSlot, ClaimChunk, Goto
  <2>2. phase # "returned"
    BY <2>1 DEF Born
  <2>3. t <= handles /\ (t = 0 => phase = "working" /\ ~SpawnFailed)
    BY <2>1, <2>2 DEF Born
  <2>4. SpawnFailed' <=> SpawnFailed
    BY <2>1 DEF main_vars, SpawnFailed
  <2>5. QED
    BY <2>1, <2>2, <2>3, <2>4, SMTT(30) DEF Born, main_vars
<1>3. CASE Spawn
  <2>1. SpawnFailed' <=> SpawnFailed
    BY <1>3 DEF Spawn, SpawnFailed
  <2>2. QED
    BY <1>3, <2>1 DEF Spawn, Born, Goto
<1>4. CASE SpawnFails
  <2>1. SpawnError(handles + 1) \in [kind : {"spawn", "context"}, thread : Threads]
    BY <1>4 DEF SpawnFails, SpawnError
  <2>2. SpawnFailed'
    BY <1>4, <2>1, SMTT(30) DEF SpawnFails, SpawnFailed, SpawnError, Born
  <2>3. QED
    BY <1>4, <2>2 DEF SpawnFails, Born
<1>5. CASE StartWorking
  <2>1. ~SpawnFailed /\ ~SpawnFailed'
    BY <1>5 DEF StartWorking, SpawnFailed, Born
  <2>2. QED
    BY <1>5, <2>1 DEF StartWorking, Born, Goto
<1>6. CASE StopWorking
  <2>1. ~SpawnFailed /\ ~SpawnFailed'
    BY <1>1, <1>6 DEF StopWorking, SpawnFails, SpawnFailed, Born
  <2>2. QED
    BY <1>6, <2>1 DEF StopWorking, Born, thread_vars
<1>7. CASE Join
  <2>1. SpawnFailed' <=> SpawnFailed
    BY <1>1, <1>7 DEF Join, SpawnFails
  <2>2. QED
    BY <1>7, <2>1 DEF Join, Born, thread_vars
<1>8. CASE LeaveScope \/ Unwind
  <2>1. SpawnFailed' <=> SpawnFailed
    BY <1>8 DEF LeaveScope, Unwind, SpawnFailed
  <2>2. pc[0] \in Finished \cup {"unborn"} /\ \A t \in 1..handles : pc[t] \in Finished
    BY <1>8 DEF LeaveScope, Unwind, Born, Collected
  <2>3. \A t \in Threads : t = 0 \/ t \in 1..handles \/ t > handles
    OBVIOUS
  <2>4. \A t \in Threads : pc[t] \in Finished \cup {"unborn"}
    BY <2>2, <2>3 DEF Born
  <2>5. phase \in {"joining", "working"} /\ phase' = "returned" /\ UNCHANGED <<pc, handles>>
    BY <1>8 DEF LeaveScope, Unwind, thread_vars
  <2>6. QED
    BY <2>1, <2>4, <2>5 DEF Born
<1>9. CASE UNCHANGED vars
  BY <1>9 DEF vars, thread_vars, main_vars, Born, SpawnFailed
<1>10. QED
  BY <1>2, <1>3, <1>4, <1>5, <1>6, <1>7, <1>8, <1>9 DEF Next, Caller, Returned

(* A joined thread is finished, so what thread 0 collected of it stays so. *)
LEMMA CollectedStep ==
  TypeOK /\ Born /\ Collected /\ [Next]_vars => Collected'
<1> SUFFICES ASSUME TypeOK, Born, Collected, [Next]_vars PROVE Collected'
  OBVIOUS
<1> USE SchedulerAssumption DEF TypeOK, Threads, NoThread, Finished
<1>1. errors # <<>> => errors' # <<>>
  BY ErrorsStep
<1>2. ASSUME NEW t \in Threads, WorkLoop(t) PROVE Collected'
  <2>1. /\ pc[t] \notin Finished \cup {"unborn"}
        /\ \A u \in Threads \ {t} : pc'[u] = pc[u]
        /\ UNCHANGED main_vars
    BY <1>2 DEF WorkLoop, OpenContext, ProcessChunk, SetSlot, ClaimChunk, Goto
  <2>2. t \notin 1..joined /\ (t = 0 => phase = "working")
    BY <2>1 DEF Collected, Born
  <2>3. \A u \in 1..joined : pc'[u] = pc[u]
    BY <2>1, <2>2
  <2>4. panic # NoThread => panic # t /\ pc'[panic] = pc[panic]
    BY <2>1 DEF Collected
  <2>5. pc'[0] = pc[0] \/ phase = "working"
    BY <2>1, <2>2
  <2>6. \A u \in 0..joined : pc'[u] = pc[u] \/ phase = "working"
    BY <2>3, <2>5
  <2>7. QED
    BY <2>1, <2>3, <2>4, <2>6 DEF Collected, main_vars
<1>3. CASE Spawn \/ SpawnFails \/ StartWorking
  <2>1. joined = 0 /\ pc[0] = "unborn" /\ panic = NoThread
    BY <1>3 DEF Spawn, SpawnFails, StartWorking, Born
  <2>2. UNCHANGED <<joined, panic>> /\ pc'[0] # "failed"
    BY <1>3, <2>1 DEF Spawn, SpawnFails, StartWorking, Goto
  <2>3. QED
    BY <2>1, <2>2 DEF Collected
<1>4. CASE StopWorking
  <2>1. 0 \in Threads /\ joined = 0
    BY <1>4 DEF StopWorking, Born
  <2>2. pc[0] = "failed" => errors' # <<>>
    BY <1>4, <2>1, ContextErrorAppended DEF StopWorking
  <2>3. QED
    BY <1>4, <2>1, <2>2 DEF StopWorking, Collected, thread_vars
<1>5. CASE Join
  <2>1. joined + 1 \in Threads
    BY <1>5 DEF Join
  <2>2. pc[joined + 1] = "failed" => errors' # <<>>
    BY <1>5, <2>1, ContextErrorAppended DEF Join
  <2>3. pc[joined + 1] = "panicked" => panic' # NoThread
    BY <1>5, <2>1 DEF Join, NoThread
  <2>4. panic' # NoThread => pc[panic'] = "panicked"
    BY <1>5, <2>1 DEF Join, Collected
  <2>5. /\ UNCHANGED pc /\ pc[joined + 1] \in Finished
        /\ joined' = joined + 1
        /\ phase = "joining" /\ phase' = "joining"
        /\ panic # NoThread => panic' # NoThread
    BY <1>5 DEF Join, thread_vars
  <2>6. \A t \in 0..joined' : t \in 0..joined \/ t = joined + 1
    BY <2>5
  <2>7. \A t \in 1..joined' : t \in 1..joined \/ t = joined + 1
    BY <2>5
  <2>8. \A t \in 1..joined' : pc'[t] \in Finished /\ (pc'[t] = "panicked" => panic' # NoThread)
    BY <2>3, <2>5, <2>7 DEF Collected
  <2>9. \A t \in 0..joined' : pc'[t] = "failed" => errors' # <<>>
    BY <1>1, <2>2, <2>5, <2>6 DEF Collected
  <2>10. QED
    BY <2>4, <2>5, <2>8, <2>9 DEF Collected, NoThread
<1>6. CASE LeaveScope
  BY <1>6 DEF LeaveScope, Collected, thread_vars
<1>7. CASE Unwind
  <2>1. joined = 0
    BY <1>7 DEF Unwind, Born
  <2>2. QED
    BY <1>7, <2>1 DEF Unwind, Collected, thread_vars
<1>8. CASE UNCHANGED vars
  BY <1>8 DEF vars, thread_vars, main_vars, Collected
<1>9. QED
  BY <1>2, <1>3, <1>4, <1>5, <1>6, <1>7, <1>8 DEF Next, Caller, Returned

(* A thread that is finished stays so, and thread 0 only joins more.       *)
LEMMA FinishedStays ==
  ASSUME TypeOK, Born, [Next]_vars
  PROVE  /\ \A t \in Threads : pc[t] \in Finished => pc'[t] = pc[t]
         /\ joined' >= joined
<1> DEFINE Goal == /\ \A t \in Threads : pc[t] \in Finished => pc'[t] = pc[t]
                   /\ joined' >= joined
<1> USE SchedulerAssumption DEF TypeOK, Threads, Finished
<1>1. ASSUME NEW t \in Threads, WorkLoop(t) PROVE Goal
  BY <1>1, SMTT(30) DEF WorkLoop, OpenContext, ProcessChunk, SetSlot, ClaimChunk, Goto, main_vars
<1>2. CASE Spawn
  BY <1>2 DEF Spawn, Goto, Born
<1>3. CASE StartWorking
  BY <1>3 DEF StartWorking, Goto, Born
<1>4. CASE Join
  BY <1>4 DEF Join, thread_vars
<1>5. CASE SpawnFails \/ StopWorking \/ LeaveScope \/ Unwind \/ UNCHANGED vars
  <2>1. UNCHANGED <<pc, joined>>
    BY <1>5 DEF SpawnFails, StopWorking, LeaveScope, Unwind, vars, thread_vars, main_vars
  <2>2. QED
    BY <2>1
<1>6. QED
  BY <1>1, <1>2, <1>3, <1>4, <1>5 DEF Next, Caller, Returned

(* The first error belongs to the lowest thread that failed: thread 0's is *)
(* collected before the joins, and those go in order.                      *)
LEMMA FirstErrorStep ==
  TypeOK /\ Born /\ Collected /\ FirstError /\ [Next]_vars => FirstError'
<1> SUFFICES ASSUME TypeOK, Born, Collected, FirstError, [Next]_vars PROVE FirstError'
  OBVIOUS
<1> USE SchedulerAssumption DEF TypeOK, Threads, Finished
<1>1. /\ SpawnFailed => SpawnFailed'
      /\ errors # <<>> => errors' # <<>> /\ errors'[1] = errors[1]
  BY ErrorsStep
<1>2. joined' >= joined
  BY FinishedStays
<1>3. \A t \in Threads : pc[t] \in Finished => pc'[t] = pc[t]
  BY FinishedStays
<1>4. CASE errors # <<>>
  <2>1. SUFFICES ASSUME ~SpawnFailed' PROVE FirstError'
    BY DEF FirstError
  <2> DEFINE t == errors[1].thread
  <2>2. t \in Threads
    <3>1. errors[1] \in [kind : {"spawn", "context"}, thread : Threads]
      BY <1>4, FirstIsAnElement
    <3>2. QED
      BY <3>1
  <2>3. /\ t <= joined /\ pc[t] = "failed"
        /\ \A u \in 0..(t - 1) : pc[u] \in {"done", "panicked"}
    BY <1>1, <1>4, <2>1 DEF FirstError
  <2>4. errors'[1].thread = t /\ t <= joined'
    <3>1. joined' \in Nat /\ joined \in Nat /\ t \in Nat
      BY TypeOKStep, <2>2
    <3>2. QED
      BY <1>1, <1>2, <1>4, <2>3, <3>1
  <2>5. pc'[t] = "failed" /\ \A u \in 0..(t - 1) : pc'[u] = pc[u]
    <3> HIDE DEF t
    <3>1. ASSUME NEW u \in 0..(t - 1)  PROVE u \in Threads /\ pc[u] \in Finished
      <4>1. u \in Threads
        BY <2>2, SchedulerAssumption DEF Threads
      <4>2. pc[u] \in Finished
        BY <2>3 DEF Finished
      <4> QED BY <4>1, <4>2
    <3>2. t \in Threads /\ pc[t] \in Finished
      BY <2>2, <2>3 DEF Finished
    <3>3. QED
      BY <1>3, <2>3, <3>1, <3>2
  <2>6. QED
    BY <2>3, <2>4, <2>5 DEF FirstError
<1>5. CASE errors = <<>>
  <2>1. CASE StopWorking
    <3>1. 0 \in Threads
      OBVIOUS
    <3>2. pc[0] # "failed" => errors' = <<>>
      BY <1>5, <2>1 DEF StopWorking
    <3>3. pc[0] = "failed" => errors'[1].thread = 0
      BY <1>5, <2>1, <3>1, ContextErrorAppended DEF StopWorking
    <3>4. UNCHANGED <<pc, joined>>
      BY <2>1 DEF StopWorking, thread_vars
    <3>5. QED
      BY <3>2, <3>3, <3>4, SMTT(30) DEF FirstError
  <2>2. CASE Join
    <3>1. joined + 1 \in Threads /\ UNCHANGED pc /\ joined' = joined + 1
      BY <2>2 DEF Join, thread_vars
    <3>2. pc[joined + 1] # "failed" => errors' = <<>>
      BY <1>5, <2>2 DEF Join
    <3>3. pc[joined + 1] = "failed" => errors'[1].thread = joined + 1
      BY <1>5, <2>2, <3>1, ContextErrorAppended DEF Join
    <3>4. ~SpawnFailed
      BY <1>5 DEF SpawnFailed
    <3>5. \A u \in 0..joined : pc[u] \in {"done", "panicked"}
      BY <1>5, <2>2, <3>4 DEF Join, Born, Collected
    <3>6. QED
      BY <3>1, <3>2, <3>3, <3>5, SMTT(30) DEF FirstError
  <2>3. CASE SpawnFails
    <3>1. SpawnError(handles + 1) \in [kind : {"spawn", "context"}, thread : Threads]
      BY <2>3 DEF SpawnFails, SpawnError
    <3>2. SpawnFailed'
      BY <1>5, <2>3, <3>1 DEF SpawnFails, SpawnFailed, SpawnError
    <3>3. QED
      BY <3>2 DEF FirstError
  <2>4. CASE UNCHANGED errors
    BY <1>5, <2>4 DEF FirstError
  <2>5. QED
    BY <2>1, <2>2, <2>3, <2>4, StepCases
       DEF OpenContext, ProcessChunk, SetSlot, ClaimChunk, main_vars, Spawn,
           StartWorking, LeaveScope, Unwind, vars
<1>6. QED
  BY <1>4, <1>5

(* Thread 0 leaves the parallel section knowing how every thread ended,    *)
(* and nothing moves afterwards.                                           *)
LEMMA LeftStep ==
  TypeOK /\ Born /\ Collected /\ Left /\ [Next]_vars => Left'
<1> SUFFICES ASSUME TypeOK, Born, Collected, Left, [Next]_vars PROVE Left'
  OBVIOUS
<1> USE SchedulerAssumption DEF TypeOK, Threads, NoThread, Finished
<1>1. CASE LeaveScope
  <2>1. phase = "joining" /\ phase' = "returned" /\ UNCHANGED <<pc, errors, handles>>
    BY <1>1 DEF LeaveScope, thread_vars
  <2>2. \A t \in 1..handles : /\ pc[t] \in Finished
                              /\ pc[t] = "panicked" => panic # NoThread
                              /\ pc[t] = "failed" => errors # <<>>
    BY <1>1 DEF LeaveScope, Collected
  <2>3. pc[0] \in {"unborn", "done", "failed"} /\ (pc[0] = "failed" => errors # <<>>)
    BY <1>1 DEF LeaveScope, Born, Collected
  <2>4. \A t \in Threads : t = 0 \/ t \in 1..handles \/ t > handles
    OBVIOUS
  <2>5. panic # NoThread <=> \E t \in Threads : pc[t] = "panicked"
    BY <2>2, <2>3, <2>4 DEF Born, Collected
  <2>6. CASE panic # NoThread
    BY <1>1, <2>1, <2>5, <2>6 DEF LeaveScope, Left
  <2>7. CASE panic = NoThread /\ errors # <<>>
    BY <1>1, <2>1, <2>5, <2>7 DEF LeaveScope, Left
  <2>8. CASE panic = NoThread /\ errors = <<>>
    <3>1. ~SpawnFailed /\ ~SpawnFailed'
      BY <2>1, <2>8 DEF SpawnFailed
    <3>2. handles = ThreadCount - 1 /\ pc[0] = "done"
      BY <2>1, <2>3, <2>8, <3>1 DEF Born
    <3>3. \A t \in Threads : pc[t] = "done"
      BY <2>2, <2>4, <2>8, <3>2
    <3>4. fate' = "merge"
      BY <1>1, <2>8 DEF LeaveScope
    <3>5. QED
      BY <2>1, <3>1, <3>3, <3>4 DEF Left
  <2>9. QED
    BY <2>6, <2>7, <2>8
<1>2. CASE Unwind
  <2>1. phase' = "returned" /\ fate' = "panic" /\ pc'[0] = "panicked"
    BY <1>2 DEF Unwind, thread_vars
  <2>2. QED
    BY <2>1 DEF Left
<1>3. CASE UNCHANGED vars
  BY <1>3 DEF Left, vars, thread_vars, main_vars, SpawnFailed
<1>4. ASSUME NEW t \in Threads, WorkLoop(t) PROVE Left'
  <2>1. phase # "returned" /\ UNCHANGED <<phase, fate>>
    BY <1>4 DEF WorkLoop, OpenContext, ProcessChunk, SetSlot, ClaimChunk, main_vars, Born
  <2>2. QED
    BY <2>1 DEF Left
<1>5. CASE Spawn \/ SpawnFails \/ StartWorking \/ StopWorking \/ Join
  <2>1. phase # "returned" /\ phase' # "returned" /\ UNCHANGED fate
    BY <1>5 DEF Spawn, SpawnFails, StartWorking, StopWorking, Join
  <2>2. QED
    BY <2>1 DEF Left
<1>6. QED
  BY <1>1, <1>2, <1>3, <1>4, <1>5 DEF Next, Caller, Returned

-----------------------------------------------------------------------------
(* The inductive invariant.                                                *)
LEMMA IInvInit == Init => IInv
<1> SUFFICES ASSUME Init PROVE IInv
  OBVIOUS
<1> USE SchedulerAssumption DEF Init, Threads, Chunks, NoThread, Unset
<1>1. TypeOK
  BY TypeOKInit
<1>2. Ownership
  BY DEF Ownership, Owns
<1>3. NotYetClaimed /\ NothingForgotten
  BY DEF NotYetClaimed, NothingForgotten, Owns
<1>4. ~SpawnFailed
  BY DEF SpawnFailed
<1>5. Exhausted /\ Born /\ Collected /\ FirstError /\ Left
  BY <1>4 DEF Exhausted, Born, Collected, FirstError, Left
<1>6. QED
  BY <1>1, <1>2, <1>3, <1>5 DEF IInv

(* Every step keeps all its parts, each by its own lemma.                  *)
LEMMA IInvStep == IInv /\ [Next]_vars => IInv'
  BY TypeOKStep, OwnershipStep, NotYetClaimedStep, NothingForgottenStep,
     ExhaustedStep, BornStep, CollectedStep, FirstErrorStep, LeftStep
     DEF IInv

(* The inductive invariant holds, whatever the threads do.                 *)
THEOREM Invariance == Spec => []IInv
<1>1. QED
  BY IInvInit, IInvStep, PTL DEF Spec

(* A slot has one writer: the contract of WriteOnceSlot::set, which the    *)
(* unsafe block of work_loop relies on.                                    *)
THEOREM SlotsAreWrittenOnce == Spec => []OneWriterPerSlot
<1>1. IInv => OneWriterPerSlot
  BY DEF IInv, Ownership, OneWriterPerSlot
<1>2. QED
  BY <1>1, Invariance, PTL

LEMMA AllWrittenAtMerge == IInv => EveryChunkParsedAtMerge
<1> SUFFICES ASSUME IInv, fate = "merge", NEW c \in Chunks, results[c] = Unset
             PROVE FALSE
  BY DEF EveryChunkParsedAtMerge
<1>1. ~SpawnFailed /\ \A t \in Threads : pc[t] = "done"
  BY DEF IInv, Left
<1>2. 0 \in Threads
  BY SchedulerAssumption DEF Threads
<1>3. c < next_chunk
  BY <1>1, <1>2, SchedulerAssumption DEF IInv, TypeOK, Exhausted, Chunks
<1>4. PICK t \in Threads : Owns(t)
  BY <1>1, <1>3 DEF IInv, NothingForgotten
<1> QED BY <1>1, <1>4 DEF Owns

(* The merge finds every slot written (merge.rs, "chunk was not parsed").  *)
THEOREM MergeFindsEverySlot == Spec => []EveryChunkParsedAtMerge
BY AllWrittenAtMerge, Invariance, PTL

(* No failure is lost, and the one reported does not depend on timing.     *)
THEOREM FailuresAreReported == Spec => []FirstFailureWins
<1>1. IInv => FirstFailureWins
  <2> SUFFICES ASSUME IInv, phase = "returned" PROVE
        /\ fate = "panic" <=> \E t \in Threads : pc[t] = "panicked"
        /\ fate = "error" /\ ~SpawnFailed =>
             LET t == errors[1].thread
             IN  pc[t] = "failed" /\ \A u \in 0..(t - 1) : pc[u] # "failed"
    BY DEF FirstFailureWins
  <2>1. QED
    BY DEF IInv, Left, FirstError
<1>2. QED
  BY <1>1, Invariance, PTL

(* A refused thread stops the others at their next claim.                  *)
THEOREM RefusalStops == Spec => RefusalStopsClaims
<1>1. IInv /\ [Next]_vars =>
        [SpawnFailed => \A t \in Threads : pc[t] = "claim" => pc'[t] \in {"claim", "done"}]_vars
  <2> SUFFICES ASSUME IInv, [Next]_vars, SpawnFailed, NEW t \in Threads, pc[t] = "claim"
               PROVE pc'[t] \in {"claim", "done"}
    OBVIOUS
  <2> USE SchedulerAssumption DEF IInv, TypeOK, Threads
  <2>1. next_chunk >= ChunkCount /\ phase # "spawning"
    BY DEF Exhausted, Born, SpawnFailed
  <2>2. ASSUME NEW u \in Threads, WorkLoop(u) PROVE pc'[t] \in {"claim", "done"}
    BY <2>1, <2>2 DEF WorkLoop, OpenContext, ProcessChunk, SetSlot, ClaimChunk, Goto
  <2>3. CASE UNCHANGED pc
    BY <2>3
  <2>4. QED
    BY <2>1, <2>2, <2>3
       DEF Next, Caller, Returned, Spawn, SpawnFails, StartWorking, StopWorking, Join,
           LeaveScope, Unwind, vars, thread_vars
<1>2. QED
  BY <1>1, Invariance, PTL DEF Spec, RefusalStopsClaims

-----------------------------------------------------------------------------
(* The scheduler implements ParallelParse.  Writing a slot parses a chunk; *)
(* leaving the scope, or unwinding through it, ends the run; every other   *)
(* step is invisible.                                                      *)
THEOREM Refinement == Spec => ImplementsParallelParse
<1> DEFINE Parsed == {c \in Chunks : results[c] # Unset}
<1>1. Init => Promise!Init
  BY DEF Init, Promise!Init
<1>2. ASSUME IInv, [Next]_vars PROVE [Promise!Next]_(Promise!vars)
  <2> USE DEF Unset, NoThread
  <2>1. ASSUME NEW t \in Threads, SetSlot(t) PROVE Promise!ParseOne
    <3>1. /\ idx[t] \in Chunks /\ results[idx[t]] = Unset
          /\ results' = [results EXCEPT ![idx[t]] = t] /\ UNCHANGED fate
      BY <2>1, <1>2 DEF SetSlot, IInv, Ownership, Owns, main_vars
    <3>2. phase # "returned"
      BY <2>1, <1>2 DEF SetSlot, IInv, Born, Finished
    <3>3. fate = "running"
      BY <1>2, <3>2 DEF IInv, Left
    <3>4. t # Unset
      BY SchedulerAssumption DEF Threads
    <3>5. \A c \in Chunks : results'[c] = IF c = idx[t] THEN t ELSE results[c]
      BY <1>2, <3>1 DEF IInv, TypeOK
    <3>6. Parsed' = Parsed \cup {idx[t]} /\ idx[t] \in Chunks \ Parsed
      BY <3>1, <3>4, <3>5
    <3>7. QED
      BY <3>1, <3>3, <3>6 DEF Promise!ParseOne, Promise!Chunks, Chunks
  <2>2. CASE LeaveScope
    <3>1. fate = "running" /\ UNCHANGED Parsed
      BY <1>2, <2>2 DEF LeaveScope, IInv, Left, thread_vars
    <3>2. fate' = "merge" => Parsed = Chunks
      <4>1. IInv'
        BY <1>2, IInvStep
      <4>2. fate' = "merge" => \A t \in Threads : pc[t] = "done"
        BY <2>2, <4>1 DEF IInv, Left, LeaveScope, thread_vars
      <4>3. fate' = "merge" => errors = <<>>
        BY <2>2 DEF LeaveScope
      <4>4. 0 \in Threads
        BY SchedulerAssumption DEF Threads
      <4>5. fate' = "merge" => \A c \in Chunks : c < next_chunk
        BY <1>2, <4>2, <4>4, SchedulerAssumption DEF IInv, Exhausted, TypeOK, Chunks
      <4>6. QED
        BY <1>2, <4>2, <4>3, <4>5 DEF IInv, NothingForgotten, SpawnFailed, Owns
    <3>3. fate' \in {"merge", "error", "panic"}
      BY <2>2 DEF LeaveScope
    <3>4. QED
      BY <3>1, <3>2, <3>3 DEF Promise!Next, Promise!StartMerge, Promise!GiveUp,
                              Promise!Chunks, Chunks
  <2>3. CASE Unwind
    BY <1>2, <2>3
       DEF Unwind, thread_vars, IInv, Left, Promise!Next, Promise!GiveUp
  <2>4. CASE UNCHANGED <<results, fate>>
    BY <2>4 DEF Promise!vars
  <2>5. QED
    BY <1>2, <2>1, <2>2, <2>3, <2>4
       DEF Next, Caller, WorkLoop, Returned, OpenContext, ProcessChunk, ClaimChunk,
           main_vars, thread_vars, vars, Spawn, SpawnFails, StartWorking, StopWorking,
           Join, Promise!Next
<1>3. QED
  BY <1>1, <1>2, Invariance, PTL DEF Spec, Promise!Spec, ImplementsParallelParse

-----------------------------------------------------------------------------
(* A step of a run is a step of the threads, or leaves them alone.         *)
LEMMA RunStepIsAStep == [RunNext]_runVars => [Next]_vars
<1> SUFFICES ASSUME [RunNext]_runVars PROVE [Next]_vars
  OBVIOUS
<1>1. CASE CallerStep
  BY <1>1 DEF CallerStep, Next
<1>2. CASE MergeStep
  BY <1>2 DEF MergeStep
<1>3. ASSUME NEW t \in Threads, Work(t) PROVE [Next]_vars
  BY <1>3 DEF Work, MakeOutput, Store, Next, WorkLoop
<1>4. CASE Over \/ UNCHANGED runVars
  BY <1>4 DEF Over, runVars
<1> QED BY <1>1, <1>2, <1>3, <1>4 DEF RunNext

(* The threads of a run behave as module Scheduler has it, fairness and    *)
(* all (run_with: collect_and_merge touches nothing of the scope's).       *)
THEOREM RunsTheScheduler == RunSpec => Spec
<1>1. RunInit => Init
  BY DEF RunInit
<1> QED BY <1>1, RunStepIsAStep, PTL DEF RunSpec, Spec

(* Hence a run writes each slot once (WriteOnceSlot::set), ...             *)
THEOREM RunWritesSlotsOnce == RunSpec => []OneWriterPerSlot
BY RunsTheScheduler, SlotsAreWrittenOnce, PTL

(* ... and refines the abstract parallel section.                          *)
THEOREM RunImplementsParallelParse == RunSpec => ImplementsParallelParse
BY RunsTheScheduler, Refinement, PTL

-----------------------------------------------------------------------------
(* What the slots hold: an output travels from the thread that made it to  *)
(* the slot of its chunk and is that chunk's, whoever owned it.            *)
Shapes ==
  /\ job \in Jobs
  /\ output = [t \in Threads |-> output[t]]
  /\ slots = [c \in Chunks |-> slots[c]]

InHand == \A t \in Threads : pc[t] = "set" => output[t] = Outputs[job][idx[t]]

Stored == \A c \in Chunks : results[c] # Unset => slots[c] = Outputs[job][c]

NotMergedYet ==
  fate # "merge" =>
    chunk = 0 /\ next_record = M!NoOffset /\ states = <<>> /\ outcome = M!Running

RunIInv == Shapes /\ InHand /\ Stored /\ NotMergedYet

LEMMA RunIInvInit == RunInit => RunIInv
<1> SUFFICES ASSUME RunInit PROVE RunIInv
  OBVIOUS
<1>1. Shapes
  BY DEF RunInit, Shapes
<1>2. InHand
  BY DEF RunInit, Init, InHand
<1>3. Stored
  BY DEF RunInit, Init, Stored
<1>4. NotMergedYet
  BY DEF RunInit, NotMergedYet
<1> QED BY <1>1, <1>2, <1>3, <1>4 DEF RunIInv

(* A step that leaves a thread's hands and the slots alone keeps them.     *)
LEMMA MakeOutputKeeps ==
  ASSUME IInv, RunIInv, NEW t \in Threads, MakeOutput(t)
  PROVE  Shapes' /\ InHand' /\ Stored'
<1> USE DEF RunIInv
<1>1. /\ pc \in [Threads -> {"unborn", "context", "process", "set", "claim"} \cup Finished]
      /\ pc' \in {[pc EXCEPT ![t] = "set"], [pc EXCEPT ![t] = "panicked"]}
      /\ idx' = idx /\ results' = results /\ job' = job /\ slots' = slots
  BY DEF IInv, TypeOK, MakeOutput, ProcessChunk, Goto
<1>2. output' = IF pc'[t] = "set"
                THEN [output EXCEPT ![t] = Outputs[job][idx[t]]] ELSE output
  BY DEF MakeOutput
<1>3. Shapes'
  BY <1>1, <1>2 DEF Shapes
<1>4. ASSUME NEW u \in Threads, pc'[u] = "set" PROVE output'[u] = Outputs[job][idx[u]]
  BY <1>1, <1>2, <1>4 DEF InHand, Shapes
<1>5. InHand'
  BY <1>1, <1>4 DEF InHand
<1>6. Stored'
  BY <1>1 DEF Stored
<1> QED BY <1>3, <1>5, <1>6

LEMMA StoreKeeps ==
  ASSUME IInv, RunIInv, NEW t \in Threads, Store(t)
  PROVE  Shapes' /\ InHand' /\ Stored'
<1> USE DEF RunIInv
<1>1. /\ pc \in [Threads -> {"unborn", "context", "process", "set", "claim"} \cup Finished]
      /\ results \in [Chunks -> Threads \cup {Unset}]
      /\ pc[t] = "set" /\ pc' = [pc EXCEPT ![t] = "claim"]
      /\ results' = [results EXCEPT ![idx[t]] = t]
      /\ idx' = idx /\ job' = job /\ output' = output
      /\ slots' = [slots EXCEPT ![idx[t]] = output[t]]
  BY DEF IInv, TypeOK, Store, SetSlot, SlotOf, Goto
<1>2. idx[t] \in Chunks
  BY <1>1 DEF IInv, Ownership, Owns
<1>3. Shapes'
  BY <1>1 DEF Shapes
<1>4. InHand'
  BY <1>1 DEF InHand
<1>5. ASSUME NEW c \in Chunks, results'[c] # Unset PROVE slots'[c] = Outputs[job][c]
  BY <1>1, <1>2, <1>5 DEF InHand, Stored, Shapes
<1>6. Stored'
  BY <1>1, <1>5 DEF Stored
<1> QED BY <1>3, <1>4, <1>6

(* Nobody else makes a thread have an output in hand.                      *)
LEMMA CallerPutsNothingInHand ==
  ASSUME TypeOK, Born, Caller
  PROVE  /\ \A t \in Threads : pc'[t] = "set" => pc[t] = "set"
         /\ idx' = idx /\ results' = results
<1> USE SchedulerAssumption DEF TypeOK, Threads
<1>1. CASE Spawn
  BY <1>1 DEF Spawn, Goto
<1>2. CASE SpawnFails
  BY <1>2 DEF SpawnFails
<1>3. CASE StartWorking
  BY <1>3 DEF StartWorking, Goto
<1>4. CASE StopWorking
  BY <1>4 DEF StopWorking, thread_vars
<1>5. CASE Join
  BY <1>5 DEF Join, thread_vars
<1>6. CASE LeaveScope
  BY <1>6 DEF LeaveScope, thread_vars
<1>7. CASE Unwind
  BY <1>7 DEF Unwind, thread_vars
<1> QED BY <1>1, <1>2, <1>3, <1>4, <1>5, <1>6, <1>7 DEF Caller

LEMMA OthersKeep ==
  ASSUME IInv, RunIInv, UNCHANGED <<job, output, slots>>, idx' = idx, results' = results,
         \A t \in Threads : pc'[t] = "set" => pc[t] = "set"
  PROVE  Shapes' /\ InHand' /\ Stored'
BY DEF RunIInv, Shapes, InHand, Stored

LEMMA ClaimKeeps ==
  ASSUME IInv, RunIInv, NEW t \in Threads, OpenContext(t) \/ ClaimChunk(t),
         UNCHANGED <<job, output, slots>>
  PROVE  Shapes' /\ InHand' /\ Stored'
<1>1. /\ pc \in [Threads -> {"unborn", "context", "process", "set", "claim"} \cup Finished]
      /\ idx \in [Threads -> Nat]
      /\ results' = results
      /\ \E place \in {"process", "failed", "done"} : pc' = [pc EXCEPT ![t] = place]
      /\ idx' = idx \/ idx' = [idx EXCEPT ![t] = next_chunk]
  BY DEF IInv, TypeOK, OpenContext, ClaimChunk, Goto
<1>2. ASSUME NEW u \in Threads, pc'[u] = "set"
      PROVE  pc[u] = "set" /\ idx'[u] = idx[u]
  BY <1>1, <1>2
<1>3. InHand'
  BY <1>2 DEF RunIInv, InHand
<1>4. Shapes' /\ Stored'
  BY <1>1 DEF RunIInv, Shapes, Stored
<1> QED BY <1>3, <1>4

(* The merge is not touched before the scope is left without a failure,    *)
(* nor is the scope entered again.                                         *)
LEMMA NotMergedYetStep ==
  ASSUME IInv, RunIInv, [RunNext]_runVars
  PROVE  NotMergedYet'
<1>1. CASE MergeStep
  BY <1>1 DEF MergeStep, MayMerge, NotMergedYet, vars, main_vars
<1>2. ASSUME UNCHANGED merge_vars PROVE NotMergedYet'
  <2>1. fate = "merge" => fate' = "merge"
    <3>1. [Next]_vars
      BY RunStepIsAStep
    <3>2. fate = "merge" => phase = "returned"
      BY DEF IInv, Left
    <3>3. ASSUME phase = "returned" PROVE fate' = fate
      BY <3>1, <3>3 DEF Next, Caller, Spawn, SpawnFails, StartWorking, StopWorking, Join,
           LeaveScope, Unwind, WorkLoop, OpenContext, ProcessChunk, SetSlot, ClaimChunk,
           Returned, vars, main_vars
    <3> QED BY <3>2, <3>3
  <2> QED BY <1>2, <2>1 DEF RunIInv, NotMergedYet, merge_vars
<1>3. CASE CallerStep
  BY <1>2, <1>3 DEF CallerStep
<1>4. ASSUME NEW t \in Threads, Work(t) PROVE NotMergedYet'
  BY <1>2, <1>4 DEF Work, MakeOutput, Store
<1>5. CASE Over \/ UNCHANGED runVars
  BY <1>2, <1>5 DEF Over, runVars
<1> QED BY <1>1, <1>3, <1>4, <1>5 DEF RunNext

LEMMA RunIInvStep == IInv /\ RunIInv /\ [RunNext]_runVars => RunIInv'
<1> SUFFICES ASSUME IInv, RunIInv, [RunNext]_runVars PROVE RunIInv'
  OBVIOUS
<1>1. NotMergedYet'
  BY NotMergedYetStep
<1>2. Shapes' /\ InHand' /\ Stored'
  <2>1. CASE CallerStep
    BY <2>1, CallerPutsNothingInHand, OthersKeep DEF CallerStep, IInv
  <2>2. CASE MergeStep
    <3>1. UNCHANGED <<job, slots>>
      BY <2>2 DEF MergeStep, M!Next, M!Skip, M!Select, M!Reparse, M!ReparseCannotOpen,
           M!Finish, M!Push, M!Abort, M!NextChunk
    <3>2. UNCHANGED <<pc, idx, results, output>>
      BY <2>2 DEF MergeStep, vars, thread_vars
    <3> QED BY <3>1, <3>2, OthersKeep
  <2>3. ASSUME NEW t \in Threads, Work(t) PROVE Shapes' /\ InHand' /\ Stored'
    BY <2>3, MakeOutputKeeps, StoreKeeps, ClaimKeeps DEF Work
  <2>4. CASE Over \/ UNCHANGED runVars
    BY <2>4, OthersKeep DEF Over, runVars, vars, thread_vars
  <2> QED BY <2>1, <2>2, <2>3, <2>4 DEF RunNext
<1> QED BY <1>1, <1>2 DEF RunIInv

LEMMA RunInvariance == RunSpec => [](IInv /\ RunIInv)
<1>1. RunInit => IInv /\ RunIInv
  BY RunIInvInit, IInvInit DEF RunInit
<1>2. IInv /\ RunIInv /\ [RunNext]_runVars => (IInv /\ RunIInv)'
  BY RunIInvStep, IInvStep, RunStepIsAStep
<1> QED BY <1>1, <1>2, PTL DEF RunSpec

-----------------------------------------------------------------------------
LEMMA SlotsAtMerge == IInv /\ RunIInv => MergeSeesEveryChunk
<1> SUFFICES ASSUME IInv, RunIInv, fate = "merge" PROVE slots = Outputs[job]
  BY DEF MergeSeesEveryChunk
<1>1. \A c \in Chunks : results[c] # Unset
  BY AllWrittenAtMerge DEF EveryChunkParsedAtMerge
<1>2. \A c \in Chunks : slots[c] = Outputs[job][c]
  BY <1>1 DEF RunIInv, Stored
<1>3. Outputs[job] = [c \in Chunks |-> M!ProcessChunk(job, c)]
  BY DEF Outputs, RunIInv, Shapes
<1> QED BY <1>2, <1>3 DEF RunIInv, Shapes

(* Whichever thread had a chunk and whenever it was done, the merge sees   *)
(* what Speculation makes of that chunk (work_loop: the slot is that of    *)
(* the chunk, not of the thread).                                          *)
THEOREM SlotsHoldTheirChunks == RunSpec => []MergeSeesEveryChunk
BY RunInvariance, SlotsAtMerge, PTL

(* The run enters the merge in a state that module Merge starts from.      *)
LEMMA MergeStarts ==
  ASSUME IInv, RunIInv, [RunNext]_runVars, fate # "merge", fate' = "merge"
  PROVE  M!Init'
<1>1. MergeSeesEveryChunk' /\ Shapes'
  <2>1. IInv' /\ RunIInv'
    BY IInvStep, RunIInvStep, RunStepIsAStep
  <2>2. (IInv /\ RunIInv => MergeSeesEveryChunk)'
    BY SlotsAtMerge, PTL
  <2> QED BY <2>1, <2>2 DEF RunIInv
<1>2. UNCHANGED merge_vars
  <2>1. CASE MergeStep
    BY <2>1 DEF MergeStep, MayMerge
  <2>2. CASE CallerStep
    BY <2>2 DEF CallerStep
  <2>3. ASSUME NEW t \in Threads, Work(t) PROVE UNCHANGED merge_vars
    BY <2>3 DEF Work, MakeOutput, Store
  <2>4. CASE Over \/ UNCHANGED runVars
    BY <2>4 DEF Over, runVars
  <2> QED BY <2>1, <2>2, <2>3, <2>4 DEF RunNext
<1>3. chunk' = 0 /\ next_record' = M!NoOffset /\ states' = <<>> /\ outcome' = M!Running
  BY <1>2 DEF RunIInv, NotMergedYet, merge_vars
<1>4. job' \in Jobs
  BY <1>1 DEF Shapes
<1>5. M!Chunks(job') = Chunks
  BY <1>4, ChunksAssumption DEF M!Chunks, Chunks
<1>6. slots' = [c \in M!Chunks(job') |-> M!ProcessChunk(job', c)]
  BY <1>1, <1>4, <1>5 DEF MergeSeesEveryChunk, Outputs
<1> QED BY <1>3, <1>4, <1>6 DEF M!Init

(* From that state on the run is module Merge's: no thread disturbs the   *)
(* merge, and nothing but the merge is left to do.                         *)
MergeAsSpecified ==
  [][/\ fate # "merge" /\ fate' = "merge" => M!Init'
     /\ fate = "merge" => [M!Next]_(M!vars)]_runVars

(* The run's merge is module Merge's, from its initial state and step by   *)
(* step: what is said there of the merge holds of a run (run_with: the     *)
(* scope has joined its threads, nobody else has the slots).               *)
THEOREM MergesAsModuleMerge == RunSpec => MergeAsSpecified
<1>1. IInv /\ RunIInv /\ [RunNext]_runVars =>
        [/\ fate # "merge" /\ fate' = "merge" => M!Init'
         /\ fate = "merge" => [M!Next]_(M!vars)]_runVars
  <2> SUFFICES ASSUME IInv, RunIInv, [RunNext]_runVars, fate = "merge"
               PROVE  [M!Next]_(M!vars)
    BY MergeStarts
  <2>1. phase = "returned"
    BY DEF IInv, Left
  <2>2. CASE CallerStep
    BY <2>1, <2>2 DEF CallerStep, Caller, Spawn, SpawnFails, StartWorking, StopWorking,
         Join, LeaveScope, Unwind
  <2>3. CASE MergeStep
    BY <2>3 DEF MergeStep
  <2>4. ASSUME NEW t \in Threads, Work(t) PROVE FALSE
    <3>1. pc[t] = "done"
      BY DEF IInv, Left
    <3> QED BY <2>4, <3>1 DEF Work, MakeOutput, Store, ProcessChunk, SetSlot,
              OpenContext, ClaimChunk
  <2>5. CASE Over \/ UNCHANGED runVars
    BY <2>5 DEF Over, runVars, merge_vars, M!vars
  <2> QED BY <2>2, <2>3, <2>4, <2>5 DEF RunNext
<1> QED BY <1>1, RunInvariance, PTL DEF RunSpec, MergeAsSpecified

-----------------------------------------------------------------------------
(* What MergeProofs knows of a walk from its first state on, a run knows   *)
(* from the moment its threads are joined.                                 *)
LEMMA InputsAreJobs == M!JobsAssumption
BY InputsAssumption DEF M!JobsAssumption

LEMMA WalkStarts == M!Init => M!Walk
BY M!WalkInit, InputsAreJobs

WalkAtMerge == fate = "merge" => M!Walk

(* Before the merge a run hands over nothing.                              *)
LEMMA NothingHandedOverYet ==
  ASSUME IInv, RunIInv, [RunNext]_runVars, fate # "merge"
  PROVE  UNCHANGED <<job, states, outcome>>
<1>1. CASE MergeStep
  BY <1>1 DEF MergeStep, MayMerge
<1>2. CASE CallerStep
  BY <1>2 DEF CallerStep, merge_vars
<1>3. ASSUME NEW t \in Threads, Work(t) PROVE UNCHANGED <<job, states, outcome>>
  BY <1>3 DEF Work, MakeOutput, Store, merge_vars
<1>4. CASE Over \/ UNCHANGED runVars
  BY <1>4 DEF Over, runVars, merge_vars
<1> QED BY <1>1, <1>2, <1>3, <1>4 DEF RunNext

(* A run that is merging stays so: its scope is behind it.                 *)
LEMMA MergingStays ==
  ASSUME IInv, RunIInv, [RunNext]_runVars, fate = "merge"
  PROVE  [M!Next]_(M!vars) /\ fate' = "merge"
<1>1. phase = "returned" /\ \A t \in Threads : pc[t] = "done"
  BY DEF IInv, Left
<1>2. CASE CallerStep
  BY <1>1, <1>2 DEF CallerStep, Caller, Spawn, SpawnFails, StartWorking, StopWorking,
       Join, LeaveScope, Unwind
<1>3. CASE MergeStep
  BY <1>3 DEF MergeStep, vars, main_vars
<1>4. ASSUME NEW t \in Threads, Work(t) PROVE FALSE
  BY <1>1, <1>4 DEF Work, MakeOutput, Store, ProcessChunk, SetSlot, OpenContext, ClaimChunk
<1>5. CASE Over \/ UNCHANGED runVars
  BY <1>5 DEF Over, runVars, merge_vars, M!vars, vars, main_vars
<1> QED BY <1>2, <1>3, <1>4, <1>5 DEF RunNext

LEMMA WalkAtMergeStep ==
  ASSUME IInv, RunIInv, WalkAtMerge, [RunNext]_runVars
  PROVE  WalkAtMerge'
<1>1. CASE fate = "merge"
  <2>1. M!Walk /\ [M!Next]_(M!vars)
    BY <1>1, MergingStays DEF WalkAtMerge
  <2>2. M!Walk'
    BY <2>1, M!WalkStep, InputsAreJobs
  <2> QED BY <2>2 DEF WalkAtMerge
<1>2. CASE fate # "merge"
  <2>1. fate' = "merge" => M!Init'
    BY <1>2, MergeStarts
  <2>2. (M!Init => M!Walk)'
    BY WalkStarts, PTL
  <2> QED BY <2>1, <2>2 DEF WalkAtMerge
<1> QED BY <1>1, <1>2

LEMMA RunStepIsOnePass ==
  ASSUME IInv, RunIInv, WalkAtMerge, M!Fit(job), [RunNext]_runVars
  PROVE  [M!Sequential!Next]_(M!Sequential!vars)
<1>1. CASE fate = "merge"
  <2>1. M!Walk /\ [M!Next]_(M!vars)
    BY <1>1, MergingStays DEF WalkAtMerge
  <2> QED BY <2>1, M!StepIsOnePass, InputsAreJobs
<1>2. CASE fate # "merge"
  <2>1. UNCHANGED <<job, states, outcome>>
    BY <1>2, NothingHandedOverYet
  <2> QED BY <2>1 DEF M!Sequential!vars, M!Merging
<1> QED BY <1>1, <1>2

(* The whole run implements the one pass: whatever the threads do, and in  *)
(* whatever order, what is handed over are the next records of the file,   *)
(* all of them if the run merges, and a run that fails fails as the one    *)
(* pass does, by a read, or in the scope with nothing handed over          *)
(* (run_with, collect_and_merge).                                          *)
THEOREM RunIsOnePass == RunSpec /\ M!Fit(job) => RunImplementsSequentialParse
<1>1. RunInit => WalkAtMerge
  BY DEF RunInit, Init, WalkAtMerge
<1>2. IInv /\ RunIInv /\ WalkAtMerge /\ [RunNext]_runVars => WalkAtMerge'
  BY WalkAtMergeStep
<1>3. IInv /\ RunIInv /\ WalkAtMerge /\ M!Fit(job) /\ [RunNext]_runVars
        => [M!Sequential!Next]_(M!Sequential!vars)
  BY RunStepIsOnePass
<1>4. IInv /\ RunIInv /\ M!Fit(job) /\ [RunNext]_runVars => M!Fit(job)'
  <2> SUFFICES ASSUME IInv, RunIInv, [RunNext]_runVars  PROVE job' = job
    OBVIOUS
  <2>1. CASE fate = "merge"
    <3>1. [M!Next]_(M!vars)
      BY <2>1, MergingStays
    <3> QED BY <3>1 DEF M!Next, M!Skip, M!Select, M!Reparse, M!ReparseCannotOpen,
              M!Finish, M!Push, M!Abort, M!NextChunk, M!vars
  <2>2. CASE fate # "merge"
    BY <2>2, NothingHandedOverYet
  <2> QED BY <2>1, <2>2
<1>5. RunInit => M!Sequential!Init
  <2> SUFFICES ASSUME RunInit  PROVE M!Sequential!Init
    OBVIOUS
  <2>1. job \in Jobs /\ states = <<>> /\ outcome = M!Running
    BY DEF RunInit
  <2>2. M!Running = M!Sequential!Running
    BY DEF M!Running, M!Sequential!Running, M!NoOffset
  <2>3. M!Merging = <<>>
    BY <2>1, M!NothingMerged, InputsAreJobs
  <2> QED BY <2>1, <2>2, <2>3 DEF M!Sequential!Init
<1> QED BY <1>1, <1>2, <1>3, <1>4, <1>5, RunInvariance, PTL
       DEF RunSpec, RunImplementsSequentialParse, M!ImplementsSequentialParse,
           M!Sequential!Spec

=============================================================================
