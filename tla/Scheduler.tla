----------------------------- MODULE Scheduler -----------------------------
(***************************************************************************)
(* The parallel section of Scheduler::run_with (src/scheduler/mod.rs):     *)
(* thread 0, the caller's, spawns the others, works like one of them, then *)
(* joins them in order.  A thread starts on the chunk of its own number    *)
(* and takes further chunks from an atomic counter; each chunk's output    *)
(* goes into a slot of its own that nothing guards (scheduler/slot.rs).    *)
(*                                                                         *)
(* A thread can fail where the code can: the operating system may refuse   *)
(* it, opening its I/O context may fail, and process_chunk, which runs the *)
(* caller's accumulator and opens a chunk with an expect, may panic.       *)
(***************************************************************************)
EXTENDS Naturals, Sequences

CONSTANTS ThreadCount, ChunkCount

(* resolve_thread_count never exceeds the number of chunks, and is at      *)
(* least one where there is a chunk; run returns early where there is none.*)
ASSUME SchedulerAssumption ==
  /\ ChunkCount \in Nat
  /\ ThreadCount \in 1..ChunkCount

VARIABLES
  next_chunk,  \* the atomic counter chunks are claimed from
  results,     \* who wrote each slot, or Unset
  pc,          \* where each thread is in its work_loop
  idx,         \* the chunk each thread works on
  phase,       \* where thread 0 is in run_with
  handles,     \* threads 1..handles were spawned
  joined,      \* threads 1..joined were joined
  errors,      \* the errors collected, in order
  panic,       \* the first panic collected from a join, or NoThread
  fate         \* "running", then how the parallel section ended

thread_vars == <<next_chunk, results, pc, idx>>
main_vars == <<phase, handles, joined, errors, panic, fate>>
vars == <<thread_vars, main_vars>>

Threads == 0..(ThreadCount - 1)
Chunks == 0..(ChunkCount - 1)
NoThread == ThreadCount
Unset == NoThread

Finished == {"done", "failed", "panicked"}
SpawnError(t)   == [kind |-> "spawn", thread |-> t]
ContextError(t) == [kind |-> "context", thread |-> t]

(* A variant: the counter starts at the first chunk, which thread 0 has.   *)
InitFromZero ==
  /\ next_chunk = 0
  /\ results = [c \in Chunks |-> Unset]
  /\ pc = [t \in Threads |-> "unborn"]
  /\ idx = [t \in Threads |-> t]
  /\ phase = "spawning"
  /\ handles = 0 /\ joined = 0
  /\ errors = <<>> /\ panic = NoThread
  /\ fate = "running"

Init ==
  /\ next_chunk = ThreadCount
  /\ results = [c \in Chunks |-> Unset]
  /\ pc = [t \in Threads |-> "unborn"]
  /\ idx = [t \in Threads |-> t]
  /\ phase = "spawning"
  /\ handles = 0 /\ joined = 0
  /\ errors = <<>> /\ panic = NoThread
  /\ fate = "running"

-----------------------------------------------------------------------------
(* work_loop, on any thread.                                               *)
Goto(t, place) == pc' = [pc EXCEPT ![t] = place]

OpenContext(t) ==
  /\ pc[t] = "context"
  /\ Goto(t, "process") \/ Goto(t, "failed")
  /\ UNCHANGED <<next_chunk, results, idx, main_vars>>

ProcessChunk(t) ==
  /\ pc[t] = "process"
  /\ Goto(t, "set") \/ Goto(t, "panicked")
  /\ UNCHANGED <<next_chunk, results, idx, main_vars>>

SetSlot(t) ==
  /\ pc[t] = "set"
  /\ results' = [results EXCEPT ![idx[t]] = t]
  /\ Goto(t, "claim")
  /\ UNCHANGED <<next_chunk, idx, main_vars>>

(* Two variants: the bound is checked on the incremented counter; a thread *)
(* that finds the counter exhausted tries again.                           *)
ClaimOneShort(t) ==
  /\ pc[t] = "claim"
  /\ idx' = [idx EXCEPT ![t] = next_chunk]
  /\ next_chunk' = next_chunk + 1
  /\ Goto(t, IF next_chunk + 1 >= ChunkCount THEN "done" ELSE "process")
  /\ UNCHANGED <<results, main_vars>>

ClaimForEver(t) ==
  /\ pc[t] = "claim"
  /\ idx' = [idx EXCEPT ![t] = next_chunk]
  /\ next_chunk' = IF next_chunk >= ChunkCount THEN next_chunk ELSE next_chunk + 1
  /\ Goto(t, IF next_chunk >= ChunkCount THEN "claim" ELSE "process")
  /\ UNCHANGED <<results, main_vars>>

(* fetch_add, then the bounds check on the value it returned.              *)
ClaimChunk(t) ==
  /\ pc[t] = "claim"
  /\ idx' = [idx EXCEPT ![t] = next_chunk]
  /\ next_chunk' = next_chunk + 1
  /\ Goto(t, IF next_chunk >= ChunkCount THEN "done" ELSE "process")
  /\ UNCHANGED <<results, main_vars>>

WorkLoop(t) == OpenContext(t) \/ ProcessChunk(t) \/ SetSlot(t) \/ ClaimChunk(t)

-----------------------------------------------------------------------------
(* Thread 0 around its own work_loop.                                      *)
(* Variants: one thread too many; the others keep claiming after a refusal. *)
SpawnOneTooMany ==
  /\ phase = "spawning" /\ handles < ThreadCount
  /\ handles' = handles + 1
  /\ Goto(handles + 1, "context")
  /\ UNCHANGED <<next_chunk, results, idx, phase, joined, errors, panic, fate>>

SpawnFailsQuietly ==
  /\ phase = "spawning" /\ handles < ThreadCount - 1
  /\ errors' = Append(errors, SpawnError(handles + 1))
  /\ phase' = "joining"
  /\ UNCHANGED <<thread_vars, handles, joined, panic, fate>>

Spawn ==
  /\ phase = "spawning" /\ handles < ThreadCount - 1
  /\ handles' = handles + 1
  /\ Goto(handles + 1, "context")
  /\ UNCHANGED <<next_chunk, results, idx, phase, joined, errors, panic, fate>>

(* Nobody would parse the chunk of the missing thread: the run fails, and  *)
(* the threads already running stop at their next claim.                   *)
SpawnFails ==
  /\ phase = "spawning" /\ handles < ThreadCount - 1
  /\ next_chunk' = ChunkCount
  /\ errors' = Append(errors, SpawnError(handles + 1))
  /\ phase' = "joining"
  /\ UNCHANGED <<results, pc, idx, handles, joined, panic, fate>>

StartWorking ==
  /\ phase = "spawning" /\ handles = ThreadCount - 1
  /\ phase' = "working"
  /\ Goto(0, "context")
  /\ UNCHANGED <<next_chunk, results, idx, handles, joined, errors, panic, fate>>

StopWorking ==
  /\ phase = "working" /\ pc[0] \in {"done", "failed"}
  /\ phase' = "joining"
  /\ errors' = IF pc[0] = "failed" THEN Append(errors, ContextError(0)) ELSE errors
  /\ UNCHANGED <<thread_vars, handles, joined, panic, fate>>

(* A variant: only the panic of a thread is looked at, not its error.      *)
JoinForgetsError ==
  LET t == joined + 1 IN
  /\ phase = "joining" /\ joined < handles
  /\ pc[t] \in Finished
  /\ joined' = t
  /\ panic' = IF pc[t] = "panicked" /\ panic = NoThread THEN t ELSE panic
  /\ UNCHANGED <<thread_vars, phase, handles, errors, fate>>

Join ==
  LET t == joined + 1 IN
  /\ phase = "joining" /\ joined < handles
  /\ pc[t] \in Finished
  /\ joined' = t
  /\ errors' = IF pc[t] = "failed" THEN Append(errors, ContextError(t)) ELSE errors
  /\ panic' = IF pc[t] = "panicked" /\ panic = NoThread THEN t ELSE panic
  /\ UNCHANGED <<thread_vars, phase, handles, fate>>

(* A variant: an error hides a panic.                                      *)
ErrorsFirst ==
  /\ phase = "joining" /\ joined = handles
  /\ phase' = "returned"
  /\ fate' = IF errors # <<>> THEN "error"
             ELSE IF panic # NoThread THEN "panic" ELSE "merge"
  /\ UNCHANGED <<thread_vars, handles, joined, errors, panic>>

(* A panic is resumed before an error is looked at.                        *)
LeaveScope ==
  /\ phase = "joining" /\ joined = handles
  /\ phase' = "returned"
  /\ fate' = IF panic # NoThread THEN "panic"
             ELSE IF errors # <<>> THEN "error" ELSE "merge"
  /\ UNCHANGED <<thread_vars, handles, joined, errors, panic>>

(* A panic of thread 0 itself unwinds through the scope, which waits for   *)
(* the threads that are still running.                                     *)
Unwind ==
  /\ phase = "working" /\ pc[0] = "panicked"
  /\ \A t \in 1..handles : pc[t] \in Finished
  /\ phase' = "returned"
  /\ fate' = "panic"
  /\ UNCHANGED <<thread_vars, handles, joined, errors, panic>>

Caller == Spawn \/ SpawnFails \/ StartWorking \/ StopWorking
          \/ Join \/ LeaveScope \/ Unwind

(* The run is over: what follows is the merge, or nothing.                 *)
Returned == phase = "returned" /\ UNCHANGED vars

Next == Caller \/ (\E t \in Threads : WorkLoop(t)) \/ Returned

(* A running thread is eventually scheduled, and process_chunk ends: it is *)
(* a loop over a finite chunk.                                             *)
Fairness == WF_vars(Caller) /\ \A t \in Threads : WF_vars(WorkLoop(t))

Spec == Init /\ [][Next]_vars /\ Fairness

-----------------------------------------------------------------------------
TypeOK ==
  /\ next_chunk \in Nat /\ next_chunk >= ThreadCount
  /\ results \in [Chunks -> Threads \cup {Unset}]
  /\ pc \in [Threads -> {"unborn", "context", "process", "set", "claim"} \cup Finished]
  /\ idx \in [Threads -> Nat]
  /\ phase \in {"spawning", "working", "joining", "returned"}
  /\ handles \in 0..(ThreadCount - 1) /\ joined \in 0..handles
  /\ errors \in Seq([kind : {"spawn", "context"}, thread : Threads])
  /\ panic \in Threads \cup {NoThread}
  /\ fate \in {"running", "merge", "error", "panic"}

(* A thread owns the chunk it is to parse until it has written its slot.   *)
(* One that failed or panicked owns it for ever.                           *)
Owns(t) == pc[t] \notin {"claim", "done"}

(* `WriteOnceSlot::set` "must be called at most once, with no concurrent   *)
(* access" (slot.rs:18): a chunk has one owner at most, and the owner's    *)
(* slot is still empty.                                                    *)
OneWriterPerSlot ==
  \A t \in Threads : Owns(t) =>
    /\ idx[t] \in Chunks
    /\ results[idx[t]] = Unset
    /\ \A u \in Threads \ {t} : Owns(u) => idx[u] # idx[t]

(* collect_and_merge takes every slot for written (merge.rs:45, "chunk was *)
(* not parsed").                                                           *)
EveryChunkParsedAtMerge ==
  fate = "merge" => \A c \in Chunks : results[c] # Unset

(* The scope hides no failure: a panic of any thread is the caller's       *)
(* panic, and without one the first error is that of the lowest thread,    *)
(* the refused one before all.                                             *)
SpawnFailed == errors # <<>> /\ errors[1].kind = "spawn"
FirstFailureWins ==
  phase = "returned" =>
    /\ fate = "panic" <=> \E t \in Threads : pc[t] = "panicked"
    /\ fate = "error" =>
         \/ SpawnFailed
         \/ LET t == errors[1].thread
            IN  pc[t] = "failed" /\ \A u \in 0..(t - 1) : pc[u] # "failed"

(* Once a thread was refused, no thread takes another chunk.               *)
RefusalStopsClaims ==
  [][SpawnFailed => \A t \in Threads : pc[t] = "claim" => pc'[t] \in {"claim", "done"}]_vars

(* The parallel section parses each chunk once, all of them before the     *)
(* merge, and none after it has returned.                                  *)
Promise == INSTANCE ParallelParse WITH
  parsed <- {c \in Chunks : results[c] # Unset}
ImplementsParallelParse == Promise!Spec

=============================================================================
