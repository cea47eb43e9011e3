------------------------------ MODULE Pipeline ------------------------------
(***************************************************************************)
(* A whole run of Scheduler::run_with (src/scheduler/mod.rs): the threads  *)
(* of module Scheduler make of each chunk what Speculation says, and put   *)
(* it into slots that only their index tells apart; the caller's thread,   *)
(* once it has left the scope without a failure, walks the slots as Merge  *)
(* says.                                                                   *)
(***************************************************************************)
EXTENDS Scheduler

CONSTANT Jobs

VARIABLES
  job,          \* the input, fixed at the start
  output,       \* of each thread: what it made of its chunk
  slots,        \* what the slots hold
  chunk, next_record, states, outcome   \* Merge's

(* The merge, taken with what is proved of it for PipelineProofs to use.   *)
M == INSTANCE MergeProofs WITH results <- slots

(* Merge's JobsAssumption, of these jobs.                                  *)
ASSUME InputsAssumption ==
  /\ Jobs \subseteq [config : M!Dialects, file : Seq(STRING),
                     chunk_size : Nat \ {0}, bad : {M!NoOffset} \cup Nat]
  /\ \A j \in Jobs : /\ M!ValidDialect(j.config)
                     /\ \A i \in DOMAIN j.file : j.file[i] # M!NoByte

ASSUME ChunksAssumption == \A j \in Jobs : M!CountOfChunks(j) = ChunkCount

(* process_chunk, of every chunk of every input.                           *)
Outputs == [j \in Jobs |-> [c \in Chunks |-> M!ProcessChunk(j, c)]]

merge_vars == <<chunk, next_record, states, outcome>>
runVars == <<vars, job, output, slots, merge_vars>>

RunInit ==
  /\ Init
  /\ job \in Jobs
  /\ output = [t \in Threads |-> M!Empty]
  /\ slots = [c \in Chunks |-> M!Empty]
  /\ chunk = 0 /\ next_record = M!NoOffset
  /\ states = <<>> /\ outcome = M!Running

-----------------------------------------------------------------------------
(* process_chunk returns, or unwinds.                                      *)
MakeOutput(t) ==
  /\ ProcessChunk(t)
  /\ output' = IF pc'[t] = "set"
               THEN [output EXCEPT ![t] = Outputs[job][idx[t]]] ELSE output
  /\ UNCHANGED <<job, slots, merge_vars>>

(* A variant: a slot per thread.                                           *)
SlotOfThread(t) == t

SlotOf(t) == idx[t]

Store(t) ==
  /\ SetSlot(t)
  /\ slots' = [slots EXCEPT ![SlotOf(t)] = output[t]]
  /\ UNCHANGED <<job, output, merge_vars>>

(* The rest of work_loop.                                                  *)
Work(t) ==
  \/ MakeOutput(t) \/ Store(t)
  \/ /\ OpenContext(t) \/ ClaimChunk(t)
     /\ UNCHANGED <<job, output, slots, merge_vars>>

CallerStep == Caller /\ UNCHANGED <<job, output, slots, merge_vars>>

(* A variant: the merge follows whatever the threads came to.              *)
MergeAnyway == phase = "returned"

(* A panic is resumed and an error returned before the merge.              *)
MayMerge == phase = "returned" /\ fate = "merge"

MergeStep == MayMerge /\ M!Next /\ UNCHANGED <<vars, output>>

Answered == phase = "returned" /\ (fate = "merge" => outcome # M!Running)
Over == Answered /\ UNCHANGED runVars

RunNext == CallerStep \/ MergeStep \/ (\E t \in Threads : Work(t)) \/ Over

(* The threads are scheduled as in Scheduler; the merge is a loop on one   *)
(* of them.                                                                *)
RunSpec == RunInit /\ [][RunNext]_runVars /\ Fairness /\ WF_runVars(MergeStep)

-----------------------------------------------------------------------------
(* Whichever thread had a chunk and whenever it was done with it, the      *)
(* merge sees what Speculation makes of that chunk.                        *)
MergeSeesEveryChunk ==
  fate = "merge" => slots = Outputs[job]

(* The whole run, from the first thread to the last state handed over,     *)
(* implements one pass over the file: a thread that is refused, fails or   *)
(* panics leaves it without a record, not with some of them.               *)
RunImplementsSequentialParse == M!ImplementsSequentialParse

(* The caller gets an answer, and it is the merge's where there was one.   *)
EveryRunAnswers == <>Answered

=============================================================================
