-------------------------- MODULE SequentialParse --------------------------
(***************************************************************************)
(* What a parse promises: the records one pass over the input yields, in   *)
(* order and without a gap, and an error only if that pass has it.  The    *)
(* promise is a single-pass `run_stream_inner` (src/scheduler/mod.rs),     *)
(* seen from outside: its records come out in batches, and it may fail on  *)
(* I/O at any time.                                                        *)
(***************************************************************************)
EXTENDS Integers, Sequences

CONSTANTS
  Jobs,
  RunStream(_),      \* what the single pass makes of a job: its records and its error
  NoError, IoError   \* no error at all, and one that reading may end in
VARIABLES job, yielded, outcome

vars == <<job, yielded, outcome>>

Running == [kind |-> "running", at |-> -1]
Merged  == [kind |-> "merged", at |-> -1]

Init == /\ job \in Jobs
        /\ yielded = <<>>
        /\ outcome = Running

(* A batch: the pass's records, up to a later one.                         *)
Yield ==
  /\ outcome = Running
  /\ \E n \in (Len(yielded) + 1)..Len(RunStream(job).records) :
       yielded' = SubSeq(RunStream(job).records, 1, n)
  /\ UNCHANGED <<job, outcome>>

Complete ==
  /\ outcome = Running
  /\ RunStream(job).error = NoError
  /\ yielded = RunStream(job).records
  /\ outcome' = Merged
  /\ UNCHANGED <<job, yielded>>

Fail ==
  /\ outcome = Running
  /\ outcome' \in {RunStream(job).error, IoError} \ {NoError}
  /\ UNCHANGED <<job, yielded>>

Next == Yield \/ Complete \/ Fail

Spec == Init /\ [][Next]_vars

=============================================================================
