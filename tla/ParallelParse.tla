--------------------------- MODULE ParallelParse ---------------------------
(***************************************************************************)
(* What the scheduler promises, whatever its threads do: every chunk is    *)
(* parsed at most once, all of them are when the merge starts, and nothing *)
(* is parsed any more once the run has left the parallel section           *)
(* (src/scheduler/mod.rs, the thread scope of run_with).                   *)
(***************************************************************************)
EXTENDS Naturals

CONSTANT ChunkCount
VARIABLES parsed, fate

vars == <<parsed, fate>>
Chunks == 0..(ChunkCount - 1)

Init == parsed = {} /\ fate = "running"

ParseOne ==
  /\ fate = "running"
  /\ \E c \in Chunks \ parsed : parsed' = parsed \cup {c}
  /\ UNCHANGED fate

StartMerge ==
  /\ fate = "running"
  /\ parsed = Chunks
  /\ fate' = "merge"
  /\ UNCHANGED parsed

GiveUp ==
  /\ fate = "running"
  /\ fate' \in {"error", "panic"}
  /\ UNCHANGED parsed

Next == ParseOne \/ StartMerge \/ GiveUp

Spec == Init /\ [][Next]_vars

=============================================================================
