------------------------------ MODULE DemuxInv ------------------------------
(***************************************************************************)
(* The inductive invariant of AckDemux: who holds a lock, which threads    *)
(* and demultiplexers of which batch may still run.                        *)
(***************************************************************************)
EXTENDS AckDemux

\* A lock is held by the thread that copies its list, or by the batch's own
\* demultiplexer, that has appended to it.
LockInv ==
  /\ \A f \in FileIds : thread[f] = "clear" => lock[f] = "thread"
  /\ router[batch] = "trace" => lock[data[batch].file_id] = "router"

\* Only a file_id of the batch has a thread, and user_loop has waited for all.
ThreadInv ==
  /\ \A f \in FileIds \ ack_states : thread[f] = "done"
  /\ user = "prompt" => caller = "user_loop"
  /\ user \in {"stopping", "prompt"} /\ caller = "user_loop" => Reading = {}

\* run_transfer runs one batch and closes the socket; at the prompt and after
\* the next batch has begun, the demultiplexer of a batch was told to stop.
BatchInv ==
  /\ caller = "run_transfer" => batch = 1
  /\ closed => caller = "run_transfer"
  /\ user # "joining" => batch \in stop_event
  /\ \A g \in 1 .. batch - 1 : g \in stop_event
  /\ \A g \in Batches : router[g] = "unborn" <=> g > batch

\* While every join was in time no demultiplexer outlives its batch.
JoinInv ==
  outlived = {} =>
    /\ \A g \in 1 .. batch - 1 : router[g] = "ended"
    /\ user = "prompt" => router[batch] = "ended"

(* What every step of the threads keeps; that they are a mailbox, and that *)
(* recvfrom never blocks while every join is in time, follows from it.     *)
DInv ==
  DemuxTypeOK /\ LockInv /\ ThreadInv /\ BatchInv /\ JoinInv /\ NeverBlocks
=============================================================================
