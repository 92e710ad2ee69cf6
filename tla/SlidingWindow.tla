--------------------------- MODULE SlidingWindow ---------------------------
(***************************************************************************)
(* What a Go-Back-N transfer promises, with nothing of how: every packet   *)
(* of a file has an absolute number, and three counters per file say how   *)
(* many were sent for the first time, how many the receiver has taken in   *)
(* order, and how many the sender knows to be taken.  There are no         *)
(* sequence numbers modulo anything, no queues, no loss and no timer.      *)
(***************************************************************************)
EXTENDS Integers

CONSTANTS
  FileIds,
  Window      \* how far the sender may run ahead of what is acknowledged

VARIABLES
  total,      \* total[f]: packets of file f, START and END included
  sent,       \* packets sent at least once
  got,        \* packets taken by the receiver
  acked,      \* packets the sender knows to be taken
  complete    \* whether the sender reported the transfer complete

swVars == <<total, sent, got, acked, complete>>

Init ==
  /\ total \in [FileIds -> Nat]
  /\ sent = [f \in FileIds |-> 0]
  /\ got = [f \in FileIds |-> 0]
  /\ acked = [f \in FileIds |-> 0]
  /\ complete = [f \in FileIds |-> FALSE]

\* Send the next packet for the first time.
Send(f) ==
  /\ sent[f] < total[f] /\ sent[f] - acked[f] < Window
  /\ sent' = [sent EXCEPT ![f] = @ + 1]
  /\ UNCHANGED <<total, got, acked, complete>>

\* Take the next packet, which must have been sent.
TakeNext(f) ==
  /\ got[f] < sent[f]
  /\ got' = [got EXCEPT ![f] = @ + 1]
  /\ UNCHANGED <<total, sent, acked, complete>>

\* Learn that more packets were taken.
Learn(f) ==
  /\ \E n \in (acked[f] + 1) .. got[f] : acked' = [acked EXCEPT ![f] = n]
  /\ UNCHANGED <<total, sent, got, complete>>

\* Report completion: everything is known to be taken.
Report(f) ==
  /\ acked[f] = total[f] /\ ~complete[f]
  /\ complete' = [complete EXCEPT ![f] = TRUE]
  /\ UNCHANGED <<total, sent, got, acked>>

Next == \E f \in FileIds : Send(f) \/ TakeNext(f) \/ Learn(f) \/ Report(f)

Spec == Init /\ [][Next]_swVars
=============================================================================
