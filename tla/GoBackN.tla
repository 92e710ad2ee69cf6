------------------------------ MODULE GoBackN ------------------------------
(***************************************************************************)
(* One batch of parallel Go-Back-N transfers: the sender threads and the   *)
(* ack_receiver of sender_gbn.py, the receiver_loop of receiver_gbn.py,    *)
(* and the two sockets between them.  Every file_id of the batch is a      *)
(* stream of its own; they share the sockets.                              *)
(***************************************************************************)
EXTENDS GbnSender, GbnReceiver

vars == <<senderVars, receiverVars, wireVars>>

Init == WireInit /\ SenderInit /\ ReceiverInit

\* Every thread has returned and the receiver waits for a datagram.  Whether
\* ack_receiver, told to stop, still routes the ACKs left is open.
Finished ==
  /\ \A f \in FileIds : pc[f] = "done"
  /\ toReceiver = << >>
  /\ UNCHANGED vars

Next ==
  \/ \E f \in FileIds : SenderStep(f) /\ UNCHANGED receiverVars
  \/ \E f \in FileIds : Timeout(f) /\ UNCHANGED receiverVars
  \/ \E f \in FileIds : RouteAck(f) /\ UNCHANGED receiverVars
  \/ \E f \in FileIds : Receive(f) /\ UNCHANGED senderVars
  \/ LoseData /\ UNCHANGED senderVars
  \/ LoseAck /\ UNCHANGED <<senderVars, receiverVars>>
  \/ Finished

Spec == Init /\ [][Next]_vars

(***************************************************************************)
(* Fairness.  The threads and the receiver are scheduled by the operating  *)
(* system; a timer whose window is not acknowledged is seen to expire at   *)
(* some later check; and since each datagram is lost independently, with a *)
(* probability below one, a number that arrives again and again is         *)
(* received some time, and so is an ACK.                                   *)
(***************************************************************************)
Fairness ==
  /\ \A f \in FileIds : WF_vars(SenderStep(f) /\ UNCHANGED receiverVars)
  /\ \A f \in FileIds : SF_vars(Timeout(f) /\ UNCHANGED receiverVars)
  /\ \A f \in FileIds : SF_vars(RouteAck(f) /\ UNCHANGED receiverVars)
  /\ \A f \in FileIds, s \in SeqNums :
       SF_vars(Receive(f) /\ pkt.seq_num = s /\ UNCHANGED senderVars)

FairSpec == Spec /\ Fairness

-----------------------------------------------------------------------------
(* Absolute counts, from which the properties are stated.                  *)

\* Parts sent at least once.
SentParts(f) ==
  IF ~started[f] THEN 0 ELSE read[f] + (IF eof_reached[f] THEN 2 ELSE 1)

\* Parts below the sender's base.
AckedParts(f) == SentParts(f) - Dist(nextseqnum[f], base[f])

\* The part the receiver's expected_seq stands for.
ExpectedPart(f) == IF handle[f] = None THEN 0 ELSE Len(out[f]) + 1

\* Parts the receiver has taken in order so far.
GotParts(f) ==
  IF saved[f] # {} THEN LastPart(file[f]) + 1 ELSE ExpectedPart(f)

\* s is the beginning of the contents of path p.
IsPrefixOf(s, p) ==
  /\ Len(s) <= Chunks[p]
  /\ \A k \in 1 .. Len(s) : s[k] = [path |-> p, part |-> k]

\* The whole of path p, under the name the receiver gives it.
Copy(p) == [name |-> BaseName[p], content |-> Content(p)]

-----------------------------------------------------------------------------
(* Every variable of both programs has its type.                           *)
TypeOK ==
  /\ SenderTypeOK /\ ReceiverTypeOK
  /\ toReceiver \in Seq(Packet)
  /\ toSender \in Seq(Ack)

(* No acknowledgment is believed that the receiver did not give: the       *)
(* sender's base never passes what the receiver has taken in order, what   *)
(* the receiver has taken was sent, and no more than a window is out.      *)
(* sender_gbn.py:128-141 decides by numbers modulo MAX_SEQ only, without   *)
(* looking at nextseqnum.                                                  *)
WindowSound ==
  \A f \in FileIds :
    /\ 0 <= AckedParts(f)
    /\ AckedParts(f) <= GotParts(f)
    /\ GotParts(f) <= SentParts(f)
    /\ SentParts(f) <= AckedParts(f) + WINDOW_SIZE

(* Whatever is lost, repeated or late, and however the streams interleave  *)
(* on the shared sockets, what the receiver has written for a file_id is a *)
(* beginning of that file: no chunk is missing, repeated, out of order or  *)
(* of another file (receiver_gbn.py:103-122).                              *)
PrefixOfSource == \A f \in FileIds : IsPrefixOf(out[f], file[f])

(* A transfer the sender reports complete (sender_gbn.py:82, 165) was      *)
(* closed whole by the receiver, under its own name, and the receiver      *)
(* never closes anything else (receiver_gbn.py:124-135).                   *)
CompleteMeansSaved ==
  \A f \in FileIds :
    /\ saved[f] \subseteq {Copy(file[f])}
    /\ pc[f] = "done" => saved[f] # {}

(* The timer runs exactly while something is unacknowledged: never a       *)
(* window that nothing will retransmit, never a timer over an empty window *)
(* (sender_gbn.py:113, 144-147, 163).                                      *)
TimerCoversWindow ==
  \A f \in FileIds : timer[f] <=> base[f] # nextseqnum[f]

\* No chunk written for a file not yet closed is taken back.
KeepsOutput ==
  \A f \in FileIds :
    saved[f] = {} => /\ Len(out[f]) <= Len(out'[f])
                     /\ \A k \in 1 .. Len(out[f]) : out'[f][k] = out[f][k]

(* Until the receiver has closed the file, no step takes back a chunk it   *)
(* has written: a repeated START does not truncate a transfer under way    *)
(* (receiver_gbn.py:103-115).                                              *)
NoTruncationBeforeEnd == [][KeepsOutput]_vars

(* A transfer that was reported complete stays whole on disk once the      *)
(* network is quiet: no late packet truncates it (receiver_gbn.py:105-115, *)
(* 133: after END, a START numbered 0 opens the file again).               *)
IntactAtRest ==
  \A f \in FileIds :
    pc[f] = "done" /\ toReceiver = << >> => out[f] = Content(file[f])

(* The Go-Back-N machinery implements the sliding window: a step of any of *)
(* its processes sends one new packet, takes one, learns of some, reports  *)
(* completion, or changes nothing that the promise speaks of.              *)
SW == INSTANCE SlidingWindow WITH
        Window   <- WINDOW_SIZE,
        total    <- [f \in FileIds |-> LastPart(file[f]) + 1],
        sent     <- [f \in FileIds |-> SentParts(f)],
        got      <- [f \in FileIds |-> GotParts(f)],
        acked    <- [f \in FileIds |-> AckedParts(f)],
        complete <- [f \in FileIds |-> pc[f] = "done"]

ImplementsSlidingWindow == SW!Spec

(* Every transfer is eventually reported complete (sender_gbn.py:81-82).   *)
EventuallyComplete == \A f \in FileIds : <>(pc[f] = "done")
=============================================================================
