---------------------------- MODULE GbnReceiver ----------------------------
(***************************************************************************)
(* receiver_gbn.py: receiver_loop.  One iteration takes one datagram from  *)
(* the socket and handles it to the end, by the state of its file_id.      *)
(***************************************************************************)
EXTENDS GbnWire

CONSTANT
  LossyData     \* whether --loss-rate or --corruption-rate is above zero

VARIABLES
  expected_seq, \* next in-order sequence number
  handle,       \* name of the file the handle writes, None when file_handle is
  out,          \* chunks written through the last handle opened
  saved         \* history: what was closed by an END, under which name

receiverVars == <<expected_seq, handle, out, saved>>

ReceiverInit ==
  /\ expected_seq = [f \in FileIds |-> 0]
  /\ handle = [f \in FileIds |-> None]
  /\ out = [f \in FileIds |-> << >>]
  /\ saved = [f \in FileIds |-> {}]

-----------------------------------------------------------------------------
\* A datagram dropped by the simulated loss, or with a bit flipped by the
\* simulated corruption and then rejected by its checksum: no state changes.
LoseData ==
  /\ LossyData
  /\ toReceiver # << >>
  /\ toReceiver' = Tail(toReceiver)
  /\ UNCHANGED <<receiverVars, toSender>>

\* Mutant: the state of any file_id takes the datagram.
BugTake(f) == toReceiver # << >> /\ toReceiver' = Tail(toReceiver)

\* The datagram at the head of the socket is of file_id f; it is taken.
Take(f) ==
  /\ toReceiver # << >> /\ Head(toReceiver).file_id = f
  /\ toReceiver' = Tail(toReceiver)

pkt == Head(toReceiver)

\* Mutant: a packet ahead of its turn is taken for the next one.
BugInOrder(f, p) == p.seq_num >= expected_seq[f]

\* Mutant: START is always taken, as the Stop-and-Wait receiver does.
BugStartAnytime(f, p) == p.ptype = "START" \/ p.seq_num = expected_seq[f]

InOrder(f, p) == p.seq_num = expected_seq[f]

\* Mutant: the ACK is not tagged with its file_id.
BugSendAck(f, ack_num, part) ==
  toSender' = Put(toSender, AckCap,
                  [file_id |-> 0, ack_num |-> ack_num, part |-> part])

\* send_ack: cumulative ACK of everything up to ack_num.
SendAck(f, ack_num, part) ==
  toSender' = Put(toSender, AckCap,
                  [file_id |-> f, ack_num |-> ack_num, part |-> part])

\* ACK an accepted packet and advance.
Accept(f) ==
  /\ SendAck(f, pkt.seq_num, pkt.part)
  /\ expected_seq' = [expected_seq EXCEPT ![f] = NextSeq(@)]

RecvStart(f) ==
  /\ Take(f) /\ InOrder(f, pkt) /\ pkt.ptype = "START"
  /\ BaseName[pkt.path] \in ValidNames
  /\ handle' = [handle EXCEPT ![f] = BaseName[pkt.path]]
  /\ out' = [out EXCEPT ![f] = << >>]
  /\ Accept(f)
  /\ UNCHANGED saved

RejectStart(f) ==
  /\ Take(f) /\ InOrder(f, pkt) /\ pkt.ptype = "START"
  /\ BaseName[pkt.path] \notin ValidNames
  /\ UNCHANGED <<receiverVars, toSender>>

RecvData(f) ==
  /\ Take(f) /\ InOrder(f, pkt) /\ pkt.ptype = "DATA"
  /\ handle[f] # None
  /\ out' = [out EXCEPT ![f] = Append(@, [path |-> pkt.path, part |-> pkt.part])]
  /\ Accept(f)
  /\ UNCHANGED <<handle, saved>>

IgnoreData(f) ==
  /\ Take(f) /\ InOrder(f, pkt) /\ pkt.ptype = "DATA"
  /\ handle[f] = None
  /\ UNCHANGED <<receiverVars, toSender>>

\* What END leaves on disk.
Closed(f) ==
  IF handle[f] = None THEN {}
  ELSE {[name |-> handle[f], content |-> out[f]]}

\* Mutant: END is acknowledged and counted as any packet.
BugExpectedAfterEnd(f) == NextSeq(expected_seq[f])

\* The number expected once END was handled.
ExpectedAfterEnd(f) == 0

RecvEnd(f) ==
  /\ Take(f) /\ InOrder(f, pkt) /\ pkt.ptype = "END"
  /\ saved' = [saved EXCEPT ![f] = @ \cup Closed(f)]
  /\ handle' = [handle EXCEPT ![f] = None]
  /\ SendAck(f, pkt.seq_num, pkt.part)
  /\ expected_seq' = [expected_seq EXCEPT ![f] = ExpectedAfterEnd(f)]
  /\ UNCHANGED out

\* Mutant: the number expected is acknowledged, not the one before it.
BugLastInOrder(f) == expected_seq[f]

\* The last number taken in order.
LastInOrder(f) == Dist(expected_seq[f], 1)

\* Out of order: discard, and repeat the last ACK unless 0 is expected.
Discard(f) ==
  /\ Take(f) /\ ~InOrder(f, pkt)
  /\ IF expected_seq[f] > 0
     THEN SendAck(f, LastInOrder(f), Len(out[f]))
     ELSE UNCHANGED toSender
  /\ UNCHANGED receiverVars

Receive(f) ==
  \/ RecvStart(f) \/ RejectStart(f) \/ RecvData(f) \/ IgnoreData(f)
  \/ RecvEnd(f) \/ Discard(f)

ReceiverTypeOK ==
  /\ expected_seq \in [FileIds -> SeqNums]
  /\ handle \in [FileIds -> Names \cup {None}]
  /\ out \in [FileIds -> Seq(Chunk)]
  /\ saved \in [FileIds -> SUBSET [name : Names, content : Seq(Chunk)]]
=============================================================================
