---------------------------- MODULE StopAndWait ----------------------------
(***************************************************************************)
(* sender_stopwait.py and receiver_stopwait.py: one transfer after the     *)
(* other through one pair of sockets, one packet at a time, with 1-bit     *)
(* sequence numbers.  A step of the sender is the code between two returns *)
(* of recvfrom; a step of the receiver handles one datagram to the end.    *)
(*                                                                         *)
(* As in GbnWire, a payload is the part of the file it carries.  "xfer",   *)
(* the number of the transfer, and "of", the packet an ACK answers, are    *)
(* auxiliary: no guard reads them.                                         *)
(***************************************************************************)
EXTENDS Integers, Sequences, OutputFiles

CONSTANTS
  Files, Chunks, BaseName, ValidNames, None,   \* as in GbnWire
  LongPaths,    \* paths of more bytes than from_bytes accepts in a payload
  MAX_RETRIES,  \* timeouts after which the sender gives a packet up, 20 in the code
  MaxTransfers, \* bound on the transfers the user asks for
  DataCap,      \* datagrams the receiver's socket buffer holds
  AckCap,       \* datagrams the sender's socket buffer holds
  BufferSize,   \* chunks that Python's file buffer holds
  LossyData,    \* whether --loss-rate or --corruption-rate is above zero
  LossyAcks,    \* whether the network may lose an ACK in transit
  EarlyTimeout, \* whether a timeout may come before a late answer
  Restarts      \* whether the receiver may be stopped and started again

ASSUME SwChunksAssumption == Chunks \in [Files -> Nat]
ASSUME SwBoundsAssumption ==
  /\ MAX_RETRIES \in Nat \ {0} /\ BufferSize \in Nat \ {0}
  /\ MaxTransfers \in Nat /\ DataCap \in Nat /\ AckCap \in Nat

Names == {BaseName[p] : p \in Files}

ASSUME SwNoneAssumption == None \notin Names

Chunk == [path : Files, part : Nat]

Id == [xfer : Nat, part : Nat]

Packet == [ptype : {"START", "DATA", "END"}, seq_num : {0, 1}, path : Files,
           part : Nat, xfer : Nat]

Ack == [ack_num : {0, 1}, of : Id]

IdOf(p) == [xfer |-> p.xfer, part |-> p.part]

\* The chunks of path p, in order, and the file the receiver makes of it.
Content(p) == [k \in 1 .. Chunks[p] |-> [path |-> p, part |-> k]]

Copy(p) == [name |-> BaseName[p], content |-> Content(p)]

\* What a file is: chunks, and holes where nothing was ever written.
Bytes == Seq(Chunk \cup {None})

VARIABLES
  toReceiver, toSender,   \* the datagrams waiting at the two sockets
  sender,       \* "prompt" or "waiting", for the ACK of packet
  packet,       \* the packet last sent
  retries,
  xfer,         \* transfers begun
  expected_seq,
  handle,       \* name of the open output file, or None
  out,          \* chunks written through the last handle opened
  flushed,      \* how many of them have left the handle's buffer
  disk,         \* contents of the receiver's files
  taken,        \* history: the packet last accepted
  saved,        \* history: what was closed by an END, under which name
  reported,     \* history: paths reported complete
  gaveUp,       \* history: the packets that were given up
  late          \* history: whether a timeout came before a late answer

netVars == <<toReceiver, toSender>>
senderVars == <<sender, packet, retries, xfer, reported, gaveUp, late>>
receiverVars == <<expected_seq, handle, out, flushed, disk, taken, saved>>
vars == <<netVars, senderVars, receiverVars>>

NoId == [xfer |-> 0, part |-> 0]

Init ==
  /\ toReceiver = << >> /\ toSender = << >>
  /\ sender = "prompt" /\ packet = None /\ retries = 0 /\ xfer = 0
  /\ reported = {} /\ gaveUp = {} /\ late = FALSE
  /\ expected_seq = 0 /\ handle = None /\ out = << >> /\ flushed = 0
  /\ disk = [n \in Names |-> << >>]
  /\ taken = NoId /\ saved = {}

\* sendto: a datagram that finds the peer's socket buffer full is dropped.
Put(queue, cap, datagram) ==
  IF Len(queue) < cap THEN Append(queue, datagram) ELSE queue

-----------------------------------------------------------------------------
(* The sender.                                                             *)

StartPacket(p) ==
  [ptype |-> "START", seq_num |-> 0, path |-> p, part |-> 0, xfer |-> xfer + 1]

\* Mutant: the number is not one bit.
BugFlip(n) == n + 1

Flip(n) == 1 - n

\* Mutant: the last chunk is not sent.
BugKind(path, k) == IF k < Chunks[path] THEN "DATA" ELSE "END"

\* A chunk, or END after the last.
Kind(path, k) == IF k <= Chunks[path] THEN "DATA" ELSE "END"

\* Mutant: the bit stays.
BugNextPacket ==
  [packet EXCEPT !.ptype = Kind(packet.path, packet.part + 1), !.part = @ + 1]

\* The next packet of the transfer.
NextPacket ==
  [packet EXCEPT !.ptype = Kind(packet.path, packet.part + 1),
                 !.seq_num = Flip(@), !.part = @ + 1]

\* Send pkt for the first time and wait for its ACK.
SendAndWait(pkt) ==
  /\ toReceiver' = Put(toReceiver, DataCap, pkt)
  /\ packet' = pkt
  /\ retries' = 0

StartTransfer(p) ==
  /\ sender = "prompt" /\ xfer < MaxTransfers
  /\ sender' = "waiting"
  /\ xfer' = xfer + 1
  /\ SendAndWait(StartPacket(p))
  /\ UNCHANGED <<toSender, reported, gaveUp, late, receiverVars>>

\* Mutant: any ACK is taken for the right one.
BugRightAck(ack) == TRUE

RightAck(ack) == ack.ack_num = packet.seq_num

\* The expected ACK: send the next packet, or report completion after END.
TakeAck ==
  /\ sender = "waiting" /\ toSender # << >> /\ RightAck(Head(toSender))
  /\ toSender' = Tail(toSender)
  /\ IF packet.ptype = "END"
     THEN /\ sender' = "prompt"
          /\ reported' = reported \cup {packet.path}
          /\ UNCHANGED <<toReceiver, packet, retries>>
     ELSE SendAndWait(NextPacket) /\ UNCHANGED <<sender, reported>>
  /\ UNCHANGED <<xfer, gaveUp, late, receiverVars>>

\* Any other ACK is dropped, and the wait starts anew.
StaleAck ==
  /\ sender = "waiting" /\ toSender # << >> /\ ~RightAck(Head(toSender))
  /\ toSender' = Tail(toSender)
  /\ UNCHANGED <<toReceiver, senderVars, receiverVars>>

\* socket.timeout: nothing arrived for TIMEOUT seconds.
TimedOut ==
  /\ sender = "waiting" /\ toSender = << >>
  /\ EarlyTimeout \/ toReceiver = << >>
  /\ late' = (late \/ toReceiver # << >>)

\* Mutant: timeouts are not counted.
BugAfterTimeout == retries

AfterTimeout == retries + 1

Retransmit ==
  /\ TimedOut /\ AfterTimeout < MAX_RETRIES
  /\ retries' = AfterTimeout
  /\ toReceiver' = Put(toReceiver, DataCap, packet)
  /\ UNCHANGED <<toSender, sender, packet, xfer, reported, gaveUp, receiverVars>>

GiveUp ==
  /\ TimedOut /\ AfterTimeout >= MAX_RETRIES
  /\ retries' = AfterTimeout
  /\ sender' = "prompt"
  /\ gaveUp' = gaveUp \cup {packet}
  /\ UNCHANGED <<netVars, packet, xfer, reported, receiverVars>>

Sender ==
  \/ TakeAck \/ StaleAck \/ Retransmit \/ GiveUp

-----------------------------------------------------------------------------
(* The output file, a buffered Python file object.                         *)

\* The files d after the open handle, if any, is flushed.
Flush(d) ==
  IF handle = None THEN d ELSE FlushTo(d, handle, out, flushed, None)

\* write(): a full buffer is flushed first.
Write(c) ==
  /\ out' = Append(out, c)
  /\ IF Len(out) - flushed < BufferSize
     THEN UNCHANGED <<flushed, disk>>
     ELSE flushed' = Len(out) /\ disk' = Flush(disk)

-----------------------------------------------------------------------------
(* The receiver.                                                           *)

Take == toReceiver # << >> /\ toReceiver' = Tail(toReceiver)

pkt == Head(toReceiver)

\* transfer_active: set by START and cleared by END, as the handle is.
transfer_active == handle # None

SendAck(ack_num, of) ==
  toSender' = Put(toSender, AckCap, [ack_num |-> ack_num, of |-> of])

\* Lost, or corrupted and discarded by the checksum.
LoseData ==
  /\ LossyData /\ Take
  /\ UNCHANGED <<toSender, senderVars, receiverVars>>

\* START carries the whole path: from_bytes discards it if it is too long, and
\* the pattern of names rejects it if its base name does not match.
Rejected(p) == p \in LongPaths \/ BaseName[p] \notin ValidNames

\* START opens its file whatever is expected.  The name is opened, and so
\* truncated, before the handle of a transfer that did not end is dropped and
\* thereby flushed and closed.
RecvStart ==
  /\ Take /\ pkt.ptype = "START" /\ ~Rejected(pkt.path)
  /\ handle' = BaseName[pkt.path]
  /\ out' = << >> /\ flushed' = 0
  /\ disk' = Flush([disk EXCEPT ![BaseName[pkt.path]] = << >>])
  /\ SendAck(pkt.seq_num, IdOf(pkt))
  /\ expected_seq' = Flip(pkt.seq_num)
  /\ taken' = IdOf(pkt)
  /\ UNCHANGED <<saved, senderVars>>

RejectStart ==
  /\ Take /\ pkt.ptype = "START" /\ Rejected(pkt.path)
  /\ UNCHANGED <<toSender, senderVars, receiverVars>>

\* Mutant: the sequence number is not looked at.
BugInOrder == TRUE

InOrder == pkt.seq_num = expected_seq

RecvData ==
  /\ Take /\ pkt.ptype = "DATA" /\ transfer_active /\ InOrder
  /\ Write([path |-> pkt.path, part |-> pkt.part])
  /\ SendAck(pkt.seq_num, IdOf(pkt))
  /\ expected_seq' = Flip(expected_seq)
  /\ taken' = IdOf(pkt)
  /\ UNCHANGED <<handle, saved, senderVars>>

\* Mutant: the packet that is expected is acknowledged.
BugLastValid == expected_seq

LastValid == Flip(expected_seq)

\* A duplicate: repeat the ACK of the last packet taken.
RepeatAck ==
  /\ Take /\ pkt.ptype = "DATA" /\ transfer_active /\ ~InOrder
  /\ SendAck(LastValid, taken)
  /\ UNCHANGED <<senderVars, receiverVars>>

\* Mutant: the file stays open.
BugClosed == disk

\* The files once the output file is closed.
Closed == Flush(disk)

\* END closes the file; its sequence number is not looked at.
RecvEnd ==
  /\ Take /\ pkt.ptype = "END" /\ transfer_active
  /\ disk' = Closed
  /\ saved' = saved \cup {[name |-> handle, content |-> out]}
  /\ handle' = None
  /\ flushed' = Len(out)
  /\ SendAck(pkt.seq_num, IdOf(pkt))
  /\ expected_seq' = 0
  /\ taken' = IdOf(pkt)
  /\ UNCHANGED <<out, senderVars>>

\* DATA or END while no transfer is active: no ACK.
Ignore ==
  /\ Take /\ pkt.ptype # "START" /\ ~transfer_active
  /\ UNCHANGED <<toSender, senderVars, receiverVars>>

Receiver ==
  \/ RecvStart \/ RejectStart \/ RecvData \/ RepeatAck \/ RecvEnd \/ Ignore

\* The receiver is stopped and started again: interrupted, it closes its file,
\* and killed it does not.  What waited at its socket is gone.
Restart ==
  /\ Restarts
  /\ disk' \in {disk, Closed}
  /\ handle' = None /\ out' = << >> /\ flushed' = 0
  /\ expected_seq' = 0
  /\ toReceiver' = << >>
  /\ UNCHANGED <<toSender, taken, saved, senderVars>>

-----------------------------------------------------------------------------
\* The network loses an ACK.
LoseAck ==
  /\ LossyAcks /\ toSender # << >>
  /\ toSender' = Tail(toSender)
  /\ UNCHANGED <<toReceiver, senderVars, receiverVars>>

\* The user ends the session at the prompt.
Quit ==
  /\ sender = "prompt" /\ xfer = MaxTransfers /\ toReceiver = << >>
  /\ UNCHANGED vars

Next ==
  \/ \E p \in Files : StartTransfer(p)
  \/ Sender \/ Receiver \/ Restart \/ LoseData \/ LoseAck \/ Quit

Spec == Init /\ [][Next]_vars

\* Both programs keep running.  Nothing is assumed of the network.
FairSpec == Spec /\ WF_vars(Sender) /\ WF_vars(Receiver \/ LoseData)

-----------------------------------------------------------------------------
(* Every variable has its type.                                            *)
SwTypeOK ==
  /\ toReceiver \in Seq(Packet) /\ toSender \in Seq(Ack)
  /\ sender \in {"prompt", "waiting"}
  /\ packet \in Packet \cup {None}
  /\ retries \in 0 .. MAX_RETRIES /\ xfer \in 0 .. MaxTransfers
  /\ sender = "waiting" => packet \in Packet /\ retries < MAX_RETRIES
  /\ reported \subseteq Files /\ gaveUp \subseteq Packet /\ late \in BOOLEAN
  /\ expected_seq \in {0, 1} /\ handle \in Names \cup {None}
  /\ out \in Seq(Chunk) /\ flushed \in 0 .. Len(out)
  /\ disk \in [Names -> Bytes]
  /\ taken \in Id
  /\ saved \subseteq [name : Names, content : Seq(Chunk)]

\* A transfer leaves nothing on the wire for the next one, unless it was given
\* up, after a timeout that came too early.
Undisturbed == gaveUp = {} \/ ~late

(* The sender waits for the ACK of the packet the receiver took last, or   *)
(* of the one after it: one bit is enough to tell them apart               *)
(* (sender_stopwait.py:96, receiver_stopwait.py:113).                      *)
InLockStep ==
  Undisturbed /\ sender = "waiting" =>
    \/ taken = IdOf(packet)
    \/ packet.part > 0 /\ taken = [xfer |-> packet.xfer, part |-> packet.part - 1]
    \/ packet.part = 0 /\ taken.xfer < packet.xfer

(* The ACK the sender takes for its packet's was given for that packet,    *)
(* however late the ACKs and whatever is lost (sender_stopwait.py:95-97).  *)
NoFalseAck ==
  [][Undisturbed /\ TakeAck => Head(toSender).of = IdOf(packet)]_vars

(* A transfer the sender reports complete was closed whole by the receiver *)
(* under its own name, and that is all the receiver ever closes, although  *)
(* the receiver may be started again in a transfer, and transfers may be   *)
(* given up and leave their file open (sender_stopwait.py:151-154,         *)
(* receiver_stopwait.py:134-153, 160-165).                                 *)
SavedWhole ==
  Undisturbed => /\ \A p \in reported : Copy(p) \in saved
                 /\ saved \subseteq {Copy(p) : p \in Files}

(* Once the transfer reported last is over, its file is on disk as it was  *)
(* at the sender: no repeated START truncates it, no handle left open by   *)
(* an earlier transfer writes into it (receiver_stopwait.py:97-105).       *)
LastOnDisk ==
  (/\ Undisturbed
   /\ sender = "prompt" /\ toReceiver = << >>
   /\ packet # None /\ packet \notin gaveUp)
     => disk[BaseName[packet.path]] = Content(packet.path)

Waiting == sender = "waiting"

(* The two programs implement a serial transfer: the sender goes on only   *)
(* when the receiver has taken its packet, which happens once for each,    *)
(* whatever is lost or repeated, and END, and nothing else, adds the whole *)
(* file to what was closed (sender_stopwait.py:66-110,                     *)
(* receiver_stopwait.py:87-157).                                           *)
ST == INSTANCE SerialTransfer WITH
        Paths    <- Files,
        LastPart <- [p \in Files |-> Chunks[p] + 1],
        CopyOf   <- [p \in Files |-> Copy(p)],
        NoPath   <- None,
        clean    <- Undisturbed,
        busy     <- Waiting,
        path     <- IF Waiting THEN packet.path ELSE None,
        part     <- IF Waiting THEN packet.part ELSE 0,
        got      <- Waiting /\ taken = IdOf(packet),
        stored   <- saved

ImplementsSerialTransfer == ST!Spec

(* Every transfer comes to an end, complete or given up, whatever is lost  *)
(* and even if its name is rejected (sender_stopwait.py:102-110).          *)
TransfersEnd == sender = "waiting" ~> sender = "prompt"
=============================================================================
