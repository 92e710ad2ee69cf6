------------------------------- MODULE GbnInv -------------------------------
(***************************************************************************)
(* The inductive invariant of GoBackN.  Every sequence number in either    *)
(* program or on the wire is the residue of an absolute part number, and   *)
(* what makes residues unambiguous is that nothing on the wire is more     *)
(* than one window older than anything that follows it.                    *)
(***************************************************************************)
EXTENDS GoBackN

\* Packets sent and not yet acknowledged.
InFlight(f) == Dist(nextseqnum[f], base[f])

\* The packet of stream f that carries part k of path p.
PacketOf(f, p, k) ==
  [file_id |-> f, seq_num |-> k % MAX_SEQ,
   ptype |-> IF k = 0 THEN "START"
             ELSE IF k = LastPart(p) THEN "END" ELSE "DATA",
   path |-> p, part |-> k]

-----------------------------------------------------------------------------
(* The sender thread.                                                      *)

ReadInv(f) ==
  /\ read[f] <= Chunks[file[f]]
  /\ ~started[f] => read[f] = 0 /\ ~eof_reached[f]
  /\ eof_reached[f] => read[f] = Chunks[file[f]]

NumberInv(f) ==
  /\ nextseqnum[f] = SentParts(f) % MAX_SEQ
  /\ base[f] = AckedParts(f) % MAX_SEQ
  /\ InFlight(f) <= WINDOW_SIZE

BufferInv(f) ==
  \A s \in SeqNums :
    buffer[f][s] = IF Dist(s, base[f]) < InFlight(f)
                   THEN PacketOf(f, file[f], AckedParts(f) + Dist(s, base[f]))
                   ELSE None

\* What a thread has in its buffer is its own.
OwnBuffer(f) ==
  \A s \in SeqNums : buffer[f][s] # None => buffer[f][s].file_id = f

PcInv(f) ==
  /\ pc[f] = "done" => eof_reached[f] /\ base[f] = nextseqnum[f]
  /\ pc[f] = "resend" => Dist(seq[f], base[f]) < InFlight(f)
  /\ pc[f] # "acks" => acks[f] = << >>
  /\ timer[f] <=> base[f] # nextseqnum[f]

-----------------------------------------------------------------------------
(* The wire.                                                               *)

\* Of two messages of f in q, the later is less than a window behind.
Ordered(q, f) ==
  \A i, j \in DOMAIN q :
    i < j /\ q[i].file_id = f /\ q[j].file_id = f
      => q[i].part < q[j].part + WINDOW_SIZE

\* So is a message in r behind one in q.
Precedes(q, r, f) ==
  \A i \in DOMAIN q, j \in DOMAIN r :
    q[i].file_id = f /\ r[j].file_id = f
      => q[i].part < r[j].part + WINDOW_SIZE

\* A packet of f under way when sent parts were sent and got were taken.
DataFits(m, f, p, sent, got) ==
  /\ m.part < sent
  /\ got <= m.part + WINDOW_SIZE
  /\ m = PacketOf(f, p, m.part)

DataQueueFits(q, f, p, sent, got) ==
  \A i \in DOMAIN q : q[i].file_id = f => DataFits(q[i], f, p, sent, got)

DataInv(f) ==
  /\ DataQueueFits(toReceiver, f, file[f], SentParts(f), GotParts(f))
  /\ Ordered(toReceiver, f)

\* An ACK under way when got parts were taken and acked are known to be.
AckFits(m, got, acked) ==
  /\ m.part < got
  /\ acked <= m.part + WINDOW_SIZE
  /\ m.ack_num = m.part % MAX_SEQ

AckQueueFits(q, f, got, acked) ==
  \A i \in DOMAIN q : q[i].file_id = f => AckFits(q[i], got, acked)

OfFile(q, f) == \A i \in DOMAIN q : q[i].file_id = f

AckValueInv(f) ==
  /\ AckQueueFits(acks[f], f, GotParts(f), AckedParts(f))
  /\ AckQueueFits(ack_queue[f], f, GotParts(f), AckedParts(f))
  /\ AckQueueFits(toSender, f, GotParts(f), AckedParts(f))

AckOrderInv(f) ==
  /\ Ordered(acks[f], f) /\ Ordered(ack_queue[f], f) /\ Ordered(toSender, f)
  /\ Precedes(acks[f], ack_queue[f], f)
  /\ Precedes(acks[f], toSender, f)
  /\ Precedes(ack_queue[f], toSender, f)
  /\ OfFile(acks[f], f) /\ OfFile(ack_queue[f], f)

-----------------------------------------------------------------------------
(* The receiver.  Only a file that fits in one window can be opened again  *)
(* after its END: a retransmitted START is at most a window behind.        *)

ReceiverInv(f) ==
  /\ expected_seq[f] = ExpectedPart(f) % MAX_SEQ
  /\ handle[f] # None => IsPrefixOf(out[f], file[f])
  /\ handle[f] \in {None, BaseName[file[f]]}
  /\ saved[f] \subseteq {Copy(file[f])}
  /\ handle[f] # None /\ saved[f] # {} => LastPart(file[f]) + 1 <= WINDOW_SIZE
  /\ 0 <= AckedParts(f)
  /\ AckedParts(f) <= GotParts(f)
  /\ GotParts(f) <= SentParts(f)

\* What holds of a stream whatever came before its transfer, and also when its
\* thread was interrupted.
CoreInv(f) ==
  /\ ReadInv(f) /\ NumberInv(f) /\ BufferInv(f)
  /\ DataInv(f) /\ AckValueInv(f) /\ AckOrderInv(f) /\ ReceiverInv(f)

\* What was written remains when the file is closed.
OutInv(f) ==
  /\ IsPrefixOf(out[f], file[f])
  /\ handle[f] = None /\ saved[f] = {} => out[f] = << >>

\* What the steps of f keep on their own.
RunInv(f) == CoreInv(f) /\ PcInv(f)

FileInv(f) == RunInv(f) /\ OutInv(f)

(* What every step of the two programs keeps, and all the safety           *)
(* properties of GoBackN follow from.                                      *)
IInv == TypeOK /\ \A f \in FileIds : FileInv(f)
=============================================================================
