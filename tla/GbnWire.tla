------------------------------ MODULE GbnWire ------------------------------
(***************************************************************************)
(* What the Go-Back-N sender (sender_gbn.py) and receiver (receiver_gbn.py) *)
(* share: sequence-number arithmetic, the packets of packet.py, and the    *)
(* two UDP sockets through which they talk.                                *)
(*                                                                         *)
(* A payload is abstracted to the part of the source file it carries:      *)
(* part 0 of a path is its base name (START), part k its k-th chunk of     *)
(* CHUNK_SIZE bytes (DATA), and part Chunks + 1 the empty read at end of   *)
(* file (END).  No guard of the protocol reads "part": it is the identity  *)
(* of the payload, from which the properties tell chunks apart.            *)
(***************************************************************************)
EXTENDS Integers, Sequences

CONSTANTS
  FileIds,      \* the file_ids of one batch of transfers, 0..n-1 in the code
  Files,        \* paths a user may ask to transfer
  Chunks,       \* Chunks[p]: number of non-empty reads of CHUNK_SIZE from p
  BaseName,     \* BaseName[p]: os.path.basename(p)
  ValidNames,   \* base names that the receiver's pattern accepts
  WINDOW_SIZE,  \* packets in flight, 8 in the code
  MAX_SEQ,      \* sequence numbers are taken modulo this, 256 in the code
  DataCap,      \* datagrams the receiver's socket buffer holds
  AckCap,       \* datagrams the sender's socket buffer holds
  LossyAcks,    \* whether the network may lose an ACK in transit
  None          \* Python's None

ASSUME ChunksAssumption == Chunks \in [Files -> Nat]
ASSUME WindowAssumption == WINDOW_SIZE \in Nat \ {0}
(* The code's 8 and 256 satisfy this with a wide margin.  One window more  *)
(* than selective acceptance needs: after END the receiver's numbering     *)
(* restarts, so a late ACK may be a whole window behind the sender's base. *)
ASSUME MaxSeqAssumption == MAX_SEQ \in Nat /\ MAX_SEQ >= 2 * WINDOW_SIZE
ASSUME CapAssumption == DataCap \in Nat /\ AckCap \in Nat

Names == {BaseName[p] : p \in Files}

ASSUME NoneAssumption == None \notin Names

-----------------------------------------------------------------------------
(* Sequence numbers.                                                       *)

SeqNums == 0 .. (MAX_SEQ - 1)

\* Mutant: the modulo is forgotten.
BugNextSeq(n) == n + 1

\* The number after n.
NextSeq(n) == (n + 1) % MAX_SEQ

\* How far a is ahead of b on the circle of sequence numbers.
Dist(a, b) == (a - b) % MAX_SEQ

-----------------------------------------------------------------------------
(* Packets.  An ACK's "part" is auxiliary: the last part it acknowledges.  *)

Chunk == [path : Files, part : Nat]

Packet == [file_id : FileIds, seq_num : SeqNums,
           ptype : {"START", "DATA", "END"}, path : Files, part : Nat]

Ack == [file_id : FileIds, ack_num : SeqNums, part : Nat]

\* The chunks of path p, in order.
Content(p) == [k \in 1 .. Chunks[p] |-> [path |-> p, part |-> k]]

\* The part that ends path p (its END packet).
LastPart(p) == Chunks[p] + 1

-----------------------------------------------------------------------------
(* The two sockets: queues in arrival order, as on the loopback interface. *)

VARIABLES
  toReceiver,   \* datagrams waiting at the receiver's socket
  toSender      \* datagrams waiting at the socket the sender threads share

wireVars == <<toReceiver, toSender>>

WireInit == toReceiver = << >> /\ toSender = << >>

\* sendto: a datagram that finds the peer's socket buffer full is dropped.
Put(queue, cap, datagram) ==
  IF Len(queue) < cap THEN Append(queue, datagram) ELSE queue

\* The network loses an ACK.
LoseAck ==
  /\ LossyAcks
  /\ toSender # << >>
  /\ toSender' = Tail(toSender)
  /\ UNCHANGED toReceiver

\* Nothing of file_id f is in the network.
Quiet(f) ==
  /\ \A i \in DOMAIN toReceiver : toReceiver[i].file_id # f
  /\ \A i \in DOMAIN toSender : toSender[i].file_id # f
=============================================================================
