-------------------------- MODULE StopAndWaitProofs --------------------------
(***************************************************************************)
(* Proofs about StopAndWait: its types, the order of packets and ACKs that *)
(* makes one bit enough, and what is on disk when a transfer is over.      *)
(***************************************************************************)
EXTENDS SwInv, OutputFilesProofs

-----------------------------------------------------------------------------
(* Queues and files as sequences.                                          *)

\* A queue without its head.
LEMMA TailElements ==
  ASSUME NEW T, NEW q \in Seq(T), q # << >>
  PROVE  /\ Tail(q) \in Seq(T) /\ Len(q) \in Nat /\ Len(q) > 0
         /\ DOMAIN q = 1 .. Len(q) /\ DOMAIN Tail(q) = 1 .. (Len(q) - 1)
         /\ \A i \in DOMAIN Tail(q) : Tail(q)[i] = q[i + 1]
         /\ Head(q) = q[1] /\ Head(q) \in T
OBVIOUS

\* A queue at which a message was offered.
LEMMA PutElements ==
  ASSUME NEW T, NEW q \in Seq(T), NEW m \in T, NEW cap
  PROVE  /\ Put(q, cap, m) \in Seq(T) /\ Len(q) \in Nat
         /\ DOMAIN q = 1 .. Len(q)
         /\ \/ Put(q, cap, m) = q
            \/ /\ DOMAIN Put(q, cap, m) = 1 .. (Len(q) + 1)
               /\ \A i \in DOMAIN q : Put(q, cap, m)[i] = q[i]
               /\ Put(q, cap, m)[Len(q) + 1] = m
<1>1. /\ Append(q, m) \in Seq(T) /\ DOMAIN Append(q, m) = 1 .. (Len(q) + 1)
      /\ \A i \in DOMAIN q : Append(q, m)[i] = q[i]
      /\ Append(q, m)[Len(q) + 1] = m
  OBVIOUS
<1>. QED BY <1>1 DEF Put

\* The first chunks of a path.
LEMMA PartsElements ==
  ASSUME NEW p \in Files, NEW k \in Nat
  PROVE  /\ FirstParts(p, k) \in Seq(Chunk) /\ Len(FirstParts(p, k)) = k
         /\ \A i \in 1 .. k : FirstParts(p, k)[i] = [path |-> p, part |-> i]
         /\ Append(FirstParts(p, k), [path |-> p, part |-> k + 1])
              = FirstParts(p, k + 1)
<1>. DEFINE c(i) == [path |-> p, part |-> i]
            s == FirstParts(p, k)
            r == FirstParts(p, k + 1)
<1>1. \A i \in Nat : c(i) \in Chunk
  BY DEF Chunk
<1>2. s = [i \in 1 .. k |-> c(i)] /\ r = [i \in 1 .. (k + 1) |-> c(i)]
  BY DEF FirstParts
<1>3. /\ s \in Seq(Chunk) /\ Len(s) = k
      /\ r \in Seq(Chunk) /\ Len(r) = k + 1
  <2>. HIDE DEF c, s, r
  <2>. QED BY <1>1, <1>2
<1>4. Append(s, c(k + 1)) = r
  <2>1. /\ Append(s, c(k + 1)) \in Seq(Chunk)
        /\ Len(Append(s, c(k + 1))) = k + 1
        /\ \A i \in 1 .. k : Append(s, c(k + 1))[i] = s[i]
        /\ Append(s, c(k + 1))[k + 1] = c(k + 1)
    <3>. HIDE DEF c, s, r
    <3>. QED BY <1>1, <1>3
  <2>2. \A i \in 1 .. (k + 1) : Append(s, c(k + 1))[i] = r[i]
    <3>. HIDE DEF c, s, r
    <3>. QED BY <1>2, <2>1
  <2>. HIDE DEF c, s, r
  <2>. QED BY <1>3, <2>1, <2>2, SeqEqual
<1>5. \A i \in 1 .. k : s[i] = c(i)
  <2>. HIDE DEF c, s, r
  <2>. QED BY <1>2
<1>. QED BY <1>3, <1>4, <1>5

-----------------------------------------------------------------------------
(* Type correctness.                                                       *)

LEMMA NamesOf == \A p \in Files : BaseName[p] \in Names /\ BaseName[p] # None
BY SwNoneAssumption DEF Names

\* A flush keeps the files files, whatever is open.
LEMMA FlushTypes ==
  ASSUME SwTypeOK, NEW d \in [Names -> Bytes]
  PROVE  Flush(d) \in [Names -> Bytes]
<1>. USE DEF SwTypeOK
<1>1. CASE handle = None
  BY <1>1 DEF Flush
<1>2. CASE handle # None
  <2>. DEFINE r == Flushed(d[handle], out, flushed, None)
  <2>1. handle \in Names
    BY <1>2
  <2>2. /\ d[handle] \in Seq(Chunk \cup {None}) /\ None \in Chunk \cup {None}
        /\ out \in Seq(Chunk \cup {None}) /\ flushed \in Nat /\ flushed <= Len(out)
    BY <2>1 DEF Bytes
  <2>3. r \in Bytes
    BY <2>2, FlushedElements DEF Bytes
  <2>4. Flush(d) = [d EXCEPT ![handle] = r]
    BY <1>2 DEF Flush, FlushTo
  <2>. HIDE DEF r
  <2>. QED BY <2>1, <2>3, <2>4
<1>. QED BY <1>1, <1>2

\* The next packet of a transfer is a packet.
LEMMA PacketTypes ==
  /\ \A p \in Files : xfer \in Nat => StartPacket(p) \in Packet
  /\ packet \in Packet => NextPacket \in Packet
<1>1. ASSUME NEW p \in Files, xfer \in Nat PROVE StartPacket(p) \in Packet
  BY <1>1 DEF StartPacket, Packet
<1>2. ASSUME packet \in Packet PROVE NextPacket \in Packet
  <2>1. /\ Kind(packet.path, packet.part + 1) \in {"START", "DATA", "END"}
        /\ Flip(packet.seq_num) \in {0, 1} /\ packet.part + 1 \in Nat
    BY <1>2 DEF Packet, Kind, Flip
  <2>. QED BY <1>2, <2>1 DEF NextPacket, Packet
<1>. QED BY <1>1, <1>2

\* The programs start in a typed state.
LEMMA TypeInit == Init => SwTypeOK
<1>. SUFFICES ASSUME Init PROVE SwTypeOK
  OBVIOUS
<1>1. disk \in [Names -> Bytes]
  <2>1. << >> \in Bytes
    BY DEF Bytes
  <2>. QED BY <2>1 DEF Init
<1>2. /\ retries \in 0 .. MAX_RETRIES /\ xfer \in 0 .. MaxTransfers
      /\ sender # "waiting" /\ sender \in {"prompt", "waiting"}
  BY SwBoundsAssumption DEF Init
<1>3. taken \in Id /\ saved = {} /\ out \in Seq(Chunk) /\ flushed \in 0 .. Len(out)
  BY DEF Init, NoId, Id
<1>4. toReceiver \in Seq(Packet) /\ toSender \in Seq(Ack)
  BY DEF Init
<1>5. /\ packet \in Packet \cup {None} /\ handle \in Names \cup {None}
      /\ reported \subseteq Files /\ gaveUp \subseteq Packet
      /\ late \in BOOLEAN /\ expected_seq \in {0, 1}
  BY DEF Init
<1>. QED BY <1>1, <1>2, <1>3, <1>4, <1>5 DEF SwTypeOK

\* A step of the sender keeps the types.
LEMMA SenderTypes ==
  ASSUME SwTypeOK, Sender \/ (\E p \in Files : StartTransfer(p))
  PROVE  SwTypeOK'
<1>. USE DEF SwTypeOK, receiverVars
<1>1. ASSUME NEW p \in Files, StartTransfer(p) PROVE SwTypeOK'
  <2>1. StartPacket(p) \in Packet
    BY PacketTypes
  <2>2. toReceiver' \in Seq(Packet)
    BY <1>1, <2>1, PutElements DEF StartTransfer, SendAndWait
  <2>. QED BY <1>1, <2>1, <2>2, SwBoundsAssumption
           DEF StartTransfer, SendAndWait
<1>2. CASE TakeAck
  <2>1. toSender' \in Seq(Ack) /\ packet \in Packet
    BY <1>2, TailElements DEF TakeAck
  <2>2. CASE packet.ptype = "END"
    <3>1. packet.path \in Files
      BY <2>1 DEF Packet
    <3>. QED BY <1>2, <2>1, <2>2, <3>1 DEF TakeAck
  <2>3. CASE packet.ptype # "END"
    <3>1. NextPacket \in Packet
      BY <2>1, PacketTypes
    <3>2. toReceiver' \in Seq(Packet)
      BY <1>2, <2>3, <3>1, PutElements DEF TakeAck, SendAndWait
    <3>. QED BY <1>2, <2>1, <2>3, <3>1, <3>2, SwBoundsAssumption
             DEF TakeAck, SendAndWait
  <2>. QED BY <2>2, <2>3
<1>3. CASE StaleAck
  <2>1. toSender' \in Seq(Ack)
    BY <1>3, TailElements DEF StaleAck
  <2>. QED BY <1>3, <2>1 DEF StaleAck, senderVars
<1>4. CASE Retransmit
  <2>1. toReceiver' \in Seq(Packet)
    BY <1>4, PutElements DEF Retransmit, TimedOut
  <2>. QED BY <1>4, <2>1, SwBoundsAssumption
           DEF Retransmit, TimedOut, AfterTimeout
<1>5. CASE GiveUp
  <2>1. retries' \in 0 .. MAX_RETRIES
    BY <1>5, SwBoundsAssumption DEF GiveUp, TimedOut, AfterTimeout
  <2>. QED BY <1>5, <2>1 DEF GiveUp, TimedOut, netVars
<1>. QED BY <1>1, <1>2, <1>3, <1>4, <1>5 DEF Sender

\* The packet that is taken, and the receiver's queue after it.
LEMMA TakeTypes ==
  ASSUME SwTypeOK, Take
  PROVE  /\ toReceiver' \in Seq(Packet) /\ pkt \in Packet /\ IdOf(pkt) \in Id
         /\ pkt.path \in Files /\ pkt.part \in Nat /\ pkt.seq_num \in {0, 1}
<1>1. toReceiver' \in Seq(Packet) /\ pkt \in Packet
  BY TailElements DEF SwTypeOK, Take, pkt
<1>. QED BY <1>1 DEF Packet, IdOf, Id

LEMMA SendAckTypes ==
  ASSUME SwTypeOK, NEW n \in {0, 1}, NEW of \in Id, SendAck(n, of)
  PROVE  toSender' \in Seq(Ack)
<1>. DEFINE a == [ack_num |-> n, of |-> of]
<1>1. a \in Ack /\ toSender' = Put(toSender, AckCap, a)
  BY DEF SendAck, Ack
<1>. HIDE DEF a
<1>. QED BY <1>1, PutElements DEF SwTypeOK

\* A step of the receiver keeps the types.
LEMMA ReceiverTypes ==
  ASSUME SwTypeOK, Receiver \/ Restart \/ LoseData
  PROVE  SwTypeOK'
<1>. USE DEF SwTypeOK, senderVars, receiverVars
<1>1. CASE RecvStart
  <2>1. /\ toReceiver' \in Seq(Packet) /\ IdOf(pkt) \in Id
        /\ pkt.path \in Files /\ pkt.seq_num \in {0, 1}
    BY <1>1, TakeTypes DEF RecvStart
  <2>2. toSender' \in Seq(Ack)
    BY <1>1, <2>1, SendAckTypes DEF RecvStart
  <2>3. disk' \in [Names -> Bytes]
    <3>. DEFINE d == [disk EXCEPT ![BaseName[pkt.path]] = << >>]
    <3>1. d \in [Names -> Bytes]
      <4>1. << >> \in Bytes
        BY DEF Bytes
      <4>. QED BY <4>1
    <3>2. disk' = Flush(d)
      BY <1>1 DEF RecvStart
    <3>. HIDE DEF d
    <3>. QED BY <3>1, <3>2, FlushTypes
  <2>4. out' \in Seq(Chunk) /\ flushed' \in 0 .. Len(out')
    BY <1>1 DEF RecvStart
  <2>5. expected_seq' \in {0, 1}
    BY <1>1, <2>1 DEF RecvStart, Flip
  <2>. QED BY <1>1, <2>1, <2>2, <2>3, <2>4, <2>5, NamesOf DEF RecvStart
<1>2. CASE RecvData
  <2>1. /\ toReceiver' \in Seq(Packet) /\ IdOf(pkt) \in Id
        /\ pkt.path \in Files /\ pkt.part \in Nat /\ pkt.seq_num \in {0, 1}
    BY <1>2, TakeTypes DEF RecvData
  <2>2. toSender' \in Seq(Ack)
    BY <1>2, <2>1, SendAckTypes DEF RecvData
  <2>3. out' \in Seq(Chunk) /\ Len(out') = Len(out) + 1 /\ Len(out) \in Nat
    BY <1>2, <2>1 DEF RecvData, Write, Chunk
  <2>4. flushed' \in 0 .. Len(out') /\ disk' \in [Names -> Bytes]
    BY <1>2, <2>3, FlushTypes DEF RecvData, Write
  <2>. QED BY <1>2, <2>1, <2>2, <2>3, <2>4 DEF RecvData, Flip
<1>3. CASE RepeatAck
  <2>1. toReceiver' \in Seq(Packet)
    BY <1>3, TakeTypes DEF RepeatAck
  <2>2. toSender' \in Seq(Ack)
    BY <1>3, SendAckTypes DEF RepeatAck, LastValid, Flip
  <2>. QED BY <1>3, <2>1, <2>2 DEF RepeatAck
<1>4. CASE RecvEnd
  <2>1. /\ toReceiver' \in Seq(Packet) /\ IdOf(pkt) \in Id /\ pkt.seq_num \in {0, 1}
    BY <1>4, TakeTypes DEF RecvEnd
  <2>2. toSender' \in Seq(Ack)
    BY <1>4, <2>1, SendAckTypes DEF RecvEnd
  <2>3. disk' \in [Names -> Bytes]
    BY <1>4, FlushTypes DEF RecvEnd, Closed
  <2>4. saved' \subseteq [name : Names, content : Seq(Chunk)]
    BY <1>4 DEF RecvEnd, transfer_active
  <2>5. flushed' \in 0 .. Len(out') /\ out' = out
    BY <1>4 DEF RecvEnd
  <2>. QED BY <1>4, <2>1, <2>2, <2>3, <2>4, <2>5 DEF RecvEnd
<1>5. CASE RejectStart \/ Ignore \/ LoseData
  <2>1. toReceiver' \in Seq(Packet)
    BY <1>5, TakeTypes DEF RejectStart, Ignore, LoseData
  <2>. QED BY <1>5, <2>1 DEF RejectStart, Ignore, LoseData
<1>6. CASE Restart
  <2>1. disk' \in [Names -> Bytes]
    BY <1>6, FlushTypes DEF Restart, Closed
  <2>2. out' \in Seq(Chunk) /\ flushed' \in 0 .. Len(out') /\ toReceiver' \in Seq(Packet)
    BY <1>6 DEF Restart
  <2>. QED BY <1>6, <2>1, <2>2 DEF Restart
<1>. QED BY <1>1, <1>2, <1>3, <1>4, <1>5, <1>6 DEF Receiver

LEMMA TypeNext == SwTypeOK /\ [Next]_vars => SwTypeOK'
<1>. SUFFICES ASSUME SwTypeOK, [Next]_vars PROVE SwTypeOK'
  OBVIOUS
<1>1. CASE LoseAck
  <2>1. toSender' \in Seq(Ack)
    BY <1>1, TailElements DEF SwTypeOK, LoseAck
  <2>. QED BY <1>1, <2>1 DEF SwTypeOK, LoseAck, senderVars, receiverVars
<1>2. CASE UNCHANGED vars
  BY <1>2 DEF SwTypeOK, vars, netVars, senderVars, receiverVars
<1>. QED BY <1>1, <1>2, SenderTypes, ReceiverTypes DEF Next, Quit

(* Every variable of both programs keeps its type, in every session, for   *)
(* any files and any sizes of sockets and buffers.                         *)
THEOREM SwTypeCorrect == Spec => []SwTypeOK
<1>. QED BY TypeInit, TypeNext, PTL DEF Spec

-----------------------------------------------------------------------------
(* Packets and ACKs under way.                                             *)

\* What is disturbed stays so.
LEMMA UndisturbedBefore ==
  ASSUME SwTypeOK, [Next]_vars, Undisturbed'
  PROVE  Undisturbed
<1>1. (gaveUp' = gaveUp \/ gaveUp' # {}) /\ (late' = late \/ late' = TRUE)
  <2>1. CASE \E p \in Files : StartTransfer(p)
    BY <2>1 DEF StartTransfer
  <2>2. CASE Sender
    <3>1. CASE Retransmit \/ GiveUp
      BY <3>1 DEF Retransmit, GiveUp, TimedOut, SwTypeOK
    <3>2. CASE TakeAck \/ StaleAck
      BY <3>2 DEF TakeAck, StaleAck, senderVars
    <3>. QED BY <2>2, <3>1, <3>2 DEF Sender
  <2>3. CASE Receiver \/ Restart \/ LoseData \/ LoseAck \/ Quit \/ UNCHANGED vars
    BY <2>3 DEF Receiver, RecvStart, RejectStart, RecvData, RepeatAck, RecvEnd,
         Ignore, Restart, LoseData, LoseAck, Quit, vars, senderVars
  <2>. QED BY <2>1, <2>2, <2>3 DEF Next
<1>. QED BY <1>1 DEF Undisturbed, SwTypeOK

\* What is known of a packet as the sender waits for its ACK.
LEMMA PacketFields ==
  ASSUME SwTypeOK, sender = "waiting"
  PROVE  /\ packet \in Packet /\ Now \in Id
         /\ packet.part \in Nat /\ packet.xfer \in Nat
         /\ packet.seq_num \in {0, 1} /\ packet.path \in Files
         /\ Flip(packet.seq_num) # packet.seq_num
         /\ Now # Previous /\ Now.xfer = packet.xfer /\ Now.part = packet.part
         /\ Chunks[packet.path] \in Nat
BY SwChunksAssumption DEF SwTypeOK, Packet, Now, Previous, IdOf, Id, Flip

\* The packet at the head of the receiver's queue.
LEMMA HeadPacket ==
  ASSUME SwTypeOK, DataInv, toReceiver # << >>, sender = "waiting"
  PROVE  /\ pkt = packet \/ IsPrevious(pkt) \/ IsLeftOver(pkt)
         /\ taken = Now => pkt = packet
         /\ pkt = packet =>
              \A i \in DOMAIN Tail(toReceiver) : Tail(toReceiver)[i] = packet
<1>1. /\ pkt = toReceiver[1] /\ 1 \in DOMAIN toReceiver
      /\ \A i \in DOMAIN Tail(toReceiver) :
           /\ i + 1 \in DOMAIN toReceiver /\ 1 < i + 1
           /\ Tail(toReceiver)[i] = toReceiver[i + 1]
  BY TailElements DEF SwTypeOK, pkt
<1>. QED BY <1>1 DEF DataInv

\* The queue after its head was taken.
LEMMA DataTaken ==
  ASSUME SwTypeOK, DataInv, Take, sender = "waiting", packet' = packet,
         taken' = Now => taken = Now \/ pkt = packet,
         \/ handle' = handle \/ handle' = None
         \/ pkt = packet \/ packet.part > 0
  PROVE  DataInv'
<1>1. /\ toReceiver # << >> /\ toReceiver' = Tail(toReceiver)
      /\ \A i \in DOMAIN toReceiver' :
           /\ i \in Int /\ i + 1 \in DOMAIN toReceiver
           /\ toReceiver'[i] = toReceiver[i + 1]
  BY TailElements DEF SwTypeOK, Take
<1>2. packet.part \in Nat
  BY PacketFields
<1>3. ASSUME NEW i \in DOMAIN toReceiver'
      PROVE  \/ toReceiver'[i] = packet
             \/ IsPrevious(toReceiver'[i])
             \/ packet.part = 0 /\ toReceiver'[i].ptype = "END" /\ handle' = None
  <2>1. CASE pkt = packet
    BY <1>1, <2>1, HeadPacket
  <2>2. CASE pkt # packet
    BY <1>1, <1>2, <2>2 DEF DataInv, IsLeftOver
  <2>. QED BY <2>1, <2>2
<1>4. ASSUME NEW i \in DOMAIN toReceiver', taken' = Now
      PROVE  toReceiver'[i] = packet
  BY <1>1, <1>4, HeadPacket DEF DataInv
<1>5. ASSUME NEW i \in DOMAIN toReceiver', NEW j \in DOMAIN toReceiver',
             i < j, toReceiver'[i] = packet
      PROVE  toReceiver'[j] = packet
  BY <1>1, <1>5 DEF DataInv
<1>6. Now' = Now /\ \A m : IsPrevious(m)' <=> IsPrevious(m)
  BY DEF Now, IdOf, IsPrevious, Previous
<1>. QED BY <1>3, <1>4, <1>5, <1>6 DEF DataInv, IsLeftOver

\* The ACKs after one more was sent.
LEMMA AckSent ==
  ASSUME SwTypeOK, AckInv, sender = "waiting", packet' = packet,
         NEW n \in {0, 1}, NEW of \in Id, SendAck(n, of),
         \/ n = packet.seq_num /\ of = Now
         \/ packet.part > 0 /\ n = Flip(packet.seq_num) /\ of = Previous,
         of = Now => taken' = Now /\ (packet.ptype = "END" => taken # Now),
         taken = Now => of = Now
  PROVE  AckInv'
<1>. DEFINE a == [ack_num |-> n, of |-> of]
<1>1. a \in Ack /\ toSender' = Put(toSender, AckCap, a) /\ a.of = of
  BY DEF SendAck, Ack
<1>2. /\ Len(toSender) \in Nat /\ DOMAIN toSender = 1 .. Len(toSender)
      /\ \/ toSender' = toSender
         \/ /\ DOMAIN toSender' = 1 .. (Len(toSender) + 1)
            /\ \A i \in DOMAIN toSender : toSender'[i] = toSender[i]
            /\ toSender'[Len(toSender) + 1] = a
  <2>. HIDE DEF a
  <2>. QED BY <1>1, PutElements DEF SwTypeOK
<1>3. Now' = Now /\ Previous' = Previous
  BY DEF Now, IdOf, Previous
<1>4. \/ a = [ack_num |-> packet.seq_num, of |-> Now]
      \/ /\ packet.part > 0
         /\ a = [ack_num |-> Flip(packet.seq_num), of |-> Previous]
  OBVIOUS
<1>5. ASSUME NEW i \in DOMAIN toSender, toSender[i].of = Now
      PROVE  taken = Now /\ of = Now /\ taken' = Now /\ packet.ptype # "END"
  BY <1>5 DEF AckInv
<1>. HIDE DEF a
<1>6. ASSUME NEW i \in DOMAIN toSender'
      PROVE  /\ \/ toSender'[i] = [ack_num |-> packet.seq_num, of |-> Now]
                \/ /\ packet.part > 0
                   /\ toSender'[i] = [ack_num |-> Flip(packet.seq_num), of |-> Previous]
             /\ toSender'[i].of = Now => taken' = Now
  BY <1>1, <1>2, <1>4, <1>5 DEF AckInv
<1>7. ASSUME NEW i \in DOMAIN toSender', NEW j \in DOMAIN toSender', i < j,
             toSender'[i].of = Now
      PROVE  toSender'[j].of = Now /\ packet.ptype # "END"
  <2>1. i \in DOMAIN toSender /\ toSender'[i] = toSender[i]
    BY <1>2, <1>7
  <2>2. of = Now /\ packet.ptype # "END"
    BY <1>5, <1>7, <2>1
  <2>3. CASE j \in DOMAIN toSender
    BY <1>2, <1>7, <2>1, <2>3 DEF AckInv
  <2>4. CASE j \notin DOMAIN toSender
    BY <1>1, <1>2, <2>2, <2>4
  <2>. QED BY <2>2, <2>3, <2>4
<1>. QED BY <1>3, <1>6, <1>7 DEF AckInv

\* The ACKs after one was taken or lost.
LEMMA AckTaken ==
  ASSUME SwTypeOK, AckInv, toSender # << >>, toSender' = Tail(toSender),
         packet' = packet, taken' = taken
  PROVE  AckInv'
<1>1. \A i \in DOMAIN toSender' :
        /\ i \in Int /\ i + 1 \in DOMAIN toSender
        /\ toSender'[i] = toSender[i + 1]
  BY TailElements DEF SwTypeOK
<1>2. Now' = Now /\ Previous' = Previous
  BY DEF Now, IdOf, Previous
<1>3. ASSUME NEW i \in DOMAIN toSender'
      PROVE  /\ \/ toSender'[i] = [ack_num |-> packet.seq_num, of |-> Now]
                \/ /\ packet.part > 0
                   /\ toSender'[i] = [ack_num |-> Flip(packet.seq_num), of |-> Previous]
             /\ toSender'[i].of = Now => taken' = Now
  BY <1>1 DEF AckInv
<1>4. ASSUME NEW i \in DOMAIN toSender', NEW j \in DOMAIN toSender', i < j,
             toSender'[i].of = Now
      PROVE  toSender'[j].of = Now /\ packet.ptype # "END"
  BY <1>1, <1>4 DEF AckInv
<1>. QED BY <1>2, <1>3, <1>4 DEF AckInv

-----------------------------------------------------------------------------
(* The receiver keeps the protocol's invariant while the sender waits.     *)

\* START is taken: by the sender's packet, or by the one before it again.
LEMMA StartKept ==
  ASSUME SwTypeOK, WaitingInv, sender = "waiting", RecvStart
  PROVE  WaitingInv' /\ taken'.xfer = xfer
<1>. USE DEF WaitingInv
<1>1. /\ Take /\ pkt.ptype = "START" /\ toReceiver # << >>
      /\ pkt.path \in Files /\ pkt.seq_num \in {0, 1} /\ IdOf(pkt) \in Id
      /\ packet' = packet /\ xfer' = xfer /\ sender' = sender
  BY TakeTypes DEF RecvStart, Take, senderVars
<1>2. \/ pkt = packet /\ packet.part = 0
      \/ packet.part = 1 /\ IsPrevious(pkt) /\ taken = Previous
  <2>1. CASE pkt = packet
    BY <1>1, <2>1, PacketFields DEF WellFormed, Kind
  <2>2. CASE IsPrevious(pkt)
    <3>1. pkt.part = 0 /\ packet.part - 1 = pkt.part
      BY <1>1, <2>2 DEF IsPrevious, WellFormed, Kind, IdOf, Previous
    <3>2. packet.part = 1 /\ taken # Now
      BY <1>1, <2>2, <3>1, PacketFields, HeadPacket DEF IsPrevious
    <3>. QED BY <2>2, <3>2, PacketFields DEF TakenInv
  <2>. QED BY <1>1, <2>1, <2>2, HeadPacket DEF IsLeftOver
<1>3. /\ pkt.path = packet.path /\ pkt.part = taken'.part /\ pkt.part = 0
      /\ taken' = IdOf(pkt) /\ taken'.xfer = packet.xfer
      /\ \/ taken' = Now /\ pkt = packet
         \/ taken' = Previous /\ taken = Previous
            /\ pkt.seq_num = Flip(packet.seq_num) /\ packet.part = 1
  BY <1>2, PacketFields DEF RecvStart, IsPrevious, IdOf, Now, Previous
<1>4. DataInv'
  BY <1>1, <1>2, <1>3, PacketFields, DataTaken
<1>5. AckInv'
  <2>1. SendAck(pkt.seq_num, IdOf(pkt))
    BY DEF RecvStart
  <2>2. packet.ptype = "END" => packet.part > 0
    BY PacketFields DEF WellFormed, Kind
  <2>3. packet.ptype = "END" => taken # Now
    BY <1>2, <1>1, PacketFields DEF TakenInv
  <2>4. taken = Now => IdOf(pkt) = Now
    BY <1>3, PacketFields
  <2>. QED BY <1>1, <1>2, <1>3, <2>1, <2>3, <2>4, PacketFields, AckSent
<1>6. TakenInv'
  <2>1. Now' = Now /\ Previous' = Previous
    BY <1>1 DEF Now, IdOf, Previous
  <2>2. \/ taken' = Now
        \/ packet.part > 0 /\ taken' = Previous
    BY <1>3
  <2>3. expected_seq' = Flip(pkt.seq_num) /\ handle' = BaseName[packet.path]
    BY <1>3 DEF RecvStart
  <2>4. expected_seq' = IF taken' = Now THEN Flip(packet.seq_num)
                        ELSE packet.seq_num
    BY <1>3, <2>3, PacketFields DEF Flip
  <2>5. out' = FirstParts(packet.path, taken'.part)
    BY <1>3 DEF RecvStart, FirstParts
  <2>6. packet.ptype = "END" => taken' # Now
    <3>1. packet.ptype = "END" => pkt # packet
      BY <1>1
    <3>. QED BY <3>1, <1>3, PacketFields
  <2>. QED BY <1>1, <2>1, <2>2, <2>3, <2>4, <2>5, <2>6 DEF TakenInv
<1>. QED BY <1>1, <1>3, <1>4, <1>5, <1>6 DEF WellFormed

\* The packet that the receiver takes is the one the sender waits for, and
\* the last taken is the one before it.
LEMMA NewPacket ==
  ASSUME SwTypeOK, WaitingInv, sender = "waiting", toReceiver # << >>,
         transfer_active,
         pkt.ptype = "END" \/ (pkt.ptype = "DATA" /\ InOrder)
  PROVE  /\ pkt = packet /\ packet.part > 0 /\ taken = Previous
         /\ handle = BaseName[packet.path]
         /\ out = FirstParts(packet.path, packet.part - 1)
         /\ expected_seq = packet.seq_num
<1>. USE DEF WaitingInv
<1>1. ~IsLeftOver(pkt)
  BY DEF IsLeftOver, transfer_active
<1>2. ASSUME IsPrevious(pkt) PROVE FALSE
  <2>1. pkt.ptype # "END" /\ packet.part > 0
    <3>1. /\ pkt.part <= Chunks[pkt.path] + 1 /\ pkt.path = packet.path
          /\ pkt.part = packet.part - 1 /\ packet.part <= Chunks[packet.path] + 1
      BY <1>2 DEF IsPrevious, WellFormed, IdOf, Previous
    <3>2. pkt \in Packet
      BY TailElements DEF SwTypeOK, pkt
    <3>3. pkt.part \in Nat
      BY <3>2 DEF Packet
    <3>. QED BY <1>2, <3>1, <3>3, PacketFields DEF IsPrevious, WellFormed, Kind
  <2>2. pkt # packet /\ taken # Now
    BY <1>2, HeadPacket, PacketFields DEF IsPrevious
  <2>3. expected_seq = packet.seq_num
    BY <2>1, <2>2, PacketFields DEF TakenInv, transfer_active, Previous
  <2>. QED BY <1>2, <2>1, <2>3, PacketFields DEF IsPrevious, InOrder
<1>3. pkt = packet /\ packet.part > 0
  <2>1. pkt = packet
    BY <1>1, <1>2, HeadPacket
  <2>. QED BY <2>1, PacketFields DEF WellFormed
<1>4. taken # Now
  <2>1. ASSUME taken = Now PROVE FALSE
    <3>1. expected_seq = Flip(packet.seq_num) /\ packet.ptype # "END"
      BY <2>1, PacketFields DEF TakenInv, transfer_active
    <3>. QED BY <1>3, <3>1, PacketFields DEF InOrder
  <2>. QED BY <2>1
<1>5. taken = Previous /\ taken.xfer = packet.xfer /\ taken.part = packet.part - 1
  BY <1>3, <1>4, PacketFields DEF TakenInv, Previous
<1>6. /\ expected_seq = packet.seq_num /\ handle = BaseName[packet.path]
      /\ out = FirstParts(packet.path, taken.part)
  BY <1>4, <1>5 DEF TakenInv, transfer_active
<1>. QED BY <1>3, <1>5, <1>6

\* A chunk is taken.
LEMMA DataKept ==
  ASSUME SwTypeOK, WaitingInv, sender = "waiting", RecvData
  PROVE  WaitingInv' /\ taken'.xfer = xfer
<1>. USE DEF WaitingInv
<1>1. /\ Take /\ toReceiver # << >> /\ transfer_active
      /\ pkt.ptype = "DATA" /\ InOrder
      /\ packet' = packet /\ xfer' = xfer /\ sender' = sender /\ handle' = handle
  BY DEF RecvData, Take, senderVars
<1>2. /\ pkt = packet /\ packet.part > 0 /\ taken = Previous /\ taken # Now
      /\ handle = BaseName[packet.path] /\ packet.ptype = "DATA"
      /\ out = FirstParts(packet.path, packet.part - 1)
      /\ expected_seq = packet.seq_num
  BY <1>1, NewPacket, PacketFields
<1>3. taken' = Now /\ taken'.xfer = packet.xfer /\ taken'.part = packet.part
  BY <1>2, PacketFields DEF RecvData, Now
<1>4. DataInv'
  BY <1>1, <1>2, DataTaken
<1>5. AckInv'
  <2>1. SendAck(packet.seq_num, Now)
    BY <1>2 DEF RecvData, Now
  <2>. QED BY <1>1, <1>2, <1>3, <2>1, PacketFields, AckSent
<1>6. TakenInv'
  <2>1. Now' = Now /\ Previous' = Previous
    BY <1>1 DEF Now, IdOf, Previous
  <2>2. expected_seq' = Flip(packet.seq_num)
    BY <1>2 DEF RecvData
  <2>3. out' = FirstParts(packet.path, taken'.part)
    <3>1. out' = Append(out, [path |-> packet.path, part |-> packet.part])
      BY <1>2 DEF RecvData, Write
    <3>2. packet.part - 1 \in Nat /\ (packet.part - 1) + 1 = packet.part
      BY <1>2, PacketFields
    <3>. QED BY <1>2, <1>3, <3>1, <3>2, PartsElements, PacketFields
  <2>. QED BY <1>1, <1>2, <1>3, <2>1, <2>2, <2>3 DEF TakenInv
<1>. QED BY <1>1, <1>3, <1>4, <1>5, <1>6 DEF WellFormed

\* END is taken: what was written is the whole file.
LEMMA EndKept ==
  ASSUME SwTypeOK, WaitingInv, sender = "waiting", RecvEnd
  PROVE  /\ WaitingInv' /\ taken'.xfer = xfer
         /\ packet.path \in Files /\ out = Content(packet.path)
         /\ saved' = saved \cup {Copy(packet.path)}
<1>. USE DEF WaitingInv
<1>1. /\ Take /\ toReceiver # << >> /\ transfer_active /\ pkt.ptype = "END"
      /\ packet' = packet /\ xfer' = xfer /\ sender' = sender /\ handle' = None
  BY DEF RecvEnd, Take, senderVars
<1>2. /\ pkt = packet /\ packet.part > 0 /\ taken = Previous /\ taken # Now
      /\ handle = BaseName[packet.path] /\ packet.ptype = "END"
      /\ out = FirstParts(packet.path, packet.part - 1)
  <2>1. /\ pkt = packet /\ packet.part > 0 /\ taken = Previous
        /\ handle = BaseName[packet.path]
        /\ out = FirstParts(packet.path, packet.part - 1)
    BY <1>1, NewPacket
  <2>. QED BY <1>1, <2>1, PacketFields
<1>3. taken' = Now /\ taken'.xfer = packet.xfer
  BY <1>2, PacketFields DEF RecvEnd, Now
<1>4. DataInv'
  BY <1>1, <1>2, DataTaken
<1>5. AckInv'
  <2>1. SendAck(packet.seq_num, Now)
    BY <1>2 DEF RecvEnd, Now
  <2>. QED BY <1>1, <1>2, <1>3, <2>1, PacketFields, AckSent
<1>6. out = Content(packet.path)
  <2>1. packet.part = Chunks[packet.path] + 1
    BY <1>2, PacketFields DEF WellFormed, Kind
  <2>. QED BY <1>2, <2>1, PacketFields DEF FirstParts, Content
<1>7. saved' = saved \cup {Copy(packet.path)}
  BY <1>2, <1>6 DEF RecvEnd, Copy
<1>8. TakenInv'
  <2>1. Now' = Now /\ Previous' = Previous
    BY <1>1 DEF Now, IdOf, Previous
  <2>. QED BY <1>1, <1>3, <1>7, <2>1 DEF TakenInv
<1>. QED BY <1>1, <1>3, <1>4, <1>5, <1>6, <1>7, <1>8, PacketFields DEF WellFormed

\* What changes nothing but the receiver's queue.
LEMMA DropKept ==
  ASSUME SwTypeOK, WaitingInv, sender = "waiting",
         RejectStart \/ Ignore \/ LoseData
  PROVE  WaitingInv'
<1>. USE DEF WaitingInv, senderVars, receiverVars
<1>1. /\ Take /\ UNCHANGED <<toSender, senderVars, receiverVars>>
  BY DEF RejectStart, Ignore, LoseData
<1>2. DataInv'
  BY <1>1, DataTaken
<1>3. AckInv' /\ TakenInv' /\ WellFormed(packet)'
  BY <1>1 DEF AckInv, TakenInv, Now, IdOf, Previous, WellFormed
<1>. QED BY <1>1, <1>2, <1>3

\* An ACK is repeated.
LEMMA RepeatKept ==
  ASSUME SwTypeOK, WaitingInv, sender = "waiting", RepeatAck
  PROVE  WaitingInv'
<1>. USE DEF WaitingInv, senderVars, receiverVars
<1>1. /\ Take /\ UNCHANGED <<senderVars, receiverVars>> /\ toReceiver # << >>
      /\ transfer_active /\ SendAck(LastValid, taken)
      /\ pkt.ptype = "DATA"
  BY DEF RepeatAck, Take
<1>2. DataInv'
  BY <1>1, DataTaken
<1>3. TakenInv' /\ WellFormed(packet)'
  BY <1>1 DEF TakenInv, Now, IdOf, Previous, WellFormed
<1>4. packet.ptype = "END" => taken # Now
  BY <1>1 DEF TakenInv, transfer_active
<1>5. ~(packet.part = 0 /\ taken.xfer < packet.xfer)
  <2>1. ASSUME packet.part = 0 PROVE FALSE
    <3>1. ~IsPrevious(pkt)
      <4>1. pkt.part \in Nat
        BY <1>1, TakeTypes
      <4>. QED BY <2>1, <4>1 DEF IsPrevious, IdOf, Previous
    <3>2. pkt # packet
      BY <1>1, <2>1 DEF WellFormed
    <3>. QED BY <1>1, <3>1, <3>2, HeadPacket DEF IsLeftOver
  <2>. QED BY <2>1
<1>6. \/ taken = Now /\ LastValid = packet.seq_num
      \/ packet.part > 0 /\ taken = Previous /\ LastValid = Flip(packet.seq_num)
  <2>1. CASE taken = Now
    <3>1. expected_seq = Flip(packet.seq_num)
      BY <1>1, <2>1, PacketFields DEF TakenInv, transfer_active
    <3>. QED BY <2>1, <3>1, PacketFields DEF LastValid, Flip
  <2>2. CASE taken # Now
    <3>1. packet.part > 0 /\ taken = Previous
      BY <1>5, <2>2 DEF TakenInv
    <3>2. expected_seq = packet.seq_num
      BY <1>1, <2>2, <3>1, PacketFields DEF TakenInv, transfer_active, Previous
    <3>. QED BY <3>1, <3>2 DEF LastValid
  <2>. QED BY <2>1, <2>2
<1>7. AckInv'
  <2>1. LastValid \in {0, 1} /\ taken \in Id
    BY DEF SwTypeOK, LastValid, Flip
  <2>. QED BY <1>1, <1>4, <1>6, <2>1, AckSent
<1>. QED BY <1>1, <1>2, <1>3, <1>7

\* The receiver is started again: it forgets what it took part in.
LEMMA RestartKept ==
  ASSUME SwTypeOK, WaitingInv, sender = "waiting", Restart
  PROVE  WaitingInv'
<1>. USE DEF WaitingInv, senderVars
<1>1. /\ handle' = None /\ toReceiver' = << >>
      /\ UNCHANGED <<toSender, taken, saved, senderVars>>
  BY DEF Restart
<1>2. DataInv'
  BY <1>1 DEF DataInv
<1>3. AckInv' /\ TakenInv' /\ WellFormed(packet)'
  BY <1>1 DEF AckInv, TakenInv, Now, IdOf, Previous, WellFormed
<1>. QED BY <1>1, <1>2, <1>3

\* While the sender waits, the receiver and the network keep it all.
LEMMA ReceiverWaiting ==
  ASSUME SwTypeOK, ProtocolInv, sender = "waiting",
         Receiver \/ Restart \/ LoseData \/ LoseAck
  PROVE  ProtocolInv'
<1>. USE DEF ProtocolInv
<1>1. sender' = sender /\ reported' = reported /\ xfer' = xfer
  BY DEF Receiver, RecvStart, RejectStart, RecvData, RepeatAck, RecvEnd, Ignore,
     Restart, LoseData, LoseAck, senderVars
<1>2. CASE RecvStart \/ RecvData
  <2>1. saved' = saved /\ xfer \in Int
    BY <1>2 DEF RecvStart, RecvData, SwTypeOK
  <2>. QED BY <1>1, <1>2, <2>1, StartKept, DataKept DEF SavedInv
<1>3. CASE RecvEnd
  <2>1. xfer \in Int
    BY DEF SwTypeOK
  <2>. QED BY <1>1, <1>3, <2>1, EndKept DEF SavedInv
<1>4. CASE RejectStart \/ Ignore \/ LoseData \/ RepeatAck \/ Restart
  <2>1. saved' = saved /\ taken' = taken
    BY <1>4 DEF RejectStart, Ignore, LoseData, RepeatAck, Restart, receiverVars
  <2>. QED BY <1>1, <1>4, <2>1, DropKept, RepeatKept, RestartKept DEF SavedInv
<1>5. CASE LoseAck
  <2>1. UNCHANGED <<toReceiver, senderVars, receiverVars>>
        /\ toSender # << >> /\ toSender' = Tail(toSender)
    BY <1>5 DEF LoseAck
  <2>2. AckInv'
    BY <2>1, AckTaken DEF WaitingInv, senderVars, receiverVars
  <2>3. DataInv' /\ TakenInv' /\ WellFormed(packet)'
    BY <2>1 DEF WaitingInv, DataInv, IsPrevious, IsLeftOver, TakenInv, Now, IdOf,
       Previous, WellFormed, senderVars, receiverVars
  <2>. QED BY <1>1, <2>1, <2>2, <2>3
           DEF WaitingInv, SavedInv, senderVars, receiverVars
<1>. QED BY <1>2, <1>3, <1>4, <1>5 DEF Receiver

\* At the prompt it has nothing to do but ignore what was left over.
LEMMA ReceiverPrompt ==
  ASSUME SwTypeOK, ProtocolInv, sender = "prompt",
         Receiver \/ Restart \/ LoseData \/ LoseAck
  PROVE  /\ ProtocolInv'
         /\ UNCHANGED <<toSender, senderVars, taken, saved>>
         /\ handle' = None \/ UNCHANGED <<handle, out, flushed, disk>>
         /\ handle = None => disk' = disk
<1>. USE DEF ProtocolInv, PromptInv
<1>1. CASE Receiver \/ LoseData
  <2>1. toReceiver # << >> /\ toReceiver' = Tail(toReceiver)
    BY <1>1 DEF Receiver, RecvStart, RejectStart, RecvData, RepeatAck, RecvEnd,
       Ignore, LoseData, Take
  <2>2. /\ pkt = toReceiver[1] /\ 1 \in DOMAIN toReceiver
        /\ \A i \in DOMAIN toReceiver' :
             i + 1 \in DOMAIN toReceiver /\ toReceiver'[i] = toReceiver[i + 1]
    BY <2>1, TailElements DEF SwTypeOK, pkt
  <2>3. pkt.ptype = "END" /\ handle = None
    BY <2>2
  <2>4. UNCHANGED <<toSender, senderVars, receiverVars>>
    BY <1>1, <2>3 DEF Receiver, RecvStart, RejectStart, RecvData, RepeatAck,
       RecvEnd, Ignore, LoseData, transfer_active
  <2>. QED BY <2>2, <2>3, <2>4 DEF SavedInv, senderVars, receiverVars
<1>2. CASE Restart
  BY <1>2 DEF Restart, SavedInv, senderVars, Closed, Flush
<1>3. CASE LoseAck
  BY <1>3 DEF LoseAck
<1>. QED BY <1>1, <1>2, <1>3

-----------------------------------------------------------------------------
(* The sender keeps the protocol's invariant.                              *)

\* An ACK with the number of the packet is its ACK, and all is said of it.
LEMMA RightAckIsOwn ==
  ASSUME SwTypeOK, WaitingInv, sender = "waiting", toSender # << >>,
         RightAck(Head(toSender))
  PROVE  /\ Head(toSender).of = Now /\ taken = Now
         /\ \A i \in DOMAIN toReceiver : toReceiver[i] = packet
         /\ toSender' = Tail(toSender) =>
              \A i \in DOMAIN toSender' :
                /\ toSender'[i] = [ack_num |-> packet.seq_num, of |-> Now]
                /\ packet.ptype # "END"
<1>. USE DEF WaitingInv
<1>1. /\ Head(toSender) = toSender[1] /\ 1 \in DOMAIN toSender
      /\ \A i \in DOMAIN Tail(toSender) :
           /\ i + 1 \in DOMAIN toSender /\ 1 < i + 1
           /\ Tail(toSender)[i] = toSender[i + 1]
  BY TailElements DEF SwTypeOK
<1>2. Head(toSender).of = Now
  BY <1>1, PacketFields DEF AckInv, RightAck
<1>3. taken = Now
  BY <1>1, <1>2 DEF AckInv
<1>4. \A i \in DOMAIN toReceiver : toReceiver[i] = packet
  BY <1>3 DEF DataInv
<1>5. ASSUME NEW i \in DOMAIN Tail(toSender)
      PROVE  /\ Tail(toSender)[i] = [ack_num |-> packet.seq_num, of |-> Now]
             /\ packet.ptype # "END"
  <2>1. toSender[i + 1].of = Now /\ packet.ptype # "END"
    BY <1>1, <1>2 DEF AckInv
  <2>. QED BY <1>1, <2>1, PacketFields DEF AckInv
<1>. QED BY <1>2, <1>3, <1>4, <1>5

\* A transfer begins: nothing that is under way belongs to it.
LEMMA StartTransferKept ==
  ASSUME SwTypeOK, ProtocolInv, NEW p \in Files, StartTransfer(p)
  PROVE  ProtocolInv'
<1>. DEFINE m == StartPacket(p)
<1>1. /\ sender = "prompt" /\ sender' = "waiting" /\ xfer' = xfer + 1
      /\ packet' = m /\ toReceiver' = Put(toReceiver, DataCap, m)
      /\ UNCHANGED <<toSender, reported, receiverVars>>
  BY DEF StartTransfer, SendAndWait
<1>2. /\ m \in Packet /\ m.ptype = "START" /\ m.part = 0 /\ m.path = p
      /\ m.xfer = xfer + 1 /\ xfer \in Nat
  BY PacketTypes DEF StartPacket, SwTypeOK
<1>3. taken.xfer \in Nat /\ taken.xfer <= xfer
  BY DEF SwTypeOK, ProtocolInv, Id
<1>4. Now' = [xfer |-> xfer + 1, part |-> 0] /\ taken # Now'
  BY <1>1, <1>2, <1>3 DEF Now, IdOf
<1>5. toSender = << >> /\ SavedInv
      /\ \A i \in DOMAIN toReceiver :
           toReceiver[i].ptype = "END" /\ handle = None
  BY <1>1 DEF ProtocolInv, PromptInv
<1>6. /\ Len(toReceiver) \in Nat /\ DOMAIN toReceiver = 1 .. Len(toReceiver)
      /\ \/ toReceiver' = toReceiver
         \/ /\ DOMAIN toReceiver' = 1 .. (Len(toReceiver) + 1)
            /\ \A i \in DOMAIN toReceiver : toReceiver'[i] = toReceiver[i]
            /\ toReceiver'[Len(toReceiver) + 1] = m
  <2>. HIDE DEF m
  <2>. QED BY <1>1, <1>2, PutElements DEF SwTypeOK
<1>. HIDE DEF m
<1>7. DataInv'
  <2>1. ASSUME NEW i \in DOMAIN toReceiver'
        PROVE  \/ toReceiver'[i] = packet'
               \/ /\ packet'.part = 0 /\ handle' = None
                  /\ toReceiver'[i].ptype = "END"
    BY <1>1, <1>2, <1>5, <1>6 DEF receiverVars
  <2>2. ASSUME NEW i \in DOMAIN toReceiver', NEW j \in DOMAIN toReceiver',
               i < j, toReceiver'[i] = packet'
        PROVE  toReceiver'[j] = packet'
    BY <1>1, <1>2, <1>5, <1>6, <2>2
  <2>3. taken' # Now'
    BY <1>1, <1>4 DEF receiverVars
  <2>. QED BY <2>1, <2>2, <2>3 DEF DataInv, IsLeftOver
<1>8. AckInv'
  BY <1>1, <1>5 DEF AckInv
<1>9. TakenInv'
  BY <1>1, <1>2, <1>3, <1>4 DEF TakenInv, receiverVars
<1>10. WellFormed(packet)'
  BY <1>1, <1>2, SwChunksAssumption DEF WellFormed
<1>. QED BY <1>1, <1>2, <1>3, <1>5, <1>7, <1>8, <1>9, <1>10
         DEF ProtocolInv, WaitingInv, SavedInv, receiverVars

\* The expected ACK: the next packet follows, and all that is under way is
\* of the packet before it.
LEMMA NextKept ==
  ASSUME SwTypeOK, WaitingInv, TakeAck, packet.ptype # "END"
  PROVE  WaitingInv'
<1>. DEFINE m == NextPacket
<1>0. sender = "waiting" /\ toSender # << >>
      /\ RightAck(Head(toSender)) /\ toSender' = Tail(toSender)
  BY DEF TakeAck
<1>1. /\ packet' = m /\ toReceiver' = Put(toReceiver, DataCap, m)
      /\ UNCHANGED <<xfer, receiverVars>>
  BY DEF TakeAck, SendAndWait
<1>2. /\ m \in Packet /\ m.part = packet.part + 1 /\ m.xfer = packet.xfer
      /\ m.path = packet.path /\ m.seq_num = Flip(packet.seq_num)
      /\ m.ptype = Kind(m.path, m.part)
      /\ Flip(m.seq_num) = packet.seq_num
  <2>1. packet \in Packet /\ NextPacket \in Packet
    BY <1>0, PacketTypes, PacketFields
  <2>2. /\ m.part = packet.part + 1 /\ m.xfer = packet.xfer
        /\ m.path = packet.path /\ m.seq_num = Flip(packet.seq_num)
        /\ m.ptype = Kind(packet.path, packet.part + 1)
    BY <2>1 DEF NextPacket, Packet
  <2>. QED BY <2>1, <2>2, <1>0, PacketFields DEF Flip
<1>3. /\ packet.part \in Nat /\ packet.part <= Chunks[packet.path]
      /\ WellFormed(packet)
  BY <1>0, PacketFields DEF WaitingInv, WellFormed, Kind
<1>4. /\ Now' = [xfer |-> packet.xfer, part |-> packet.part + 1]
      /\ Previous' = Now /\ taken = Now /\ taken' = taken /\ taken' # Now'
      /\ taken'.xfer = packet.xfer
  BY <1>0, <1>1, <1>2, RightAckIsOwn, PacketFields
     DEF Now, Previous, IdOf, receiverVars
<1>5. /\ \A i \in DOMAIN toReceiver : toReceiver[i] = packet
      /\ \A i \in DOMAIN toSender' :
           toSender'[i] = [ack_num |-> packet.seq_num, of |-> Now]
  BY <1>0, RightAckIsOwn
<1>6. /\ Len(toReceiver) \in Nat /\ DOMAIN toReceiver = 1 .. Len(toReceiver)
      /\ \/ toReceiver' = toReceiver
         \/ /\ DOMAIN toReceiver' = 1 .. (Len(toReceiver) + 1)
            /\ \A i \in DOMAIN toReceiver : toReceiver'[i] = toReceiver[i]
            /\ toReceiver'[Len(toReceiver) + 1] = m
  <2>. HIDE DEF m
  <2>. QED BY <1>1, <1>2, PutElements DEF SwTypeOK
<1>. HIDE DEF m
<1>7. DataInv'
  <2>2. IdOf(packet) = Previous' /\ packet.seq_num = Flip(packet'.seq_num)
        /\ packet.path = packet'.path /\ packet # packet'
    BY <1>1, <1>2, <1>3, <1>4 DEF Now
  <2>3. ASSUME NEW i \in DOMAIN toReceiver'
        PROVE  toReceiver'[i] = packet' \/ toReceiver'[i] = packet
    BY <1>1, <1>5, <1>6
  <2>4. ASSUME NEW i \in DOMAIN toReceiver', NEW j \in DOMAIN toReceiver',
               i < j, toReceiver'[i] = packet'
        PROVE  toReceiver'[j] = packet'
    BY <1>1, <1>5, <1>6, <2>2, <2>4
  <2>. QED BY <1>3, <1>4, <2>2, <2>3, <2>4 DEF DataInv, IsPrevious, WellFormed
<1>8. AckInv'
  BY <1>1, <1>2, <1>3, <1>4, <1>5 DEF AckInv
<1>9. TakenInv'
  BY <1>0, <1>1, <1>2, <1>3, <1>4, PacketFields
     DEF WaitingInv, TakenInv, receiverVars
<1>10. WellFormed(packet)'
  BY <1>0, <1>1, <1>2, <1>3, PacketFields DEF WellFormed
<1>. QED BY <1>1, <1>2, <1>7, <1>8, <1>9, <1>10 DEF WaitingInv

\* Every step keeps the protocol's invariant, unless it is the one that gives
\* a transfer up with its answers late.
LEMMA ProtocolNext ==
  ASSUME IInv, [Next]_vars, Undisturbed'
  PROVE  ProtocolInv'
<1>. USE DEF IInv
<1>1. Undisturbed /\ ProtocolInv /\ SwTypeOK /\ sender \in {"prompt", "waiting"}
  BY UndisturbedBefore DEF SwTypeOK
<1>2. CASE \E p \in Files : StartTransfer(p)
  BY <1>1, <1>2, StartTransferKept
<1>3. CASE Receiver \/ Restart \/ LoseData \/ LoseAck
  BY <1>1, <1>3, ReceiverWaiting, ReceiverPrompt
<1>4. CASE TakeAck
  <2>1. /\ sender = "waiting" /\ toSender # << >> /\ RightAck(Head(toSender))
        /\ WaitingInv /\ UNCHANGED <<xfer, receiverVars>>
        /\ toSender' = Tail(toSender) /\ SavedInv
    BY <1>1, <1>4 DEF TakeAck, ProtocolInv
  <2>2. CASE packet.ptype # "END"
    <3>1. WaitingInv' /\ sender' = "waiting" /\ reported' = reported
      BY <1>1, <1>4, <2>1, <2>2, NextKept DEF TakeAck
    <3>. QED BY <1>1, <2>1, <3>1 DEF ProtocolInv, SavedInv, receiverVars
  <2>3. CASE packet.ptype = "END"
    <3>1. /\ sender' = "prompt" /\ reported' = reported \cup {packet.path}
          /\ toReceiver' = toReceiver
      BY <1>4, <2>3 DEF TakeAck
    <3>2. /\ \A i \in DOMAIN toReceiver : toReceiver[i] = packet
          /\ DOMAIN toSender' = {} /\ taken = Now
      BY <1>1, <2>1, <2>3, RightAckIsOwn
    <3>3. toSender' = << >>
      BY <1>1, <2>1, <3>2, TailElements DEF SwTypeOK
    <3>4. handle = None /\ Copy(packet.path) \in saved
      BY <2>1, <2>3, <3>2 DEF WaitingInv, TakenInv
    <3>. QED BY <1>1, <2>1, <2>3, <3>1, <3>2, <3>3, <3>4
             DEF ProtocolInv, PromptInv, SavedInv, receiverVars
  <2>. QED BY <2>2, <2>3
<1>5. CASE StaleAck
  <2>1. /\ sender = "waiting" /\ toSender # << >> /\ toSender' = Tail(toSender)
        /\ UNCHANGED <<toReceiver, senderVars, receiverVars>>
    BY <1>5 DEF StaleAck
  <2>2. AckInv'
    BY <1>1, <2>1, AckTaken DEF ProtocolInv, WaitingInv, senderVars, receiverVars
  <2>3. DataInv' /\ TakenInv' /\ WellFormed(packet)'
    BY <1>1, <2>1 DEF ProtocolInv, WaitingInv, DataInv, IsPrevious, IsLeftOver,
       TakenInv, Now, IdOf, Previous, WellFormed, senderVars, receiverVars
  <2>. QED BY <1>1, <2>1, <2>2, <2>3
           DEF ProtocolInv, WaitingInv, SavedInv, senderVars, receiverVars
<1>6. CASE Retransmit
  <2>1. /\ sender = "waiting" /\ toSender = << >>
        /\ toReceiver' = Put(toReceiver, DataCap, packet)
        /\ UNCHANGED <<toSender, sender, packet, xfer, reported, receiverVars>>
    BY <1>6 DEF Retransmit, TimedOut
  <2>2. /\ Len(toReceiver) \in Nat /\ DOMAIN toReceiver = 1 .. Len(toReceiver)
        /\ \/ toReceiver' = toReceiver
           \/ /\ DOMAIN toReceiver' = 1 .. (Len(toReceiver) + 1)
              /\ \A i \in DOMAIN toReceiver : toReceiver'[i] = toReceiver[i]
              /\ toReceiver'[Len(toReceiver) + 1] = packet
    BY <1>1, <2>1, PacketFields, PutElements DEF SwTypeOK
  <2>3. DataInv /\ TakenInv /\ WellFormed(packet)
    BY <1>1, <2>1 DEF ProtocolInv, WaitingInv
  <2>4. Now' = Now /\ Previous' = Previous
    BY <2>1 DEF Now, IdOf, Previous
  <2>5. DataInv'
    <3>1. ASSUME NEW i \in DOMAIN toReceiver'
          PROVE  /\ \/ toReceiver'[i] = packet
                    \/ IsPrevious(toReceiver'[i])
                    \/ IsLeftOver(toReceiver'[i])
                 /\ taken = Now => toReceiver'[i] = packet
      BY <2>2, <2>3 DEF DataInv
    <3>2. ASSUME NEW i \in DOMAIN toReceiver', NEW j \in DOMAIN toReceiver',
                 i < j, toReceiver'[i] = packet
          PROVE  toReceiver'[j] = packet
      BY <2>2, <2>3, <3>2 DEF DataInv
    <3>. QED BY <2>1, <2>4, <3>1, <3>2
             DEF DataInv, IsPrevious, IsLeftOver, receiverVars
  <2>6. AckInv' /\ TakenInv' /\ WellFormed(packet)'
    BY <2>1, <2>3, <2>4 DEF AckInv, TakenInv, WellFormed, receiverVars
  <2>. QED BY <1>1, <2>1, <2>5, <2>6
           DEF ProtocolInv, WaitingInv, SavedInv, receiverVars
<1>7. CASE GiveUp
  <2>1. /\ sender' = "prompt" /\ toSender = << >> /\ gaveUp' # {}
        /\ late' = (late \/ toReceiver # << >>)
        /\ UNCHANGED <<netVars, xfer, reported, receiverVars>>
    BY <1>7 DEF GiveUp, TimedOut
  <2>2. toReceiver = << >>
    BY <2>1 DEF Undisturbed
  <2>. QED BY <1>1, <2>1, <2>2
           DEF ProtocolInv, PromptInv, SavedInv, netVars, receiverVars
<1>8. CASE UNCHANGED vars
  BY <1>1, <1>8 DEF ProtocolInv, WaitingInv, PromptInv, SavedInv, DataInv, AckInv,
     IsPrevious, IsLeftOver, TakenInv, Now, IdOf, Previous, WellFormed,
     vars, netVars, senderVars, receiverVars
<1>. QED BY <1>2, <1>3, <1>4, <1>5, <1>6, <1>7, <1>8 DEF Next, Sender, Quit

LEMMA ProtocolInit == Init => ProtocolInv
BY DEF Init, ProtocolInv, PromptInv, SavedInv, NoId

LEMMA IInvNext == IInv /\ [Next]_vars => IInv'
BY TypeNext, ProtocolNext DEF IInv

(* The order of packets and ACKs is kept by every step: nothing older      *)
(* follows anything newer, and at most two packets are under way           *)
(* (sender_stopwait.py:74-110, receiver_stopwait.py:87-157).               *)
THEOREM SwInductive == Spec => []IInv
<1>1. Init => IInv
  BY TypeInit, ProtocolInit DEF IInv
<1>. QED BY <1>1, IInvNext, PTL DEF Spec

-----------------------------------------------------------------------------
(* What follows from it.                                                   *)

(* One bit is enough, in every session, with any losses and any timeouts,  *)
(* until a transfer is given up with its answers late: the receiver is     *)
(* never more than one packet behind, and never ahead.                     *)
THEOREM OneBitIsEnough == Spec => []InLockStep
<1>1. IInv => InLockStep
  BY DEF IInv, InLockStep, ProtocolInv, WaitingInv, TakenInv, Now, Previous
<1>. QED BY <1>1, SwInductive, PTL

(* The ACK the sender believes was given for the packet it waits for.      *)
THEOREM AckIsNotFalse == Spec => NoFalseAck
<1>1. ASSUME IInv PROVE Undisturbed /\ TakeAck => Head(toSender).of = IdOf(packet)
  BY <1>1, RightAckIsOwn DEF IInv, ProtocolInv, TakeAck, Now
<1>2. IInv /\ [Next]_vars =>
        [Undisturbed /\ TakeAck => Head(toSender).of = IdOf(packet)]_vars
  BY <1>1
<1>. QED BY <1>2, SwInductive, PTL DEF Spec, NoFalseAck

(* What the sender reports complete the receiver has closed whole, and it  *)
(* closes nothing but whole files under their own names.                   *)
THEOREM ReportedIsSaved == Spec => []SavedWhole
<1>1. IInv => SavedWhole
  BY DEF IInv, SavedWhole, ProtocolInv, SavedInv
<1>. QED BY <1>1, SwInductive, PTL

-----------------------------------------------------------------------------
(* The serial transfer.                                                    *)

\* Whether the receiver has taken the packet the sender waits for.
Got == Waiting /\ taken = IdOf(packet)

\* What leaves the transfer as it is, for the abstract machine.
LEMMA SerialStutter ==
  ASSUME Undisturbed, Undisturbed',
         UNCHANGED <<sender, packet, saved, reported>>, Got' <=> Got
  PROVE  UNCHANGED ST!stVars
<1>1. UNCHANGED <<Undisturbed, Waiting, Got>>
  BY DEF Waiting, Got
<1>2. /\ UNCHANGED (IF Waiting THEN packet.path ELSE None)
      /\ UNCHANGED (IF Waiting THEN packet.part ELSE 0)
  BY DEF Waiting
<1>. QED BY <1>1, <1>2 DEF ST!stVars, ST!transfer, Got

\* The only packet of the part waited for is the packet itself.
LEMMA HeadIsNow ==
  ASSUME SwTypeOK, DataInv, toReceiver # << >>, sender = "waiting",
         IdOf(pkt) = Now, pkt.ptype # "END"
  PROVE  pkt = packet
<1>1. ~IsPrevious(pkt)
  BY PacketFields DEF IsPrevious
<1>. QED BY <1>1, HeadPacket DEF IsLeftOver

\* A packet is taken while the sender waits for it.
LEMMA SerialTake ==
  ASSUME SwTypeOK, WaitingInv, Waiting, Undisturbed, Undisturbed',
         RecvStart \/ RecvData \/ RecvEnd
  PROVE  [ST!Next]_(ST!stVars)
<1>1. /\ sender = "waiting" /\ DataInv /\ TakenInv /\ Take
      /\ toReceiver # << >> /\ taken' = IdOf(pkt)
      /\ UNCHANGED senderVars
  BY DEF Waiting, WaitingInv, RecvStart, RecvData, RecvEnd, Take
<1>2. Waiting' /\ Now' = Now /\ UNCHANGED <<sender, packet, reported>>
  BY <1>1 DEF Waiting, Now, IdOf, senderVars
<1>3. taken = Now => taken' = Now
  BY <1>1, HeadPacket DEF Now
<1>4. CASE ~RecvEnd /\ (taken' = Now <=> taken = Now)
  <2>1. saved' = saved
    BY <1>4 DEF RecvStart, RecvData
  <2>2. Got' <=> Got
    BY <1>2, <1>4 DEF Got, Now, Waiting
  <2>. QED BY <1>2, <2>1, <2>2, SerialStutter
<1>5. CASE RecvEnd \/ (taken' = Now /\ taken # Now)
  <2>1. /\ taken # Now /\ taken' = Now
        /\ saved' = IF packet.part = Chunks[packet.path] + 1
                    THEN saved \cup {Copy(packet.path)} ELSE saved
    <3>1. CASE RecvEnd
      <4>1. pkt = packet /\ taken = Previous
        BY <1>1, <3>1, NewPacket DEF RecvEnd
      <4>2. packet.part = Chunks[packet.path] + 1
        BY <1>1, <3>1, <4>1, PacketFields DEF WaitingInv, WellFormed, Kind, RecvEnd
      <4>3. saved' = saved \cup {Copy(packet.path)}
        BY <1>1, <3>1, EndKept
      <4>. QED BY <1>1, <4>1, <4>2, <4>3, PacketFields DEF Now
    <3>2. CASE ~RecvEnd /\ taken' = Now /\ taken # Now
      <4>1. saved' = saved /\ pkt.ptype # "END"
        BY <3>2 DEF RecvStart, RecvData
      <4>2. packet.part # Chunks[packet.path] + 1
        <5>1. pkt = packet
          BY <1>1, <3>2, <4>1, HeadIsNow
        <5>. QED BY <1>1, <4>1, <5>1, PacketFields DEF WaitingInv, WellFormed, Kind
      <4>. QED BY <3>2, <4>1, <4>2
    <3>. QED BY <1>5, <3>1, <3>2
  <2>2. packet.path \in Files
    BY <1>1, PacketFields
  <2>3. ~Got /\ Got'
    BY <1>2, <2>1 DEF Got, Now
  <2>4. ST!TakePart
    BY <1>1, <1>2, <2>1, <2>2, <2>3 DEF ST!TakePart, Got, Waiting
  <2>. QED BY <2>4 DEF ST!Next
<1>. QED BY <1>3, <1>4, <1>5

\* A transfer begins.
LEMMA SerialBegin ==
  ASSUME SwTypeOK, taken.xfer <= xfer, NEW p \in Files, StartTransfer(p),
         Undisturbed, Undisturbed'
  PROVE  ST!Next
<1>1. /\ ~Waiting /\ Waiting' /\ packet' = StartPacket(p)
      /\ UNCHANGED <<taken, saved, reported>>
  BY DEF StartTransfer, SendAndWait, Waiting, receiverVars
<1>2. packet'.path = p /\ packet'.part = 0 /\ packet'.xfer = xfer + 1
  BY <1>1 DEF StartPacket
<1>3. ~Got /\ ~Got'
  <2>1. taken.xfer # xfer + 1
    BY DEF SwTypeOK, Id
  <2>2. IdOf(packet').xfer = xfer + 1
    BY <1>2 DEF IdOf
  <2>. QED BY <1>1, <2>1, <2>2 DEF Got
<1>4. ST!Begin(p)
  BY <1>1, <1>2, <1>3 DEF ST!Begin, Got
<1>. QED BY <1>4 DEF ST!Next

\* The sender goes on, or reports completion.
LEMMA SerialAck ==
  ASSUME SwTypeOK, WaitingInv, TakeAck, Undisturbed, Undisturbed'
  PROVE  ST!Next
<1>1. /\ sender = "waiting" /\ Waiting /\ UNCHANGED <<taken, saved>>
      /\ toSender # << >> /\ RightAck(Head(toSender))
  BY DEF TakeAck, Waiting, receiverVars
<1>2. taken = Now /\ Got
  BY <1>1, RightAckIsOwn DEF Got, Now
<1>3. /\ packet.path \in Files /\ packet.part \in Nat
      /\ Chunks[packet.path] \in Nat /\ packet.part <= Chunks[packet.path] + 1
      /\ packet.ptype = "END" <=> packet.part = Chunks[packet.path] + 1
  BY <1>1, PacketFields DEF WaitingInv, WellFormed, Kind
<1>4. CASE packet.ptype = "END"
  <2>1. ~Waiting' /\ reported' = reported \cup {packet.path}
    BY <1>4 DEF TakeAck, Waiting
  <2>2. ST!Report
    BY <1>1, <1>2, <1>3, <1>4, <2>1 DEF ST!Report, ST!Idle, Got
  <2>. QED BY <2>2 DEF ST!Next
<1>5. CASE packet.ptype # "END"
  <2>1. Waiting' /\ packet' = NextPacket /\ reported' = reported
    BY <1>5 DEF TakeAck, SendAndWait, Waiting
  <2>2. packet'.path = packet.path /\ packet'.part = packet.part + 1
    BY <1>1, <2>1, PacketFields DEF NextPacket, Packet
  <2>3. ~Got'
    <3>1. IdOf(packet').part # Now.part
      BY <1>3, <2>2 DEF IdOf, Now
    <3>. QED BY <1>1, <1>2, <3>1 DEF Got
  <2>4. ST!NextPart
    BY <1>1, <1>2, <1>3, <1>5, <2>1, <2>2, <2>3 DEF ST!NextPart, Got
  <2>. QED BY <2>4 DEF ST!Next
<1>. QED BY <1>4, <1>5

LEMMA SerialNext == IInv /\ [Next]_vars => [ST!Next]_(ST!stVars)
<1>. SUFFICES ASSUME IInv, [Next]_vars PROVE [ST!Next]_(ST!stVars)
  OBVIOUS
<1>1. CASE ~Undisturbed'
  BY <1>1 DEF ST!Next
<1>. SUFFICES ASSUME Undisturbed' PROVE [ST!Next]_(ST!stVars)
  BY <1>1
<1>2. /\ SwTypeOK /\ Undisturbed /\ ProtocolInv
      /\ sender = "waiting" => WaitingInv
  BY UndisturbedBefore DEF IInv, ProtocolInv
<1>3. CASE \E p \in Files : StartTransfer(p)
  BY <1>2, <1>3, SerialBegin DEF ProtocolInv
<1>4. CASE TakeAck
  BY <1>2, <1>4, SerialAck DEF TakeAck
<1>5. CASE GiveUp
  <2>1. Waiting /\ ~Waiting' /\ UNCHANGED <<saved, reported>>
    BY <1>5 DEF GiveUp, TimedOut, Waiting, receiverVars
  <2>2. ST!GiveUp
    BY <2>1 DEF ST!GiveUp, ST!Idle
  <2>. QED BY <1>2, <2>2 DEF ST!Next
<1>6. CASE RecvStart \/ RecvData \/ RecvEnd
  <2>1. CASE Waiting
    BY <1>2, <1>6, <2>1, SerialTake DEF Waiting
  <2>2. CASE ~Waiting
    <3>1. sender = "prompt" /\ PromptInv
      BY <1>2, <2>2 DEF Waiting, SwTypeOK, ProtocolInv
    <3>2. toReceiver # << >>
      BY <1>6 DEF RecvStart, RecvData, RecvEnd, Take
    <3>3. pkt.ptype = "END" /\ handle = None
      BY <1>2, <3>1, <3>2, TailElements DEF PromptInv, SwTypeOK, pkt
    <3>. QED BY <1>6, <3>3 DEF RecvStart, RecvData, RecvEnd, transfer_active
  <2>. QED BY <2>1, <2>2
<1>7. CASE \/ StaleAck \/ Retransmit \/ RejectStart \/ RepeatAck \/ Ignore
           \/ Restart \/ LoseData \/ LoseAck \/ Quit \/ UNCHANGED vars
  <2>1. UNCHANGED <<sender, packet, saved, reported, taken>>
    BY <1>7 DEF StaleAck, Retransmit, RejectStart, RepeatAck, Ignore, Restart,
       LoseData, LoseAck, Quit, vars, senderVars, receiverVars
  <2>2. Got' <=> Got
    BY <2>1 DEF Got, Waiting, IdOf
  <2>. QED BY <1>2, <2>1, <2>2, SerialStutter
<1>. QED BY <1>3, <1>4, <1>5, <1>6, <1>7 DEF Next, Sender, Receiver

(* Stop-and-Wait keeps the promise of SerialTransfer: with one bit,        *)
(* losses, timeouts, transfers that are given up and receivers that are    *)
(* started again, each packet is taken once, in its turn, the sender goes  *)
(* on only then, and END closes the whole file                             *)
(* (sender_stopwait.py:66-110, receiver_stopwait.py:87-157).               *)
THEOREM SerialImplemented == Spec => ImplementsSerialTransfer
<1>1. Init => ST!Init
  BY DEF Init, ST!Init, ST!Idle, Undisturbed, Waiting
<1>2. IInv /\ [Next]_vars => [ST!Next]_(ST!stVars)
  BY SerialNext
<1>. QED BY <1>1, <1>2, SwInductive, PTL
         DEF Spec, ImplementsSerialTransfer, ST!Spec

-----------------------------------------------------------------------------
(* The bytes on disk.                                                      *)

\* The file of the open handle after a flush, if c was in it before.
LEMMA FlushedFile ==
  ASSUME SwTypeOK, NEW c \in Bytes, NEW r,
         r = Flushed(c, out, flushed, None)
  PROVE  /\ r \in Bytes /\ Len(out) \in Nat
         /\ Len(r) = IF Len(out) > Len(c) THEN Len(out) ELSE Len(c)
         /\ (\A i \in 1 .. flushed : c[i] = out[i]) /\ flushed <= Len(c)
              => \A i \in 1 .. Len(out) : r[i] = out[i]
<1>1. /\ flushed \in Nat /\ Len(out) \in Nat /\ flushed <= Len(out)
      /\ out \in Seq(Chunk \cup {None}) /\ None \in Chunk \cup {None}
      /\ c \in Seq(Chunk \cup {None}) /\ Len(c) \in Nat
  BY DEF SwTypeOK, Bytes
<1>2. /\ r \in Seq(Chunk \cup {None})
      /\ Len(c) <= Len(out) => Len(r) = Len(out)
      /\ Len(out) <= Len(c) => Len(r) = Len(c)
      /\ SameFrom(r, out, flushed) /\ SameBut(r, c, flushed, Len(out))
  <2>1. Flushed(c, out, flushed, None) \in Seq(Chunk \cup {None})
    BY <1>1, FlushedElements
  <2>2. /\ Len(c) <= Len(out) => Len(Flushed(c, out, flushed, None)) = Len(out)
        /\ Len(out) <= Len(c) => Len(Flushed(c, out, flushed, None)) = Len(c)
    BY <1>1, FlushedElements
  <2>3. /\ SameFrom(Flushed(c, out, flushed, None), out, flushed)
        /\ SameBut(Flushed(c, out, flushed, None), c, flushed, Len(out))
    BY <1>1, FlushedElements
  <2>. QED BY <2>1, <2>2, <2>3
<1>3. ASSUME \A i \in 1 .. flushed : c[i] = out[i], flushed <= Len(c),
             NEW i \in 1 .. Len(out)
      PROVE  r[i] = out[i]
  <2>1. i \in 1 .. Len(r) /\ i <= Len(out) /\ i \in Nat
    BY <1>1, <1>2
  <2>2. CASE flushed < i
    BY <1>2, <2>1, <2>2 DEF SameFrom
  <2>3. CASE ~(flushed < i)
    <3>1. i \in 1 .. flushed /\ i <= Len(c)
      BY <1>1, <1>3, <2>1, <2>3
    <3>. QED BY <1>2, <1>3, <2>1, <2>3, <3>1 DEF SameBut
  <2>. QED BY <2>2, <2>3
<1>. QED BY <1>1, <1>2, <1>3 DEF Bytes

\* START leaves in the file no more than an earlier transfer of its path had
\* in its buffer.
LEMMA DiskStart ==
  ASSUME DistinctNames, SwTypeOK, OpenInv, RecvStart
  PROVE  OpenInv'
<1>. DEFINE p == pkt.path
            d == [disk EXCEPT ![BaseName[p]] = << >>]
<1>1. /\ p \in Files /\ BaseName[p] \in Names /\ Chunks[p] \in Nat
      /\ handle' = BaseName[p] /\ out' = << >> /\ flushed' = 0
      /\ disk' = Flush(d)
  BY TakeTypes, NamesOf, SwChunksAssumption DEF RecvStart
<1>2. d[BaseName[p]] = << >> /\ << >> \in Bytes
  BY <1>1 DEF SwTypeOK, Bytes
<1>3. d \in [Names -> Bytes]
  BY <1>1, <1>2 DEF SwTypeOK
<1>. HIDE DEF d
<1>4. Len(disk'[handle']) \in Nat /\ Len(disk'[handle']) <= Chunks[p]
  <2>1. CASE handle = None \/ handle # BaseName[p]
    <3>1. disk'[handle'] = << >>
      BY <1>1, <1>2, <1>3, <2>1 DEF Flush, FlushTo
    <3>. QED BY <1>1, <3>1
  <2>2. CASE handle # None /\ handle = BaseName[p]
    <3>1. PICK q \in Files : handle = BaseName[q]
                            /\ \E k \in 0 .. Chunks[q] : out = FirstParts(q, k)
      BY <2>2 DEF OpenInv
    <3>2. p = q
      BY <1>1, <2>2, <3>1 DEF DistinctNames
    <3>3. Len(out) \in Nat /\ Len(out) <= Chunks[p]
      <4>1. PICK k \in 0 .. Chunks[p] : out = FirstParts(p, k)
        BY <3>1, <3>2
      <4>2. k \in Nat /\ k <= Chunks[p]
        BY <1>1, <4>1
      <4>. QED BY <1>1, <4>1, <4>2, PartsElements
    <3>4. disk'[handle'] = Flushed(<< >>, out, flushed, None)
      BY <1>1, <1>2, <1>3, <2>2 DEF Flush, FlushTo
    <3>5. Len(disk'[handle']) = IF Len(out) > Len(<< >>) THEN Len(out)
                                ELSE Len(<< >>)
      BY <1>2, <3>4, FlushedFile, Zenon
    <3>. QED BY <1>1, <3>3, <3>5
  <2>. QED BY <2>1, <2>2
<1>5. out' = FirstParts(p, 0) /\ 0 \in 0 .. Chunks[p]
  BY <1>1 DEF FirstParts
<1>. QED BY <1>1, <1>4, <1>5 DEF OpenInv

\* A chunk is written: what is flushed is on disk.
LEMMA DiskData ==
  ASSUME DistinctNames, SwTypeOK, WaitingInv, sender = "waiting", OpenInv,
         RecvData
  PROVE  OpenInv'
<1>. DEFINE p == packet.path
<1>1. /\ p \in Files /\ BaseName[p] \in Names /\ Chunks[p] \in Nat
      /\ packet.part \in Nat
  BY PacketFields, NamesOf, SwChunksAssumption
<1>2. /\ pkt = packet /\ packet.part > 0 /\ handle = BaseName[p]
      /\ out = FirstParts(p, packet.part - 1)
      /\ pkt.ptype = "DATA"
  <2>1. toReceiver # << >> /\ transfer_active /\ pkt.ptype = "DATA" /\ InOrder
    BY DEF RecvData, Take
  <2>. QED BY <2>1, NewPacket
<1>3. packet.part <= Chunks[p]
  BY <1>1, <1>2 DEF WaitingInv, WellFormed, Kind
<1>4. /\ handle' = handle /\ handle # None
      /\ out' = FirstParts(p, packet.part)
      /\ Len(out) = packet.part - 1 /\ \A i \in 1 .. Len(out) : out'[i] = out[i]
  <2>1. out' = Append(out, [path |-> p, part |-> packet.part])
    BY <1>2 DEF RecvData, Write
  <2>2. packet.part - 1 \in Nat /\ (packet.part - 1) + 1 = packet.part
    BY <1>1, <1>2
  <2>3. out' = FirstParts(p, packet.part) /\ Len(out) = packet.part - 1
    BY <1>1, <1>2, <2>1, <2>2, PartsElements
  <2>4. out \in Seq(Chunk) /\ [path |-> p, part |-> packet.part] \in Chunk
    BY <1>1 DEF SwTypeOK, Chunk
  <2>5. \A i \in 1 .. Len(out) : out'[i] = out[i]
    BY <2>1, <2>4
  <2>. QED BY <2>3, <2>5 DEF RecvData, transfer_active
<1>5. /\ flushed <= Len(disk[handle]) /\ Len(disk[handle]) <= Chunks[p]
      /\ \A i \in 1 .. flushed : disk[handle][i] = out[i]
      /\ disk[handle] \in Bytes
      /\ flushed \in 0 .. Len(out) /\ Len(disk[handle]) \in Nat
  BY <1>1, <1>2, <1>4 DEF OpenInv, DistinctNames, SwTypeOK
<1>6. /\ flushed' <= Len(disk'[handle]) /\ Len(disk'[handle]) <= Chunks[p]
      /\ \A i \in 1 .. flushed' : disk'[handle][i] = out'[i]
  <2>1. CASE Len(out) - flushed < BufferSize
    <3>1. flushed' = flushed /\ disk' = disk
      BY <2>1 DEF RecvData, Write
    <3>. QED BY <1>2, <1>4, <1>5, <3>1
  <2>2. CASE ~(Len(out) - flushed < BufferSize)
    <3>1. flushed' = Len(out) /\ disk' = Flush(disk)
      BY <2>2 DEF RecvData, Write
    <3>2. disk'[handle] = Flushed(disk[handle], out, flushed, None)
      BY <1>1, <1>2, <1>4, <3>1 DEF Flush, FlushTo, SwTypeOK
    <3>3. /\ Len(disk'[handle]) = IF Len(out) > Len(disk[handle]) THEN Len(out)
                                  ELSE Len(disk[handle])
          /\ \A i \in 1 .. Len(out) : disk'[handle][i] = out[i]
      BY <1>5, <3>2, FlushedFile, Zenon
    <3>. QED BY <1>1, <1>2, <1>3, <1>4, <1>5, <3>1, <3>3
  <2>. QED BY <2>1, <2>2
<1>7. packet.part \in 0 .. Chunks[p]
  BY <1>1, <1>3
<1>. QED BY <1>1, <1>2, <1>4, <1>6, <1>7 DEF OpenInv

\* END flushes what is left: the file is the sender's.
LEMMA DiskEnd ==
  ASSUME DistinctNames, SwTypeOK, WaitingInv, sender = "waiting", OpenInv,
         RecvEnd
  PROVE  disk'[BaseName[packet.path]] = Content(packet.path)
<1>. DEFINE p == packet.path
<1>1. /\ p \in Files /\ BaseName[p] \in Names /\ Chunks[p] \in Nat
  BY PacketFields, NamesOf, SwChunksAssumption
<1>2. handle = BaseName[p] /\ handle # None
  <2>1. /\ toReceiver # << >> /\ transfer_active /\ pkt.ptype = "END"
    BY DEF RecvEnd, Take
  <2>. QED BY <2>1, NewPacket DEF transfer_active
<1>3. out = Content(p)
  BY EndKept
<1>4. Content(p) \in Bytes /\ Len(Content(p)) = Chunks[p]
  <2>1. FirstParts(p, Chunks[p]) \in Seq(Chunk) /\ Len(FirstParts(p, Chunks[p])) = Chunks[p]
    BY <1>1, PartsElements
  <2>2. Content(p) = FirstParts(p, Chunks[p])
    BY DEF Content, FirstParts
  <2>. QED BY <2>1, <2>2 DEF Bytes
<1>5. /\ flushed <= Len(disk[handle]) /\ Len(disk[handle]) <= Chunks[p]
      /\ \A i \in 1 .. flushed : disk[handle][i] = out[i]
      /\ disk[handle] \in Bytes /\ Len(disk[handle]) \in Nat
  BY <1>1, <1>2 DEF OpenInv, DistinctNames, SwTypeOK
<1>6. disk'[handle] = Flushed(disk[handle], out, flushed, None)
  BY <1>1, <1>2 DEF Flush, FlushTo, SwTypeOK, RecvEnd, Closed
<1>7. /\ disk'[handle] \in Bytes
      /\ Len(disk'[handle]) = IF Len(out) > Len(disk[handle]) THEN Len(out)
                              ELSE Len(disk[handle])
      /\ \A i \in 1 .. Len(out) : disk'[handle][i] = out[i]
  BY <1>5, <1>6, FlushedFile, Zenon
<1>8. Len(disk'[handle]) = Chunks[p]
  BY <1>1, <1>3, <1>4, <1>5, <1>7
<1>. QED BY <1>2, <1>3, <1>4, <1>7, <1>8, SeqEqual DEF Bytes

\* The step of the sender leaves the disk alone, and believes of the file it
\* reports only what is true of it.
LEMMA DiskSender ==
  ASSUME SwTypeOK, ProtocolInv, OpenInv, EndedInv,
         Sender \/ (\E p \in Files : StartTransfer(p))
  PROVE  OpenInv' /\ EndedInv'
<1>1. UNCHANGED receiverVars
  BY DEF Sender, StartTransfer, TakeAck, StaleAck, Retransmit, GiveUp
<1>2. OpenInv'
  BY <1>1 DEF OpenInv, receiverVars
<1>. SUFFICES EndedInv'
  BY <1>2
<1>3. ASSUME NEW p \in Files, StartTransfer(p) PROVE EndedInv'
  <2>1. sender' = "waiting" /\ packet'.ptype = "START"
    BY <1>3 DEF StartTransfer, SendAndWait, StartPacket
  <2>. QED BY <2>1 DEF EndedInv
<1>4. CASE TakeAck
  <2>1. /\ sender = "waiting" /\ taken = Now /\ TakenInv
    BY <1>4, RightAckIsOwn DEF TakeAck, ProtocolInv, WaitingInv
  <2>2. CASE packet.ptype = "END"
    <3>1. sender' = "prompt" /\ packet' = packet /\ handle = None
      BY <1>4, <2>1, <2>2 DEF TakeAck, TakenInv
    <3>. QED BY <1>1, <2>1, <2>2, <3>1 DEF EndedInv, receiverVars
  <2>3. CASE packet.ptype # "END"
    <3>1. sender' = "waiting" /\ packet' = NextPacket
      BY <1>4, <2>1, <2>3 DEF TakeAck, SendAndWait
    <3>2. taken' # Now'
      <4>1. taken' = Now
        BY <1>1, <2>1 DEF receiverVars
      <4>2. Now'.part = packet.part + 1 /\ Now.part = packet.part /\ packet.part \in Nat
        BY <2>1, <3>1, PacketFields DEF Now, IdOf, NextPacket, Packet
      <4>. QED BY <4>1, <4>2
    <3>. QED BY <3>1, <3>2 DEF EndedInv
  <2>. QED BY <2>2, <2>3
<1>5. CASE StaleAck \/ Retransmit
  BY <1>1, <1>5 DEF StaleAck, Retransmit, TimedOut, EndedInv, Now, IdOf, receiverVars,
     senderVars
<1>6. CASE GiveUp
  <2>1. sender' = "prompt" /\ packet' = packet /\ packet \in gaveUp'
    BY <1>6 DEF GiveUp
  <2>. QED BY <2>1 DEF EndedInv
<1>. QED BY <1>3, <1>4, <1>5, <1>6 DEF Sender

LEMMA DiskReceiver ==
  ASSUME DistinctNames, SwTypeOK, ProtocolInv, OpenInv, EndedInv,
         sender = "waiting", Receiver \/ Restart \/ LoseData \/ LoseAck
  PROVE  OpenInv' /\ EndedInv'
<1>0. /\ WaitingInv /\ TakenInv
  BY DEF ProtocolInv, WaitingInv
<1>1. /\ UNCHANGED senderVars /\ Now' = Now /\ sender' = "waiting"
      /\ packet' = packet
  BY DEF Receiver, RecvStart, RejectStart, RecvData, RepeatAck, RecvEnd, Ignore,
     Restart, LoseData, LoseAck, senderVars, Now, IdOf
<1>2. CASE RecvStart
  <2>1. handle' # None
    BY <1>2, TakeTypes, NamesOf DEF RecvStart
  <2>2. ~(packet'.ptype = "END" /\ taken' = Now')
    <3>1. TakenInv'
      BY <1>0, <1>2, StartKept DEF WaitingInv
    <3>. QED BY <2>1, <3>1 DEF TakenInv
  <2>. QED BY <1>1, <1>2, <2>2, DiskStart DEF EndedInv
<1>3. CASE RecvData
  <2>1. packet.ptype = "DATA"
    <3>1. toReceiver # << >> /\ transfer_active /\ pkt.ptype = "DATA" /\ InOrder
      BY <1>3 DEF RecvData, Take
    <3>. QED BY <1>0, <3>1, NewPacket
  <2>. QED BY <1>0, <1>1, <1>3, <2>1, DiskData DEF EndedInv
<1>4. CASE RecvEnd
  <2>1. handle' = None
    BY <1>4 DEF RecvEnd
  <2>2. disk'[BaseName[packet.path]] = Content(packet.path)
    BY <1>0, <1>4, DiskEnd
  <2>. QED BY <1>1, <2>1, <2>2 DEF OpenInv, EndedInv
<1>5. CASE RejectStart \/ Ignore \/ RepeatAck \/ LoseData \/ LoseAck
  <2>1. UNCHANGED receiverVars
    BY <1>5 DEF RejectStart, Ignore, RepeatAck, LoseData, LoseAck
  <2>. QED BY <1>1, <2>1 DEF OpenInv, EndedInv, receiverVars
<1>6. CASE Restart
  <2>1. handle' = None /\ taken' = taken /\ (handle = None => disk' = disk)
    BY <1>6 DEF Restart, Closed, Flush
  <2>. QED BY <1>0, <1>1, <2>1 DEF OpenInv, EndedInv, TakenInv
<1>. QED BY <1>2, <1>3, <1>4, <1>5, <1>6 DEF Receiver

\* At the prompt the receiver touches no file.
LEMMA DiskPrompt ==
  ASSUME SwTypeOK, ProtocolInv, OpenInv, EndedInv,
         sender = "prompt", Receiver \/ Restart \/ LoseData \/ LoseAck
  PROVE  OpenInv' /\ EndedInv'
<1>1. /\ UNCHANGED <<senderVars, taken>>
      /\ handle' = None \/ UNCHANGED <<handle, out, flushed, disk>>
      /\ handle = None => disk' = disk
  BY ReceiverPrompt
<1>2. OpenInv'
  BY <1>1 DEF OpenInv
<1>3. EndedInv'
  BY <1>1 DEF EndedInv, senderVars
<1>. QED BY <1>2, <1>3

LEMMA DiskNext ==
  ASSUME DistinctNames, IInv, DiskInv, [Next]_vars
  PROVE  DiskInv'
<1>. SUFFICES ASSUME Undisturbed' PROVE OpenInv' /\ EndedInv'
  BY DEF DiskInv
<1>1. /\ SwTypeOK /\ ProtocolInv /\ OpenInv /\ EndedInv
      /\ sender \in {"prompt", "waiting"}
  BY UndisturbedBefore DEF IInv, DiskInv, SwTypeOK
<1>2. CASE Sender \/ (\E p \in Files : StartTransfer(p))
  BY <1>1, <1>2, DiskSender
<1>3. CASE Receiver \/ Restart \/ LoseData \/ LoseAck
  BY <1>1, <1>3, DiskReceiver, DiskPrompt
<1>4. CASE UNCHANGED vars
  BY <1>1, <1>4 DEF OpenInv, EndedInv, Now, IdOf, vars, senderVars, receiverVars
<1>. QED BY <1>2, <1>3, <1>4 DEF Next, Quit

(* When no two paths have one base name, and no transfer was given up with *)
(* its answers late, the open file has on disk all that was flushed, and   *)
(* nothing but what an earlier transfer of the same path has left there    *)
(* behind it; and a file is whole on disk from the END until the next      *)
(* transfer begins, whatever the buffers of files that were given up or    *)
(* cut off still put there (receiver_stopwait.py:97-105, 131-143).         *)
THEOREM DiskInductive ==
  ASSUME DistinctNames
  PROVE  Spec => []DiskInv
<1>1. Init => DiskInv
  BY DEF Init, DiskInv, OpenInv, EndedInv
<1>2. IInv /\ DiskInv /\ [Next]_vars => DiskInv'
  BY DiskNext
<1>. QED BY <1>1, <1>2, SwInductive, PTL DEF Spec

(* When no two paths have one base name, the file of the transfer reported *)
(* last is on disk as it was at the sender, whatever else was sent, given  *)
(* up or cut off before, and whatever of that was still in a buffer        *)
(* (receiver_stopwait.py:97-105, 140-143).                                 *)
THEOREM LastTransferOnDisk ==
  ASSUME DistinctNames
  PROVE  Spec => []LastOnDisk
<1>1. DiskInv => LastOnDisk
  BY DEF DiskInv, EndedInv, LastOnDisk
<1>. QED BY <1>1, DiskInductive, PTL
=============================================================================
