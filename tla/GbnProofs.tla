------------------------------ MODULE GbnProofs ------------------------------
(***************************************************************************)
(* The safety properties of GoBackN, for any files, any window, and any    *)
(* MAX_SEQ of at least two windows, and its refinement of SlidingWindow.   *)
(*                                                                         *)
(* IInv of GbnInv holds initially, and the part of it that speaks of one   *)
(* stream is kept by every step of that stream's thread, of ack_receiver   *)
(* and of the receiver, whatever holds of the other streams.               *)
(***************************************************************************)
EXTENDS GbnBasics

-----------------------------------------------------------------------------
(* The absolute counts.                                                    *)

\* Their types, and their relation to the sequence numbers.
LEMMA Counts ==
  ASSUME TypeOK, NEW f \in FileIds
  PROVE  /\ SentParts(f) \in Nat /\ AckedParts(f) \in Int
         /\ InFlight(f) \in SeqNums /\ InFlight(f) \in Nat
         /\ AckedParts(f) + InFlight(f) = SentParts(f)
         /\ ExpectedPart(f) \in Nat /\ GotParts(f) \in Nat
         /\ LastPart(file[f]) \in Nat /\ LastPart(file[f]) > 0
         /\ Chunks[file[f]] \in Nat
         /\ base[f] \in SeqNums /\ nextseqnum[f] \in SeqNums
         /\ InFlight(f) = 0 <=> base[f] = nextseqnum[f]
<1>1. /\ read[f] \in Nat /\ base[f] \in SeqNums /\ nextseqnum[f] \in SeqNums
      /\ Chunks[file[f]] \in Nat /\ Len(out[f]) \in Nat
  BY ChunksAssumption DEF TypeOK, SenderTypeOK, ReceiverTypeOK
<1>2. SentParts(f) \in Nat
  BY <1>1 DEF SentParts
<1>3. /\ InFlight(f) \in SeqNums
      /\ InFlight(f) = 0 <=> base[f] = nextseqnum[f]
  BY <1>1, CircleTypes DEF InFlight
<1>4. AckedParts(f) = SentParts(f) - InFlight(f)
  BY DEF AckedParts, InFlight
<1>5. LastPart(file[f]) \in Nat /\ LastPart(file[f]) > 0
  BY <1>1 DEF LastPart
<1>6. ExpectedPart(f) \in Nat /\ GotParts(f) \in Nat
  BY <1>1, <1>5 DEF ExpectedPart, GotParts
<1>7. InFlight(f) \in Nat
  BY <1>3, Bounds DEF SeqNums
<1>. QED BY <1>1, <1>2, <1>3, <1>4, <1>5, <1>6, <1>7

\* The sender's counts change only with the sender's variables.
LEMMA SameSender ==
  ASSUME NEW f,
         file'[f] = file[f], started'[f] = started[f], read'[f] = read[f],
         eof_reached'[f] = eof_reached[f], base'[f] = base[f],
         nextseqnum'[f] = nextseqnum[f]
  PROVE  /\ SentParts(f)' = SentParts(f) /\ AckedParts(f)' = AckedParts(f)
         /\ InFlight(f)' = InFlight(f)
BY DEF SentParts, AckedParts, InFlight

\* The receiver's counts change only with the receiver's variables.
LEMMA SameReceiver ==
  ASSUME NEW f,
         file'[f] = file[f], handle'[f] = handle[f], out'[f] = out[f],
         saved'[f] = saved[f]
  PROVE  ExpectedPart(f)' = ExpectedPart(f) /\ GotParts(f)' = GotParts(f)
BY DEF ExpectedPart, GotParts

\* No stream is behind the window of the other side.
LEMMA Spread ==
  ASSUME TypeOK, NEW f \in FileIds, NumberInv(f), ReceiverInv(f)
  PROVE  /\ SentParts(f) <= AckedParts(f) + WINDOW_SIZE
         /\ GotParts(f) <= AckedParts(f) + WINDOW_SIZE
BY Bounds, Counts DEF NumberInv, ReceiverInv

\* Nothing is sent after END, and END is sent when eof_reached is set.
LEMMA SentBound ==
  ASSUME TypeOK, NEW f \in FileIds, CoreInv(f)
  PROVE  /\ SentParts(f) <= LastPart(file[f]) + 1
         /\ ~eof_reached[f] => SentParts(f) <= LastPart(file[f])
BY Counts DEF CoreInv, ReadInv, SentParts, LastPart, TypeOK, SenderTypeOK

\* A thread that is done has had every part taken.
LEMMA DoneMeansAll ==
  ASSUME TypeOK, NEW f \in FileIds, CoreInv(f),
         eof_reached[f], base[f] = nextseqnum[f]
  PROVE  /\ AckedParts(f) = LastPart(file[f]) + 1
         /\ SentParts(f) = LastPart(file[f]) + 1
<1>2. /\ read[f] = Chunks[file[f]] /\ started[f]
      /\ Chunks[file[f]] \in Nat
  BY Counts DEF CoreInv, ReadInv
<1>3. SentParts(f) = LastPart(file[f]) + 1
  BY <1>2 DEF SentParts, LastPart
<1>. QED BY <1>3, Counts

-----------------------------------------------------------------------------
(* The initial states.                                                     *)

LEMMA InvInit == Init => IInv
<1>. SUFFICES ASSUME Init, NEW f \in FileIds PROVE FileInv(f)
  BY TypeInit DEF IInv
<1>0. TypeOK
  BY TypeInit
<1>. USE DEF Init, WireInit, SenderInit, ReceiverInit
<1>1. 0 \in SeqNums /\ 0 % MAX_SEQ = 0 /\ Dist(0, 0) = 0
  BY Bounds, ResidueSmall, CircleTypes DEF SeqNums
<1>2. SentParts(f) = 0 /\ InFlight(f) = 0 /\ AckedParts(f) = 0
  BY <1>1 DEF SentParts, InFlight, AckedParts
<1>3. ExpectedPart(f) = 0 /\ GotParts(f) = 0
  BY DEF ExpectedPart, GotParts
<1>4. Chunks[file[f]] \in Nat
  BY <1>0, Counts
<1>5. ReadInv(f)
  BY <1>4 DEF ReadInv
<1>6. NumberInv(f)
  BY <1>1, <1>2, Bounds DEF NumberInv
<1>7. BufferInv(f)
  <2>1. \A s \in SeqNums : ~(Dist(s, base[f]) < InFlight(f))
    BY <1>1, <1>2, CircleTypes DEF SeqNums
  <2>. QED BY <2>1 DEF BufferInv
<1>8. PcInv(f)
  BY DEF PcInv
<1>9. DataInv(f)
  BY DEF DataInv, DataQueueFits, Ordered
<1>10. AckValueInv(f) /\ AckOrderInv(f)
  BY DEF AckValueInv, AckQueueFits, AckOrderInv, OfFile, Ordered, Precedes
<1>11. ReceiverInv(f) /\ OutInv(f)
  BY <1>1, <1>2, <1>3, <1>4 DEF ReceiverInv, OutInv, IsPrefixOf
<1>. QED BY <1>5, <1>6, <1>7, <1>8, <1>9, <1>10, <1>11
         DEF FileInv, RunInv, CoreInv

-----------------------------------------------------------------------------
(* Steps that leave a stream alone.                                        *)

\* Neither program touches the state of g.
Still(g) ==
  /\ file'[g] = file[g] /\ started'[g] = started[g] /\ read'[g] = read[g]
  /\ eof_reached'[g] = eof_reached[g] /\ base'[g] = base[g]
  /\ nextseqnum'[g] = nextseqnum[g] /\ buffer'[g] = buffer[g]
  /\ timer'[g] = timer[g] /\ acks'[g] = acks[g]
  /\ ack_queue'[g] = ack_queue[g] /\ pc'[g] = pc[g] /\ seq'[g] = seq[g]

ReceiverStill(g) ==
  /\ expected_seq'[g] = expected_seq[g] /\ handle'[g] = handle[g]
  /\ out'[g] = out[g] /\ saved'[g] = saved[g]

\* The packets of g that remain still fit.
DataStill(g) ==
  /\ DataQueueFits(toReceiver', g, file[g], SentParts(g), GotParts(g))
  /\ Ordered(toReceiver', g)

\* So do the ACKs at the socket.
AckStill(g) ==
  /\ AckQueueFits(toSender', g, GotParts(g), AckedParts(g))
  /\ Ordered(toSender', g)
  /\ Precedes(acks[g], toSender', g)
  /\ Precedes(ack_queue[g], toSender', g)

LEMMA DataStillCases ==
  ASSUME TypeOK, NEW g \in FileIds, DataInv(g)
  PROVE  /\ toReceiver' = toReceiver => DataStill(g)
         /\ toReceiver # << >> /\ toReceiver' = Tail(toReceiver)
              => DataStill(g)
         /\ \A cap, m : m \in Packet /\ m.file_id # g
                         /\ toReceiver' = Put(toReceiver, cap, m)
              => DataStill(g)
<1>0. toReceiver \in Seq(Packet)
  BY DEF TypeOK
<1>1. ASSUME toReceiver' = toReceiver PROVE DataStill(g)
  BY <1>1 DEF DataInv, DataStill
<1>2. ASSUME toReceiver # << >>, toReceiver' = Tail(toReceiver)
      PROVE  DataStill(g)
  BY <1>0, <1>2, DataTail, OrderedTail DEF DataInv, DataStill
<1>3. ASSUME NEW cap, NEW m \in Packet, m.file_id # g,
             toReceiver' = Put(toReceiver, cap, m)
      PROVE  DataStill(g)
  <2>1. CASE toReceiver' = toReceiver
    BY <1>1, <2>1
  <2>2. CASE toReceiver' = Append(toReceiver, m)
    BY <1>0, <1>3, <2>2, DataAppend, OrderedAppend DEF DataInv, DataStill
  <2>. QED BY <1>3, <2>1, <2>2 DEF Put
<1>. QED BY <1>1, <1>2, <1>3

LEMMA AckStillCases ==
  ASSUME TypeOK, NEW g \in FileIds, AckValueInv(g), AckOrderInv(g)
  PROVE  /\ toSender' = toSender => AckStill(g)
         /\ toSender # << >> /\ toSender' = Tail(toSender) => AckStill(g)
         /\ \A cap, m : m \in Ack /\ m.file_id # g
                         /\ toSender' = Put(toSender, cap, m)
              => AckStill(g)
<1>0. toSender \in Seq(Ack) /\ acks[g] \in Seq(Ack) /\ ack_queue[g] \in Seq(Ack)
  BY DEF TypeOK, SenderTypeOK
<1>. USE DEF AckValueInv, AckOrderInv
<1>1. ASSUME toSender' = toSender PROVE AckStill(g)
  BY <1>1 DEF AckStill
<1>2. ASSUME toSender # << >>, toSender' = Tail(toSender)
      PROVE  AckStill(g)
  <2>1. Ordered(toSender', g) /\ AckQueueFits(toSender', g, GotParts(g), AckedParts(g))
    BY <1>0, <1>2, AckTail, OrderedTail
  <2>2. Precedes(acks[g], toSender', g) /\ Precedes(ack_queue[g], toSender', g)
    BY <1>0, <1>2, PrecedesTail
  <2>. QED BY <2>1, <2>2 DEF AckStill
<1>3. ASSUME NEW cap, NEW m \in Ack, m.file_id # g,
             toSender' = Put(toSender, cap, m)
      PROVE  AckStill(g)
  <2>1. CASE toSender' = toSender
    BY <1>1, <2>1
  <2>2. CASE toSender' = Append(toSender, m)
    <3>1. Ordered(toSender', g) /\ AckQueueFits(toSender', g, GotParts(g), AckedParts(g))
      BY <1>0, <1>3, <2>2, AckAppend, OrderedAppend
    <3>2. Precedes(acks[g], toSender', g) /\ Precedes(ack_queue[g], toSender', g)
      BY <1>0, <1>3, <2>2, PrecedesAppend
    <3>. QED BY <3>1, <3>2 DEF AckStill
  <2>. QED BY <1>3, <2>1, <2>2 DEF Put
<1>. QED BY <1>1, <1>2, <1>3

\* A stream whose state is untouched keeps its invariant.
LEMMA Frame ==
  ASSUME NEW g \in FileIds, CoreInv(g), Still(g), ReceiverStill(g),
         DataStill(g), AckStill(g)
  PROVE  /\ CoreInv(g)'
         /\ PcInv(g) => PcInv(g)'
         /\ OutInv(g) => OutInv(g)'
<1>. USE DEF CoreInv, Still, ReceiverStill
<1>1. /\ SentParts(g)' = SentParts(g) /\ AckedParts(g)' = AckedParts(g)
      /\ InFlight(g)' = InFlight(g)
      /\ ExpectedPart(g)' = ExpectedPart(g) /\ GotParts(g)' = GotParts(g)
  BY SameSender, SameReceiver
<1>2. ReadInv(g)' /\ NumberInv(g)' /\ (PcInv(g) => PcInv(g)')
  BY <1>1 DEF ReadInv, NumberInv, PcInv
<1>3. BufferInv(g)'
  BY <1>1 DEF BufferInv
<1>4. DataInv(g)'
  BY <1>1 DEF DataInv, DataStill
<1>5. AckValueInv(g)' /\ AckOrderInv(g)'
  BY <1>1 DEF AckValueInv, AckOrderInv, AckStill
<1>6. ReceiverInv(g)' /\ (OutInv(g) => OutInv(g)')
  BY <1>1 DEF ReceiverInv, OutInv
<1>. QED BY <1>2, <1>3, <1>4, <1>5, <1>6

\* A step leaves the invariant of a stream alone if it leaves its state alone
\* and puts nothing of it on the wire.
LEMMA Others ==
  ASSUME TypeOK, NEW g \in FileIds, CoreInv(g), Still(g), ReceiverStill(g),
         \/ toReceiver' = toReceiver
         \/ toReceiver # << >> /\ toReceiver' = Tail(toReceiver)
         \/ \E cap, m : m \in Packet /\ m.file_id # g
                       /\ toReceiver' = Put(toReceiver, cap, m),
         \/ toSender' = toSender
         \/ toSender # << >> /\ toSender' = Tail(toSender)
         \/ \E cap, m : m \in Ack /\ m.file_id # g
                       /\ toSender' = Put(toSender, cap, m)
  PROVE  /\ CoreInv(g)'
         /\ PcInv(g) => PcInv(g)'
         /\ OutInv(g) => OutInv(g)'
<1>1. DataStill(g)
  BY DataStillCases DEF CoreInv
<1>2. AckStill(g)
  BY AckStillCases DEF CoreInv
<1>. QED BY <1>1, <1>2, Frame

\* What a thread has in its buffer is its own.
LEMMA BufferIsOwn ==
  ASSUME NEW f \in FileIds, CoreInv(f)
  PROVE  OwnBuffer(f)
<1>. SUFFICES ASSUME NEW s \in SeqNums, buffer[f][s] # None
              PROVE  buffer[f][s].file_id = f
  BY DEF OwnBuffer
<1>1. buffer[f][s] = PacketOf(f, file[f], AckedParts(f) + Dist(s, base[f]))
  BY DEF CoreInv, BufferInv
<1>. QED BY <1>1 DEF PacketOf

\* What a step of the thread of f, or of ack_receiver for f, does to the wire.
LEMMA SenderWire ==
  ASSUME TypeOK, NEW f \in FileIds, OwnBuffer(f),
         SenderStep(f) \/ Timeout(f) \/ RouteAck(f)
  PROVE  /\ \/ toReceiver' = toReceiver
            \/ \E cap, m : m \in Packet /\ m.file_id = f
                           /\ toReceiver' = Put(toReceiver, cap, m)
         /\ \/ toSender' = toSender
            \/ /\ toSender # << >> /\ Head(toSender).file_id = f
               /\ toSender' = Tail(toSender)
<1>1. ASSUME NEW ptype \in {"START", "DATA", "END"}, NEW part \in Nat,
             Transmit(f, ptype, part)
      PROVE  \E cap, m : m \in Packet /\ m.file_id = f
                         /\ toReceiver' = Put(toReceiver, cap, m)
  <2>. DEFINE m == [file_id |-> f, seq_num |-> nextseqnum[f], ptype |-> ptype,
                    path |-> file[f], part |-> part]
  <2>1. m \in Packet /\ m.file_id = f
    BY DEF TypeOK, SenderTypeOK, Packet
  <2>2. toReceiver' = Put(toReceiver, DataCap, m)
    BY <1>1 DEF Transmit
  <2>. HIDE DEF m
  <2>. QED BY <2>1, <2>2
<1>2. CASE SendStart(f) \/ SendData(f) \/ SendEnd(f)
  <2>1. \E ptype \in {"START", "DATA", "END"}, part \in Nat :
          Transmit(f, ptype, part)
    <3>1. 0 \in Nat /\ read[f] + 1 \in Nat
      BY DEF TypeOK, SenderTypeOK
    <3>. QED BY <1>2, <3>1 DEF SendStart, SendData, SendEnd
  <2>2. toSender' = toSender
    BY <1>2 DEF SendStart, SendData, SendEnd, Transmit
  <2>. QED BY <1>1, <2>1, <2>2
<1>3. CASE Drain(f) \/ IgnoreAck(f) \/ NoTimeout(f) \/ Timeout(f) \/ AcceptAck(f)
  BY <1>3 DEF Drain, IgnoreAck, NoTimeout, Timeout, AcceptAck, wireVars
<1>4. CASE RouteAck(f)
  BY <1>4 DEF RouteAck
<1>5. CASE Resend(f)
  <2>. DEFINE m == buffer[f][seq[f]]
  <2>1. toSender' = toSender
    BY <1>5 DEF Resend
  <2>2. m = None \/ (m \in Packet /\ m.file_id = f)
    BY DEF OwnBuffer, TypeOK, SenderTypeOK
  <2>3. IF m = None THEN toReceiver' = toReceiver
                    ELSE toReceiver' = Put(toReceiver, DataCap, m)
    BY <1>5 DEF Resend
  <2>. HIDE DEF m
  <2>. QED BY <2>1, <2>2, <2>3
<1>. QED BY <1>2, <1>3, <1>4, <1>5 DEF SenderStep

\* It is no concern of the other streams.
LEMMA SenderLocal ==
  ASSUME TypeOK, NEW f \in FileIds, NEW g \in FileIds, g # f,
         SenderStep(f) \/ Timeout(f) \/ RouteAck(f)
  PROVE  Still(g)
<1>1. CASE SendStart(f) \/ SendData(f) \/ SendEnd(f)
  BY <1>1 DEF SendStart, SendData, SendEnd, Transmit, Still, TypeOK,
              SenderTypeOK, ackVars
<1>2. CASE Drain(f) \/ IgnoreAck(f) \/ NoTimeout(f) \/ Timeout(f)
  BY <1>2 DEF Drain, IgnoreAck, NoTimeout, Timeout, Still, TypeOK,
              SenderTypeOK, fileVars, windowVars, ackVars, wireVars
<1>3. CASE AcceptAck(f)
  BY <1>3 DEF AcceptAck, Still, TypeOK, SenderTypeOK, fileVars, wireVars
<1>4. CASE RouteAck(f)
  BY <1>4 DEF RouteAck, Still, TypeOK, SenderTypeOK, fileVars, windowVars
<1>5. CASE Resend(f)
  BY <1>5 DEF Resend, Still, TypeOK, SenderTypeOK, fileVars, ackVars
<1>. QED BY <1>1, <1>2, <1>3, <1>4, <1>5 DEF SenderStep

LEMMA SenderOthers ==
  ASSUME TypeOK, NEW f \in FileIds, NEW g \in FileIds, g # f, OwnBuffer(f),
         SenderStep(f) \/ Timeout(f) \/ RouteAck(f), ReceiverStill(g),
         CoreInv(g)
  PROVE  /\ CoreInv(g)'
         /\ PcInv(g) => PcInv(g)'
         /\ OutInv(g) => OutInv(g)'
<1>1. /\ \/ toReceiver' = toReceiver
         \/ \E cap, m : m \in Packet /\ m.file_id = f
                        /\ toReceiver' = Put(toReceiver, cap, m)
      /\ \/ toSender' = toSender
         \/ toSender # << >> /\ toSender' = Tail(toSender)
  BY SenderWire
<1>2. Still(g)
  BY SenderLocal
<1>. QED BY <1>1, <1>2, Others

\* What the taking of a datagram of f does to the wire.
LEMMA ReceiverWire ==
  ASSUME TypeOK, NEW f \in FileIds, Receive(f)
  PROVE  /\ toReceiver # << >> /\ Head(toReceiver).file_id = f
         /\ toReceiver' = Tail(toReceiver)
         /\ \/ toSender' = toSender
            \/ \E cap, m : m \in Ack /\ m.file_id = f
                           /\ toSender' = Put(toSender, cap, m)
<1>0. Take(f)
  BY DEF Receive, RecvStart, RejectStart, RecvData, IgnoreData, RecvEnd, Discard
<1>1. pkt \in Packet
  <2>1. toReceiver \in Seq(Packet) /\ toReceiver # << >>
    BY <1>0 DEF Take, TypeOK
  <2>. QED BY <2>1, HeadTail DEF pkt
<1>3. ASSUME NEW n \in SeqNums, NEW k \in Nat, SendAck(f, n, k)
      PROVE  \E cap, m : m \in Ack /\ m.file_id = f
                         /\ toSender' = Put(toSender, cap, m)
  <2>. DEFINE a == [file_id |-> f, ack_num |-> n, part |-> k]
  <2>1. a \in Ack /\ a.file_id = f
    BY DEF Ack
  <2>2. toSender' = Put(toSender, AckCap, a)
    BY <1>3 DEF SendAck
  <2>. HIDE DEF a
  <2>. QED BY <2>1, <2>2
<1>4. toSender' = toSender \/ \E n \in SeqNums, k \in Nat : SendAck(f, n, k)
  <2>1. pkt.seq_num \in SeqNums /\ pkt.part \in Nat
    BY <1>1 DEF Packet
  <2>2. LastInOrder(f) \in SeqNums /\ Len(out[f]) \in Nat
    <3>1. expected_seq[f] \in SeqNums /\ out[f] \in Seq(Chunk) /\ 1 \in SeqNums
      BY Bounds DEF TypeOK, ReceiverTypeOK, SeqNums
    <3>2. LastInOrder(f) \in SeqNums
      BY <3>1, CircleTypes DEF LastInOrder
    <3>. QED BY <3>1, <3>2
  <2>. QED BY <2>1, <2>2 DEF Receive, RecvStart, RejectStart, RecvData,
                             IgnoreData, RecvEnd, Discard, Accept
<1>. QED BY <1>0, <1>3, <1>4 DEF Take

\* It is no concern of the other streams.
LEMMA ReceiverLocal ==
  ASSUME TypeOK, NEW f \in FileIds, NEW g \in FileIds, g # f, Receive(f)
  PROVE  ReceiverStill(g)
BY DEF Receive, RecvStart, RejectStart, RecvData, IgnoreData, RecvEnd,
       Discard, Accept, ReceiverStill, TypeOK, ReceiverTypeOK, receiverVars

LEMMA ReceiverOthers ==
  ASSUME TypeOK, NEW f \in FileIds, NEW g \in FileIds, g # f, Receive(f),
         UNCHANGED senderVars, CoreInv(g)
  PROVE  /\ CoreInv(g)'
         /\ PcInv(g) => PcInv(g)'
         /\ OutInv(g) => OutInv(g)'
<1>1. Still(g)
  BY DEF Still, senderVars, fileVars, windowVars, ackVars
<1>2. /\ toReceiver # << >> /\ toReceiver' = Tail(toReceiver)
      /\ \/ toSender' = toSender
         \/ \E cap, m : m \in Ack /\ m.file_id = f
                        /\ toSender' = Put(toSender, cap, m)
  BY ReceiverWire
<1>3. ReceiverStill(g)
  BY ReceiverLocal
<1>. QED BY <1>1, <1>2, <1>3, Others

-----------------------------------------------------------------------------
(* The sending loop.                                                       *)

\* Any packet of the window in flight may be put on the wire (again).
LEMMA DataSend ==
  ASSUME TypeOK, NEW f \in FileIds, RunInv(f), NEW k \in Nat, NEW cap,
         NEW sent \in Nat, sent = SentParts(f) \/ sent = SentParts(f) + 1,
         AckedParts(f) <= k, k < sent,
         PacketOf(f, file[f], k) \in Packet,
         toReceiver' = Put(toReceiver, cap, PacketOf(f, file[f], k))
  PROVE  /\ DataQueueFits(toReceiver', f, file[f], sent, GotParts(f))
         /\ Ordered(toReceiver', f)
<1>. DEFINE m == PacketOf(f, file[f], k)
<1>0. toReceiver \in Seq(Packet)
  BY DEF TypeOK
<1>1. /\ SentParts(f) \in Nat /\ GotParts(f) \in Nat /\ AckedParts(f) \in Int
      /\ SentParts(f) <= AckedParts(f) + WINDOW_SIZE
      /\ GotParts(f) <= AckedParts(f) + WINDOW_SIZE
  BY Counts, Spread DEF RunInv, CoreInv
<1>2. DataQueueFits(toReceiver, f, file[f], sent, GotParts(f))
  BY <1>0, <1>1, DataSendMore DEF RunInv, CoreInv, DataInv
<1>3. m.file_id = f /\ m.part = k
  BY DEF PacketOf
<1>4. DataFits(m, f, file[f], sent, GotParts(f))
  BY <1>1, <1>3, Bounds DEF DataFits
<1>5. \A i \in DOMAIN toReceiver :
        toReceiver[i].file_id = f
          => toReceiver[i].part < m.part + WINDOW_SIZE
  <2>. SUFFICES ASSUME NEW i \in DOMAIN toReceiver, toReceiver[i].file_id = f
                PROVE  toReceiver[i].part < m.part + WINDOW_SIZE
    OBVIOUS
  <2>1. toReceiver[i].part < SentParts(f)
    BY DEF RunInv, CoreInv, DataInv, DataQueueFits, DataFits
  <2>2. toReceiver[i] \in Packet
    BY <1>0
  <2>3. toReceiver[i].part \in Nat
    BY <2>2 DEF Packet
  <2>. QED BY <1>1, <1>3, <2>1, <2>3, Bounds
<1>6. CASE toReceiver' = toReceiver
  BY <1>2, <1>6 DEF RunInv, CoreInv, DataInv
<1>7. CASE toReceiver' = Append(toReceiver, m)
  <2>. HIDE DEF m
  <2>1. m \in Packet
    BY DEF m
  <2>. QED BY <1>0, <1>2, <1>4, <1>5, <1>7, <2>1, DataAppend, OrderedAppend
           DEF RunInv, CoreInv, DataInv
<1>. QED BY <1>6, <1>7 DEF Put

\* Sending the next packet of f for the first time.
LEMMA TransmitInv ==
  ASSUME TypeOK, NEW f \in FileIds, RunInv(f),
         NEW ptype \in {"START", "DATA", "END"}, NEW part \in Nat,
         pc[f] = "send", Room(f), Transmit(f, ptype, part),
         part = SentParts(f), ptype = PacketOf(f, file[f], part).ptype,
         SentParts(f)' = SentParts(f) + 1, ReadInv(f)',
         UNCHANGED receiverVars
  PROVE  RunInv(f)' /\ AckedParts(f)' = AckedParts(f)
<1>0. TypeOK /\ RunInv(f)
  OBVIOUS
<1>1. ASSUME NEW g \in FileIds PROVE ReceiverStill(g)
  BY DEF ReceiverStill, receiverVars
<1>. DEFINE m == PacketOf(f, file[f], part)
<1>2. /\ m = [file_id |-> f, seq_num |-> nextseqnum[f], ptype |-> ptype,
              path |-> file[f], part |-> part]
      /\ m \in Packet
  <2>1. nextseqnum[f] = part % MAX_SEQ
    BY <1>0 DEF RunInv, CoreInv, NumberInv
  <2>2. m = [file_id |-> f, seq_num |-> nextseqnum[f], ptype |-> ptype,
             path |-> file[f], part |-> part]
    BY <2>1 DEF PacketOf
  <2>3. nextseqnum[f] \in SeqNums /\ file[f] \in Files
    BY <1>0 DEF TypeOK, SenderTypeOK
  <2>. QED BY <2>2, <2>3 DEF Packet
<1>3. /\ toReceiver' = Put(toReceiver, DataCap, m)
      /\ buffer' = [buffer EXCEPT ![f][nextseqnum[f]] = m]
      /\ m \in Packet /\ m.file_id = f
  BY <1>2 DEF Transmit
<1>. HIDE DEF m
<1>5. RunInv(f)' /\ AckedParts(f)' = AckedParts(f)
  <2>. DEFINE S == SentParts(f)
              B == AckedParts(f)
              D == InFlight(f)
  <2>0. RunInv(f)
    BY <1>0
  <2>1. /\ S \in Nat /\ B \in Int /\ D \in Nat /\ B + D = S
        /\ base[f] \in SeqNums /\ nextseqnum[f] \in SeqNums
        /\ base'[f] = base[f] /\ file'[f] = file[f]
        /\ nextseqnum'[f] = NextSeq(nextseqnum[f])
    BY <1>0, Counts DEF Transmit, TypeOK, SenderTypeOK
  <2>2. D < WINDOW_SIZE
    BY DEF Room, InFlight
  <2>3. InFlight(f)' = D + 1
    BY <2>1, <2>2, DistStep, Bounds DEF InFlight
  <2>4. SentParts(f)' = S + 1 /\ AckedParts(f)' = B
    BY <2>1, <2>3 DEF AckedParts, InFlight
  <2>5. GotParts(f)' = GotParts(f) /\ ExpectedPart(f)' = ExpectedPart(f)
    BY <1>1, <2>1, SameReceiver DEF ReceiverStill
  <2>6. NumberInv(f)'
    <3>1. nextseqnum'[f] = (S + 1) % MAX_SEQ
      BY <2>0, <2>1, NextOfResidue DEF RunInv, CoreInv, NumberInv
    <3>2. base'[f] = AckedParts(f)' % MAX_SEQ
      BY <2>0, <2>1, <2>4 DEF RunInv, CoreInv, NumberInv
    <3>. QED BY <2>1, <2>2, <2>3, <2>4, <3>1, <3>2, Bounds DEF NumberInv
  <2>7. BufferInv(f)'
    <3>. SUFFICES ASSUME NEW s \in SeqNums
                  PROVE  buffer'[f][s] =
                           IF Dist(s, base[f]) < D + 1
                           THEN PacketOf(f, file[f], B + Dist(s, base[f]))
                           ELSE None
      BY <2>1, <2>3, <2>4 DEF BufferInv
    <3>1. Dist(s, base[f]) \in Nat
      <4>1. Dist(s, base[f]) \in SeqNums
        BY <2>1, CircleTypes
      <4>. QED BY <4>1, Bounds DEF SeqNums
    <3>2. buffer[f] \in [SeqNums -> Packet \cup {None}]
      BY <1>0 DEF TypeOK, SenderTypeOK
    <3>3. buffer[f][s] = IF Dist(s, base[f]) < D
                         THEN PacketOf(f, file[f], B + Dist(s, base[f]))
                         ELSE None
      BY <2>0 DEF RunInv, CoreInv, BufferInv
    <3>4. CASE s = nextseqnum[f]
      <4>1. Dist(s, base[f]) = D
        BY <3>4 DEF InFlight
      <4>2. buffer'[f][s] = m
        BY <1>0, <1>3, <3>2, <3>4 DEF TypeOK, SenderTypeOK
      <4>3. m = PacketOf(f, file[f], B + D)
        BY <2>1 DEF m
      <4>. QED BY <2>1, <4>1, <4>2, <4>3
    <3>5. CASE s # nextseqnum[f]
      <4>1. Dist(s, base[f]) # D
        BY <2>1, <3>5, DistUnique DEF InFlight
      <4>2. buffer'[f][s] = buffer[f][s]
        BY <1>0, <1>3, <3>2, <3>5 DEF TypeOK, SenderTypeOK
      <4>. QED BY <2>1, <3>1, <3>3, <4>1, <4>2
    <3>. QED BY <3>4, <3>5
  <2>8. PcInv(f)'
    <3>1. pc'[f] = "send" /\ acks'[f] = acks[f]
      BY <1>0 DEF Transmit, ackVars
    <3>2. acks[f] = << >>
      BY <2>0 DEF RunInv, CoreInv, PcInv
    <3>3. base'[f] # nextseqnum'[f]
      <4>1. Dist(base[f], base[f]) = 0
        BY <2>1, CircleTypes
      <4>2. Dist(nextseqnum'[f], base[f]) = D + 1
        BY <2>1, <2>3 DEF InFlight
      <4>. QED BY <2>1, <4>1, <4>2
    <3>4. timer'[f]
      <4>1. timer'[f] = (timer[f] \/ base[f] = nextseqnum[f])
        BY <1>0 DEF Transmit, TypeOK, SenderTypeOK
      <4>2. timer[f] <=> base[f] # nextseqnum[f]
        BY <2>0 DEF RunInv, CoreInv, PcInv
      <4>. QED BY <4>1, <4>2
    <3>. QED BY <3>1, <3>2, <3>3, <3>4 DEF PcInv
  <2>9. DataInv(f)'
    <3>1. B <= part /\ part < S + 1
      BY <2>1
    <3>2. /\ DataQueueFits(toReceiver', f, file[f], S + 1, GotParts(f))
          /\ Ordered(toReceiver', f)
      BY <1>0, <1>3, <2>0, <2>1, <3>1, DataSend DEF m
    <3>. QED BY <2>1, <2>4, <2>5, <3>2 DEF DataInv
  <2>10. AckValueInv(f)' /\ AckOrderInv(f)'
    BY <2>0, <2>4, <2>5
       DEF RunInv, CoreInv, AckValueInv, AckOrderInv, Transmit, ackVars
  <2>11. ReceiverInv(f)'
    <3>1. GotParts(f) \in Nat
      BY <1>0, Counts
    <3>. QED BY <1>1, <2>0, <2>1, <2>4, <2>5, <3>1
             DEF RunInv, CoreInv, ReceiverInv, ReceiverStill
  <2>. QED BY <2>4, <2>6, <2>7, <2>8, <2>9, <2>10, <2>11 DEF RunInv, CoreInv
<1>. QED BY <1>5

\* The three packets of the sending loop.
LEMMA StartInv ==
  ASSUME TypeOK, NEW f \in FileIds, RunInv(f), SendStart(f),
         UNCHANGED receiverVars
  PROVE  /\ RunInv(f)' /\ AckedParts(f)' = AckedParts(f)
         /\ SentParts(f)' = SentParts(f) + 1
         /\ \E ptype : Transmit(f, ptype, SentParts(f))
<1>0. TypeOK /\ RunInv(f)
  OBVIOUS
<1>. USE DEF SendStart
<1>1. /\ Chunks[file[f]] \in Nat /\ file'[f] = file[f]
      /\ started' = [started EXCEPT ![f] = TRUE] /\ started'[f]
      /\ read' = read /\ eof_reached' = eof_reached
  BY <1>0, Counts DEF Transmit, TypeOK, SenderTypeOK
<1>2. read[f] = 0 /\ ~eof_reached[f] /\ SentParts(f) = 0
  BY <1>0 DEF RunInv, CoreInv, ReadInv, SentParts
<1>3. SentParts(f)' = SentParts(f) + 1
  BY <1>1, <1>2 DEF SentParts
<1>4. PacketOf(f, file[f], 0).ptype = "START"
  BY DEF PacketOf
<1>5. ReadInv(f)'
  BY <1>0, <1>1, <1>2 DEF RunInv, CoreInv, ReadInv
<1>7. pc[f] = "send" /\ Room(f) /\ Transmit(f, "START", 0)
  BY DEF CanSend
<1>. QED BY <1>1, <1>2, <1>3, <1>4, <1>5, <1>7, TransmitInv

LEMMA SendDataInv ==
  ASSUME TypeOK, NEW f \in FileIds, RunInv(f), SendData(f),
         UNCHANGED receiverVars
  PROVE  /\ RunInv(f)' /\ AckedParts(f)' = AckedParts(f)
         /\ SentParts(f)' = SentParts(f) + 1
         /\ \E ptype : Transmit(f, ptype, SentParts(f))
<1>0. TypeOK /\ RunInv(f)
  OBVIOUS
<1>. USE DEF SendData
<1>1. /\ Chunks[file[f]] \in Nat /\ file'[f] = file[f] /\ read[f] \in Nat
      /\ read'[f] = read[f] + 1 /\ read[f] < Chunks[file[f]] /\ started[f]
      /\ started' = started /\ eof_reached' = eof_reached
  BY <1>0, Counts DEF Transmit, TypeOK, SenderTypeOK
<1>2. ~eof_reached[f] /\ SentParts(f) = read[f] + 1
  BY <1>1 DEF CanSend, SentParts
<1>3. SentParts(f)' = SentParts(f) + 1
  BY <1>1, <1>2 DEF SentParts
<1>4. PacketOf(f, file[f], read[f] + 1).ptype = "DATA"
  BY <1>1 DEF PacketOf, LastPart
<1>5. ReadInv(f)'
  BY <1>1, <1>2 DEF ReadInv
<1>7. pc[f] = "send" /\ Room(f) /\ Transmit(f, "DATA", read[f] + 1)
  BY DEF CanSend
<1>8. read[f] + 1 \in Nat
  BY <1>1
<1>. QED BY <1>1, <1>2, <1>3, <1>4, <1>5, <1>7, <1>8, TransmitInv

LEMMA SendEndInv ==
  ASSUME TypeOK, NEW f \in FileIds, RunInv(f), SendEnd(f),
         UNCHANGED receiverVars
  PROVE  /\ RunInv(f)' /\ AckedParts(f)' = AckedParts(f)
         /\ SentParts(f)' = SentParts(f) + 1
         /\ \E ptype : Transmit(f, ptype, SentParts(f))
<1>0. TypeOK /\ RunInv(f)
  OBVIOUS
<1>. USE DEF SendEnd
<1>1. /\ Chunks[file[f]] \in Nat /\ file'[f] = file[f] /\ read[f] \in Nat
      /\ eof_reached' = [eof_reached EXCEPT ![f] = TRUE] /\ eof_reached'[f]
      /\ read[f] = Chunks[file[f]] /\ started[f]
      /\ started' = started /\ read' = read
  BY <1>0, Counts DEF Transmit, TypeOK, SenderTypeOK
<1>2. ~eof_reached[f] /\ SentParts(f) = read[f] + 1
  BY <1>1 DEF CanSend, SentParts
<1>3. SentParts(f)' = SentParts(f) + 1
  BY <1>1, <1>2 DEF SentParts
<1>4. PacketOf(f, file[f], read[f] + 1).ptype = "END"
  BY <1>1 DEF PacketOf, LastPart
<1>5. ReadInv(f)'
  BY <1>1 DEF ReadInv
<1>7. pc[f] = "send" /\ Room(f) /\ Transmit(f, "END", read[f] + 1)
  BY DEF CanSend
<1>8. read[f] + 1 \in Nat
  BY <1>1
<1>. QED BY <1>1, <1>2, <1>3, <1>4, <1>5, <1>7, <1>8, TransmitInv

-----------------------------------------------------------------------------
(* Acknowledgments at the sender.                                          *)

LEMMA DrainInv ==
  ASSUME TypeOK, NEW f \in FileIds, RunInv(f), Drain(f), UNCHANGED receiverVars
  PROVE  RunInv(f)'
<1>0. TypeOK /\ RunInv(f)
  OBVIOUS
<1>. USE DEF Drain
<1>1. ASSUME NEW g \in FileIds PROVE ReceiverStill(g)
  BY DEF ReceiverStill, receiverVars
<1>3. RunInv(f)'
  <2>. USE DEF fileVars, windowVars, wireVars
  <2>1. /\ file' = file /\ started' = started /\ read' = read
        /\ eof_reached' = eof_reached /\ base' = base
        /\ nextseqnum' = nextseqnum /\ buffer' = buffer /\ timer' = timer
        /\ seq' = seq /\ toReceiver' = toReceiver /\ toSender' = toSender
        /\ acks'[f] = ack_queue[f] /\ ack_queue'[f] = << >> /\ pc'[f] = "acks"
    BY <1>0 DEF TypeOK, SenderTypeOK
  <2>2. /\ SentParts(f)' = SentParts(f) /\ AckedParts(f)' = AckedParts(f)
        /\ InFlight(f)' = InFlight(f)
        /\ ExpectedPart(f)' = ExpectedPart(f) /\ GotParts(f)' = GotParts(f)
    BY <1>1, <2>1, SameSender, SameReceiver DEF ReceiverStill
  <2>3. ReadInv(f)' /\ NumberInv(f)' /\ BufferInv(f)'
    BY <1>0, <2>1, <2>2 DEF RunInv, CoreInv, ReadInv, NumberInv, BufferInv
  <2>4. PcInv(f)'
    BY <1>0, <2>1 DEF RunInv, CoreInv, PcInv
  <2>5. DataInv(f)'
    BY <1>0, <2>1, <2>2 DEF RunInv, CoreInv, DataInv
  <2>6. AckValueInv(f)'
    BY <1>0, <2>1, <2>2 DEF RunInv, CoreInv, AckValueInv, AckQueueFits
  <2>7. AckOrderInv(f)'
    BY <1>0, <2>1, EmptyOrder DEF RunInv, CoreInv, AckOrderInv, OfFile
  <2>8. ReceiverInv(f)'
    BY <1>0, <1>1, <2>1, <2>2 DEF RunInv, CoreInv, ReceiverInv, ReceiverStill
  <2>. QED BY <2>3, <2>4, <2>5, <2>6, <2>7, <2>8 DEF RunInv, CoreInv
<1>. QED BY <1>3

\* Handling the first of the drained ACKs keeps the order of the rest.
LEMMA AcksTailOrder ==
  ASSUME TypeOK, NEW f \in FileIds, AckOrderInv(f), acks[f] # << >>
  PROVE  /\ Ordered(Tail(acks[f]), f) /\ OfFile(Tail(acks[f]), f)
         /\ Precedes(Tail(acks[f]), ack_queue[f], f)
         /\ Precedes(Tail(acks[f]), toSender, f)
<1>1. /\ acks[f] \in Seq(Ack) /\ ack_queue[f] \in Seq(Ack)
      /\ toSender \in Seq(Ack)
  BY DEF TypeOK, SenderTypeOK
<1>2. Ordered(Tail(acks[f]), f)
  BY <1>1, OrderedTail DEF AckOrderInv
<1>3. OfFile(Tail(acks[f]), f)
  <2>. SUFFICES ASSUME NEW i \in DOMAIN Tail(acks[f])
                PROVE  Tail(acks[f])[i].file_id = f
    BY DEF OfFile
  <2>1. i + 1 \in DOMAIN acks[f] /\ Tail(acks[f])[i] = acks[f][i + 1]
    BY <1>1, TailElements
  <2>. QED BY <2>1 DEF AckOrderInv, OfFile
<1>4. /\ Precedes(Tail(acks[f]), ack_queue[f], f)
      /\ Precedes(Tail(acks[f]), toSender, f)
  BY <1>1, PrecedesTail DEF AckOrderInv
<1>. QED BY <1>2, <1>3, <1>4

\* The window check tells a fresh ACK from a stale one.
LEMMA WindowCheck ==
  ASSUME TypeOK, NEW f \in FileIds, RunInv(f), pc[f] = "acks", acks[f] # << >>
  PROVE  LET a == Head(acks[f])
         IN  /\ a \in Ack /\ a.part \in Nat /\ a.file_id = f
             /\ AckFits(a, GotParts(f), AckedParts(f))
             /\ InWindow(f, a.ack_num) <=> AckedParts(f) <= a.part
<1>. DEFINE a == Head(acks[f])
            B == AckedParts(f)
<1>1. acks[f] \in Seq(Ack)
  BY DEF TypeOK, SenderTypeOK
<1>2. a \in Ack /\ 1 \in DOMAIN acks[f] /\ a = acks[f][1]
  BY <1>1, TailElements
<1>3. a.file_id = f
  BY <1>2 DEF RunInv, CoreInv, AckOrderInv, OfFile
<1>4. AckFits(a, GotParts(f), B)
  BY <1>2, <1>3 DEF RunInv, CoreInv, AckValueInv, AckQueueFits
<1>5. a.part \in Nat
  BY <1>2 DEF Ack
<1>6. /\ B \in Int /\ GotParts(f) \in Nat /\ GotParts(f) <= B + WINDOW_SIZE
  BY Counts, Spread DEF RunInv, CoreInv
<1>7. base[f] = B % MAX_SEQ /\ a.ack_num = a.part % MAX_SEQ
  BY <1>4 DEF RunInv, CoreInv, NumberInv, AckFits
<1>8. a.part < GotParts(f) /\ B <= a.part + WINDOW_SIZE
  BY <1>4 DEF AckFits
<1>. HIDE DEF a, B
<1>9. Dist(a.ack_num, base[f]) = IF a.part >= B THEN a.part - B
                                 ELSE a.part - B + MAX_SEQ
  <2>1. /\ a.part \in Int /\ B \in Int
        /\ a.part - B < MAX_SEQ /\ -MAX_SEQ <= a.part - B
    BY <1>5, <1>6, <1>8, Bounds
  <2>2. Dist(a.part % MAX_SEQ, B % MAX_SEQ)
          = IF a.part >= B THEN a.part - B ELSE a.part - B + MAX_SEQ
    BY <2>1, DistOfResidues
  <2>. QED BY <1>7, <2>2
<1>10. InWindow(f, a.ack_num) <=> B <= a.part
  BY <1>5, <1>6, <1>8, <1>9, Bounds DEF InWindow
<1>. QED BY <1>2, <1>3, <1>4, <1>5, <1>10 DEF a, B

LEMMA IgnoreAckInv ==
  ASSUME TypeOK, NEW f \in FileIds, RunInv(f), IgnoreAck(f), UNCHANGED receiverVars
  PROVE  RunInv(f)'
<1>0. TypeOK /\ RunInv(f)
  OBVIOUS
<1>. USE DEF IgnoreAck
<1>1. ASSUME NEW g \in FileIds PROVE ReceiverStill(g)
  BY DEF ReceiverStill, receiverVars
<1>3. RunInv(f)'
  <2>. USE DEF fileVars, windowVars, wireVars
  <2>0. /\ acks[f] \in Seq(Ack) /\ ack_queue[f] \in Seq(Ack)
        /\ toSender \in Seq(Ack) /\ acks[f] # << >>
    BY <1>0 DEF TypeOK, SenderTypeOK
  <2>1. /\ file' = file /\ started' = started /\ read' = read
        /\ eof_reached' = eof_reached /\ base' = base
        /\ nextseqnum' = nextseqnum /\ buffer' = buffer /\ timer' = timer
        /\ seq' = seq /\ toReceiver' = toReceiver /\ toSender' = toSender
        /\ acks'[f] = Tail(acks[f]) /\ ack_queue' = ack_queue
        /\ pc' = pc /\ pc[f] = "acks"
    BY <1>0 DEF TypeOK, SenderTypeOK
  <2>2. /\ SentParts(f)' = SentParts(f) /\ AckedParts(f)' = AckedParts(f)
        /\ InFlight(f)' = InFlight(f)
        /\ ExpectedPart(f)' = ExpectedPart(f) /\ GotParts(f)' = GotParts(f)
    BY <1>1, <2>1, SameSender, SameReceiver DEF ReceiverStill
  <2>3. ReadInv(f)' /\ NumberInv(f)' /\ BufferInv(f)'
    BY <1>0, <2>1, <2>2 DEF RunInv, CoreInv, ReadInv, NumberInv, BufferInv
  <2>4. PcInv(f)'
    BY <1>0, <2>1 DEF RunInv, CoreInv, PcInv
  <2>5. DataInv(f)'
    BY <1>0, <2>1, <2>2 DEF RunInv, CoreInv, DataInv
  <2>6. AckValueInv(f)'
    BY <1>0, <2>0, <2>1, <2>2, AckTail DEF RunInv, CoreInv, AckValueInv
  <2>7. AckOrderInv(f)'
    BY <1>0, <2>0, <2>1, AcksTailOrder DEF RunInv, CoreInv, AckOrderInv
  <2>8. ReceiverInv(f)'
    BY <1>0, <1>1, <2>1, <2>2 DEF RunInv, CoreInv, ReceiverInv, ReceiverStill
  <2>. QED BY <2>3, <2>4, <2>5, <2>6, <2>7, <2>8 DEF RunInv, CoreInv
<1>. QED BY <1>3

\* A believed ACK moves base to the part after the one it names.
LEMMA AcceptAckInv ==
  ASSUME TypeOK, NEW f \in FileIds, RunInv(f), AcceptAck(f), UNCHANGED receiverVars
  PROVE  /\ RunInv(f)' /\ AckedParts(f) < AckedParts(f)'
         /\ AckedParts(f)' = Head(acks[f]).part + 1
<1>0. TypeOK /\ RunInv(f)
  OBVIOUS
<1>1. ASSUME NEW g \in FileIds PROVE ReceiverStill(g)
  BY DEF ReceiverStill, receiverVars
<1>3. /\ RunInv(f)' /\ AckedParts(f) < AckedParts(f)'
      /\ AckedParts(f)' = Head(acks[f]).part + 1
  <2>. DEFINE a == Head(acks[f])
              k == a.part
              S == SentParts(f)
              B == AckedParts(f)
              D == InFlight(f)
              G == GotParts(f)
              new_base == NextSeq(a.ack_num)
  <2>0. /\ acks[f] \in Seq(Ack) /\ ack_queue[f] \in Seq(Ack)
        /\ toSender \in Seq(Ack) /\ acks[f] # << >> /\ pc[f] = "acks"
    BY <1>0 DEF AcceptAck, TypeOK, SenderTypeOK
  <2>1. /\ file' = file /\ started' = started /\ read' = read
        /\ eof_reached' = eof_reached /\ pc' = pc /\ seq' = seq
        /\ nextseqnum' = nextseqnum /\ ack_queue' = ack_queue
        /\ toReceiver' = toReceiver /\ toSender' = toSender
        /\ acks'[f] = Tail(acks[f])
    BY <1>0 DEF AcceptAck, TypeOK, SenderTypeOK, fileVars, wireVars
  <2>2. /\ base'[f] = new_base /\ buffer'[f] = Freed(f, new_base)
        /\ timer'[f] = (new_base # nextseqnum[f])
    BY <1>0 DEF AcceptAck, TypeOK, SenderTypeOK, TimerAfterAck
  <2>3. /\ k \in Nat /\ a.file_id = f /\ k < G /\ B <= k
        /\ a.ack_num = k % MAX_SEQ /\ a.ack_num \in SeqNums
    BY <1>0, <2>0, WindowCheck DEF AcceptAck, AckFits, Ack
  <2>4. /\ S \in Nat /\ B \in Int /\ D \in Nat /\ B + D = S /\ G \in Nat
        /\ base[f] \in SeqNums /\ nextseqnum[f] \in SeqNums
        /\ 0 <= B /\ G <= S /\ S <= B + WINDOW_SIZE
    BY <1>0, Counts, Spread DEF RunInv, CoreInv, ReceiverInv
  <2>5. /\ base[f] = B % MAX_SEQ /\ nextseqnum[f] = S % MAX_SEQ
    BY <1>0 DEF RunInv, CoreInv, NumberInv
  <2>6. new_base = (k + 1) % MAX_SEQ /\ new_base \in SeqNums
    <3>1. k \in Int
      BY <2>3
    <3>. HIDE DEF k
    <3>2. new_base = (k + 1) % MAX_SEQ
      BY <2>3, <3>1, NextOfResidue
    <3>3. new_base \in SeqNums
      BY <2>3, CircleTypes
    <3>. QED BY <3>2, <3>3
  <2>. HIDE DEF a, k, new_base
  <2>7. Dist(new_base, base[f]) = k + 1 - B
    <3>1. /\ k + 1 \in Int /\ (k + 1) - B < MAX_SEQ
          /\ -MAX_SEQ <= (k + 1) - B /\ k + 1 >= B
      BY <2>3, <2>4, Bounds
    <3>2. Dist((k + 1) % MAX_SEQ, B % MAX_SEQ)
            = IF k + 1 >= B THEN (k + 1) - B ELSE (k + 1) - B + MAX_SEQ
      <4>. DEFINE n == k + 1
      <4>1. n \in Int /\ n - B < MAX_SEQ /\ -MAX_SEQ <= n - B
        BY <3>1
      <4>. HIDE DEF n
      <4>2. Dist(n % MAX_SEQ, B % MAX_SEQ)
              = IF n >= B THEN n - B ELSE n - B + MAX_SEQ
        BY <2>4, <4>1, DistOfResidues
      <4>. QED BY <4>2 DEF n
    <3>3. Dist((k + 1) % MAX_SEQ, B % MAX_SEQ) = k + 1 - B
      <4>1. k \in Int /\ B \in Int
        BY <2>3, <2>4
      <4>. HIDE DEF B
      <4>. QED BY <3>1, <3>2, <4>1
    <3>. QED BY <2>5, <2>6, <3>3
  <2>8. InFlight(f)' = S - (k + 1)
    <3>1. /\ k + 1 \in Int /\ S - (k + 1) < MAX_SEQ
          /\ -MAX_SEQ <= S - (k + 1) /\ S >= k + 1
      BY <2>3, <2>4, Bounds
    <3>2. Dist(S % MAX_SEQ, (k + 1) % MAX_SEQ) = S - (k + 1)
      BY <2>4, <3>1, DistOfResidues
    <3>. QED BY <2>1, <2>2, <2>5, <2>6, <3>2 DEF InFlight
  <2>9. SentParts(f)' = S
    BY <2>1 DEF SentParts
  <2>10. AckedParts(f)' = k + 1
    BY <2>3, <2>4, <2>8, <2>9 DEF AckedParts, InFlight
  <2>11. GotParts(f)' = G /\ ExpectedPart(f)' = ExpectedPart(f)
    BY <1>1, <2>1, SameReceiver DEF ReceiverStill
  <2>12. ReadInv(f)'
    BY <1>0, <2>1 DEF RunInv, CoreInv, ReadInv
  <2>13. NumberInv(f)'
    BY <2>1, <2>2, <2>3, <2>4, <2>5, <2>6, <2>8, <2>9, <2>10, Bounds
       DEF NumberInv
  <2>14. BufferInv(f)'
    <3>. SUFFICES ASSUME NEW s \in SeqNums
                  PROVE  buffer'[f][s] =
                    IF Dist(s, new_base) < S - (k + 1)
                    THEN PacketOf(f, file[f], k + 1 + Dist(s, new_base))
                    ELSE None
      BY <2>1, <2>2, <2>8, <2>10 DEF BufferInv
    <3>1. buffer'[f][s] = IF Dist(s, base[f]) < k + 1 - B
                          THEN None ELSE buffer[f][s]
      BY <2>2, <2>7 DEF Freed
    <3>2. buffer[f][s] = IF Dist(s, base[f]) < D
                         THEN PacketOf(f, file[f], B + Dist(s, base[f]))
                         ELSE None
      BY <1>0 DEF RunInv, CoreInv, BufferInv
    <3>3. Dist(s, base[f]) \in 0 .. (MAX_SEQ - 1)
      BY <2>4, CircleTypes DEF SeqNums
    <3>4. Dist(s, new_base) =
            IF Dist(s, base[f]) >= k + 1 - B
            THEN Dist(s, base[f]) - (k + 1 - B)
            ELSE Dist(s, base[f]) - (k + 1 - B) + MAX_SEQ
      <4>1. Dist(s, base[f]) = IF s >= base[f] THEN s - base[f]
                               ELSE s - base[f] + MAX_SEQ
        BY <2>4, DistOnCircle
      <4>2. Dist(s, new_base) = IF s >= new_base THEN s - new_base
                                ELSE s - new_base + MAX_SEQ
        BY <2>6, DistOnCircle
      <4>3. k + 1 - B = IF new_base >= base[f] THEN new_base - base[f]
                        ELSE new_base - base[f] + MAX_SEQ
        BY <2>4, <2>6, <2>7, DistOnCircle
      <4>. QED BY <2>3, <2>4, <2>6, <4>1, <4>2, <4>3, Bounds DEF SeqNums
    <3>5. CASE Dist(s, base[f]) >= k + 1 - B
      <4>1. /\ ~(Dist(s, base[f]) < k + 1 - B)
            /\ k + 1 + Dist(s, new_base) = B + Dist(s, base[f])
            /\ Dist(s, new_base) < S - (k + 1) <=> Dist(s, base[f]) < D
        BY <2>3, <2>4, <3>3, <3>4, <3>5
      <4>. QED BY <3>1, <3>2, <4>1
    <3>6. CASE Dist(s, base[f]) < k + 1 - B
      <4>1. ~(Dist(s, new_base) < S - (k + 1))
        BY <2>3, <2>4, <3>3, <3>4, <3>6, Bounds
      <4>. QED BY <3>1, <3>6, <4>1
    <3>. QED BY <2>3, <2>4, <3>3, <3>5, <3>6
  <2>15. PcInv(f)'
    BY <1>0, <2>0, <2>1, <2>2 DEF RunInv, CoreInv, PcInv, AcceptAck
  <2>16. DataInv(f)'
    BY <1>0, <2>1, <2>9, <2>11 DEF RunInv, CoreInv, DataInv
  <2>17. AckValueInv(f)'
    <3>1. \A i \in DOMAIN Tail(acks[f]) :
            Tail(acks[f])[i].file_id = f
              => k < Tail(acks[f])[i].part + WINDOW_SIZE
      BY <1>0, <2>0, <2>3, HeadFirst DEF RunInv, CoreInv, AckOrderInv, a, k
    <3>2. \A i \in DOMAIN ack_queue[f] :
            ack_queue[f][i].file_id = f
              => k < ack_queue[f][i].part + WINDOW_SIZE
      BY <1>0, <2>0, <2>3, HeadPrecedes DEF RunInv, CoreInv, AckOrderInv, a, k
    <3>3. \A i \in DOMAIN toSender :
            toSender[i].file_id = f
              => k < toSender[i].part + WINDOW_SIZE
      BY <1>0, <2>0, <2>3, HeadPrecedes DEF RunInv, CoreInv, AckOrderInv, a, k
    <3>4. AckQueueFits(Tail(acks[f]), f, G, k + 1)
      <4>1. AckQueueFits(Tail(acks[f]), f, G, B)
        BY <1>0, <2>0, AckTail DEF RunInv, CoreInv, AckValueInv
      <4>2. Tail(acks[f]) \in Seq(Ack)
        BY <2>0
      <4>. QED BY <2>3, <3>1, <4>1, <4>2, AckAdvance
    <3>5. /\ AckQueueFits(ack_queue[f], f, G, k + 1)
          /\ AckQueueFits(toSender, f, G, k + 1)
      BY <1>0, <2>0, <2>3, <3>2, <3>3, AckAdvance DEF RunInv, CoreInv, AckValueInv
    <3>. QED BY <2>1, <2>10, <2>11, <3>4, <3>5 DEF AckValueInv
  <2>18. AckOrderInv(f)'
    BY <1>0, <2>0, <2>1, AcksTailOrder DEF RunInv, CoreInv, AckOrderInv
  <2>19. ReceiverInv(f)'
    BY <1>0, <1>1, <2>1, <2>3, <2>4, <2>9, <2>10, <2>11
       DEF RunInv, CoreInv, ReceiverInv, ReceiverStill
  <2>20. AckedParts(f) < AckedParts(f)'
    BY <2>3, <2>4, <2>10
  <2>. QED BY <2>10, <2>12, <2>13, <2>14, <2>15, <2>16, <2>17, <2>18, <2>19, <2>20
           DEF a, k, RunInv, CoreInv
<1>. QED BY <1>3

-----------------------------------------------------------------------------
(* The timeout check and the retransmission loop.                          *)

\* A stream of which only pc, seq and timer change keeps its invariant if
\* PcInv holds again and its packets on the wire fit.
LEMMA ControlStep ==
  ASSUME NEW f \in FileIds, RunInv(f), ReceiverStill(f),
         UNCHANGED <<fileVars, base, nextseqnum, buffer, ackVars, toSender>>,
         DataStill(f), PcInv(f)'
  PROVE  RunInv(f)'
<1>0. RunInv(f)
  OBVIOUS
<1>. USE DEF fileVars, ackVars
<1>1. /\ SentParts(f)' = SentParts(f) /\ AckedParts(f)' = AckedParts(f)
      /\ InFlight(f)' = InFlight(f)
      /\ ExpectedPart(f)' = ExpectedPart(f) /\ GotParts(f)' = GotParts(f)
  BY SameSender, SameReceiver DEF ReceiverStill
<1>2. ReadInv(f)' /\ NumberInv(f)' /\ BufferInv(f)'
  BY <1>0, <1>1 DEF RunInv, CoreInv, ReadInv, NumberInv, BufferInv
<1>3. DataInv(f)'
  BY <1>1 DEF DataInv, DataStill
<1>4. AckValueInv(f)' /\ AckOrderInv(f)'
  BY <1>0, <1>1 DEF RunInv, CoreInv, AckValueInv, AckOrderInv
<1>5. ReceiverInv(f)'
  BY <1>0, <1>1 DEF RunInv, CoreInv, ReceiverInv, ReceiverStill
<1>. QED BY <1>2, <1>3, <1>4, <1>5 DEF RunInv, CoreInv

LEMMA NoTimeoutInv ==
  ASSUME TypeOK, NEW f \in FileIds, RunInv(f), NoTimeout(f), UNCHANGED receiverVars
  PROVE  RunInv(f)'
<1>0. TypeOK /\ RunInv(f)
  OBVIOUS
<1>. USE DEF NoTimeout, fileVars, windowVars, ackVars, wireVars
<1>1. ASSUME NEW g \in FileIds PROVE ReceiverStill(g)
  BY DEF ReceiverStill, receiverVars
<1>3. RunInv(f)'
  <2>1. pc'[f] = LoopHead(f)
    BY <1>0 DEF TypeOK, SenderTypeOK
  <2>2. PcInv(f)'
    BY <1>0, <2>1 DEF RunInv, CoreInv, PcInv, LoopHead, MoreToDo
  <2>3. DataStill(f)
    BY <1>0, DataStillCases DEF RunInv, CoreInv
  <2>. QED BY <1>1, <2>2, <2>3, ControlStep
<1>. QED BY <1>3

LEMMA TimeoutInv ==
  ASSUME TypeOK, NEW f \in FileIds, RunInv(f), Timeout(f), UNCHANGED receiverVars
  PROVE  RunInv(f)'
<1>0. TypeOK /\ RunInv(f)
  OBVIOUS
<1>. USE DEF Timeout, fileVars, windowVars, ackVars, wireVars
<1>1. ASSUME NEW g \in FileIds PROVE ReceiverStill(g)
  BY DEF ReceiverStill, receiverVars
<1>3. RunInv(f)'
  <2>1. pc'[f] = "resend" /\ seq'[f] = base[f]
    BY <1>0 DEF TypeOK, SenderTypeOK
  <2>2. base[f] # nextseqnum[f]
    BY <1>0 DEF RunInv, CoreInv, PcInv, Expired
  <2>3. InFlight(f) \in Nat /\ InFlight(f) # 0 /\ Dist(base[f], base[f]) = 0
    BY <1>0, <2>2, Counts, CircleTypes
  <2>4. InFlight(f)' = InFlight(f)
    BY DEF InFlight
  <2>5. Dist(seq[f], base[f])' < InFlight(f)'
    BY <2>1, <2>3, <2>4
  <2>6. PcInv(f)'
    BY <1>0, <2>1, <2>5 DEF RunInv, CoreInv, PcInv
  <2>7. DataStill(f)
    BY <1>0, DataStillCases DEF RunInv, CoreInv
  <2>. QED BY <1>1, <2>6, <2>7, ControlStep
<1>. QED BY <1>3

\* The packet that the retransmission loop sends next, and how it moves on.
LEMMA Resent ==
  ASSUME TypeOK, NEW f \in FileIds, RunInv(f), Resend(f)
  PROVE  LET B == AckedParts(f)
             d == Dist(seq[f], base[f])
             m == buffer[f][seq[f]]
         IN  /\ d \in Nat /\ d < InFlight(f)
             /\ B \in Nat /\ B + d \in Nat /\ B + d < SentParts(f)
             /\ m = PacketOf(f, file[f], B + d) /\ m \in Packet
             /\ m.file_id = f /\ m.part = B + d
             /\ toReceiver' = toReceiver \/ toReceiver' = Put(toReceiver, DataCap, m)
             /\ seq'[f] = NextSeq(seq[f]) /\ base' = base
             /\ NextSeq(seq[f]) # nextseqnum[f]
                  => /\ Dist(NextSeq(seq[f]), base[f]) = d + 1
                     /\ d + 1 < InFlight(f)
<1>. DEFINE B == AckedParts(f)
            d == Dist(seq[f], base[f])
            m == buffer[f][seq[f]]
<1>2. /\ seq[f] \in SeqNums /\ base[f] \in SeqNums /\ nextseqnum[f] \in SeqNums
      /\ d \in Nat /\ d < MAX_SEQ
  <2>1. /\ seq[f] \in SeqNums /\ base[f] \in SeqNums
        /\ nextseqnum[f] \in SeqNums
    BY DEF TypeOK, SenderTypeOK
  <2>2. d \in SeqNums
    BY <2>1, CircleTypes
  <2>. QED BY <2>1, <2>2, Bounds DEF SeqNums
<1>3. d < InFlight(f)
  BY DEF Resend, RunInv, PcInv
<1>4. m = PacketOf(f, file[f], B + d)
  BY <1>2, <1>3 DEF RunInv, CoreInv, BufferInv
<1>5. /\ B \in Int /\ 0 <= B /\ SentParts(f) \in Nat /\ InFlight(f) \in Nat
      /\ InFlight(f) <= WINDOW_SIZE /\ B + InFlight(f) = SentParts(f)
  BY Counts DEF RunInv, CoreInv, ReceiverInv, NumberInv
<1>6. m.file_id = f /\ m.part = B + d
  BY <1>4 DEF PacketOf
<1>7. m \in Packet
  <2>. DEFINE k == B + d
  <2>1. file[f] \in Files
    BY DEF TypeOK, SenderTypeOK
  <2>2. k \in Nat
    BY <1>2, <1>5
  <2>. HIDE DEF k
  <2>3. k % MAX_SEQ \in SeqNums
    BY <2>2, Residue
  <2>4. PacketOf(f, file[f], k) \in Packet
    BY <2>1, <2>2, <2>3 DEF PacketOf, Packet
  <2>. QED BY <1>4, <2>4 DEF k
<1>8. toReceiver' = toReceiver \/ toReceiver' = Put(toReceiver, DataCap, m)
  BY DEF Resend
<1>9. seq'[f] = NextSeq(seq[f]) /\ base' = base
  BY DEF Resend, TypeOK, SenderTypeOK
<1>. HIDE DEF m, d
<1>10. ASSUME NextSeq(seq[f]) # nextseqnum[f]
       PROVE  Dist(NextSeq(seq[f]), base[f]) = d + 1 /\ d + 1 < InFlight(f)
  <2>1. d + 1 < MAX_SEQ
    BY <1>2, <1>3, <1>5, Bounds
  <2>2. Dist(NextSeq(seq[f]), base[f]) = d + 1
    BY <1>2, <2>1, DistStep DEF d
  <2>3. d + 1 # InFlight(f)
    BY <1>2, <1>10, <2>2, DistUnique, CircleTypes DEF InFlight
  <2>. QED BY <1>2, <1>3, <1>5, <2>2, <2>3
<1>11. B + d \in Nat /\ B + d < SentParts(f) /\ B \in Nat
  BY <1>2, <1>3, <1>5
<1>. QED BY <1>2, <1>3, <1>4, <1>6, <1>7, <1>8, <1>9, <1>10, <1>11 DEF m, d, B

LEMMA ResendInv ==
  ASSUME TypeOK, NEW f \in FileIds, RunInv(f), Resend(f), UNCHANGED receiverVars
  PROVE  RunInv(f)'
<1>1. ReceiverStill(f)
  BY DEF ReceiverStill, receiverVars
<1>. DEFINE k == AckedParts(f) + Dist(seq[f], base[f])
            m == buffer[f][seq[f]]
<1>2. /\ AckedParts(f) \in Nat /\ k \in Nat /\ AckedParts(f) <= k
      /\ k < SentParts(f) /\ m = PacketOf(f, file[f], k) /\ m \in Packet
      /\ toReceiver' = toReceiver \/ toReceiver' = Put(toReceiver, DataCap, m)
  BY Resent
<1>. HIDE DEF k, m
<1>3. DataStill(f)
  <2>1. CASE toReceiver' = toReceiver
    BY <2>1, DataStillCases DEF RunInv, CoreInv
  <2>2. CASE toReceiver' = Put(toReceiver, DataCap, m)
    BY <1>2, <2>2, Counts, DataSend DEF DataStill
  <2>. QED BY <1>2, <2>1, <2>2
<1>4. /\ timer' = [timer EXCEPT ![f] = @ \/ NextSeq(seq[f]) = nextseqnum[f]]
      /\ pc'[f] = IF NextSeq(seq[f]) # nextseqnum[f] THEN "resend"
                  ELSE LoopHead(f)
      /\ nextseqnum' = nextseqnum /\ acks' = acks
      /\ eof_reached' = eof_reached /\ seq'[f] = NextSeq(seq[f]) /\ base' = base
  BY DEF Resend, TypeOK, SenderTypeOK, ackVars, fileVars
<1>5. base[f] # nextseqnum[f] /\ timer[f] /\ acks[f] = << >>
  <2>1. InFlight(f) # 0
    BY Resent
  <2>. QED BY <2>1, Counts DEF Resend, RunInv, PcInv
<1>6. timer'[f]
  BY <1>4, <1>5 DEF TypeOK, SenderTypeOK
<1>7. pc'[f] = "resend" => Dist(seq'[f], base'[f]) < InFlight(f)'
  <2>1. NextSeq(seq[f]) # nextseqnum[f]
          => Dist(NextSeq(seq[f]), base[f]) < InFlight(f)
    BY Resent
  <2>2. InFlight(f)' = InFlight(f)
    BY <1>4 DEF InFlight
  <2>. QED BY <1>4, <2>1, <2>2 DEF LoopHead
<1>8. PcInv(f)'
  BY <1>4, <1>5, <1>6, <1>7 DEF PcInv, LoopHead, MoreToDo
<1>. QED BY <1>1, <1>3, <1>8, ControlStep DEF Resend

-----------------------------------------------------------------------------
(* The ack_receiver thread.                                                *)

LEMMA RouteAckInv ==
  ASSUME TypeOK, NEW f \in FileIds, RunInv(f), RouteAck(f), UNCHANGED receiverVars
  PROVE  RunInv(f)'
<1>0. TypeOK /\ RunInv(f)
  OBVIOUS
<1>. USE DEF fileVars, windowVars
<1>1. ASSUME NEW g \in FileIds PROVE ReceiverStill(g)
  BY DEF ReceiverStill, receiverVars
<1>2. ASSUME ack_queue' = ack_queue PROVE RunInv(f)'
  <2>1. Still(f)
    BY <1>0, <1>2 DEF RouteAck, Still, TypeOK, SenderTypeOK
  <2>. QED BY <1>0, <1>1, <2>1, Others DEF RouteAck, RunInv
<1>3. ASSUME ack_queue' # ack_queue PROVE RunInv(f)'
  <2>. DEFINE a == Head(toSender)
              q == Append(ack_queue[f], a)
              r == Tail(toSender)
  <2>0. /\ acks[f] \in Seq(Ack) /\ ack_queue[f] \in Seq(Ack)
        /\ toSender \in Seq(Ack) /\ toSender # << >>
        /\ a \in Ack /\ a.file_id = f /\ r \in Seq(Ack)
    BY <1>0, HeadTail DEF RouteAck, TypeOK, SenderTypeOK
  <2>1. /\ file' = file /\ started' = started /\ read' = read
        /\ eof_reached' = eof_reached /\ base' = base
        /\ nextseqnum' = nextseqnum /\ buffer' = buffer /\ timer' = timer
        /\ seq' = seq /\ pc' = pc /\ acks' = acks
        /\ toReceiver' = toReceiver /\ toSender' = r /\ ack_queue'[f] = q
    BY <1>0, <1>3 DEF RouteAck, TypeOK, SenderTypeOK
  <2>2. /\ SentParts(f)' = SentParts(f) /\ AckedParts(f)' = AckedParts(f)
        /\ InFlight(f)' = InFlight(f)
        /\ ExpectedPart(f)' = ExpectedPart(f) /\ GotParts(f)' = GotParts(f)
    BY <1>1, <2>1, SameSender, SameReceiver DEF ReceiverStill
  <2>3. ReadInv(f)' /\ NumberInv(f)' /\ BufferInv(f)' /\ PcInv(f)'
    BY <1>0, <2>1, <2>2 DEF RunInv, CoreInv, ReadInv, NumberInv, BufferInv, PcInv
  <2>4. DataInv(f)'
    BY <1>0, <2>1, <2>2 DEF RunInv, CoreInv, DataInv
  <2>5. /\ a = toSender[1] /\ 1 \in DOMAIN toSender
    BY <2>0, TailElements
  <2>6. AckFits(a, GotParts(f), AckedParts(f))
    BY <1>0, <2>0, <2>5 DEF RunInv, CoreInv, AckValueInv, AckQueueFits
  <2>. HIDE DEF a, q, r
  <2>7. AckValueInv(f)'
    <3>1. AckQueueFits(q, f, GotParts(f), AckedParts(f))
      BY <1>0, <2>0, <2>6, AckAppend DEF RunInv, CoreInv, AckValueInv, q
    <3>2. AckQueueFits(r, f, GotParts(f), AckedParts(f))
      BY <1>0, <2>0, AckTail DEF RunInv, CoreInv, AckValueInv, r
    <3>. QED BY <1>0, <2>1, <2>2, <3>1, <3>2 DEF RunInv, CoreInv, AckValueInv
  <2>8. AckOrderInv(f)'
    <3>. USE DEF RunInv, CoreInv, AckOrderInv
    <3>1. /\ \A i \in DOMAIN ack_queue[f] :
               ack_queue[f][i].file_id = f
                 => ack_queue[f][i].part < a.part + WINDOW_SIZE
          /\ \A i \in DOMAIN acks[f] :
               acks[f][i].file_id = f
                 => acks[f][i].part < a.part + WINDOW_SIZE
      BY <1>0, <2>0, <2>5 DEF Precedes
    <3>2. Ordered(q, f)
      BY <1>0, <2>0, <3>1, OrderedAppend DEF q
    <3>3. Precedes(acks[f], q, f)
      BY <1>0, <2>0, <3>1, PrecedesAppend DEF q
    <3>4. Precedes(ack_queue[f], r, f) /\ Precedes(acks[f], r, f)
      BY <1>0, <2>0, PrecedesTail DEF r
    <3>5. \A j \in DOMAIN r :
            r[j].file_id = f => a.part < r[j].part + WINDOW_SIZE
      BY <1>0, <2>0, HeadFirst DEF a, r
    <3>6. Precedes(q, r, f)
      BY <2>0, <3>4, <3>5, PrecedesFront DEF q
    <3>7. Ordered(r, f)
      BY <1>0, <2>0, OrderedTail DEF r
    <3>8. OfFile(q, f)
      BY <1>0, <2>0, AppendElements DEF OfFile, q
    <3>. QED BY <1>0, <2>1, <3>2, <3>3, <3>4, <3>6, <3>7, <3>8
  <2>9. ReceiverInv(f)'
    BY <1>0, <1>1, <2>1, <2>2 DEF RunInv, CoreInv, ReceiverInv, ReceiverStill
  <2>. QED BY <2>3, <2>4, <2>7, <2>8, <2>9 DEF RunInv, CoreInv
<1>. QED BY <1>2, <1>3

-----------------------------------------------------------------------------
(* The receiver.                                                           *)

\* The datagram at the head of the socket.
LEMMA Arrival ==
  ASSUME TypeOK, NEW f \in FileIds, CoreInv(f), Take(f)
  PROVE  /\ pkt \in Packet /\ pkt.file_id = f /\ pkt.part \in Nat
         /\ pkt = PacketOf(f, file[f], pkt.part)
         /\ pkt.path = file[f] /\ pkt.seq_num = pkt.part % MAX_SEQ
         /\ pkt.part < SentParts(f) /\ pkt.part <= LastPart(file[f])
         /\ GotParts(f) <= pkt.part + WINDOW_SIZE
<1>0. TypeOK /\ CoreInv(f)
  OBVIOUS
<1>1. toReceiver \in Seq(Packet) /\ toReceiver # << >>
  BY <1>0 DEF TypeOK, Take
<1>2. /\ pkt \in Packet /\ pkt.file_id = f
      /\ 1 \in DOMAIN toReceiver /\ pkt = toReceiver[1]
  BY <1>1, TailElements DEF pkt, Take
<1>3. pkt.part \in Nat
  BY <1>2 DEF Packet
<1>4. DataFits(pkt, f, file[f], SentParts(f), GotParts(f))
  BY <1>0, <1>2 DEF CoreInv, DataInv, DataQueueFits
<1>5. pkt.path = file[f] /\ pkt.seq_num = pkt.part % MAX_SEQ
  BY <1>4 DEF DataFits, PacketOf
<1>6. SentParts(f) <= LastPart(file[f]) + 1
  BY <1>0, SentBound
<1>7. pkt.part <= LastPart(file[f])
  BY <1>0, <1>3, <1>4, <1>6, Counts DEF DataFits
<1>. QED BY <1>2, <1>3, <1>4, <1>5, <1>7 DEF DataFits

\* An in-order packet is the part the receiver waits for.  After an END it
\* may be any packet numbered 0, but only a short file's START among them.
LEMMA InOrderPart ==
  ASSUME TypeOK, NEW f \in FileIds, CoreInv(f), Take(f), InOrder(f, pkt)
  PROVE  /\ saved[f] = {} \/ handle[f] # None => pkt.part = ExpectedPart(f)
         /\ saved[f] = {} => GotParts(f) = ExpectedPart(f)
         /\ saved[f] # {} => GotParts(f) = LastPart(file[f]) + 1
         /\ saved[f] # {} /\ pkt.part = 0
              => LastPart(file[f]) + 1 <= WINDOW_SIZE
<1>0. TypeOK /\ CoreInv(f)
  OBVIOUS
<1>. DEFINE k == pkt.part
            e == ExpectedPart(f)
            G == GotParts(f)
            L == LastPart(file[f])
<1>1. /\ k \in Nat /\ k <= L /\ k < SentParts(f) /\ G <= k + WINDOW_SIZE
      /\ pkt.seq_num = k % MAX_SEQ
  BY Arrival
<1>2. e \in Nat /\ G \in Nat /\ L \in Nat /\ SentParts(f) \in Nat
      /\ AckedParts(f) \in Int
  BY <1>0, Counts
<1>3. /\ saved[f] = {} => G = e
      /\ saved[f] # {} => G = L + 1
  BY DEF GotParts
<1>4. k % MAX_SEQ = e % MAX_SEQ
  BY <1>0, <1>1 DEF InOrder, CoreInv, ReceiverInv
<1>5. e <= L
  <2>1. /\ handle[f] # None => Len(out[f]) <= Chunks[file[f]]
        /\ Len(out[f]) \in Nat
    BY <1>0 DEF CoreInv, ReceiverInv, IsPrefixOf, TypeOK, ReceiverTypeOK
  <2>2. Chunks[file[f]] \in Nat
    BY <1>0, Counts
  <2>. QED BY <2>1, <2>2 DEF ExpectedPart, LastPart
<1>6. SentParts(f) <= G + WINDOW_SIZE
  BY <1>0, <1>2, Spread, Bounds DEF CoreInv, ReceiverInv
<1>7. handle[f] # None /\ saved[f] # {} => L + 1 <= WINDOW_SIZE
  BY <1>0 DEF CoreInv, ReceiverInv
<1>. HIDE DEF k, e, G, L
<1>8. CASE saved[f] = {}
  <2>1. -MAX_SEQ < k - e /\ k - e < MAX_SEQ
    BY <1>1, <1>2, <1>3, <1>6, <1>8, Bounds
  <2>2. k = e
    BY <1>1, <1>2, <1>4, <2>1, ResidueUnique
  <2>. QED BY <1>3, <1>8, <2>2 DEF k, e, G, L
<1>9. CASE saved[f] # {} /\ handle[f] # None
  <2>1. -MAX_SEQ < k - e /\ k - e < MAX_SEQ
    BY <1>1, <1>2, <1>5, <1>7, <1>9, Bounds
  <2>2. k = e
    BY <1>1, <1>2, <1>4, <2>1, ResidueUnique
  <2>. QED BY <1>3, <1>7, <1>9, <2>2 DEF k, e, G, L
<1>10. CASE saved[f] # {} /\ handle[f] = None
  <2>1. k = 0 => L + 1 <= WINDOW_SIZE
    BY <1>1, <1>2, <1>3, <1>10, Bounds
  <2>. QED BY <1>3, <1>10, <2>1 DEF k, e, G, L
<1>. QED BY <1>8, <1>9, <1>10

\* The kind of a packet tells its part, as far as that matters.
LEMMA KindOfPart ==
  ASSUME NEW f, NEW p \in Files, NEW k \in Nat
  PROVE  /\ PacketOf(f, p, k).ptype = "START" => k = 0
         /\ PacketOf(f, p, k).ptype = "DATA" => k # 0 /\ k # LastPart(p)
         /\ PacketOf(f, p, k).ptype = "END" => k = LastPart(p)
<1>1. PacketOf(f, p, k).ptype =
        IF k = 0 THEN "START" ELSE IF k = LastPart(p) THEN "END" ELSE "DATA"
  BY DEF PacketOf
<1>. QED BY <1>1

\* An ACK that is not a window behind what was taken may be sent.
LEMMA AckSend ==
  ASSUME TypeOK, NEW f \in FileIds, CoreInv(f), NEW k \in Nat,
         NEW got2 \in Nat, GotParts(f) <= got2, k < got2,
         GotParts(f) <= k + WINDOW_SIZE,
         SendAck(f, k % MAX_SEQ, k)
  PROVE  /\ AckQueueFits(acks[f], f, got2, AckedParts(f))
         /\ AckQueueFits(ack_queue[f], f, got2, AckedParts(f))
         /\ AckQueueFits(toSender', f, got2, AckedParts(f))
         /\ Ordered(toSender', f)
         /\ Precedes(acks[f], toSender', f)
         /\ Precedes(ack_queue[f], toSender', f)
<1>. DEFINE a == [file_id |-> f, ack_num |-> k % MAX_SEQ, part |-> k]
            G == GotParts(f)
            B == AckedParts(f)
<1>0. /\ acks[f] \in Seq(Ack) /\ ack_queue[f] \in Seq(Ack)
      /\ toSender \in Seq(Ack)
  BY DEF TypeOK, SenderTypeOK
<1>1. G \in Nat /\ B \in Int /\ B <= G
  BY Counts DEF CoreInv, ReceiverInv
<1>2. a \in Ack
  BY Residue DEF Ack
<1>3. AckFits(a, got2, B)
  BY <1>1, Bounds DEF AckFits
<1>4. /\ AckQueueFits(acks[f], f, got2, B)
      /\ AckQueueFits(ack_queue[f], f, got2, B)
      /\ AckQueueFits(toSender, f, got2, B)
  BY <1>0, <1>1, AckTakeMore DEF CoreInv, AckValueInv
<1>5. ASSUME NEW q \in Seq(Ack), AckQueueFits(q, f, G, B)
      PROVE  \A i \in DOMAIN q :
               q[i].file_id = f => q[i].part < k + WINDOW_SIZE
  <2>. SUFFICES ASSUME NEW i \in DOMAIN q, q[i].file_id = f
                PROVE  q[i].part < k + WINDOW_SIZE
    OBVIOUS
  <2>1. q[i] \in Ack
    OBVIOUS
  <2>2. q[i].part \in Nat
    BY <2>1 DEF Ack
  <2>3. q[i].part < G
    BY <1>5 DEF AckQueueFits, AckFits
  <2>. QED BY <1>1, <2>2, <2>3, Bounds
<1>6. a.part = k /\ toSender' = Put(toSender, AckCap, a)
  BY DEF SendAck
<1>. HIDE DEF a, G, B
<1>7. CASE toSender' = toSender
  BY <1>4, <1>7 DEF CoreInv, AckOrderInv, B
<1>8. CASE toSender' = Append(toSender, a)
  <2>1. AckQueueFits(toSender', f, got2, B)
    BY <1>0, <1>2, <1>3, <1>4, <1>8, AckAppend
  <2>2. /\ \A i \in DOMAIN toSender :
             toSender[i].file_id = f => toSender[i].part < a.part + WINDOW_SIZE
        /\ \A i \in DOMAIN acks[f] :
             acks[f][i].file_id = f => acks[f][i].part < a.part + WINDOW_SIZE
        /\ \A i \in DOMAIN ack_queue[f] :
             ack_queue[f][i].file_id = f
               => ack_queue[f][i].part < a.part + WINDOW_SIZE
    BY <1>0, <1>5, <1>6 DEF CoreInv, AckValueInv, G, B
  <2>3. Ordered(toSender', f)
    BY <1>0, <1>2, <1>8, <2>2, OrderedAppend DEF CoreInv, AckOrderInv
  <2>4. Precedes(acks[f], toSender', f) /\ Precedes(ack_queue[f], toSender', f)
    BY <1>0, <1>2, <1>8, <2>2, PrecedesAppend DEF CoreInv, AckOrderInv
  <2>. QED BY <1>4, <2>1, <2>3, <2>4 DEF B
<1>. QED BY <1>6, <1>7, <1>8 DEF Put

\* A datagram that is taken leaves the sender alone.
LEMMA ReceiveFrame ==
  ASSUME NEW f \in FileIds, CoreInv(f), UNCHANGED senderVars
  PROVE  /\ ReadInv(f)' /\ NumberInv(f)' /\ BufferInv(f)'
         /\ PcInv(f) => PcInv(f)'
         /\ SentParts(f)' = SentParts(f) /\ AckedParts(f)' = AckedParts(f)
<1>. USE DEF senderVars, fileVars, windowVars, ackVars
<1>1. /\ SentParts(f)' = SentParts(f) /\ AckedParts(f)' = AckedParts(f)
      /\ InFlight(f)' = InFlight(f)
  BY SameSender
<1>. QED BY <1>1 DEF CoreInv, ReadInv, NumberInv, BufferInv, PcInv

\* A step that takes a datagram and ACKs part k, when got2 parts are taken.
LEMMA AckStep ==
  ASSUME TypeOK, NEW f \in FileIds, CoreInv(f), Take(f), UNCHANGED senderVars,
         NEW k \in Nat, SendAck(f, k % MAX_SEQ, k),
         k < GotParts(f)', GotParts(f) <= k + WINDOW_SIZE,
         GotParts(f)' \in Nat,
         \/ GotParts(f)' = GotParts(f)
         \/ GotParts(f)' = GotParts(f) + 1 /\ GotParts(f)' = pkt.part + 1,
         ReceiverInv(f)'
  PROVE  CoreInv(f)'
<1>0. TypeOK /\ CoreInv(f)
  OBVIOUS
<1>1. GotParts(f) \in Nat /\ k % MAX_SEQ \in SeqNums
  BY <1>0, Counts, Residue
<1>2. /\ ReadInv(f)' /\ NumberInv(f)' /\ BufferInv(f)'
      /\ SentParts(f)' = SentParts(f) /\ AckedParts(f)' = AckedParts(f)
  BY ReceiveFrame
<1>3. file' = file /\ acks' = acks /\ ack_queue' = ack_queue
  BY DEF senderVars, fileVars, ackVars
<1>4. DataInv(f)'
  <2>1. /\ toReceiver \in Seq(Packet) /\ toReceiver # << >>
        /\ toReceiver' = Tail(toReceiver) /\ Head(toReceiver).file_id = f
    BY <1>0 DEF TypeOK, Take
  <2>2. Ordered(toReceiver', f)
    BY <1>0, <2>1, OrderedTail DEF CoreInv, DataInv
  <2>3. DataQueueFits(toReceiver', f, file[f], SentParts(f), GotParts(f)')
    <3>1. CASE GotParts(f)' = GotParts(f)
      BY <1>0, <2>1, <3>1, DataTail DEF CoreInv, DataInv
    <3>2. CASE GotParts(f)' = pkt.part + 1
      <4>1. pkt.part \in Nat
        BY Arrival
      <4>2. GotParts(f)' <= Head(toReceiver).part + 1
        BY <3>2, <4>1 DEF pkt
      <4>. QED BY <1>0, <2>1, <4>2, DataAdvance DEF CoreInv, DataInv
    <3>. QED BY <3>1, <3>2
  <2>. QED BY <1>2, <1>3, <2>2, <2>3 DEF DataInv
<1>5. AckValueInv(f)' /\ AckOrderInv(f)'
  <2>1. GotParts(f) <= GotParts(f)'
    BY <1>1
  <2>2. /\ AckQueueFits(acks[f], f, GotParts(f)', AckedParts(f))
        /\ AckQueueFits(ack_queue[f], f, GotParts(f)', AckedParts(f))
        /\ AckQueueFits(toSender', f, GotParts(f)', AckedParts(f))
        /\ Ordered(toSender', f)
        /\ Precedes(acks[f], toSender', f)
        /\ Precedes(ack_queue[f], toSender', f)
    BY <1>0, <2>1, AckSend
  <2>. QED BY <1>0, <1>2, <1>3, <2>2 DEF CoreInv, AckValueInv, AckOrderInv
<1>. QED BY <1>2, <1>4, <1>5 DEF CoreInv

\* A step that takes a datagram and does nothing else.
LEMMA DropStep ==
  ASSUME TypeOK, NEW f \in FileIds, CoreInv(f), Take(f), UNCHANGED senderVars,
         UNCHANGED <<receiverVars, toSender>>
  PROVE  CoreInv(f)'
<1>1. Still(f) /\ ReceiverStill(f)
  BY DEF Still, ReceiverStill, senderVars, fileVars, windowVars, ackVars,
         receiverVars
<1>2. toReceiver # << >> /\ toReceiver' = Tail(toReceiver)
  BY DEF Take
<1>. QED BY <1>1, <1>2, Others

\* START: the receiver has taken part 0 (again).
LEMMA RecvStartInv ==
  ASSUME TypeOK, NEW f \in FileIds, CoreInv(f), RecvStart(f), UNCHANGED senderVars
  PROVE  /\ CoreInv(f)'
         /\ GotParts(f)' \in {GotParts(f), GotParts(f) + 1}
<1>0. /\ TypeOK /\ CoreInv(f) /\ Take(f) /\ InOrder(f, pkt)
      /\ pkt.ptype = "START" /\ SendAck(f, pkt.seq_num, pkt.part)
  BY DEF RecvStart, Accept
<1>1. pkt.part = 0
  BY <1>0, Arrival, KindOfPart DEF TypeOK, SenderTypeOK
<1>2. /\ expected_seq[f] = 0 % MAX_SEQ /\ SendAck(f, 0 % MAX_SEQ, 0)
      /\ GotParts(f) <= 0 + WINDOW_SIZE /\ 0 < SentParts(f)
  BY <1>0, <1>1, Arrival DEF InOrder
<1>3. /\ handle'[f] = BaseName[file[f]] /\ out'[f] = << >>
      /\ saved' = saved /\ file' = file
      /\ expected_seq'[f] = NextSeq(expected_seq[f])
  BY <1>0, Arrival DEF RecvStart, Accept, TypeOK, ReceiverTypeOK, senderVars,
                       fileVars
<1>4. handle'[f] # None
  BY <1>0, <1>3, NoneAssumption DEF Names, TypeOK, SenderTypeOK
<1>5. ExpectedPart(f)' = 1
  BY <1>3, <1>4 DEF ExpectedPart
<1>6. expected_seq'[f] = 1 % MAX_SEQ
  <2>1. NextSeq(0 % MAX_SEQ) = (0 + 1) % MAX_SEQ
    BY NextOfResidue
  <2>. QED BY <1>2, <1>3, <2>1
<1>7. /\ GotParts(f) \in Nat /\ LastPart(file[f]) \in Nat
      /\ SentParts(f) \in Nat /\ AckedParts(f) \in Int
      /\ Chunks[file[f]] \in Nat
  BY <1>0, Counts
<1>8. /\ saved[f] = {} => GotParts(f) = 0 /\ GotParts(f)' = 1
      /\ saved[f] # {} => /\ GotParts(f)' = GotParts(f)
                          /\ GotParts(f) = LastPart(file[f]) + 1
                          /\ LastPart(file[f]) + 1 <= WINDOW_SIZE
  <2>1. ASSUME saved[f] = {} PROVE GotParts(f) = 0 /\ GotParts(f)' = 1
    BY <1>0, <1>1, <1>3, <1>5, <2>1, InOrderPart DEF GotParts
  <2>2. ASSUME saved[f] # {}
        PROVE  /\ GotParts(f)' = GotParts(f)
               /\ GotParts(f) = LastPart(file[f]) + 1
               /\ LastPart(file[f]) + 1 <= WINDOW_SIZE
    BY <1>0, <1>1, <1>3, <2>2, InOrderPart DEF GotParts
  <2>. QED BY <2>1, <2>2
<1>9. /\ 0 < GotParts(f)' /\ GotParts(f)' \in Nat
      /\ GotParts(f) <= GotParts(f)' /\ GotParts(f)' <= SentParts(f)
      /\ \/ GotParts(f)' = GotParts(f)
         \/ GotParts(f)' = GotParts(f) + 1 /\ GotParts(f)' = 0 + 1
  <2>1. GotParts(f) <= SentParts(f)
    BY <1>0 DEF CoreInv, ReceiverInv
  <2>. QED BY <1>2, <1>7, <1>8, <2>1
<1>11. SentParts(f)' = SentParts(f) /\ AckedParts(f)' = AckedParts(f)
  BY SameSender DEF senderVars, fileVars, windowVars
<1>12. ReceiverInv(f)'
  <2>1. IsPrefixOf(out[f], file[f])'
    BY <1>3, <1>7 DEF IsPrefixOf
  <2>2. 0 <= AckedParts(f) /\ AckedParts(f) <= GotParts(f)
    BY <1>0 DEF CoreInv, ReceiverInv
  <2>3. AckedParts(f)' <= GotParts(f)'
    BY <1>7, <1>9, <1>11, <2>2
  <2>4. saved[f] \subseteq {Copy(file[f])}
    BY <1>0 DEF CoreInv, ReceiverInv
  <2>. QED BY <1>3, <1>4, <1>5, <1>6, <1>8, <1>9, <1>11, <2>1, <2>2, <2>3, <2>4
           DEF ReceiverInv
<1>13. CoreInv(f)'
  BY <1>0, <1>1, <1>2, <1>9, <1>12, AckStep
<1>. QED BY <1>9, <1>13

\* DATA: one more part of the file.
LEMMA RecvDataInv ==
  ASSUME TypeOK, NEW f \in FileIds, CoreInv(f), RecvData(f), UNCHANGED senderVars
  PROVE  /\ CoreInv(f)'
         /\ GotParts(f)' \in {GotParts(f), GotParts(f) + 1}
<1>. DEFINE k == pkt.part
            L == LastPart(file[f])
<1>0. /\ TypeOK /\ CoreInv(f) /\ Take(f) /\ InOrder(f, pkt)
      /\ pkt.ptype = "DATA" /\ SendAck(f, pkt.seq_num, k)
      /\ handle[f] # None
  BY DEF RecvData, Accept
<1>1. /\ GotParts(f) \in Nat /\ L \in Nat /\ L = Chunks[file[f]] + 1
      /\ SentParts(f) \in Nat /\ AckedParts(f) \in Int
      /\ Chunks[file[f]] \in Nat /\ out[f] \in Seq(Chunk)
  BY <1>0, Counts DEF LastPart, TypeOK, ReceiverTypeOK
<1>2. /\ k \in Nat /\ pkt.path = file[f] /\ SendAck(f, k % MAX_SEQ, k)
      /\ k < SentParts(f) /\ GotParts(f) <= k + WINDOW_SIZE
      /\ pkt \in Packet /\ pkt.seq_num = k % MAX_SEQ
  BY <1>0, Arrival
<1>3. k # 0 /\ k < L
  BY <1>0, <1>1, Arrival, KindOfPart DEF TypeOK, SenderTypeOK
<1>4. /\ k = Len(out[f]) + 1
      /\ saved[f] = {} => GotParts(f) = k
      /\ saved[f] # {} => GotParts(f) = L + 1
  BY <1>0, InOrderPart DEF ExpectedPart
<1>. DEFINE c == [path |-> file[f], part |-> k]
<1>5. /\ out'[f] = Append(out[f], c) /\ handle' = handle
      /\ saved' = saved /\ file' = file
      /\ expected_seq'[f] = NextSeq(expected_seq[f])
  BY <1>0, <1>2 DEF RecvData, Accept, TypeOK, ReceiverTypeOK, senderVars, fileVars
<1>6. c \in Chunk /\ Len(out'[f]) = k
  <2>1. c \in Chunk
    BY <1>0, <1>2 DEF Chunk, TypeOK, SenderTypeOK
  <2>2. Len(Append(out[f], c)) = Len(out[f]) + 1
    BY <1>1, <2>1
  <2>. QED BY <1>4, <1>5, <2>1, <2>2
<1>7. IsPrefixOf(out[f], file[f])'
  <2>1. IsPrefixOf(out[f], file[f])
    BY <1>0 DEF CoreInv, ReceiverInv
  <2>2. Len(out'[f]) <= Chunks[file[f]]
    BY <1>1, <1>2, <1>3, <1>6
  <2>3. ASSUME NEW i \in 1 .. Len(out'[f])
        PROVE  out'[f][i] = [path |-> file[f], part |-> i]
    <3>1. Len(out[f]) \in Nat /\ DOMAIN out[f] = 1 .. Len(out[f])
      BY <1>1
    <3>2. CASE i = Len(out[f]) + 1
      BY <1>1, <1>4, <1>5, <1>6, <3>2, AppendElements
    <3>3. CASE i # Len(out[f]) + 1
      <4>1. i \in 1 .. Len(out[f])
        BY <1>4, <1>6, <2>3, <3>1, <3>3
      <4>2. out'[f][i] = out[f][i]
        BY <1>1, <1>5, <1>6, <3>1, <4>1, AppendElements
      <4>. QED BY <2>1, <4>1, <4>2 DEF IsPrefixOf
    <3>. QED BY <3>2, <3>3
  <2>. QED BY <1>5, <2>2, <2>3 DEF IsPrefixOf
<1>8. ExpectedPart(f)' = k + 1
  BY <1>0, <1>5, <1>6 DEF ExpectedPart
<1>9. expected_seq'[f] = (k + 1) % MAX_SEQ
  <2>1. expected_seq[f] = k % MAX_SEQ
    BY <1>0, <1>2 DEF InOrder
  <2>. HIDE DEF k
  <2>2. NextSeq(k % MAX_SEQ) = (k + 1) % MAX_SEQ
    BY <1>2, NextOfResidue
  <2>. QED BY <1>5, <2>1, <2>2
<1>10. /\ saved[f] = {} => GotParts(f)' = k + 1
       /\ saved[f] # {} => GotParts(f)' = L + 1
  BY <1>5, <1>8 DEF GotParts
<1>. HIDE DEF k, L
<1>11. /\ k < GotParts(f)' /\ GotParts(f)' \in Nat
       /\ GotParts(f) <= GotParts(f)' /\ GotParts(f)' <= SentParts(f)
       /\ \/ GotParts(f)' = GotParts(f)
          \/ GotParts(f)' = GotParts(f) + 1 /\ GotParts(f)' = k + 1
  <2>1. GotParts(f) <= SentParts(f)
    BY <1>0 DEF CoreInv, ReceiverInv
  <2>2. CASE saved[f] = {}
    <3>1. GotParts(f) = k /\ GotParts(f)' = k + 1
      BY <1>4, <1>10, <2>2
    <3>. QED BY <1>1, <1>2, <2>1, <3>1
  <2>3. CASE saved[f] # {}
    <3>1. GotParts(f) = L + 1 /\ GotParts(f)' = L + 1
      BY <1>4, <1>10, <2>3
    <3>. QED BY <1>1, <1>2, <1>3, <2>1, <3>1
  <2>. QED BY <2>2, <2>3
<1>13. SentParts(f)' = SentParts(f) /\ AckedParts(f)' = AckedParts(f)
  BY SameSender DEF senderVars, fileVars, windowVars
<1>14. ReceiverInv(f)'
  <2>1. 0 <= AckedParts(f) /\ AckedParts(f) <= GotParts(f)
    BY <1>0 DEF CoreInv, ReceiverInv
  <2>2. AckedParts(f)' <= GotParts(f)'
    BY <1>1, <1>11, <1>13, <2>1
  <2>. QED BY <1>0, <1>5, <1>7, <1>8, <1>9, <1>11, <1>13, <2>1, <2>2
           DEF CoreInv, ReceiverInv
<1>15. CoreInv(f)'
  BY <1>0, <1>2, <1>11, <1>14, AckStep DEF k
<1>. QED BY <1>11, <1>15

\* END: the file is closed whole; an END after it changes nothing.
LEMMA RecvEndInv ==
  ASSUME TypeOK, NEW f \in FileIds, CoreInv(f), RecvEnd(f), UNCHANGED senderVars
  PROVE  /\ CoreInv(f)'
         /\ GotParts(f)' \in {GotParts(f), GotParts(f) + 1}
<1>. DEFINE k == pkt.part
            L == LastPart(file[f])
<1>0. /\ TypeOK /\ CoreInv(f) /\ Take(f) /\ InOrder(f, pkt)
      /\ pkt.ptype = "END" /\ SendAck(f, pkt.seq_num, k)
  BY DEF RecvEnd
<1>1. /\ GotParts(f) \in Nat /\ L \in Nat /\ L > 0 /\ L = Chunks[file[f]] + 1
      /\ SentParts(f) \in Nat /\ AckedParts(f) \in Int
      /\ Chunks[file[f]] \in Nat /\ out[f] \in Seq(Chunk)
  BY <1>0, Counts DEF LastPart, TypeOK, ReceiverTypeOK
<1>2. /\ k \in Nat /\ SendAck(f, k % MAX_SEQ, k)
      /\ k < SentParts(f) /\ GotParts(f) <= k + WINDOW_SIZE
  BY <1>0, Arrival
<1>3. k = L
  BY <1>0, Arrival, KindOfPart DEF TypeOK, SenderTypeOK
<1>4. /\ saved[f] = {} => ExpectedPart(f) = L /\ GotParts(f) = L
      /\ saved[f] # {} => GotParts(f) = L + 1
      /\ saved[f] # {} /\ handle[f] # None => ExpectedPart(f) = L
  BY <1>0, <1>3, InOrderPart
<1>5. /\ handle'[f] = None /\ out' = out /\ file' = file
      /\ saved'[f] = saved[f] \cup Closed(f) /\ expected_seq'[f] = 0
  BY <1>0 DEF RecvEnd, ExpectedAfterEnd, TypeOK, ReceiverTypeOK, senderVars,
              fileVars
<1>6. /\ handle[f] # None => IsPrefixOf(out[f], file[f])
      /\ handle[f] \in {None, BaseName[file[f]]}
  BY <1>0 DEF CoreInv, ReceiverInv
<1>7. handle[f] # None => Closed(f) = {Copy(file[f])}
  <2>. SUFFICES ASSUME handle[f] # None PROVE Closed(f) = {Copy(file[f])}
    OBVIOUS
  <2>1. ExpectedPart(f) = L
    BY <1>4
  <2>2. Len(out[f]) = Chunks[file[f]]
    <3>1. Len(out[f]) \in Nat
      BY <1>1
    <3>. QED BY <1>1, <2>1, <3>1 DEF ExpectedPart
  <2>3. out[f] = Content(file[f])
    BY <1>1, <1>6, <2>2 DEF IsPrefixOf, Content
  <2>. QED BY <1>6, <2>3 DEF Closed, Copy
<1>8. saved[f] = {} => handle[f] # None
  BY <1>1, <1>4 DEF ExpectedPart
<1>9. saved'[f] # {} /\ saved'[f] \subseteq {Copy(file[f])}
  <2>1. saved[f] \subseteq {Copy(file[f])}
    BY <1>0 DEF CoreInv, ReceiverInv
  <2>2. CASE handle[f] = None
    BY <1>5, <1>8, <2>1, <2>2 DEF Closed
  <2>3. CASE handle[f] # None
    BY <1>5, <1>7, <2>1, <2>3
  <2>. QED BY <2>2, <2>3
<1>10. ExpectedPart(f)' = 0 /\ GotParts(f)' = L + 1
  BY <1>5, <1>9 DEF ExpectedPart, GotParts
<1>. HIDE DEF k, L
<1>11. /\ k < GotParts(f)' /\ GotParts(f)' \in Nat
       /\ GotParts(f) <= GotParts(f)' /\ GotParts(f)' <= SentParts(f)
       /\ \/ GotParts(f)' = GotParts(f)
          \/ GotParts(f)' = GotParts(f) + 1 /\ GotParts(f)' = k + 1
  <2>1. CASE saved[f] = {}
    <3>1. GotParts(f) = L
      BY <1>4, <2>1
    <3>. QED BY <1>1, <1>2, <1>3, <1>10, <3>1
  <2>2. CASE saved[f] # {}
    <3>1. GotParts(f) = L + 1
      BY <1>4, <2>2
    <3>. QED BY <1>1, <1>2, <1>3, <1>10, <3>1
  <2>. QED BY <2>1, <2>2
<1>13. SentParts(f)' = SentParts(f) /\ AckedParts(f)' = AckedParts(f)
  BY SameSender DEF senderVars, fileVars, windowVars
<1>14. ReceiverInv(f)'
  <2>1. 0 <= AckedParts(f) /\ AckedParts(f) <= GotParts(f)
    BY <1>0 DEF CoreInv, ReceiverInv
  <2>2. AckedParts(f)' <= GotParts(f)'
    BY <1>1, <1>11, <1>13, <2>1
  <2>3. 0 % MAX_SEQ = 0
    BY ResidueSmall, Bounds DEF SeqNums
  <2>. QED BY <1>5, <1>6, <1>9, <1>10, <1>11, <1>13, <2>1, <2>2, <2>3
           DEF ReceiverInv
<1>15. CoreInv(f)'
  BY <1>0, <1>2, <1>11, <1>14, AckStep DEF k
<1>. QED BY <1>11, <1>15

\* An out-of-order packet only repeats the last ACK.
LEMMA DiscardInv ==
  ASSUME TypeOK, NEW f \in FileIds, CoreInv(f), Discard(f), UNCHANGED senderVars
  PROVE  CoreInv(f)'
<1>0. TypeOK /\ CoreInv(f) /\ Take(f) /\ receiverVars' = receiverVars
  BY DEF Discard
<1>1. CASE expected_seq[f] = 0
  <2>1. toSender' = toSender
    BY <1>1 DEF Discard
  <2>. QED BY <1>0, <2>1, DropStep
<1>2. CASE expected_seq[f] # 0
  <2>. DEFINE k == Len(out[f])
  <2>1. /\ k \in Nat /\ expected_seq[f] \in SeqNums
        /\ GotParts(f) \in Nat /\ LastPart(file[f]) \in Nat
        /\ LastPart(file[f]) = Chunks[file[f]] + 1 /\ Chunks[file[f]] \in Nat
        /\ AckedParts(f) \in Int
    BY <1>0, Counts DEF LastPart, TypeOK, ReceiverTypeOK
  <2>2. handle[f] # None
    <3>1. handle[f] = None => expected_seq[f] = 0 % MAX_SEQ
      BY <1>0 DEF CoreInv, ReceiverInv, ExpectedPart
    <3>2. 0 % MAX_SEQ = 0
      BY ResidueSmall, Bounds DEF SeqNums
    <3>. QED BY <1>2, <3>1, <3>2
  <2>3. ExpectedPart(f) = k + 1
    BY <2>2 DEF ExpectedPart
  <2>4. SendAck(f, k % MAX_SEQ, k)
    <3>1. SendAck(f, LastInOrder(f), k)
      BY <1>2, <2>1, Bounds DEF Discard, SeqNums
    <3>2. LastInOrder(f) = k % MAX_SEQ
      <4>1. expected_seq[f] = (k + 1) % MAX_SEQ
        BY <1>0, <2>3 DEF CoreInv, ReceiverInv
      <4>2. Dist((k + 1) % MAX_SEQ, 1) = k % MAX_SEQ
        <5>. HIDE DEF k
        <5>1. NextSeq(k % MAX_SEQ) = (k + 1) % MAX_SEQ
          BY <2>1, NextOfResidue
        <5>2. k % MAX_SEQ \in SeqNums /\ 1 \in SeqNums
              /\ NextSeq(k % MAX_SEQ) \in SeqNums
          <6>1. k % MAX_SEQ \in SeqNums
            BY <2>1, Residue
          <6>2. 1 \in SeqNums
            BY Bounds DEF SeqNums
          <6>. QED BY <6>1, <6>2, CircleTypes
        <5>. DEFINE r == k % MAX_SEQ
        <5>. HIDE DEF r
        <5>3. NextSeq(r) = IF r = MAX_SEQ - 1 THEN 0 ELSE r + 1
          BY <5>2, NextOnCircle DEF r
        <5>4. Dist(NextSeq(r), 1) = IF NextSeq(r) >= 1 THEN NextSeq(r) - 1
                                    ELSE NextSeq(r) - 1 + MAX_SEQ
          BY <5>2, DistOnCircle DEF r
        <5>5. r \in SeqNums
          BY <5>2 DEF r
        <5>6. Dist(NextSeq(r), 1) = r
          BY <5>3, <5>4, <5>5, Bounds DEF SeqNums
        <5>. QED BY <5>1, <5>6 DEF r
      <4>. QED BY <4>1, <4>2 DEF LastInOrder
    <3>. QED BY <3>1, <3>2
  <2>5. file' = file
    BY DEF senderVars, fileVars
  <2>6. /\ ExpectedPart(f)' = ExpectedPart(f) /\ GotParts(f)' = GotParts(f)
        /\ SentParts(f)' = SentParts(f) /\ AckedParts(f)' = AckedParts(f)
    BY <1>0, SameSender, SameReceiver
       DEF receiverVars, senderVars, fileVars, windowVars
  <2>7. k < GotParts(f) /\ GotParts(f) <= k + WINDOW_SIZE
    <3>1. CASE saved[f] = {}
      <4>1. GotParts(f) = k + 1
        BY <2>3, <3>1 DEF GotParts
      <4>. QED BY <2>1, <4>1, Bounds
    <3>2. CASE saved[f] # {}
      <4>1. /\ GotParts(f) = LastPart(file[f]) + 1
            /\ LastPart(file[f]) + 1 <= WINDOW_SIZE
        BY <1>0, <2>2, <3>2 DEF GotParts, CoreInv, ReceiverInv
      <4>2. k <= Chunks[file[f]]
        BY <1>0, <2>2 DEF CoreInv, ReceiverInv, IsPrefixOf
      <4>. QED BY <2>1, <4>1, <4>2, Bounds
    <3>. QED BY <3>1, <3>2
  <2>8. ReceiverInv(f)'
    BY <1>0, <2>5, <2>6 DEF CoreInv, ReceiverInv, receiverVars
  <2>9. \A g \in FileIds \ {f} : ReceiverStill(g)
    BY <1>0 DEF ReceiverStill, receiverVars
  <2>. QED BY <1>0, <2>1, <2>4, <2>6, <2>7, <2>8, AckStep
<1>. QED BY <1>1, <1>2

LEMMA ReceiveInv ==
  ASSUME TypeOK, NEW f \in FileIds, CoreInv(f), Receive(f),
         UNCHANGED senderVars
  PROVE  CoreInv(f)'
<1>1. CASE RejectStart(f) \/ IgnoreData(f)
  BY <1>1, DropStep DEF RejectStart, IgnoreData
<1>. QED BY <1>1, RecvStartInv, RecvDataInv, RecvEndInv, DiscardInv DEF Receive

\* What was written stays a beginning of the file.
LEMMA ReceiveOut ==
  ASSUME TypeOK, NEW f \in FileIds, CoreInv(f), OutInv(f), Receive(f),
         UNCHANGED senderVars
  PROVE  OutInv(f)'
<1>1. CoreInv(f)' /\ file' = file
  BY ReceiveInv DEF senderVars, fileVars
<1>2. CASE RecvStart(f)
  <2>1. out'[f] = << >>
    BY <1>2 DEF RecvStart, TypeOK, ReceiverTypeOK
  <2>2. Chunks[file[f]] \in Nat
    BY Counts
  <2>. QED BY <1>1, <2>1, <2>2 DEF OutInv, IsPrefixOf
<1>3. CASE RecvData(f)
  <2>1. handle'[f] # None
    BY <1>3 DEF RecvData
  <2>. QED BY <1>1, <2>1 DEF CoreInv, ReceiverInv, OutInv
<1>4. CASE RecvEnd(f)
  <2>1. out' = out /\ saved'[f] = saved[f] \cup Closed(f)
    BY <1>4 DEF RecvEnd, TypeOK, ReceiverTypeOK
  <2>2. saved'[f] = {} => handle[f] = None /\ saved[f] = {}
    BY <2>1 DEF Closed
  <2>. QED BY <1>1, <2>1, <2>2 DEF OutInv, IsPrefixOf
<1>5. CASE RejectStart(f) \/ IgnoreData(f) \/ Discard(f)
  BY <1>1, <1>5 DEF RejectStart, IgnoreData, Discard, receiverVars, OutInv
<1>. QED BY <1>2, <1>3, <1>4, <1>5 DEF Receive

\* The receiver takes one part at most.
LEMMA ReceiveOne ==
  ASSUME TypeOK, NEW f \in FileIds, CoreInv(f), Receive(f),
         UNCHANGED senderVars
  PROVE  GotParts(f)' \in {GotParts(f), GotParts(f) + 1}
<1>1. CASE RejectStart(f) \/ IgnoreData(f) \/ Discard(f)
  BY <1>1, SameReceiver
     DEF RejectStart, IgnoreData, Discard, receiverVars, senderVars, fileVars
<1>. QED BY <1>1, RecvStartInv, RecvDataInv, RecvEndInv DEF Receive

\* Losing a datagram, on either side.
LEMMA LossInv ==
  ASSUME TypeOK, NEW g \in FileIds, CoreInv(g),
         \/ LoseData /\ UNCHANGED senderVars
         \/ LoseAck /\ UNCHANGED <<senderVars, receiverVars>>
  PROVE  /\ CoreInv(g)'
         /\ PcInv(g) => PcInv(g)'
         /\ OutInv(g) => OutInv(g)'
<1>1. Still(g) /\ ReceiverStill(g)
  BY DEF Still, ReceiverStill, senderVars, fileVars, windowVars, ackVars,
         receiverVars, LoseData
<1>. QED BY <1>1, Others DEF LoseData, LoseAck

-----------------------------------------------------------------------------
(* The inductive invariant.                                                *)

LEMMA SenderInv ==
  ASSUME TypeOK, NEW f \in FileIds, RunInv(f), UNCHANGED receiverVars,
         SenderStep(f) \/ Timeout(f) \/ RouteAck(f)
  PROVE  RunInv(f)'
BY StartInv, SendDataInv, SendEndInv, DrainInv, AcceptAckInv, IgnoreAckInv,
   NoTimeoutInv, ResendInv, TimeoutInv, RouteAckInv DEF SenderStep

LEMMA InvNext == IInv /\ [Next]_vars => IInv'
<1>. SUFFICES ASSUME IInv, [Next]_vars, NEW g \in FileIds PROVE FileInv(g)'
  BY TypeNext DEF IInv
<1>. USE DEF FileInv, RunInv
<1>0. TypeOK /\ \A f \in FileIds : FileInv(f)
  BY DEF IInv
<1>1. CASE UNCHANGED vars \/ Finished
  <2>1. Still(g) /\ ReceiverStill(g)
    BY <1>1 DEF Finished, Still, ReceiverStill, vars, senderVars, fileVars,
                windowVars, ackVars, receiverVars, wireVars
  <2>. QED BY <1>0, <1>1, <2>1, Others DEF Finished, vars, wireVars
<1>2. ASSUME NEW f \in FileIds, SenderStep(f) \/ Timeout(f) \/ RouteAck(f),
             UNCHANGED receiverVars
      PROVE  FileInv(g)'
  <2>1. ReceiverStill(g)
    BY <1>2 DEF ReceiverStill, receiverVars
  <2>2. CASE g = f
    <3>1. file' = file
      BY <1>2 DEF SenderStep, SendStart, SendData, SendEnd, Transmit, Drain,
                  AcceptAck, IgnoreAck, NoTimeout, Resend, Timeout, RouteAck,
                  fileVars
    <3>2. OutInv(g)'
      BY <1>0, <2>1, <3>1 DEF OutInv, ReceiverStill
    <3>3. RunInv(g)'
      BY <1>0, <1>2, <2>2, SenderInv
    <3>. QED BY <3>2, <3>3
  <2>3. CASE g # f
    BY <1>0, <1>2, <2>1, <2>3, SenderOthers, BufferIsOwn
  <2>. QED BY <2>2, <2>3
<1>3. ASSUME NEW f \in FileIds, Receive(f), UNCHANGED senderVars
      PROVE  FileInv(g)'
  <2>1. CASE g = f
    BY <1>0, <1>3, <2>1, ReceiveInv, ReceiveOut, ReceiveFrame
  <2>2. CASE g # f
    BY <1>0, <1>3, <2>2, ReceiverOthers
  <2>. QED BY <2>1, <2>2
<1>4. CASE \/ LoseData /\ UNCHANGED senderVars
           \/ LoseAck /\ UNCHANGED <<senderVars, receiverVars>>
  BY <1>0, <1>4, LossInv
<1>. QED BY <1>1, <1>2, <1>3, <1>4 DEF Next

(* Every sequence number in the two programs and on the wire stands for    *)
(* exactly one part of its file, and nothing on the wire is more than a    *)
(* window older than what follows it.                                      *)
THEOREM Inductive == Spec => []IInv
<1>. QED BY InvInit, InvNext, PTL DEF Spec

-----------------------------------------------------------------------------
(* The safety properties.                                                  *)

LEMMA InvWindow == IInv => WindowSound
<1>. SUFFICES ASSUME IInv, NEW f \in FileIds
              PROVE  /\ 0 <= AckedParts(f)
                     /\ AckedParts(f) <= GotParts(f)
                     /\ GotParts(f) <= SentParts(f)
                     /\ SentParts(f) <= AckedParts(f) + WINDOW_SIZE
  BY DEF WindowSound
<1>. QED BY Spread DEF IInv, FileInv, RunInv, CoreInv, ReceiverInv

LEMMA InvPrefix == IInv => PrefixOfSource
BY DEF IInv, FileInv, OutInv, PrefixOfSource

LEMMA InvComplete == IInv => CompleteMeansSaved
<1>. SUFFICES ASSUME IInv, NEW f \in FileIds
              PROVE  /\ saved[f] \subseteq {Copy(file[f])}
                     /\ pc[f] = "done" => saved[f] # {}
  BY DEF CompleteMeansSaved
<1>1. FileInv(f) /\ CoreInv(f) /\ TypeOK
  BY DEF IInv, FileInv, RunInv
<1>2. ASSUME pc[f] = "done", saved[f] = {} PROVE FALSE
  <2>1. AckedParts(f) = LastPart(file[f]) + 1
    BY <1>1, <1>2, DoneMeansAll DEF FileInv, RunInv, PcInv
  <2>2. GotParts(f) = ExpectedPart(f)
    BY <1>2 DEF GotParts
  <2>3. ExpectedPart(f) <= Chunks[file[f]] + 1
    <3>1. Len(out[f]) <= Chunks[file[f]] /\ Len(out[f]) \in Nat
      BY <1>1 DEF FileInv, OutInv, IsPrefixOf, TypeOK, ReceiverTypeOK
    <3>2. Chunks[file[f]] \in Nat
      BY <1>1, Counts
    <3>. QED BY <3>1, <3>2 DEF ExpectedPart
  <2>4. AckedParts(f) <= GotParts(f)
    BY <1>1 DEF FileInv, RunInv, CoreInv, ReceiverInv
  <2>. QED BY <1>1, <2>1, <2>2, <2>3, <2>4, Counts DEF LastPart
<1>. QED BY <1>1, <1>2 DEF FileInv, RunInv, CoreInv, ReceiverInv

LEMMA InvTimer == IInv => TimerCoversWindow
BY DEF IInv, FileInv, RunInv, PcInv, TimerCoversWindow

(* The sender never believes an acknowledgment that was not given, and     *)
(* never has more than a window out: for every MAX_SEQ of two windows at   *)
(* least, of which the code's 256 and 8 are an instance.                   *)
THEOREM WindowIsSound == Spec => []WindowSound
<1>. QED BY Inductive, InvWindow, PTL

(* What the receiver has written is always a beginning of the file.        *)
THEOREM NeverCorrupted == Spec => []PrefixOfSource
<1>. QED BY Inductive, InvPrefix, PTL

(* A transfer reported complete was closed whole by the receiver.          *)
THEOREM CompleteIsSaved == Spec => []CompleteMeansSaved
<1>. QED BY Inductive, InvComplete, PTL

(* The retransmission timer runs exactly while something is in flight.     *)
THEOREM TimerRuns == Spec => []TimerCoversWindow
<1>. QED BY Inductive, InvTimer, PTL

-----------------------------------------------------------------------------
(* What a step never does.                                                 *)

\* A START that is taken before the END finds nothing written.
LEMMA StartIsFirst ==
  ASSUME IInv, NEW f \in FileIds, RecvStart(f), saved[f] = {}
  PROVE  out[f] = << >>
<1>1. TypeOK /\ FileInv(f) /\ CoreInv(f) /\ Take(f) /\ InOrder(f, pkt)
  BY DEF IInv, FileInv, RunInv, RecvStart
<1>2. pkt.part = 0
  BY <1>1, Arrival, KindOfPart DEF RecvStart, TypeOK, SenderTypeOK
<1>3. ExpectedPart(f) = 0
  BY <1>1, <1>2, InOrderPart
<1>4. handle[f] = None
  BY <1>1, <1>3 DEF ExpectedPart, TypeOK, ReceiverTypeOK
<1>. QED BY <1>1, <1>4 DEF FileInv, OutInv

LEMMA KeepsOutputStep == IInv /\ [Next]_vars => [KeepsOutput]_vars
<1>. SUFFICES ASSUME IInv, [Next]_vars, NEW f \in FileIds, saved[f] = {}
              PROVE  /\ Len(out[f]) <= Len(out'[f])
                     /\ \A k \in 1 .. Len(out[f]) : out'[f][k] = out[f][k]
  BY DEF KeepsOutput
<1>1. out \in [FileIds -> Seq(Chunk)] /\ out[f] \in Seq(Chunk)
  BY DEF IInv, TypeOK, ReceiverTypeOK
<1>2. Len(out[f]) \in Nat
  BY <1>1
<1>3. CASE out'[f] = out[f]
  BY <1>2, <1>3
<1>4. ASSUME NEW g \in FileIds, Receive(g) PROVE out'[f] = out[f] \/ g = f
  BY <1>1, <1>4 DEF Receive, RecvStart, RejectStart, RecvData, IgnoreData,
                    RecvEnd, Discard, receiverVars
<1>5. CASE RecvStart(f)
  BY <1>2, <1>5, StartIsFirst
<1>6. CASE RecvData(f)
  <2>. DEFINE c == [path |-> pkt.path, part |-> pkt.part]
  <2>1. out'[f] = Append(out[f], c)
    BY <1>1, <1>6 DEF RecvData
  <2>2. c \in Chunk
    <3>1. TypeOK /\ CoreInv(f) /\ Take(f)
      BY <1>6 DEF IInv, FileInv, RunInv, RecvData
    <3>2. pkt \in Packet
      BY <3>1, Arrival
    <3>. QED BY <3>2 DEF Packet, Chunk
  <2>. HIDE DEF c
  <2>. QED BY <1>1, <1>2, <2>1, <2>2, AppendElements
<1>7. CASE Receive(f)
  BY <1>3, <1>5, <1>6, <1>7 DEF Receive, RejectStart, IgnoreData, RecvEnd,
                                Discard, receiverVars
<1>8. CASE \A g \in FileIds : ~Receive(g)
  BY <1>3, <1>8 DEF Next, vars, receiverVars, LoseData, Finished
<1>. QED BY <1>3, <1>4, <1>7, <1>8

(* Nothing the receiver has written is taken back before END.              *)
THEOREM NothingTakenBack == Spec => NoTruncationBeforeEnd
<1>. QED BY Inductive, KeepsOutputStep, PTL DEF Spec, NoTruncationBeforeEnd

-----------------------------------------------------------------------------
(* What a late START can truncate.                                         *)

\* A file that was closed, and not opened again, is whole.
ClosedWhole(f) ==
  saved[f] # {} /\ handle[f] = None => out[f] = Content(file[f])

LEMMA ClosedWholeNext ==
  ASSUME IInv, NEW f \in FileIds, ClosedWhole(f), [Next]_vars
  PROVE  ClosedWhole(f)'
<1>1. /\ TypeOK /\ CoreInv(f) /\ IInv'
  BY InvNext DEF IInv, FileInv, RunInv
<1>2. file' = file
  BY DEF Next, SenderStep, SendStart, SendData, SendEnd, Transmit, Drain,
         AcceptAck, IgnoreAck, NoTimeout, Resend, Timeout, RouteAck, Finished,
         vars, senderVars, fileVars, LoseData, LoseAck
<1>3. CASE UNCHANGED <<saved, handle, out>>
  BY <1>2, <1>3 DEF ClosedWhole
<1>4. ASSUME NEW g \in FileIds, Receive(g), g # f PROVE ClosedWhole(f)'
  <2>1. saved'[f] = saved[f] /\ handle'[f] = handle[f] /\ out'[f] = out[f]
    BY <1>1, <1>4 DEF Receive, RecvStart, RejectStart, RecvData, IgnoreData,
       RecvEnd, Discard, receiverVars, TypeOK, ReceiverTypeOK
  <2>. QED BY <1>2, <2>1 DEF ClosedWhole
<1>5. CASE RecvStart(f)
  <2>1. handle'[f] = BaseName[pkt.path]
    BY <1>1, <1>5 DEF RecvStart, TypeOK, ReceiverTypeOK
  <2>2. pkt.path \in Files
    <3>1. pkt \in Packet
      BY <1>1, <1>5, Arrival DEF RecvStart
    <3>. QED BY <3>1 DEF Packet
  <2>3. handle'[f] # None
    BY <2>1, <2>2, NoneAssumption DEF Names
  <2>. QED BY <2>3 DEF ClosedWhole
<1>6. CASE RecvData(f)
  BY <1>6 DEF RecvData, ClosedWhole
<1>7. CASE RecvEnd(f)
  <2>1. out' = out /\ saved'[f] = saved[f] \cup Closed(f)
    BY <1>1, <1>7 DEF RecvEnd, TypeOK, ReceiverTypeOK
  <2>2. CASE handle[f] = None
    BY <1>2, <2>1, <2>2 DEF Closed, ClosedWhole
  <2>3. CASE handle[f] # None
    <3>1. [name |-> handle[f], content |-> out[f]] \in saved'[f]
      BY <2>1, <2>3 DEF Closed
    <3>2. saved'[f] \subseteq {Copy(file[f])}
      BY <1>1, <1>2 DEF IInv, FileInv, RunInv, CoreInv, ReceiverInv, Copy, Content
    <3>3. [name |-> handle[f], content |-> out[f]] = Copy(file[f])
      BY <3>1, <3>2
    <3>4. out[f] = Content(file[f])
      BY <3>3 DEF Copy
    <3>. QED BY <1>2, <2>1, <3>4 DEF ClosedWhole
  <2>. QED BY <2>2, <2>3
<1>8. CASE RejectStart(f) \/ IgnoreData(f) \/ Discard(f)
  BY <1>3, <1>8 DEF RejectStart, IgnoreData, Discard, receiverVars
<1>. QED BY <1>3, <1>4, <1>5, <1>6, <1>7, <1>8
         DEF Next, Receive, vars, receiverVars, LoseData, Finished

\* The file of f, with its START and END, is longer than a window.
Long(f) == LastPart(file[f]) + 1 > WINDOW_SIZE

(* A complete transfer of a file longer than a window stays whole, however *)
(* short others are, and whatever is lost, late or repeated: a START on    *)
(* the wire is no more than a window behind what the receiver has taken,   *)
(* so that only a shorter file, as in the counterexample, can be opened    *)
(* again after its END (sender_gbn.py:128-141, receiver_gbn.py:105-115,    *)
(* 133).                                                                   *)
THEOREM LongFilesStayIntact ==
  Spec => [](\A f \in FileIds :
               pc[f] = "done" /\ Long(f) => out[f] = Content(file[f]))
<1>. DEFINE Whole == \A f \in FileIds : ClosedWhole(f)
            Intact == \A f \in FileIds :
                        pc[f] = "done" /\ Long(f) => out[f] = Content(file[f])
<1>1. Init => Whole
  BY DEF Init, ReceiverInit, ClosedWhole
<1>2. IInv /\ Whole /\ [Next]_vars => Whole'
  BY ClosedWholeNext
<1>3. IInv /\ Whole => Intact
  <2>. SUFFICES ASSUME IInv, Whole, NEW f \in FileIds, pc[f] = "done", Long(f)
                PROVE  out[f] = Content(file[f])
    OBVIOUS
  <2>1. saved[f] # {}
    BY InvComplete DEF CompleteMeansSaved
  <2>2. CoreInv(f)
    BY DEF IInv, FileInv, RunInv
  <2>3. handle[f] = None
    <3>1. WINDOW_SIZE \in Nat /\ LastPart(file[f]) \in Nat
      BY Counts, Bounds DEF IInv
    <3>. QED BY <2>1, <2>2, <3>1 DEF CoreInv, ReceiverInv, Long
  <2>. QED BY <2>1, <2>3 DEF ClosedWhole
<1>4. Spec => []Intact
  BY <1>1, <1>2, <1>3, Inductive, PTL DEF Spec
<1>. QED BY <1>4

(* So if all files are that long, each complete transfer stays whole.      *)
THEOREM IntactIfLong ==
  ASSUME \A p \in Files : LastPart(p) + 1 > WINDOW_SIZE
  PROVE  Spec => []IntactAtRest
<1>. DEFINE Intact == \A f \in FileIds :
                        pc[f] = "done" /\ Long(f) => out[f] = Content(file[f])
<1>1. TypeOK /\ Intact => IntactAtRest
  BY DEF IntactAtRest, Long, TypeOK, SenderTypeOK
<1>2. Spec => []Intact
  BY LongFilesStayIntact
<1>. QED BY <1>1, <1>2, TypeCorrect, PTL

-----------------------------------------------------------------------------
(* The sliding window.                                                     *)

\* How the counts of a stream lie.
CountsOrdered ==
  \A f \in FileIds :
    /\ SentParts(f) \in Int /\ AckedParts(f) \in Int /\ GotParts(f) \in Int
    /\ LastPart(file[f]) \in Nat
    /\ AckedParts(f) <= GotParts(f) /\ GotParts(f) <= SentParts(f)
    /\ SentParts(f) <= LastPart(file[f]) + 1
    /\ SentParts(f) <= AckedParts(f) + WINDOW_SIZE

LEMMA InvOrdered == IInv => CountsOrdered
<1>. SUFFICES ASSUME IInv, NEW f \in FileIds
              PROVE  /\ SentParts(f) \in Int /\ AckedParts(f) \in Int
                     /\ GotParts(f) \in Int /\ LastPart(file[f]) \in Nat
                     /\ AckedParts(f) <= GotParts(f)
                     /\ GotParts(f) <= SentParts(f)
                     /\ SentParts(f) <= LastPart(file[f]) + 1
                     /\ SentParts(f) <= AckedParts(f) + WINDOW_SIZE
  BY DEF CountsOrdered
<1>1. TypeOK /\ CoreInv(f)
  BY DEF IInv, FileInv, RunInv
<1>2. SentParts(f) <= LastPart(file[f]) + 1
  BY <1>1, Counts DEF CoreInv, ReadInv, SentParts, LastPart, TypeOK, SenderTypeOK
<1>. QED BY <1>1, <1>2, Counts, Spread DEF CoreInv, ReceiverInv

LEMMA NextOrdered == IInv' => CountsOrdered'
BY InvOrdered, PTL

\* Stream g keeps its place in the promise.
Same(g) ==
  /\ SentParts(g)' = SentParts(g) /\ GotParts(g)' = GotParts(g)
  /\ AckedParts(g)' = AckedParts(g) /\ (pc'[g] = "done") = (pc[g] = "done")

\* If only stream f moves, and it moves one count the right way, the promise
\* sees one of its own steps or none.
LEMMA OneMoves ==
  ASSUME CountsOrdered, CountsOrdered', file' = file, NEW f \in FileIds,
         \A g \in FileIds \ {f} : Same(g),
         \/ /\ SentParts(f)' = SentParts(f) + 1
            /\ GotParts(f)' = GotParts(f) /\ AckedParts(f)' = AckedParts(f)
            /\ (pc'[f] = "done") = (pc[f] = "done")
         \/ /\ GotParts(f)' \in {GotParts(f), GotParts(f) + 1}
            /\ SentParts(f)' = SentParts(f) /\ AckedParts(f)' = AckedParts(f)
            /\ (pc'[f] = "done") = (pc[f] = "done")
         \/ /\ AckedParts(f) < AckedParts(f)'
            /\ SentParts(f)' = SentParts(f) /\ GotParts(f)' = GotParts(f)
            /\ (pc'[f] = "done") = (pc[f] = "done")
         \/ /\ AckedParts(f) = LastPart(file[f]) + 1
            /\ pc[f] # "done" /\ pc'[f] = "done"
            /\ SentParts(f)' = SentParts(f) /\ GotParts(f)' = GotParts(f)
            /\ AckedParts(f)' = AckedParts(f)
         \/ Same(f)
  PROVE  [SW!Next]_(SW!swVars)
<1>. DEFINE S == [g \in FileIds |-> SentParts(g)]
            G == [g \in FileIds |-> GotParts(g)]
            A == [g \in FileIds |-> AckedParts(g)]
            T == [g \in FileIds |-> LastPart(file[g]) + 1]
            C == [g \in FileIds |-> pc[g] = "done"]
<1>0. T' = T
  OBVIOUS
<1>1. /\ S[f]' <= T[f] /\ S[f]' <= A[f]' + WINDOW_SIZE
      /\ A[f]' <= G[f]' /\ G[f]' <= S[f]'
      /\ S[f] \in Int /\ A[f] \in Int /\ G[f] \in Int /\ T[f] \in Int
      /\ S[f]' \in Int /\ A[f]' \in Int /\ G[f]' \in Int
  BY DEF CountsOrdered
<1>2. CASE /\ SentParts(f)' = SentParts(f) + 1
           /\ GotParts(f)' = GotParts(f) /\ AckedParts(f)' = AckedParts(f)
           /\ (pc'[f] = "done") = (pc[f] = "done")
  <2>1. S' = [S EXCEPT ![f] = @ + 1] /\ G' = G /\ A' = A /\ C' = C
    BY <1>2 DEF Same
  <2>2. S[f] < T[f] /\ S[f] - A[f] < WINDOW_SIZE
    BY <1>1, <1>2, Bounds
  <2>. QED BY <1>0, <2>1, <2>2 DEF SW!Next, SW!Send
<1>3. CASE /\ GotParts(f)' = GotParts(f) + 1
           /\ SentParts(f)' = SentParts(f) /\ AckedParts(f)' = AckedParts(f)
           /\ (pc'[f] = "done") = (pc[f] = "done")
  <2>1. G' = [G EXCEPT ![f] = @ + 1] /\ S' = S /\ A' = A /\ C' = C
    BY <1>3 DEF Same
  <2>2. G[f] < S[f]
    BY <1>1, <1>3
  <2>. QED BY <1>0, <2>1, <2>2 DEF SW!Next, SW!TakeNext
<1>4. CASE /\ AckedParts(f) < AckedParts(f)'
           /\ SentParts(f)' = SentParts(f) /\ GotParts(f)' = GotParts(f)
           /\ (pc'[f] = "done") = (pc[f] = "done")
  <2>1. A' = [A EXCEPT ![f] = A[f]'] /\ S' = S /\ G' = G /\ C' = C
    BY <1>4 DEF Same
  <2>2. A[f]' \in (A[f] + 1) .. G[f]
    BY <1>1, <1>4
  <2>. QED BY <1>0, <2>1, <2>2 DEF SW!Next, SW!Learn
<1>5. CASE /\ AckedParts(f) = LastPart(file[f]) + 1
           /\ pc[f] # "done" /\ pc'[f] = "done"
           /\ SentParts(f)' = SentParts(f) /\ GotParts(f)' = GotParts(f)
           /\ AckedParts(f)' = AckedParts(f)
  <2>1. C' = [C EXCEPT ![f] = TRUE] /\ S' = S /\ G' = G /\ A' = A
    BY <1>5 DEF Same
  <2>. QED BY <1>0, <1>5, <2>1 DEF SW!Next, SW!Report
<1>6. CASE Same(f)
  <2>1. S' = S /\ G' = G /\ A' = A /\ C' = C
    BY <1>6 DEF Same
  <2>. QED BY <1>0, <2>1 DEF SW!swVars
<1>. QED BY <1>2, <1>3, <1>4, <1>5, <1>6 DEF Same

\* A step of a sender thread, seen from the promise.
LEMMA SenderPromise ==
  ASSUME IInv, IInv', CountsOrdered, CountsOrdered', NEW f \in FileIds,
         SenderStep(f), UNCHANGED receiverVars
  PROVE  [SW!Next]_(SW!swVars)
<1>1. TypeOK /\ RunInv(f) /\ CoreInv(f) /\ file' = file
  BY DEF IInv, FileInv, RunInv, SenderStep, SendStart, SendData, SendEnd, Transmit, Drain,
         AcceptAck, IgnoreAck, NoTimeout, Resend, fileVars
<1>2. ASSUME NEW g \in FileIds PROVE GotParts(g)' = GotParts(g)
  BY <1>1, SameReceiver DEF receiverVars
<1>3. ASSUME NEW g \in FileIds \ {f} PROVE Same(g)
  <2>1. /\ started'[g] = started[g] /\ read'[g] = read[g]
        /\ eof_reached'[g] = eof_reached[g] /\ base'[g] = base[g]
        /\ nextseqnum'[g] = nextseqnum[g] /\ pc'[g] = pc[g]
    BY <1>1 DEF TypeOK, SenderTypeOK, SenderStep, SendStart, SendData, SendEnd,
                Transmit, Drain, AcceptAck, IgnoreAck, NoTimeout, Resend,
                fileVars, windowVars
  <2>. QED BY <1>1, <1>2, <2>1, SameSender DEF Same
<1>4. CASE SendStart(f) \/ SendData(f) \/ SendEnd(f)
  <2>1. pc' = pc /\ base' = base /\ nextseqnum'[f] = NextSeq(nextseqnum[f])
    BY <1>1, <1>4 DEF SendStart, SendData, SendEnd, Transmit, TypeOK, SenderTypeOK
  <2>2. SentParts(f)' = SentParts(f) + 1
    <3>1. read[f] \in Nat /\ (~started[f] => read[f] = 0)
      BY <1>1 DEF TypeOK, SenderTypeOK, CoreInv, ReadInv
    <3>2. CASE SendStart(f)
      <4>1. started'[f] /\ ~started[f] /\ read' = read
            /\ eof_reached' = eof_reached /\ ~eof_reached[f]
        BY <1>1, <3>2 DEF SendStart, CanSend, TypeOK, SenderTypeOK
      <4>. QED BY <3>1, <4>1 DEF SentParts
    <3>3. CASE SendData(f)
      <4>1. started[f] /\ started' = started /\ read'[f] = read[f] + 1
            /\ eof_reached' = eof_reached /\ ~eof_reached[f]
        BY <1>1, <3>3 DEF SendData, CanSend, TypeOK, SenderTypeOK
      <4>. QED BY <3>1, <4>1 DEF SentParts
    <3>4. CASE SendEnd(f)
      <4>1. started[f] /\ started' = started /\ read' = read
            /\ eof_reached'[f] /\ ~eof_reached[f]
        BY <1>1, <3>4 DEF SendEnd, CanSend, TypeOK, SenderTypeOK
      <4>. QED BY <3>1, <4>1 DEF SentParts
    <3>. QED BY <1>4, <3>2, <3>3, <3>4
  <2>3. AckedParts(f)' = AckedParts(f)
    <3>1. /\ base[f] \in SeqNums /\ nextseqnum[f] \in SeqNums
          /\ SentParts(f) \in Nat /\ InFlight(f) \in Nat
      BY <1>1, Counts
    <3>2. InFlight(f) + 1 < MAX_SEQ
      <4>1. InFlight(f) < WINDOW_SIZE
        BY <1>4 DEF SendStart, SendData, SendEnd, CanSend, Room, InFlight
      <4>. QED BY <3>1, <4>1, Bounds
    <3>3. Dist(NextSeq(nextseqnum[f]), base[f]) = InFlight(f) + 1
      BY <3>1, <3>2, DistStep DEF InFlight
    <3>4. Dist(nextseqnum[f], base[f])' = InFlight(f) + 1
      BY <2>1, <3>3
    <3>. QED BY <2>2, <3>1, <3>4 DEF AckedParts, InFlight
  <2>. QED BY <1>1, <1>2, <1>3, <2>1, <2>2, <2>3, OneMoves
<1>5. CASE AcceptAck(f)
  <2>1. /\ SentParts(f)' = SentParts(f) /\ pc' = pc
    BY <1>5 DEF AcceptAck, fileVars, SentParts
  <2>2. AckedParts(f) < AckedParts(f)'
    BY <1>1, <1>5, AcceptAckInv
  <2>. QED BY <1>1, <1>2, <1>3, <2>1, <2>2, OneMoves
<1>6. CASE Drain(f) \/ IgnoreAck(f) \/ NoTimeout(f) \/ Resend(f)
  <2>1. /\ started' = started /\ read' = read /\ eof_reached' = eof_reached
        /\ base' = base /\ nextseqnum' = nextseqnum /\ pc[f] # "done"
        /\ pc'[f] = "done" => base[f] = nextseqnum[f] /\ eof_reached[f]
    BY <1>1, <1>6 DEF Drain, IgnoreAck, NoTimeout, Resend, fileVars, windowVars,
                      LoopHead, MoreToDo, TypeOK, SenderTypeOK
  <2>2. SentParts(f)' = SentParts(f) /\ AckedParts(f)' = AckedParts(f)
    BY <1>1, <2>1, SameSender
  <2>3. CASE pc'[f] = "done"
    <3>1. AckedParts(f) = LastPart(file[f]) + 1
      BY <1>1, <2>1, <2>3, DoneMeansAll
    <3>. QED BY <1>1, <1>2, <1>3, <2>1, <2>2, <2>3, <3>1, OneMoves
  <2>4. CASE pc'[f] # "done"
    BY <1>1, <1>2, <1>3, <2>1, <2>2, <2>4, OneMoves DEF Same
  <2>. QED BY <2>3, <2>4
<1>. QED BY <1>4, <1>5, <1>6 DEF SenderStep

\* A step of the receiver, seen from the promise.
LEMMA ReceiverPromise ==
  ASSUME IInv, CountsOrdered, CountsOrdered', NEW f \in FileIds,
         Receive(f), UNCHANGED senderVars
  PROVE  [SW!Next]_(SW!swVars)
<1>. USE DEF senderVars, fileVars, windowVars
<1>1. \A g \in FileIds \ {f} : Same(g)
  <2>. TAKE g \in FileIds \ {f}
  <2>1. /\ handle'[g] = handle[g] /\ out'[g] = out[g] /\ saved'[g] = saved[g]
    BY DEF IInv, TypeOK, ReceiverTypeOK, Receive, RecvStart, RejectStart,
           RecvData, IgnoreData, RecvEnd, Discard, receiverVars
  <2>. QED BY <2>1, SameSender, SameReceiver DEF Same
<1>2. /\ SentParts(f)' = SentParts(f) /\ AckedParts(f)' = AckedParts(f)
  BY SameSender
<1>3. GotParts(f)' \in {GotParts(f), GotParts(f) + 1}
  BY ReceiveOne DEF IInv, FileInv, RunInv
<1>. QED BY <1>1, <1>2, <1>3, OneMoves

\* Every other step changes nothing the promise speaks of.
LEMMA NoPromise ==
  ASSUME UNCHANGED <<fileVars, base, nextseqnum, receiverVars>>,
         \A f \in FileIds : (pc'[f] = "done") = (pc[f] = "done")
  PROVE  [SW!Next]_(SW!swVars)
<1>1. ASSUME NEW f \in FileIds PROVE Same(f)
  BY SameSender, SameReceiver DEF Same, fileVars, receiverVars
<1>2. file' = file
  BY DEF fileVars
<1>. QED BY <1>1, <1>2 DEF Same, SW!swVars

LEMMA PromiseInit == Init => SW!Init
<1>. SUFFICES ASSUME Init PROVE SW!Init
  OBVIOUS
<1>1. ASSUME NEW f \in FileIds
      PROVE  /\ SentParts(f) = 0 /\ GotParts(f) = 0 /\ AckedParts(f) = 0
             /\ (pc[f] = "done") = FALSE /\ LastPart(file[f]) + 1 \in Nat
  <2>1. SentParts(f) = 0 /\ GotParts(f) = 0
    BY DEF Init, SenderInit, ReceiverInit, SentParts, GotParts, ExpectedPart
  <2>2. AckedParts(f) = 0
    <3>1. TypeOK /\ base[f] = nextseqnum[f]
      BY TypeInit DEF Init, SenderInit
    <3>2. InFlight(f) = 0 /\ AckedParts(f) \in Int
          /\ AckedParts(f) + InFlight(f) = SentParts(f)
      BY <3>1, Counts
    <3>. QED BY <2>1, <3>2
  <2>3. Chunks[file[f]] \in Nat
    BY ChunksAssumption DEF Init, SenderInit
  <2>. QED BY <2>1, <2>2, <2>3 DEF LastPart, Init, SenderInit
<1>. QED BY <1>1 DEF SW!Init

LEMMA PromiseNext == IInv /\ [Next]_vars => [SW!Next]_(SW!swVars)
<1>. SUFFICES ASSUME IInv, [Next]_vars PROVE [SW!Next]_(SW!swVars)
  OBVIOUS
<1>1. IInv' /\ CountsOrdered /\ CountsOrdered'
  BY InvNext, InvOrdered, NextOrdered
<1>2. CASE UNCHANGED vars \/ Finished
  BY <1>2, NoPromise DEF vars, senderVars, windowVars, Finished
<1>3. ASSUME NEW f \in FileIds, Timeout(f) \/ RouteAck(f),
             UNCHANGED receiverVars
      PROVE  [SW!Next]_(SW!swVars)
  <2>1. \A g \in FileIds : (pc'[g] = "done") = (pc[g] = "done")
    BY <1>3 DEF IInv, TypeOK, SenderTypeOK, Timeout, RouteAck
  <2>. QED BY <1>3, <2>1, NoPromise DEF Timeout, RouteAck, windowVars
<1>4. CASE \/ LoseData /\ UNCHANGED senderVars
           \/ LoseAck /\ UNCHANGED <<senderVars, receiverVars>>
  BY <1>4, NoPromise DEF LoseData, LoseAck, senderVars, windowVars
<1>. QED BY <1>1, <1>2, <1>3, <1>4, SenderPromise, ReceiverPromise DEF Next

(* Go-Back-N keeps the promise of SlidingWindow: with sequence numbers     *)
(* modulo MAX_SEQ, queues, losses, timeouts and retransmissions, it sends  *)
(* each part anew once, has it taken once, in order, and reports           *)
(* completion once everything is known to be taken.                        *)
THEOREM ImplementsPromise == Spec => ImplementsSlidingWindow
<1>1. Init => SW!Init
  BY PromiseInit
<1>2. IInv /\ [Next]_vars => [SW!Next]_(SW!swVars)
  BY PromiseNext
<1>. QED BY <1>1, <1>2, Inductive, PTL
         DEF Spec, ImplementsSlidingWindow, SW!Spec
=============================================================================
