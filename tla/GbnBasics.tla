----------------------------- MODULE GbnBasics ------------------------------
(***************************************************************************)
(* Lemmas that the proofs about GoBackN rest on: how residues modulo       *)
(* MAX_SEQ stand for absolute numbers that are less than one turn of the   *)
(* circle apart; type correctness, for any files, window and socket sizes; *)
(* and how the order of GbnInv survives the arrival of a message, its      *)
(* removal, and its passing from one queue to the next.                    *)
(***************************************************************************)
EXTENDS GbnInv, TLAPS

-----------------------------------------------------------------------------
(* Sequence numbers.                                                       *)

\* A sequence number is in range, and a window is less than half the circle.
LEMMA Bounds ==
  /\ MAX_SEQ \in Nat /\ WINDOW_SIZE \in Nat
  /\ 0 < WINDOW_SIZE /\ 2 * WINDOW_SIZE <= MAX_SEQ
BY WindowAssumption, MaxSeqAssumption

\* Division with remainder.
LEMMA Residue ==
  ASSUME NEW i \in Int
  PROVE  /\ i % MAX_SEQ \in SeqNums
         /\ i \div MAX_SEQ \in Int
         /\ i = MAX_SEQ * (i \div MAX_SEQ) + (i % MAX_SEQ)
BY Bounds DEF SeqNums

\* A number in range is its own residue.
LEMMA ResidueSmall ==
  ASSUME NEW r \in SeqNums
  PROVE  r % MAX_SEQ = r
BY Bounds DEF SeqNums

\* A multiple of MAX_SEQ strictly between -MAX_SEQ and MAX_SEQ is zero.
LEMMA SmallMultiple ==
  ASSUME NEW k \in Int, NEW d \in Int, d = MAX_SEQ * k,
         -MAX_SEQ < d, d < MAX_SEQ
  PROVE  k = 0
<1>1. CASE k >= 1
  <2>1. PICK j \in Nat : k = j + 1
    BY <1>1
  <2>2. d = MAX_SEQ * j + MAX_SEQ
    BY <2>1, Bounds
  <2>3. MAX_SEQ * j >= 0
    BY Bounds
  <2>. QED BY <2>2, <2>3, Bounds
<1>2. CASE k <= -1
  <2>1. PICK j \in Nat : k = -1 - j
    <3>1. /\ -1 - k \in Nat /\ k = -1 - (-1 - k)
      BY <1>2
    <3>. QED BY <3>1
  <2>2. d = -(MAX_SEQ * j) - MAX_SEQ
    BY <2>1, Bounds
  <2>3. MAX_SEQ * j >= 0
    BY Bounds
  <2>. QED BY <2>2, <2>3, Bounds
<1>. QED BY <1>1, <1>2

\* Numbers less than a turn apart with one residue are equal.
LEMMA ResidueUnique ==
  ASSUME NEW i \in Int, NEW j \in Int, i % MAX_SEQ = j % MAX_SEQ,
         -MAX_SEQ < i - j, i - j < MAX_SEQ
  PROVE  i = j
<1>. DEFINE k == i \div MAX_SEQ
            l == j \div MAX_SEQ
<1>1. /\ k \in Int /\ l \in Int
      /\ i = MAX_SEQ * k + (i % MAX_SEQ)
      /\ j = MAX_SEQ * l + (j % MAX_SEQ)
      /\ i % MAX_SEQ \in Int
  BY Residue DEF SeqNums
<1>. HIDE DEF k, l
<1>2. MAX_SEQ * (k - l) = MAX_SEQ * k - MAX_SEQ * l
  BY <1>1, Bounds
<1>3. i - j = MAX_SEQ * (k - l)
  BY <1>1, <1>2, Bounds
<1>4. k - l = 0
  BY <1>1, <1>3, SmallMultiple
<1>. QED BY <1>1, <1>3, <1>4, Bounds

\* The remainder is the one number in range that differs by a multiple.
LEMMA ResidueIs ==
  ASSUME NEW q \in Int, NEW r \in SeqNums
  PROVE  (MAX_SEQ * q + r) % MAX_SEQ = r
<1>. DEFINE i == MAX_SEQ * q + r
            k == i \div MAX_SEQ
            s == i % MAX_SEQ
<1>0. i \in Int
  BY Bounds DEF SeqNums
<1>1. /\ k \in Int /\ s \in SeqNums
      /\ i = MAX_SEQ * k + s
  BY <1>0, Residue
<1>2. i = MAX_SEQ * q + r
  OBVIOUS
<1>. HIDE DEF k, s, i
<1>3. MAX_SEQ * (k - q) = MAX_SEQ * k - MAX_SEQ * q
  BY <1>1, Bounds
<1>4. r - s = MAX_SEQ * (k - q)
  BY <1>0, <1>1, <1>2, <1>3, Bounds DEF SeqNums
<1>5. k - q = 0
  BY <1>1, <1>4, SmallMultiple, Bounds DEF SeqNums
<1>6. r = s
  BY <1>1, <1>4, <1>5, Bounds DEF SeqNums
<1>. QED BY <1>6 DEF s, i

-----------------------------------------------------------------------------
(* Dist and NextSeq on the circle, and on residues of absolute numbers.    *)

\* The distance forward from b to a, without a modulo.
LEMMA DistOnCircle ==
  ASSUME NEW a \in SeqNums, NEW b \in SeqNums
  PROVE  Dist(a, b) = IF a >= b THEN a - b ELSE a - b + MAX_SEQ
<1>1. CASE a >= b
  <2>1. a - b \in SeqNums
    BY <1>1, Bounds DEF SeqNums
  <2>. QED BY <1>1, <2>1, ResidueSmall DEF Dist
<1>2. CASE a < b
  <2>1. a - b + MAX_SEQ \in SeqNums
    BY <1>2, Bounds DEF SeqNums
  <2>2. (MAX_SEQ * (-1) + (a - b + MAX_SEQ)) % MAX_SEQ = a - b + MAX_SEQ
    BY <2>1, ResidueIs
  <2>3. MAX_SEQ * (-1) + (a - b + MAX_SEQ) = a - b
    BY Bounds DEF SeqNums
  <2>4. ~(a >= b)
    BY <1>2 DEF SeqNums
  <2>. QED BY <2>2, <2>3, <2>4 DEF Dist
<1>. QED BY <1>1, <1>2 DEF SeqNums

\* The next number, without a modulo.
LEMMA NextOnCircle ==
  ASSUME NEW n \in SeqNums
  PROVE  NextSeq(n) = IF n = MAX_SEQ - 1 THEN 0 ELSE n + 1
<1>1. CASE n = MAX_SEQ - 1
  <2>1. 0 \in SeqNums
    BY Bounds DEF SeqNums
  <2>2. (MAX_SEQ * 1 + 0) % MAX_SEQ = 0
    BY <2>1, ResidueIs
  <2>3. MAX_SEQ * 1 + 0 = n + 1
    BY <1>1, Bounds
  <2>. QED BY <1>1, <2>2, <2>3 DEF NextSeq
<1>2. CASE n # MAX_SEQ - 1
  <2>1. n + 1 \in SeqNums
    BY <1>2, Bounds DEF SeqNums
  <2>. QED BY <1>2, <2>1, ResidueSmall DEF NextSeq
<1>. QED BY <1>1, <1>2

\* The results are sequence numbers.
LEMMA CircleTypes ==
  ASSUME NEW a \in SeqNums, NEW b \in SeqNums
  PROVE  /\ NextSeq(a) \in SeqNums
         /\ Dist(a, b) \in SeqNums
         /\ Dist(a, b) = 0 <=> a = b
BY Bounds, DistOnCircle, NextOnCircle DEF SeqNums

\* A step forward adds one to a distance, unless it closes the circle.
LEMMA DistStep ==
  ASSUME NEW a \in SeqNums, NEW b \in SeqNums, Dist(a, b) + 1 < MAX_SEQ
  PROVE  Dist(NextSeq(a), b) = Dist(a, b) + 1
<1>1. NextSeq(a) \in SeqNums
  BY CircleTypes
<1>2. NextSeq(a) = IF a = MAX_SEQ - 1 THEN 0 ELSE a + 1
  BY NextOnCircle
<1>3. Dist(a, b) = IF a >= b THEN a - b ELSE a - b + MAX_SEQ
  BY DistOnCircle
<1>4. Dist(NextSeq(a), b) =
        IF NextSeq(a) >= b THEN NextSeq(a) - b ELSE NextSeq(a) - b + MAX_SEQ
  BY <1>1, DistOnCircle
<1>. QED BY <1>1, <1>2, <1>3, <1>4, Bounds DEF SeqNums

\* Two numbers at one distance from a third are equal.
LEMMA DistUnique ==
  ASSUME NEW a \in SeqNums, NEW b \in SeqNums, NEW c \in SeqNums,
         Dist(a, c) = Dist(b, c)
  PROVE  a = b
BY Bounds, DistOnCircle DEF SeqNums

\* The number after a residue is the residue of the number after.
LEMMA NextOfResidue ==
  ASSUME NEW i \in Int
  PROVE  NextSeq(i % MAX_SEQ) = (i + 1) % MAX_SEQ
<1>. DEFINE q == i \div MAX_SEQ
            r == i % MAX_SEQ
<1>1. q \in Int /\ r \in SeqNums /\ i = MAX_SEQ * q + r
  BY Residue
<1>2. NextSeq(r) = IF r = MAX_SEQ - 1 THEN 0 ELSE r + 1
  BY <1>1, NextOnCircle
<1>. HIDE DEF q, r
<1>3. CASE r = MAX_SEQ - 1
  <2>1. (MAX_SEQ * (q + 1) + 0) % MAX_SEQ = 0
    BY <1>1, ResidueIs, Bounds DEF SeqNums
  <2>2. MAX_SEQ * (q + 1) + 0 = i + 1
    BY <1>1, <1>3, Bounds DEF SeqNums
  <2>3. (i + 1) % MAX_SEQ = NextSeq(r)
    BY <1>2, <1>3, <2>1, <2>2
  <2>. QED BY <2>3 DEF r
<1>4. CASE r # MAX_SEQ - 1
  <2>1. r + 1 \in SeqNums
    BY <1>1, <1>4, Bounds DEF SeqNums
  <2>2. (MAX_SEQ * q + (r + 1)) % MAX_SEQ = r + 1
    BY <1>1, <2>1, ResidueIs
  <2>3. MAX_SEQ * q + (r + 1) = i + 1
    BY <1>1, Bounds DEF SeqNums
  <2>4. (i + 1) % MAX_SEQ = NextSeq(r)
    BY <1>2, <1>4, <2>2, <2>3
  <2>. QED BY <2>4 DEF r
<1>. QED BY <1>3, <1>4

\* Going forward by the distance from b to a arrives at a.
LEMMA ResiduePlusDist ==
  ASSUME NEW j \in Int, NEW a \in SeqNums
  PROVE  (j + Dist(a, j % MAX_SEQ)) % MAX_SEQ = a
<1>. DEFINE q == j \div MAX_SEQ
            b == j % MAX_SEQ
            d == Dist(a, b)
<1>1. q \in Int /\ b \in SeqNums /\ j = MAX_SEQ * q + b
  BY Residue
<1>2. d = IF a >= b THEN a - b ELSE a - b + MAX_SEQ
  BY <1>1, DistOnCircle
<1>3. a \in Int /\ b \in Int
  BY <1>1 DEF SeqNums
<1>4. (j + d) % MAX_SEQ = a
  <2>. HIDE DEF q, b, d
  <2>1. CASE a >= b
    <3>1. j + d = MAX_SEQ * q + a
      BY <1>1, <1>2, <1>3, <2>1, Bounds
    <3>. QED BY <1>1, <3>1, ResidueIs
  <2>2. CASE a < b
    <3>1. j + d = MAX_SEQ * (q + 1) + a
      BY <1>1, <1>2, <1>3, <2>2, Bounds
    <3>. QED BY <1>1, <3>1, ResidueIs
  <2>. QED BY <1>3, <2>1, <2>2
<1>. QED BY <1>4

\* The distance between residues is the residue of the difference.
LEMMA DistOfResidues ==
  ASSUME NEW i \in Int, NEW j \in Int, i - j < MAX_SEQ, -MAX_SEQ <= i - j
  PROVE  Dist(i % MAX_SEQ, j % MAX_SEQ) = IF i >= j THEN i - j
                                          ELSE i - j + MAX_SEQ
<1>. DEFINE a == i % MAX_SEQ
            b == j % MAX_SEQ
            d == Dist(a, b)
            e == IF i >= j THEN i - j ELSE i - j + MAX_SEQ
<1>1. a \in SeqNums /\ b \in SeqNums
  BY Residue
<1>2. d \in SeqNums
  BY <1>1, CircleTypes
<1>3. (j + d) % MAX_SEQ = a
  BY <1>1, ResiduePlusDist
<1>4. e \in SeqNums
  BY Bounds DEF SeqNums
<1>5. (j + e) % MAX_SEQ = a
  <2>1. CASE i >= j
    <3>1. j + e = i
      BY <2>1
    <3>. QED BY <3>1
  <2>2. CASE i < j
    <3>1. j + e = i + MAX_SEQ
      BY <2>2, Bounds
    <3>2. (i + MAX_SEQ) % MAX_SEQ = a
      <4>. DEFINE q == i \div MAX_SEQ
      <4>1. q \in Int /\ i = MAX_SEQ * q + a
        BY Residue
      <4>. HIDE DEF q, a
      <4>2. i + MAX_SEQ = MAX_SEQ * (q + 1) + a
        BY <1>1, <4>1, Bounds DEF SeqNums
      <4>. QED BY <1>1, <4>1, <4>2, ResidueIs
    <3>. QED BY <3>1, <3>2
  <2>. QED BY <2>1, <2>2
<1>6. d = e
  <2>. HIDE DEF a, b, d, e
  <2>1. /\ j + d \in Int /\ j + e \in Int
        /\ (j + d) - (j + e) < MAX_SEQ /\ -MAX_SEQ < (j + d) - (j + e)
    BY <1>2, <1>4, Bounds DEF SeqNums
  <2>2. j + d = j + e
    BY <1>3, <1>5, <2>1, ResidueUnique
  <2>. QED BY <1>2, <1>4, <2>2 DEF SeqNums
<1>. QED BY <1>6

-----------------------------------------------------------------------------
(* Types.                                                                  *)

\* A queue keeps its type when its head is taken or a message is offered.
LEMMA HeadTail ==
  ASSUME NEW T, NEW q \in Seq(T), q # << >>
  PROVE  Head(q) \in T /\ Tail(q) \in Seq(T)
OBVIOUS

LEMMA PutType ==
  ASSUME NEW T, NEW q \in Seq(T), NEW cap, NEW m \in T
  PROVE  Put(q, cap, m) \in Seq(T) /\ Append(q, m) \in Seq(T)
<1>1. Append(q, m) \in Seq(T)
  OBVIOUS
<1>. QED BY <1>1 DEF Put

\* The programs start in a typed state.
LEMMA TypeInit == Init => TypeOK
<1>. SUFFICES ASSUME Init PROVE TypeOK
  OBVIOUS
<1>0. 0 \in SeqNums
  BY Bounds DEF SeqNums
<1>1. SenderTypeOK
  BY <1>0 DEF Init, SenderInit, SenderTypeOK
<1>2. ReceiverTypeOK
  BY <1>0 DEF Init, ReceiverInit, ReceiverTypeOK
<1>3. toReceiver \in Seq(Packet) /\ toSender \in Seq(Ack)
  BY DEF Init, WireInit
<1>. QED BY <1>1, <1>2, <1>3 DEF TypeOK

\* Transmit keeps the types of what it changes.
LEMMA TransmitTypes ==
  ASSUME TypeOK, NEW f \in FileIds,
         NEW ptype \in {"START", "DATA", "END"}, NEW part \in Nat,
         Transmit(f, ptype, part)
  PROVE  /\ toReceiver' \in Seq(Packet)
         /\ buffer' \in [FileIds -> [SeqNums -> Packet \cup {None}]]
         /\ timer' \in [FileIds -> BOOLEAN]
         /\ nextseqnum' \in [FileIds -> SeqNums]
<1>. DEFINE p == [file_id |-> f, seq_num |-> nextseqnum[f], ptype |-> ptype,
                  path |-> file[f], part |-> part]
<1>. USE DEF TypeOK, SenderTypeOK
<1>1. p \in Packet
  BY DEF Packet
<1>2. toReceiver' \in Seq(Packet)
  <2>1. toReceiver' = Put(toReceiver, DataCap, p)
    BY DEF Transmit
  <2>. HIDE DEF p
  <2>. QED BY <1>1, <2>1, HeadTail, PutType
<1>3. buffer' \in [FileIds -> [SeqNums -> Packet \cup {None}]]
  <2>1. buffer' = [buffer EXCEPT ![f][nextseqnum[f]] = p]
    BY DEF Transmit
  <2>. HIDE DEF p
  <2>. QED BY <1>1, <2>1
<1>4. timer' \in [FileIds -> BOOLEAN]
  BY DEF Transmit
<1>5. nextseqnum' \in [FileIds -> SeqNums]
  BY CircleTypes DEF Transmit
<1>. QED BY <1>2, <1>3, <1>4, <1>5

\* Every step of a sender thread keeps the types.
LEMMA SenderTypes ==
  ASSUME TypeOK, NEW f \in FileIds, SenderStep(f), UNCHANGED receiverVars
  PROVE  TypeOK'
<1>. USE DEF TypeOK, SenderTypeOK
<1>0. ReceiverTypeOK'
  BY DEF ReceiverTypeOK, receiverVars
<1>1. CASE SendStart(f)
  BY <1>0, <1>1, TransmitTypes DEF SendStart, Transmit, ackVars
<1>2. CASE SendData(f)
  <2>1. read[f] + 1 \in Nat
    OBVIOUS
  <2>. QED BY <1>0, <1>2, <2>1, TransmitTypes DEF SendData, Transmit, ackVars
<1>3. CASE SendEnd(f)
  <2>1. read[f] + 1 \in Nat
    OBVIOUS
  <2>. QED BY <1>0, <1>3, <2>1, TransmitTypes DEF SendEnd, Transmit, ackVars
<1>4. CASE Drain(f)
  BY <1>0, <1>4 DEF Drain, fileVars, windowVars, wireVars
<1>5. CASE AcceptAck(f)
  <2>1. /\ Head(acks[f]) \in Ack /\ Tail(acks[f]) \in Seq(Ack)
    BY <1>5, HeadTail, PutType DEF AcceptAck
  <2>2. NextSeq(Head(acks[f]).ack_num) \in SeqNums
    BY <2>1, CircleTypes DEF Ack
  <2>3. Freed(f, NextSeq(Head(acks[f]).ack_num))
          \in [SeqNums -> Packet \cup {None}]
    BY DEF Freed
  <2>4. \A b : TimerAfterAck(f, b) \in BOOLEAN
    BY DEF TimerAfterAck
  <2>. QED BY <1>0, <1>5, <2>1, <2>2, <2>3, <2>4
           DEF AcceptAck, fileVars, wireVars
<1>6. CASE IgnoreAck(f)
  <2>1. Tail(acks[f]) \in Seq(Ack)
    BY <1>6, HeadTail, PutType DEF IgnoreAck
  <2>. QED BY <1>0, <1>6, <2>1 DEF IgnoreAck, fileVars, windowVars, wireVars
<1>7. CASE NoTimeout(f)
  BY <1>0, <1>7 DEF NoTimeout, LoopHead, fileVars, windowVars, ackVars, wireVars
<1>8. CASE Resend(f)
  <2>1. toReceiver' \in Seq(Packet)
    <3>1. buffer[f][seq[f]] # None => buffer[f][seq[f]] \in Packet
      OBVIOUS
    <3>. QED BY <1>8, <3>1, HeadTail, PutType DEF Resend
  <2>2. seq' \in [FileIds -> SeqNums]
    BY <1>8, CircleTypes DEF Resend
  <2>3. timer' \in [FileIds -> BOOLEAN]
    BY <1>8 DEF Resend
  <2>. QED BY <1>0, <1>8, <2>1, <2>2, <2>3 DEF Resend, LoopHead, fileVars, ackVars
<1>. QED BY <1>1, <1>2, <1>3, <1>4, <1>5, <1>6, <1>7, <1>8 DEF SenderStep

\* So do a timeout and the routing of an ACK.
LEMMA TimeoutTypes ==
  ASSUME TypeOK, NEW f \in FileIds, Timeout(f), UNCHANGED receiverVars
  PROVE  TypeOK'
BY DEF TypeOK, SenderTypeOK, ReceiverTypeOK, Timeout, receiverVars,
       fileVars, windowVars, ackVars, wireVars

LEMMA RouteTypes ==
  ASSUME TypeOK, NEW f \in FileIds, RouteAck(f), UNCHANGED receiverVars
  PROVE  TypeOK'
<1>. USE DEF TypeOK, SenderTypeOK
<1>1. Head(toSender) \in Ack /\ Tail(toSender) \in Seq(Ack)
  BY HeadTail, PutType DEF RouteAck
<1>2. Append(ack_queue[f], Head(toSender)) \in Seq(Ack)
  BY <1>1, HeadTail, PutType
<1>3. ReceiverTypeOK'
  BY DEF ReceiverTypeOK, receiverVars
<1>. QED BY <1>1, <1>2, <1>3 DEF RouteAck, fileVars, windowVars

\* Every handling of a datagram by the receiver keeps the types.
LEMMA ReceiveTypes ==
  ASSUME TypeOK, NEW f \in FileIds, Receive(f), UNCHANGED senderVars
  PROVE  TypeOK'
<1>. USE DEF TypeOK, ReceiverTypeOK
<1>1. SenderTypeOK'
  BY DEF SenderTypeOK, senderVars, fileVars, windowVars, ackVars
<1>2. toReceiver # << >> /\ toReceiver' = Tail(toReceiver)
  BY DEF Receive, RecvStart, RejectStart, RecvData, IgnoreData, RecvEnd,
         Discard, Take
<1>3. pkt \in Packet /\ toReceiver' \in Seq(Packet)
  BY <1>2, HeadTail, PutType DEF pkt
<1>4. /\ pkt.seq_num \in SeqNums /\ pkt.part \in Nat /\ pkt.path \in Files
  BY <1>3 DEF Packet
<1>5. \A n \in SeqNums, k \in Nat : SendAck(f, n, k) => toSender' \in Seq(Ack)
  <2>. TAKE n \in SeqNums, k \in Nat
  <2>1. [file_id |-> f, ack_num |-> n, part |-> k] \in Ack
    BY DEF Ack
  <2>. QED BY <2>1, HeadTail, PutType DEF SendAck
<1>6. Accept(f) => /\ toSender' \in Seq(Ack)
                   /\ expected_seq' \in [FileIds -> SeqNums]
  <2>1. Accept(f) => toSender' \in Seq(Ack)
    BY <1>4, <1>5 DEF Accept
  <2>2. NextSeq(expected_seq[f]) \in SeqNums
    BY CircleTypes
  <2>. QED BY <2>1, <2>2 DEF Accept
<1>7. CASE RecvStart(f)
  <2>1. BaseName[pkt.path] \in Names
    BY <1>4 DEF Names
  <2>2. out' \in [FileIds -> Seq(Chunk)]
    BY <1>7 DEF RecvStart
  <2>. QED BY <1>1, <1>3, <1>6, <1>7, <2>1, <2>2 DEF RecvStart
<1>8. CASE RejectStart(f)
  BY <1>1, <1>3, <1>8 DEF RejectStart, receiverVars
<1>9. CASE RecvData(f)
  <2>1. [path |-> pkt.path, part |-> pkt.part] \in Chunk
    BY <1>4 DEF Chunk
  <2>2. Append(out[f], [path |-> pkt.path, part |-> pkt.part]) \in Seq(Chunk)
    BY <2>1, HeadTail, PutType
  <2>. QED BY <1>1, <1>3, <1>6, <1>9, <2>2 DEF RecvData
<1>10. CASE IgnoreData(f)
  BY <1>1, <1>3, <1>10 DEF IgnoreData, receiverVars
<1>11. CASE RecvEnd(f)
  <2>1. Closed(f) \subseteq [name : Names, content : Seq(Chunk)]
    BY DEF Closed
  <2>2. 0 \in SeqNums
    BY Bounds DEF SeqNums
  <2>3. toSender' \in Seq(Ack)
    BY <1>4, <1>5, <1>11 DEF RecvEnd
  <2>4. saved' \in [FileIds -> SUBSET [name : Names, content : Seq(Chunk)]]
    BY <1>11, <2>1 DEF RecvEnd
  <2>. QED BY <1>1, <1>3, <1>11, <2>2, <2>3, <2>4 DEF RecvEnd, ExpectedAfterEnd
<1>12. CASE Discard(f)
  <2>1. LastInOrder(f) \in SeqNums
    BY Bounds, CircleTypes DEF LastInOrder, SeqNums
  <2>2. Len(out[f]) \in Nat
    OBVIOUS
  <2>3. toSender' \in Seq(Ack)
    BY <1>5, <1>12, <2>1, <2>2 DEF Discard
  <2>. QED BY <1>1, <1>3, <1>12, <2>3 DEF Discard, receiverVars
<1>. QED BY <1>7, <1>8, <1>9, <1>10, <1>11, <1>12 DEF Receive

\* Losing a datagram keeps the types.
LEMMA LossTypes ==
  ASSUME TypeOK, \/ LoseData /\ UNCHANGED senderVars
                 \/ LoseAck /\ UNCHANGED <<senderVars, receiverVars>>
  PROVE  TypeOK'
<1>1. SenderTypeOK' /\ ReceiverTypeOK'
  BY DEF TypeOK, SenderTypeOK, ReceiverTypeOK, senderVars, fileVars,
         windowVars, ackVars, receiverVars, LoseData
<1>2. toReceiver' \in Seq(Packet) /\ toSender' \in Seq(Ack)
  BY HeadTail, PutType DEF TypeOK, LoseData, LoseAck
<1>. QED BY <1>1, <1>2 DEF TypeOK

\* No step of the system breaks a type.
LEMMA TypeNext == TypeOK /\ [Next]_vars => TypeOK'
<1>. SUFFICES ASSUME TypeOK, [Next]_vars PROVE TypeOK'
  OBVIOUS
<1>1. CASE UNCHANGED vars
  BY <1>1 DEF TypeOK, SenderTypeOK, ReceiverTypeOK, vars, senderVars, fileVars,
              windowVars, ackVars, receiverVars, wireVars
<1>2. CASE Finished
  BY <1>1, <1>2 DEF Finished
<1>. QED BY <1>1, <1>2, SenderTypes, TimeoutTypes, RouteTypes, ReceiveTypes,
            LossTypes DEF Next

(* Every variable of the sender, the receiver and the sockets always has   *)
(* its type: in particular every sequence number stays below MAX_SEQ.      *)
THEOREM TypeCorrect == Spec => []TypeOK
<1>1. Init => TypeOK
  BY TypeInit
<1>2. TypeOK /\ [Next]_vars => TypeOK'
  BY TypeNext
<1>. QED BY <1>1, <1>2, PTL DEF Spec

-----------------------------------------------------------------------------
(* The elements of a queue.                                                *)

\* The elements of a queue without its head.
LEMMA TailElements ==
  ASSUME NEW T, NEW q \in Seq(T), q # << >>
  PROVE  /\ Tail(q) \in Seq(T) /\ Len(q) \in Nat /\ Len(q) > 0
         /\ DOMAIN q = 1 .. Len(q) /\ DOMAIN Tail(q) = 1 .. (Len(q) - 1)
         /\ \A i \in DOMAIN Tail(q) : Tail(q)[i] = q[i + 1]
         /\ Head(q) = q[1]
OBVIOUS

\* The elements of a queue to which a message was appended.
LEMMA AppendElements ==
  ASSUME NEW T, NEW q \in Seq(T), NEW m \in T
  PROVE  /\ Append(q, m) \in Seq(T) /\ Len(q) \in Nat
         /\ DOMAIN q = 1 .. Len(q)
         /\ DOMAIN Append(q, m) = 1 .. (Len(q) + 1)
         /\ \A i \in DOMAIN q : Append(q, m)[i] = q[i]
         /\ Append(q, m)[Len(q) + 1] = m
OBVIOUS

-----------------------------------------------------------------------------
(* Order within one queue.                                                 *)

LEMMA OrderedTail ==
  ASSUME NEW T, NEW q \in Seq(T), q # << >>, NEW f, Ordered(q, f)
  PROVE  Ordered(Tail(q), f)
<1>. SUFFICES ASSUME NEW i \in DOMAIN Tail(q), NEW j \in DOMAIN Tail(q), i < j,
                     Tail(q)[i].file_id = f, Tail(q)[j].file_id = f
              PROVE  Tail(q)[i].part < Tail(q)[j].part + WINDOW_SIZE
  BY DEF Ordered
<1>1. /\ i + 1 \in DOMAIN q /\ j + 1 \in DOMAIN q /\ i + 1 < j + 1
      /\ Tail(q)[i] = q[i + 1] /\ Tail(q)[j] = q[j + 1]
  BY TailElements
<1>. QED BY <1>1 DEF Ordered

\* A message that no earlier one of its file is a window ahead of.
LEMMA OrderedAppend ==
  ASSUME NEW T, NEW q \in Seq(T), NEW m \in T, NEW f, Ordered(q, f),
         m.file_id = f =>
           \A i \in DOMAIN q :
             q[i].file_id = f => q[i].part < m.part + WINDOW_SIZE
  PROVE  Ordered(Append(q, m), f)
<1>. DEFINE r == Append(q, m)
<1>. SUFFICES ASSUME NEW i \in DOMAIN r, NEW j \in DOMAIN r, i < j,
                     r[i].file_id = f, r[j].file_id = f
              PROVE  r[i].part < r[j].part + WINDOW_SIZE
  BY DEF Ordered
<1>1. /\ i \in DOMAIN q /\ r[i] = q[i]
      /\ (j \in DOMAIN q /\ r[j] = q[j]) \/ r[j] = m
  BY AppendElements
<1>. QED BY <1>1 DEF Ordered

-----------------------------------------------------------------------------
(* Order between two queues.                                               *)

LEMMA PrecedesTail ==
  ASSUME NEW T, NEW q \in Seq(T), NEW r \in Seq(T), NEW f, Precedes(q, r, f)
  PROVE  /\ q # << >> => Precedes(Tail(q), r, f)
         /\ r # << >> => Precedes(q, Tail(r), f)
<1>1. ASSUME q # << >>, NEW i \in DOMAIN Tail(q), NEW j \in DOMAIN r,
             Tail(q)[i].file_id = f, r[j].file_id = f
      PROVE  Tail(q)[i].part < r[j].part + WINDOW_SIZE
  <2>1. i + 1 \in DOMAIN q /\ Tail(q)[i] = q[i + 1]
    BY <1>1, TailElements
  <2>. QED BY <1>1, <2>1 DEF Precedes
<1>2. ASSUME r # << >>, NEW i \in DOMAIN q, NEW j \in DOMAIN Tail(r),
             q[i].file_id = f, Tail(r)[j].file_id = f
      PROVE  q[i].part < Tail(r)[j].part + WINDOW_SIZE
  <2>1. j + 1 \in DOMAIN r /\ Tail(r)[j] = r[j + 1]
    BY <1>2, TailElements
  <2>. QED BY <1>2, <2>1 DEF Precedes
<1>. QED BY <1>1, <1>2 DEF Precedes

\* A message appended to the queue behind.
LEMMA PrecedesAppend ==
  ASSUME NEW T, NEW q \in Seq(T), NEW r \in Seq(T), NEW m \in T, NEW f,
         Precedes(q, r, f),
         m.file_id = f =>
           \A i \in DOMAIN q :
             q[i].file_id = f => q[i].part < m.part + WINDOW_SIZE
  PROVE  Precedes(q, Append(r, m), f)
<1>. SUFFICES ASSUME NEW i \in DOMAIN q, NEW j \in DOMAIN Append(r, m),
                     q[i].file_id = f, Append(r, m)[j].file_id = f
              PROVE  q[i].part < Append(r, m)[j].part + WINDOW_SIZE
  BY DEF Precedes
<1>1. \/ j \in DOMAIN r /\ Append(r, m)[j] = r[j]
      \/ Append(r, m)[j] = m
  BY AppendElements
<1>. QED BY <1>1 DEF Precedes

\* A message appended to the queue in front, behind which all of r may come.
LEMMA PrecedesFront ==
  ASSUME NEW T, NEW q \in Seq(T), NEW r \in Seq(T), NEW m \in T, NEW f,
         Precedes(q, r, f),
         m.file_id = f =>
           \A j \in DOMAIN r :
             r[j].file_id = f => m.part < r[j].part + WINDOW_SIZE
  PROVE  Precedes(Append(q, m), r, f)
<1>. SUFFICES ASSUME NEW i \in DOMAIN Append(q, m), NEW j \in DOMAIN r,
                     Append(q, m)[i].file_id = f, r[j].file_id = f
              PROVE  Append(q, m)[i].part < r[j].part + WINDOW_SIZE
  BY DEF Precedes
<1>1. \/ i \in DOMAIN q /\ Append(q, m)[i] = q[i]
      \/ Append(q, m)[i] = m
  BY AppendElements
<1>. QED BY <1>1 DEF Precedes

\* The head of an ordered queue may come before the rest of it.
LEMMA HeadFirst ==
  ASSUME NEW T, NEW q \in Seq(T), q # << >>, NEW f, Ordered(q, f),
         Head(q).file_id = f
  PROVE  \A j \in DOMAIN Tail(q) :
           Tail(q)[j].file_id = f
             => Head(q).part < Tail(q)[j].part + WINDOW_SIZE
<1>. SUFFICES ASSUME NEW j \in DOMAIN Tail(q), Tail(q)[j].file_id = f
              PROVE  Head(q).part < Tail(q)[j].part + WINDOW_SIZE
  OBVIOUS
<1>1. /\ 1 \in DOMAIN q /\ j + 1 \in DOMAIN q /\ 1 < j + 1
      /\ Tail(q)[j] = q[j + 1] /\ Head(q) = q[1]
  BY TailElements
<1>. QED BY <1>1 DEF Ordered

\* So may the head of a queue that precedes another.
LEMMA HeadPrecedes ==
  ASSUME NEW T, NEW q \in Seq(T), q # << >>, NEW r, NEW f, Precedes(q, r, f),
         Head(q).file_id = f
  PROVE  \A j \in DOMAIN r :
           r[j].file_id = f => Head(q).part < r[j].part + WINDOW_SIZE
<1>1. 1 \in DOMAIN q /\ Head(q) = q[1]
  BY TailElements
<1>. QED BY <1>1 DEF Precedes

\* Nothing comes before or after an empty queue.
LEMMA EmptyOrder ==
  ASSUME NEW f, NEW q
  PROVE  Ordered(<< >>, f) /\ Precedes(<< >>, q, f) /\ Precedes(q, << >>, f)
BY DEF Ordered, Precedes

-----------------------------------------------------------------------------
(* What a queue of packets may hold.                                       *)

LEMMA DataTail ==
  ASSUME NEW q \in Seq(Packet), q # << >>, NEW f, NEW p, NEW sent, NEW got,
         DataQueueFits(q, f, p, sent, got)
  PROVE  DataQueueFits(Tail(q), f, p, sent, got)
<1>. SUFFICES ASSUME NEW i \in DOMAIN Tail(q), Tail(q)[i].file_id = f
              PROVE  DataFits(Tail(q)[i], f, p, sent, got)
  BY DEF DataQueueFits
<1>1. i + 1 \in DOMAIN q /\ Tail(q)[i] = q[i + 1]
  BY TailElements
<1>. QED BY <1>1 DEF DataQueueFits

LEMMA DataAppend ==
  ASSUME NEW q \in Seq(Packet), NEW m \in Packet,
         NEW f, NEW p, NEW sent, NEW got,
         DataQueueFits(q, f, p, sent, got),
         m.file_id = f => DataFits(m, f, p, sent, got)
  PROVE  DataQueueFits(Append(q, m), f, p, sent, got)
<1>. SUFFICES ASSUME NEW i \in DOMAIN Append(q, m), Append(q, m)[i].file_id = f
              PROVE  DataFits(Append(q, m)[i], f, p, sent, got)
  BY DEF DataQueueFits
<1>1. \/ i \in DOMAIN q /\ Append(q, m)[i] = q[i]
      \/ Append(q, m)[i] = m
  BY AppendElements
<1>. QED BY <1>1 DEF DataQueueFits

\* Sending more only makes more packets fit.
LEMMA DataSendMore ==
  ASSUME NEW q \in Seq(Packet), NEW f, NEW p, NEW sent \in Nat, NEW got \in Nat,
         DataQueueFits(q, f, p, sent, got)
  PROVE  DataQueueFits(q, f, p, sent + 1, got)
<1>. SUFFICES ASSUME NEW i \in DOMAIN q, q[i].file_id = f
              PROVE  DataFits(q[i], f, p, sent + 1, got)
  BY DEF DataQueueFits
<1>1. q[i].part \in Nat
  <2>1. q[i] \in Packet
    OBVIOUS
  <2>. QED BY <2>1 DEF Packet
<1>. QED BY <1>1 DEF DataQueueFits, DataFits

\* When the head is taken the rest is still within a window of it.
LEMMA DataAdvance ==
  ASSUME NEW q \in Seq(Packet), q # << >>, NEW f, NEW p, NEW sent, NEW got,
         NEW got2 \in Nat,
         DataQueueFits(q, f, p, sent, got), Ordered(q, f),
         Head(q).file_id = f, got2 <= Head(q).part + 1
  PROVE  DataQueueFits(Tail(q), f, p, sent, got2)
<1>. SUFFICES ASSUME NEW i \in DOMAIN Tail(q), Tail(q)[i].file_id = f
              PROVE  DataFits(Tail(q)[i], f, p, sent, got2)
  BY DEF DataQueueFits
<1>1. DataFits(Tail(q)[i], f, p, sent, got)
  BY DataTail DEF DataQueueFits
<1>2. Tail(q)[i] \in Packet /\ Head(q) \in Packet
  BY TailElements
<1>3. Tail(q)[i].part \in Nat /\ Head(q).part \in Nat
  BY <1>2 DEF Packet
<1>4. Head(q).part < Tail(q)[i].part + WINDOW_SIZE
  BY HeadFirst
<1>. QED BY <1>1, <1>3, <1>4, Bounds DEF DataFits

-----------------------------------------------------------------------------
(* What a queue of ACKs may hold.                                          *)

LEMMA AckTail ==
  ASSUME NEW q \in Seq(Ack), q # << >>, NEW f, NEW got, NEW acked,
         AckQueueFits(q, f, got, acked)
  PROVE  AckQueueFits(Tail(q), f, got, acked)
<1>. SUFFICES ASSUME NEW i \in DOMAIN Tail(q), Tail(q)[i].file_id = f
              PROVE  AckFits(Tail(q)[i], got, acked)
  BY DEF AckQueueFits
<1>1. i + 1 \in DOMAIN q /\ Tail(q)[i] = q[i + 1]
  BY TailElements
<1>. QED BY <1>1 DEF AckQueueFits

LEMMA AckAppend ==
  ASSUME NEW q \in Seq(Ack), NEW m \in Ack, NEW f, NEW got, NEW acked,
         AckQueueFits(q, f, got, acked),
         m.file_id = f => AckFits(m, got, acked)
  PROVE  AckQueueFits(Append(q, m), f, got, acked)
<1>. SUFFICES ASSUME NEW i \in DOMAIN Append(q, m), Append(q, m)[i].file_id = f
              PROVE  AckFits(Append(q, m)[i], got, acked)
  BY DEF AckQueueFits
<1>1. \/ i \in DOMAIN q /\ Append(q, m)[i] = q[i]
      \/ Append(q, m)[i] = m
  BY AppendElements
<1>. QED BY <1>1 DEF AckQueueFits

\* Taking more only makes more ACKs fit.
LEMMA AckTakeMore ==
  ASSUME NEW q \in Seq(Ack), NEW f, NEW got \in Nat, NEW got2 \in Nat, NEW acked,
         got <= got2, AckQueueFits(q, f, got, acked)
  PROVE  AckQueueFits(q, f, got2, acked)
<1>. SUFFICES ASSUME NEW i \in DOMAIN q, q[i].file_id = f
              PROVE  AckFits(q[i], got2, acked)
  BY DEF AckQueueFits
<1>1. q[i].part \in Nat
  <2>1. q[i] \in Ack
    OBVIOUS
  <2>. QED BY <2>1 DEF Ack
<1>. QED BY <1>1 DEF AckQueueFits, AckFits

\* Once an ACK of part k is believed, those that follow it are within a window.
LEMMA AckAdvance ==
  ASSUME NEW q \in Seq(Ack), NEW f, NEW got, NEW acked, NEW k \in Nat,
         AckQueueFits(q, f, got, acked),
         \A i \in DOMAIN q : q[i].file_id = f => k < q[i].part + WINDOW_SIZE
  PROVE  AckQueueFits(q, f, got, k + 1)
<1>. SUFFICES ASSUME NEW i \in DOMAIN q, q[i].file_id = f
              PROVE  AckFits(q[i], got, k + 1)
  BY DEF AckQueueFits
<1>1. q[i].part \in Nat
  <2>1. q[i] \in Ack
    OBVIOUS
  <2>. QED BY <2>1 DEF Ack
<1>. QED BY <1>1, Bounds DEF AckQueueFits, AckFits
=============================================================================
