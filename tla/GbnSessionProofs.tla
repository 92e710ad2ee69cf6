-------------------------- MODULE GbnSessionProofs --------------------------
(***************************************************************************)
(* Proofs about GbnSession: batch after batch, the threads are the mailbox *)
(* of AckMailbox; and without early timers, whatever is lost, interrupted  *)
(* or started again, a transfer of any batch that is reported complete was *)
(* closed whole by the receiver, and no two files get mixed.               *)
(***************************************************************************)
EXTENDS SessionInv, GbnProofs, OutputFilesProofs

-----------------------------------------------------------------------------
(* The shape of the state, with early timers too.                          *)

\* A step of the session is a step of the batch, or one of three others.
LEMMA SessionCases ==
  ASSUME [SessionNext]_allVars
  PROVE  [Next]_vars \/ StartBatch \/ Interrupt \/ Restart
<1>1. ASSUME NEW f \in FileIds, Handle(f) PROVE Receive(f)
  BY <1>1 DEF Handle, Receive
<1>. QED BY <1>1 DEF SessionNext, Next, StopRouting, Exit, allVars, sessionVars

LEMMA StartTypes ==
  ASSUME TypeOK, BatchInv, StartBatch
  PROVE  TypeOK' /\ BatchInv'
<1>1. toSender' \in Seq(Ack)
  <2>1. << >> \in Seq(Ack)
    OBVIOUS
  <2>. QED BY <2>1 DEF StartBatch, TypeOK
<1>2. PICK n \in {f + 1 : f \in FileIds} :
        \E names \in [FirstIds(n) -> Files] :
          /\ ack_states' = FirstIds(n)
          /\ file' = [f \in FileIds |-> IF f < n THEN names[f] ELSE file[f]]
          /\ pc' = [f \in FileIds |-> IF f < n THEN "send" ELSE "done"]
  BY DEF StartBatch
<1>3. file' \in [FileIds -> Files]
  BY <1>2 DEF TypeOK, SenderTypeOK, FirstIds
<1>4. pc' \in [FileIds -> {"send", "acks", "resend", "done"}]
  BY <1>2
<1>5. 0 \in SeqNums /\ 0 \in Nat
  BY Bounds DEF SeqNums
<1>6. /\ base' \in [FileIds -> SeqNums] /\ nextseqnum' \in [FileIds -> SeqNums]
      /\ buffer' \in [FileIds -> [SeqNums -> Packet \cup {None}]]
      /\ timer' \in [FileIds -> BOOLEAN] /\ started' \in [FileIds -> BOOLEAN]
      /\ read' \in [FileIds -> Nat] /\ eof_reached' \in [FileIds -> BOOLEAN]
      /\ seq' \in [FileIds -> SeqNums]
  BY <1>5 DEF StartBatch
<1>7. acks' \in [FileIds -> Seq(Ack)] /\ ack_queue' \in [FileIds -> Seq(Ack)]
  <2>1. << >> \in Seq(Ack)
    OBVIOUS
  <2>. QED BY <2>1 DEF StartBatch
<1>8. ReceiverTypeOK' /\ toReceiver' \in Seq(Packet)
  BY DEF StartBatch, TypeOK, ReceiverTypeOK
<1>9. BatchInv'
  <2>1. n \in Nat /\ 0 < n /\ 0 \in FileIds
    BY SessionAssumption
  <2>2. 0 \in ack_states' /\ ack_states' \subseteq FileIds
    BY <1>2, <2>1 DEF FirstIds
  <2>. QED BY <2>2 DEF BatchInv, StartBatch
<1>. QED BY <1>1, <1>3, <1>4, <1>6, <1>7, <1>8, <1>9 DEF TypeOK, SenderTypeOK

LEMMA InterruptTypes ==
  ASSUME TypeOK, BatchInv, Interrupt
  PROVE  TypeOK' /\ BatchInv'
BY DEF Interrupt, TypeOK, SenderTypeOK, ReceiverTypeOK, BatchInv, fileVars,
       windowVars, ackVars, wireVars, receiverVars

LEMMA RestartTypes ==
  ASSUME TypeOK, BatchInv, Restart
  PROVE  TypeOK' /\ BatchInv'
<1>1. /\ SenderTypeOK' /\ toSender' \in Seq(Ack)
  BY DEF Restart, TypeOK, SenderTypeOK, senderVars, fileVars, windowVars, ackVars
<1>2. << >> \in Seq(Packet) /\ << >> \in Seq(Chunk) /\ 0 \in SeqNums
  BY Bounds DEF SeqNums
<1>3. ReceiverTypeOK' /\ toReceiver' \in Seq(Packet)
  BY <1>2 DEF Restart, TypeOK, ReceiverTypeOK
<1>4. BatchInv'
  BY DEF Restart, OpenIds, BatchInv
<1>. QED BY <1>1, <1>3, <1>4 DEF TypeOK

LEMMA SessionTypes ==
  ASSUME TypeOK, BatchInv, [SessionNext]_allVars
  PROVE  TypeOK' /\ BatchInv'
<1>1. CASE [Next]_vars
  <2>1. TypeOK'
    BY <1>1, TypeNext
  <2>2. CASE StartBatch \/ Interrupt \/ Restart
    BY <2>2, StartTypes, InterruptTypes, RestartTypes
  <2>3. CASE ~(StartBatch \/ Interrupt \/ Restart)
    BY <2>1, <2>3 DEF BatchInv, SessionNext, StopRouting, Exit, allVars, sessionVars
  <2>. QED BY <2>2, <2>3
<1>. QED BY <1>1, SessionCases, StartTypes, InterruptTypes, RestartTypes

\* A step of the thread of f keeps what is said of it.
LEMMA ThreadStep ==
  ASSUME TypeOK, NEW f \in FileIds, ThreadInv(f), ack_states' = ack_states,
         SenderStep(f) \/ Timeout(f) \/ RouteAck(f)
  PROVE  ThreadInv(f)'
<1>1. CASE SendStart(f) \/ SendData(f) \/ SendEnd(f)
  <2>1. PICK ptype, part : Transmit(f, ptype, part)
    BY <1>1 DEF SendStart, SendData, SendEnd
  <2>2. pc' = pc /\ acks' = acks
    BY <2>1 DEF Transmit, ackVars
  <2>3. OwnBuffer(f)'
    BY <2>1 DEF Transmit, OwnBuffer, ThreadInv, TypeOK, SenderTypeOK
  <2>. QED BY <2>2, <2>3 DEF ThreadInv
<1>2. CASE AcceptAck(f)
  <2>1. pc' = pc /\ pc[f] = "acks"
    BY <1>2 DEF AcceptAck
  <2>2. OwnBuffer(f)'
    BY <1>2 DEF AcceptAck, Freed, OwnBuffer, ThreadInv, TypeOK, SenderTypeOK
  <2>. QED BY <2>1, <2>2 DEF ThreadInv
<1>3. CASE Drain(f) \/ IgnoreAck(f) \/ NoTimeout(f) \/ Timeout(f)
  BY <1>3 DEF ThreadInv, OwnBuffer, Drain, IgnoreAck, NoTimeout, Timeout,
              TypeOK, SenderTypeOK, windowVars, ackVars
<1>4. CASE Resend(f)
  BY <1>4 DEF ThreadInv, OwnBuffer, Resend, TypeOK, SenderTypeOK, ackVars
<1>5. CASE RouteAck(f)
  BY <1>5 DEF ThreadInv, OwnBuffer, RouteAck, windowVars
<1>. QED BY <1>1, <1>2, <1>3, <1>4, <1>5 DEF SenderStep

LEMMA ThreadNext ==
  ASSUME ShapeInv, [SessionNext]_allVars, NEW g \in FileIds
  PROVE  ThreadInv(g)'
<1>0. TypeOK /\ BatchInv /\ \A f \in FileIds : ThreadInv(f)
  BY DEF ShapeInv
<1>1. ASSUME NEW f \in FileIds, SenderStep(f) \/ Timeout(f) \/ RouteAck(f),
             UNCHANGED sessionVars
      PROVE  ThreadInv(g)'
  <2>1. ack_states' = ack_states
    BY <1>1 DEF sessionVars
  <2>2. CASE g = f
    BY <1>0, <1>1, <2>1, <2>2, ThreadStep
  <2>3. CASE g # f
    <3>1. Still(g)
      BY <1>0, <1>1, <2>3, SenderLocal
    <3>. QED BY <1>0, <2>1, <3>1 DEF ThreadInv, OwnBuffer, Still
  <2>. QED BY <2>2, <2>3
<1>2. CASE StartBatch
  BY <1>2, SessionAssumption DEF StartBatch, FirstIds, ThreadInv, OwnBuffer
<1>3. CASE Interrupt
  BY <1>0, <1>3 DEF Interrupt, ThreadInv, OwnBuffer, windowVars
<1>4. CASE UNCHANGED <<senderVars, ack_states>>
  BY <1>0, <1>4 DEF ThreadInv, OwnBuffer, senderVars, windowVars, ackVars
<1>5. CASE Restart
  BY <1>4, <1>5 DEF Restart
<1>. QED BY <1>1, <1>2, <1>3, <1>4, <1>5
         DEF SessionNext, StopRouting, Exit, allVars, vars, sessionVars

LEMMA ShapeInit == SessionInit => ShapeInv
<1>. SUFFICES ASSUME SessionInit PROVE ShapeInv
  OBVIOUS
<1>1. TypeOK /\ BatchInv
  BY TypeInit, SessionAssumption DEF SessionInit, BatchInv
<1>2. ASSUME NEW f \in FileIds PROVE ThreadInv(f)
  BY DEF SessionInit, Init, SenderInit, ThreadInv, OwnBuffer
<1>. QED BY <1>1, <1>2 DEF ShapeInv

LEMMA ShapeNext == ShapeInv /\ [SessionNext]_allVars => ShapeInv'
BY SessionTypes, ThreadNext DEF ShapeInv

\* Whatever the timers do, the threads are those of the batch, and a thread
\* begins a round with no ACK left to handle.
LEMMA ShapeKept == SessionSpec => []ShapeInv
<1>. QED BY ShapeInit, ShapeNext, PTL DEF SessionSpec

-----------------------------------------------------------------------------
(* The threads are a mailbox.                                              *)

\* Nothing that the mailbox speaks of changes.
Unseen ==
  /\ UNCHANGED <<acks, ack_queue, toSender, ack_states>>
  /\ \A g \in FileIds : (pc'[g] = "done") = (pc[g] = "done")

LEMMA UnseenStutters ==
  ASSUME BatchInv, Unseen
  PROVE  UNCHANGED Mailbox!vars
<1>1. Open' = Open
  BY DEF Open, Unseen, BatchInv
<1>2. Box' = Box /\ Hand' = Hand
  BY DEF Box, Hand, Unseen
<1>. QED BY <1>1, <1>2 DEF Unseen, Mailbox!vars

\* Threads that return leave the mailbox.
LEMMA ReturnLeaves ==
  ASSUME ShapeInv, NEW f \in FileIds, pc[f] # "done", pc'[f] = "done",
         UNCHANGED <<acks, ack_queue, toSender>>,
         \A g \in FileIds : pc'[g] \in {pc[g], "done"},
         \/ ack_states' = ack_states
         \/ ack_states' = {} /\ \A g \in FileIds : pc'[g] = "done"
  PROVE  Mailbox!Leave
<1>. DEFINE gone == Open \ Open'
<1>1. f \in Open /\ f \notin Open'
  BY DEF ShapeInv, ThreadInv, Open
<1>2. Open' \subseteq Open
  BY DEF Open, ShapeInv, BatchInv
<1>3. \A g \in FileIds : g \in gone <=> pc[g] # "done" /\ pc'[g] = "done"
  BY DEF Open, ShapeInv, ThreadInv
<1>. HIDE DEF gone
<1>4. Box' = [g \in FileIds |-> IF g \in gone THEN << >> ELSE Box[g]]
  BY <1>3 DEF Box
<1>5. Hand' = [g \in FileIds |-> IF g \in gone THEN << >> ELSE Hand[g]]
  BY <1>3 DEF Hand
<1>. QED BY <1>1, <1>2, <1>4, <1>5 DEF Mailbox!Leave, gone

\* A thread sends, drains, handles an ACK, or returns.
LEMMA ThreadMailbox ==
  ASSUME ShapeInv, NEW f \in FileIds, SenderStep(f) \/ Timeout(f),
         UNCHANGED sessionVars
  PROVE  [Mailbox!Next]_(Mailbox!vars)
<1>1. /\ TypeOK /\ BatchInv /\ ThreadInv(f) /\ ack_states' = ack_states
      /\ acks \in [FileIds -> Seq(Ack)] /\ ack_queue \in [FileIds -> Seq(Ack)]
      /\ pc \in [FileIds -> {"send", "acks", "resend", "done"}]
  BY DEF ShapeInv, TypeOK, SenderTypeOK, sessionVars
<1>2. CASE SendStart(f) \/ SendData(f) \/ SendEnd(f)
  <2>1. Unseen
    BY <1>1, <1>2 DEF Unseen, SendStart, SendData, SendEnd, Transmit, ackVars
  <2>. QED BY <1>1, <2>1, UnseenStutters
<1>3. CASE Timeout(f) \/ NoTimeout(f) \/ Resend(f)
  <2>1. /\ UNCHANGED <<acks, ack_queue, toSender>> /\ pc[f] # "done"
        /\ \A g \in FileIds \ {f} : pc'[g] = pc[g]
    BY <1>1, <1>3 DEF Timeout, NoTimeout, Resend, ackVars, wireVars
  <2>2. CASE pc'[f] = "done"
    <3>1. Mailbox!Leave
      BY <1>1, <2>1, <2>2, ReturnLeaves
    <3>. QED BY <3>1 DEF Mailbox!Next
  <2>3. CASE pc'[f] # "done"
    <3>1. Unseen
      BY <1>1, <2>1, <2>3 DEF Unseen
    <3>. QED BY <1>1, <3>1, UnseenStutters
  <2>. QED BY <2>2, <2>3
<1>4. CASE Drain(f)
  <2>1. /\ pc[f] = "send" /\ pc' = [pc EXCEPT ![f] = "acks"] /\ toSender' = toSender
        /\ acks' = [acks EXCEPT ![f] = ack_queue[f]]
        /\ ack_queue' = [ack_queue EXCEPT ![f] = << >>]
    BY <1>4 DEF Drain, wireVars
  <2>2. Open' = Open
    BY <1>1, <2>1 DEF Open, BatchInv
  <2>3. Hand[f] = << >> /\ Hand' = [Hand EXCEPT ![f] = Box[f]]
    BY <1>1, <2>1 DEF Box, Hand, ThreadInv
  <2>4. Box' = [Box EXCEPT ![f] = << >>]
    BY <1>1, <2>1 DEF Box
  <2>. QED BY <2>1, <2>2, <2>3, <2>4 DEF Mailbox!Next, Mailbox!Collect
<1>5. CASE AcceptAck(f) \/ IgnoreAck(f)
  <2>1. /\ pc[f] = "acks" /\ pc' = pc /\ ack_queue' = ack_queue
        /\ toSender' = toSender /\ acks[f] # << >>
        /\ acks' = [acks EXCEPT ![f] = Tail(@)]
    BY <1>5 DEF AcceptAck, IgnoreAck, wireVars
  <2>2. Open' = Open /\ Box' = Box
    BY <1>1, <2>1 DEF Open, Box
  <2>3. Hand[f] \in Seq(Ack) /\ Hand[f] # << >>
    BY <1>1, <2>1 DEF Hand
  <2>4. Hand' = [Hand EXCEPT ![f] = Tail(Hand[f])]
    BY <1>1, <2>1 DEF Hand
  <2>5. 1 \in 1 .. Len(Hand[f]) /\ Tail(Hand[f]) = SubSeq(Hand[f], 1 + 1, Len(Hand[f]))
    <3>1. Len(Hand[f]) \in Nat /\ Len(Hand[f]) > 0
      BY <2>3
    <3>. QED BY <2>3, <3>1, TailIsSubSeq
  <2>6. Mailbox!Use(f)
    BY <2>1, <2>2, <2>4, <2>5 DEF Mailbox!Use
  <2>. QED BY <2>6 DEF Mailbox!Next
<1>. QED BY <1>2, <1>3, <1>4, <1>5 DEF SenderStep

\* ack_receiver routes.
LEMMA RouterMailbox ==
  ASSUME ShapeInv, NEW f \in FileIds, RouteAck(f), UNCHANGED sessionVars
  PROVE  Mailbox!Route
<1>1. /\ TypeOK /\ BatchInv /\ ThreadInv(f) /\ ack_states' = ack_states
      /\ ack_queue \in [FileIds -> Seq(Ack)] /\ pc' = pc /\ acks' = acks
  BY DEF ShapeInv, TypeOK, SenderTypeOK, sessionVars, RouteAck
<1>2. toSender # << >> /\ toSender' = Tail(toSender) /\ Head(toSender).file_id = f
  BY DEF RouteAck
<1>3. Open' = Open /\ Hand' = Hand
  BY <1>1 DEF Open, Hand
<1>4. f \in Open <=> pc[f] # "done"
  BY <1>1 DEF Open, ThreadInv
<1>5. Box' = IF f \in Open THEN [Box EXCEPT ![f] = Append(@, Head(toSender))] ELSE Box
  <2>1. CASE pc[f] = "done"
    BY <1>1, <1>4, <2>1 DEF RouteAck, Box
  <2>2. CASE pc[f] # "done"
    <3>. DEFINE a == Head(toSender)
    <3>1. ack_queue' = [ack_queue EXCEPT ![f] = Append(@, a)]
      BY <2>2 DEF RouteAck
    <3>. HIDE DEF a
    <3>2. Box' = [Box EXCEPT ![f] = Append(@, a)]
      BY <1>1, <2>2, <3>1 DEF Box
    <3>. QED BY <1>4, <2>2, <3>2 DEF a
  <2>. QED BY <2>1, <2>2
<1>. QED BY <1>2, <1>3, <1>5 DEF Mailbox!Route

\* The receiver's ACKs arrive, or find the socket full.
LEMMA ReceiverMailbox ==
  ASSUME ShapeInv, NEW f \in FileIds, Receive(f), UNCHANGED <<senderVars, sessionVars>>
  PROVE  [Mailbox!Next]_(Mailbox!vars)
<1>1. /\ TypeOK /\ BatchInv /\ pc' = pc /\ toSender \in Seq(Ack)
      /\ acks' = acks /\ ack_queue' = ack_queue /\ ack_states' = ack_states
  BY DEF ShapeInv, TypeOK, senderVars, ackVars, sessionVars
<1>2. CASE toSender' = toSender
  <2>1. Unseen
    BY <1>1, <1>2 DEF Unseen
  <2>. QED BY <1>1, <2>1, UnseenStutters
<1>3. ASSUME NEW m \in Ack, toSender' = Append(toSender, m)
      PROVE  [Mailbox!Next]_(Mailbox!vars)
  <2>1. Open' = Open /\ Box' = Box /\ Hand' = Hand
    BY <1>1 DEF Open, Box, Hand
  <2>2. Len(toSender') = Len(toSender) + 1 /\ SubSeq(toSender', 1, Len(toSender)) = toSender
    BY <1>1, <1>3
  <2>3. Mailbox!Arrive
    BY <2>1, <2>2 DEF Mailbox!Arrive
  <2>. QED BY <2>3 DEF Mailbox!Next
<1>4. toSender' = toSender \/ \E m \in Ack : toSender' = Append(toSender, m)
  <2>1. toSender' = toSender \/ \E cap, m : m \in Ack /\ toSender' = Put(toSender, cap, m)
    BY <1>1, ReceiverWire
  <2>. QED BY <2>1 DEF Put
<1>. QED BY <1>2, <1>3, <1>4

\* A new batch begins with nothing put aside.
LEMMA BatchMailbox ==
  ASSUME ShapeInv, StartBatch
  PROVE  Mailbox!NewBatch
<1>1. BatchInv /\ BatchInv'
  BY StartTypes DEF ShapeInv
<1>2. Open = {} /\ Open' \in SUBSET FileIds
  BY <1>1 DEF StartBatch, AllDone, Open, BatchInv
<1>3. Box' = Box /\ Hand' = Hand
  BY DEF StartBatch, AllDone, Box, Hand
<1>4. toSender' = toSender \/ (Interrupts /\ toSender' = << >>)
  BY <1>1 DEF StartBatch, BatchInv
<1>. QED BY <1>2, <1>3, <1>4 DEF Mailbox!NewBatch

LEMMA SessionMailboxInit == SessionInit => Mailbox!Init
<1>. SUFFICES ASSUME SessionInit PROVE Mailbox!Init
  OBVIOUS
<1>1. Open = FileIds
  BY DEF SessionInit, Init, SenderInit, Open
<1>2. Box = Mailbox!Empty /\ Hand = Mailbox!Empty
  BY DEF SessionInit, Init, SenderInit, Box, Hand, Mailbox!Empty
<1>. QED BY <1>1, <1>2, SessionAssumption
         DEF SessionInit, Init, WireInit, Mailbox!Init

LEMMA SessionMailboxNext ==
  ShapeInv /\ [SessionNext]_allVars => [Mailbox!Next]_(Mailbox!vars)
<1>. SUFFICES ASSUME ShapeInv, [SessionNext]_allVars
              PROVE  [Mailbox!Next]_(Mailbox!vars)
  OBVIOUS
<1>0. BatchInv
  BY DEF ShapeInv
<1>1. ASSUME NEW f \in FileIds, SenderStep(f) \/ Timeout(f) \/ RouteAck(f),
             UNCHANGED sessionVars
      PROVE  [Mailbox!Next]_(Mailbox!vars)
  BY <1>1, ThreadMailbox, RouterMailbox DEF Mailbox!Next
<1>2. ASSUME NEW f \in FileIds, Handle(f), UNCHANGED <<senderVars, sessionVars>>
      PROVE  [Mailbox!Next]_(Mailbox!vars)
  BY <1>2, ReceiverMailbox DEF Handle, Receive
<1>3. CASE LoseAck /\ UNCHANGED <<senderVars, receiverVars, sessionVars, diskVars>>
  <2>1. Open' = Open /\ Box' = Box /\ Hand' = Hand
    BY <1>3 DEF Open, Box, Hand, senderVars, ackVars, sessionVars
  <2>2. Mailbox!Lose
    BY <1>3, <2>1 DEF LoseAck, Mailbox!Lose
  <2>. QED BY <2>2 DEF Mailbox!Next
<1>4. CASE \/ LoseData /\ UNCHANGED <<senderVars, sessionVars, diskVars>>
           \/ StopRouting \/ Restart \/ Exit \/ UNCHANGED allVars
  <2>1. Unseen
    BY <1>4 DEF Unseen, LoseData, StopRouting, Restart, Exit, allVars, vars,
                senderVars, ackVars, wireVars, sessionVars
  <2>. QED BY <1>0, <2>1, UnseenStutters
<1>5. CASE Interrupt
  <2>1. PICK f \in FileIds : pc[f] # "done"
    BY <1>5 DEF Interrupt, AllDone
  <2>2. /\ \A g \in FileIds : pc'[g] = "done"
        /\ UNCHANGED <<acks, ack_queue, toSender>> /\ ack_states' = {}
    BY <1>5 DEF Interrupt, ackVars, wireVars
  <2>3. Mailbox!Leave
    BY <2>1, <2>2, ReturnLeaves
  <2>. QED BY <2>3 DEF Mailbox!Next
<1>6. CASE StartBatch
  BY <1>6, BatchMailbox DEF Mailbox!Next
<1>. QED BY <1>1, <1>2, <1>3, <1>4, <1>5, <1>6 DEF SessionNext

(* Batch after batch, whatever the timers do and whether or not the sender *)
(* is interrupted: the atomic routing and draining of GbnSession implement *)
(* the mailbox that the threads and locks of AckDemux also implement       *)
(* (sender_gbn.py:122-126, 176-206, 254-289).                              *)
THEOREM SessionMailbox == SessionSpec => ImplementsMailbox
<1>. QED BY SessionMailboxInit, SessionMailboxNext, ShapeKept, PTL
         DEF SessionSpec, ImplementsMailbox, Mailbox!Spec

-----------------------------------------------------------------------------
(* Queues from which messages of a stream are only taken.                  *)

\* The messages of f in r are in q, in the same order.
Thinner(q, r, f) ==
  \E shift \in {0, 1} :
    \A i \in DOMAIN r :
      r[i].file_id = f => i + shift \in DOMAIN q /\ r[i] = q[i + shift]

\* What a step that adds nothing of f does to a queue.
LEMMA ThinnerCases ==
  ASSUME NEW T, NEW q \in Seq(T), NEW r, NEW f,
         \/ r = q
         \/ r = << >>
         \/ q # << >> /\ r = Tail(q)
         \/ \E cap, m : m \in T /\ m.file_id # f /\ r = Put(q, cap, m)
  PROVE  Thinner(q, r, f)
<1>1. CASE r = q
  <2>1. \A i \in DOMAIN r : i + 0 = i
    BY <1>1
  <2>. QED BY <1>1, <2>1 DEF Thinner
<1>2. CASE r = << >>
  BY <1>2 DEF Thinner
<1>3. CASE q # << >> /\ r = Tail(q)
  <2>1. \A i \in DOMAIN r : i + 1 \in DOMAIN q /\ r[i] = q[i + 1]
    BY <1>3, TailElements
  <2>. QED BY <2>1 DEF Thinner
<1>4. ASSUME NEW m \in T, m.file_id # f, r = Append(q, m)
      PROVE  Thinner(q, r, f)
  <2>1. \A i \in DOMAIN r : r[i].file_id = f => i + 0 \in DOMAIN q /\ r[i] = q[i + 0]
    BY <1>4, AppendElements
  <2>. QED BY <2>1 DEF Thinner
<1>. QED BY <1>1, <1>2, <1>3, <1>4 DEF Put

\* What is said of q is true of r.
LEMMA Thinned ==
  ASSUME NEW T, NEW q \in Seq(T), NEW r \in Seq(T), NEW f, Thinner(q, r, f)
  PROVE  /\ Rising(q, f) => Rising(r, f)
         /\ NoneOf(q, f) => NoneOf(r, f)
         /\ \A k : /\ Below(q, f, k) => Below(r, f, k)
                   /\ Without(q, f, k) => Without(r, f, k)
                   /\ Final(q, f, k) => Final(r, f, k)
         /\ \A p, k : /\ FinalBefore(p, q, f, k) => FinalBefore(p, r, f, k)
                      /\ FinalBefore(q, p, f, k) => FinalBefore(r, p, f, k)
<1>1. PICK shift \in {0, 1} :
        \A i \in DOMAIN r :
          r[i].file_id = f => i + shift \in DOMAIN q /\ r[i] = q[i + shift]
  BY DEF Thinner
<1>2. \A i, j \in DOMAIN r : i < j => i + shift < j + shift
  OBVIOUS
<1>3. Rising(q, f) => Rising(r, f)
  BY <1>1, <1>2 DEF Rising
<1>4. NoneOf(q, f) => NoneOf(r, f)
  BY <1>1 DEF NoneOf
<1>5. ASSUME NEW k
      PROVE  /\ Below(q, f, k) => Below(r, f, k)
             /\ Without(q, f, k) => Without(r, f, k)
             /\ Final(q, f, k) => Final(r, f, k)
  BY <1>1, <1>2 DEF Below, Without, Final
<1>6. ASSUME NEW p, NEW k
      PROVE  /\ FinalBefore(p, q, f, k) => FinalBefore(p, r, f, k)
             /\ FinalBefore(q, p, f, k) => FinalBefore(r, p, f, k)
  BY <1>1 DEF FinalBefore
<1>. QED BY <1>3, <1>4, <1>5, <1>6

\* An empty queue has nothing of any stream.
LEMMA EmptyQueue ==
  ASSUME NEW f, NEW k, NEW q
  PROVE  /\ Rising(<< >>, f) /\ NoneOf(<< >>, f) /\ Below(<< >>, f, k)
         /\ Without(<< >>, f, k) /\ Final(<< >>, f, k)
         /\ FinalBefore(<< >>, q, f, k) /\ FinalBefore(q, << >>, f, k)
BY DEF Rising, NoneOf, Below, Without, Final, FinalBefore

\* A message of f put behind the others.
LEMMA Appended ==
  ASSUME NEW T, NEW q \in Seq(T), NEW m \in T, NEW f, m.file_id = f
  PROVE  /\ Rising(q, f) /\ Below(q, f, m.part) => Rising(Append(q, m), f)
         /\ \A k : /\ Below(q, f, k) /\ m.part < k => Below(Append(q, m), f, k)
                   /\ Without(q, f, k) /\ m.part # k => Without(Append(q, m), f, k)
                   /\ Without(q, f, k) => Final(Append(q, m), f, k)
         /\ \A p, k : Without(p, f, k) => FinalBefore(p, Append(q, m), f, k)
<1>. DEFINE r == Append(q, m)
<1>1. \A i \in DOMAIN r : (i \in DOMAIN q /\ r[i] = q[i]) \/ r[i] = m
  BY AppendElements
<1>2. \A i, j \in DOMAIN r : i < j => i \in DOMAIN q /\ r[i] = q[i]
  BY AppendElements
<1>. HIDE DEF r
<1>3. Rising(q, f) /\ Below(q, f, m.part) => Rising(r, f)
  BY <1>1, <1>2 DEF Rising, Below
<1>4. ASSUME NEW k
      PROVE  /\ Below(q, f, k) /\ m.part < k => Below(r, f, k)
             /\ Without(q, f, k) /\ m.part # k => Without(r, f, k)
             /\ Without(q, f, k) => Final(r, f, k)
  BY <1>1, <1>2 DEF Below, Without, Final
<1>5. ASSUME NEW p, NEW k
      PROVE  Without(p, f, k) => FinalBefore(p, r, f, k)
  BY DEF Without, FinalBefore
<1>. QED BY <1>3, <1>4, <1>5 DEF r

\* Below is wider for a larger bound.
LEMMA BelowMore ==
  ASSUME NEW q \in Seq(Packet), NEW f, NEW k \in Nat, Below(q, f, k)
  PROVE  Below(q, f, k + 1)
<1>. SUFFICES ASSUME NEW i \in DOMAIN q, q[i].file_id = f PROVE q[i].part < k + 1
  BY DEF Below
<1>1. q[i] \in Packet
  OBVIOUS
<1>2. q[i].part \in Nat
  BY <1>1 DEF Packet
<1>. QED BY <1>2 DEF Below

-----------------------------------------------------------------------------
(* Steps that leave a stream alone.                                        *)

\* A stream whose state is untouched, and of which messages are only taken.
LEMMA StreamOthers ==
  ASSUME TypeOK, TypeOK', NEW g \in FileIds, StreamInv(g), Still(g), ReceiverStill(g),
         ack_states' = ack_states,
         \/ toReceiver' = toReceiver
         \/ toReceiver # << >> /\ toReceiver' = Tail(toReceiver)
         \/ \E cap, m : m \in Packet /\ m.file_id # g
                       /\ toReceiver' = Put(toReceiver, cap, m),
         \/ toSender' = toSender
         \/ toSender # << >> /\ toSender' = Tail(toSender)
         \/ \E cap, m : m \in Ack /\ m.file_id # g
                       /\ toSender' = Put(toSender, cap, m)
  PROVE  StreamInv(g)'
<1>1. CoreInv(g)' /\ (PcInv(g) => PcInv(g)')
  BY Others DEF StreamInv
<1>2. /\ toReceiver \in Seq(Packet) /\ toReceiver' \in Seq(Packet)
      /\ toSender \in Seq(Ack) /\ toSender' \in Seq(Ack)
  BY DEF TypeOK
<1>3. Thinner(toReceiver, toReceiver', g)
  BY <1>2, ThinnerCases
<1>4. Thinner(toSender, toSender', g)
  BY <1>2, ThinnerCases
<1>5. /\ Rising(toReceiver, g) => Rising(toReceiver', g)
      /\ NoneOf(toReceiver, g) => NoneOf(toReceiver', g)
      /\ \A k : Below(toReceiver, g, k) => Below(toReceiver', g, k)
  BY <1>2, <1>3, Thinned
<1>6. /\ NoneOf(toSender, g) => NoneOf(toSender', g)
      /\ \A k : /\ Without(toSender, g, k) => Without(toSender', g, k)
                /\ Final(toSender, g, k) => Final(toSender', g, k)
      /\ \A p, k : FinalBefore(p, toSender, g, k) => FinalBefore(p, toSender', g, k)
  BY <1>2, <1>4, Thinned
<1>7. /\ AckedParts(g)' = AckedParts(g) /\ LastPart(file[g])' = LastPart(file[g])
      /\ pc'[g] = pc[g] /\ seq'[g] = seq[g] /\ base'[g] = base[g]
      /\ acks'[g] = acks[g] /\ ack_queue'[g] = ack_queue[g] /\ handle'[g] = handle[g]
  BY SameSender DEF Still, ReceiverStill, LastPart
<1>8. RoundInv(g) => RoundInv(g)'
  BY <1>5, <1>7 DEF RoundInv
<1>9. EndInv(g) => EndInv(g)'
  BY <1>5, <1>6, <1>7 DEF EndInv, NoEndAck
<1>10. Settled(g) => Settled(g)'
  BY <1>5, <1>6, <1>7 DEF Settled, Quiet, NoneOf
<1>11. SettledInv(g) => SettledInv(g)'
  BY <1>7, <1>10 DEF SettledInv
<1>. QED BY <1>1, <1>8, <1>9, <1>10, <1>11 DEF StreamInv

-----------------------------------------------------------------------------
(* The steps of the thread of a stream of the batch.                       *)

LiveInv(f) == RunInv(f) /\ RoundInv(f) /\ EndInv(f) /\ SettledInv(f)

\* Until the receiver has taken the END it does not ACK it.
LEMMA NoEndYet ==
  ASSUME TypeOK, NEW f \in FileIds, CoreInv(f), GotParts(f) <= LastPart(file[f])
  PROVE  NoEndAck(f)
<1>1. /\ GotParts(f) \in Nat /\ LastPart(file[f]) \in Nat
      /\ acks[f] \in Seq(Ack) /\ ack_queue[f] \in Seq(Ack) /\ toSender \in Seq(Ack)
  BY Counts DEF TypeOK, SenderTypeOK
<1>2. ASSUME NEW q \in Seq(Ack), AckQueueFits(q, f, GotParts(f), AckedParts(f))
      PROVE  Without(q, f, LastPart(file[f]))
  <2>. SUFFICES ASSUME NEW i \in DOMAIN q, q[i].file_id = f
                PROVE  q[i].part # LastPart(file[f])
    BY DEF Without
  <2>1. q[i].part < GotParts(f)
    BY <1>2 DEF AckQueueFits, AckFits
  <2>. QED BY <1>1, <2>1
<1>. QED BY <1>1, <1>2 DEF NoEndAck, CoreInv, AckValueInv

\* The sending loop: END has not been sent, and the packet is a new one.
LEMMA LiveSend ==
  ASSUME TypeOK, NEW f \in FileIds, LiveInv(f), UNCHANGED receiverVars,
         SendStart(f) \/ SendData(f) \/ SendEnd(f)
  PROVE  LiveInv(f)'
<1>0. RunInv(f) /\ CoreInv(f)
  BY DEF LiveInv, RunInv
<1>1. /\ RunInv(f)' /\ AckedParts(f)' = AckedParts(f)
      /\ SentParts(f)' = SentParts(f) + 1
      /\ \E ptype : Transmit(f, ptype, SentParts(f))
  BY <1>0, StartInv, SendDataInv, SendEndInv
<1>2. PICK ptype : Transmit(f, ptype, SentParts(f))
  BY <1>1
<1>3. ~eof_reached[f] /\ pc[f] = "send"
  BY DEF SendStart, SendData, SendEnd, CanSend
<1>4. /\ UNCHANGED <<file, pc, acks, ack_queue, toSender>> /\ handle' = handle
  BY <1>2 DEF Transmit, ackVars, receiverVars
<1>5. /\ SentParts(f) <= LastPart(file[f]) /\ SentParts(f) \in Nat
      /\ AckedParts(f) <= GotParts(f) /\ GotParts(f) <= SentParts(f)
      /\ AckedParts(f) \in Int /\ GotParts(f) \in Nat /\ LastPart(file[f]) \in Nat
  BY <1>0, <1>3, SentBound, Counts DEF CoreInv, ReceiverInv
<1>6. NoEndAck(f)
  BY <1>0, <1>5, NoEndYet
<1>. DEFINE m == [file_id |-> f, seq_num |-> nextseqnum[f], ptype |-> ptype,
                  path |-> file[f], part |-> SentParts(f)]
<1>7. toReceiver' = Put(toReceiver, DataCap, m) /\ m.file_id = f /\ m.part = SentParts(f)
  BY <1>2 DEF Transmit
<1>. HIDE DEF m
<1>8. Below(toReceiver, f, SentParts(f)) /\ Rising(toReceiver, f)
  BY <1>0 DEF LiveInv, RoundInv, CoreInv, DataInv, DataQueueFits, DataFits, Below
<1>9. Rising(toReceiver', f)
  <2>1. CASE toReceiver' = Append(toReceiver, m)
    <3>. DEFINE T == {toReceiver[i] : i \in DOMAIN toReceiver} \cup {m}
    <3>1. toReceiver \in Seq(T) /\ m \in T
      BY DEF TypeOK
    <3>. HIDE DEF T
    <3>. QED BY <1>7, <1>8, <2>1, <3>1, Appended
  <2>. QED BY <1>7, <1>8, <2>1 DEF Put
<1>10. RoundInv(f)'
  BY <1>3, <1>4, <1>9 DEF RoundInv
<1>11. EndInv(f)'
  BY <1>4, <1>6 DEF LiveInv, EndInv, NoEndAck
<1>12. SettledInv(f)'
  BY <1>1, <1>4, <1>5 DEF SettledInv
<1>. QED BY <1>1, <1>10, <1>11, <1>12 DEF LiveInv

\* The ACKs put aside become the thread's own.
LEMMA LiveDrain ==
  ASSUME TypeOK, NEW f \in FileIds, LiveInv(f), UNCHANGED receiverVars, Drain(f)
  PROVE  LiveInv(f)'
<1>1. RunInv(f)'
  BY DrainInv DEF LiveInv
<1>2. /\ acks[f] = << >> /\ acks'[f] = ack_queue[f] /\ ack_queue'[f] = << >>
      /\ pc'[f] = "acks" /\ pc[f] = "send"
      /\ UNCHANGED <<file, toReceiver, toSender, handle>>
  BY DEF Drain, LiveInv, RunInv, PcInv, TypeOK, SenderTypeOK, fileVars, wireVars, receiverVars
<1>3. AckedParts(f)' = AckedParts(f)
  BY SameSender DEF Drain, fileVars, windowVars
<1>4. RoundInv(f)'
  BY <1>2 DEF LiveInv, RoundInv
<1>5. NoEndAck(f)' <=> NoEndAck(f)
  BY <1>2, EmptyQueue DEF NoEndAck
<1>6. EndInv(f)'
  BY <1>2, <1>5, EmptyQueue DEF LiveInv, EndInv
<1>7. SettledInv(f)'
  BY <1>2, <1>3 DEF LiveInv, SettledInv, Settled, Quiet
<1>. QED BY <1>1, <1>4, <1>6, <1>7 DEF LiveInv

\* A queue without a first, or without a second, element.
LEMMA NoFirst ==
  ASSUME NEW T, NEW q \in Seq(T), 1 \notin DOMAIN q
  PROVE  q = << >>
<1>1. Len(q) \in Nat /\ DOMAIN q = 1 .. Len(q)
  OBVIOUS
<1>2. Len(q) = 0
  BY <1>1
<1>. QED BY <1>2

LEMMA NoSecond ==
  ASSUME NEW T, NEW q \in Seq(T), q # << >>, 2 \notin DOMAIN q
  PROVE  Tail(q) = << >>
<1>1. /\ Len(q) \in Nat /\ Len(q) > 0 /\ DOMAIN q = 1 .. Len(q)
      /\ Tail(q) \in Seq(T) /\ DOMAIN Tail(q) = 1 .. (Len(q) - 1)
  BY TailElements
<1>2. Len(q) = 1
  BY <1>1
<1>3. 1 \notin DOMAIN Tail(q)
  BY <1>1, <1>2
<1>. QED BY <1>1, <1>3, NoFirst

\* Nothing follows the ACK of the END.
LEMMA LiveAccept ==
  ASSUME TypeOK, TypeOK', NEW f \in FileIds, LiveInv(f), UNCHANGED receiverVars,
         AcceptAck(f)
  PROVE  LiveInv(f)'
<1>. DEFINE L == LastPart(file[f])
<1>1. RunInv(f)' /\ AckedParts(f)' = Head(acks[f]).part + 1
  BY AcceptAckInv DEF LiveInv
<1>2. /\ acks[f] # << >> /\ acks'[f] = Tail(acks[f])
      /\ pc[f] = "acks" /\ pc' = pc
      /\ UNCHANGED <<file, ack_queue, toReceiver, toSender, handle>>
  BY DEF AcceptAck, TypeOK, SenderTypeOK, fileVars, wireVars, receiverVars
<1>3. /\ acks[f] \in Seq(Ack) /\ acks'[f] \in Seq(Ack)
  BY DEF TypeOK, SenderTypeOK
<1>4. Thinner(acks[f], acks'[f], f)
  BY <1>2, <1>3, ThinnerCases
<1>5. RoundInv(f)'
  BY <1>2 DEF LiveInv, RoundInv
<1>6. NoEndAck(f) => NoEndAck(f)'
  BY <1>2, <1>3, <1>4, Thinned DEF NoEndAck
<1>7. Final(acks'[f], f, L) /\ FinalBefore(acks'[f], ack_queue[f], f, L)
      /\ FinalBefore(acks'[f], toSender, f, L)
  BY <1>3, <1>4, Thinned DEF LiveInv, EndInv
<1>8. EndInv(f)'
  BY <1>2, <1>6, <1>7 DEF LiveInv, EndInv
<1>9. ASSUME AckedParts(f)' = L + 1
      PROVE  Settled(f)' /\ acks'[f] = << >> /\ ack_queue[f] = << >>
  <2>1. 1 \in DOMAIN acks[f] /\ acks[f][1] = Head(acks[f]) /\ Head(acks[f]) \in Ack
    BY <1>2, <1>3, TailElements
  <2>2. Head(acks[f]).part = L /\ Head(acks[f]).file_id = f
    <3>1. Head(acks[f]).part \in Nat /\ L \in Nat
      BY <2>1, Counts DEF Ack
    <3>2. Head(acks[f]).part = L
      BY <1>1, <1>9, <3>1
    <3>. QED BY <2>1, <3>2 DEF LiveInv, RunInv, CoreInv, AckOrderInv, OfFile
  <2>3. ~NoEndAck(f)
    BY <2>1, <2>2 DEF NoEndAck, Without
  <2>4. handle[f] = None /\ NoneOf(toReceiver, f)
    BY <2>3 DEF LiveInv, EndInv
  <2>5. NoneOf(toSender, f)
    BY <2>1, <2>2 DEF LiveInv, EndInv, FinalBefore, NoneOf
  <2>6. ack_queue[f] = << >>
    <3>1. DOMAIN ack_queue[f] = {}
      BY <2>1, <2>2 DEF LiveInv, EndInv, FinalBefore, RunInv, CoreInv, AckOrderInv, OfFile
    <3>2. ack_queue[f] \in Seq(Ack)
      BY DEF TypeOK, SenderTypeOK
    <3>. QED BY <3>1, <3>2, NoFirst
  <2>7. acks'[f] = << >>
    <3>1. 2 \notin DOMAIN acks[f]
      BY <2>1, <2>2 DEF LiveInv, EndInv, Final, RunInv, CoreInv, AckOrderInv, OfFile
    <3>. QED BY <1>2, <1>3, <3>1, NoSecond
  <2>. QED BY <1>2, <2>4, <2>5, <2>6, <2>7 DEF Settled, Quiet, NoneOf
<1>10. SettledInv(f)'
  BY <1>2, <1>9 DEF SettledInv
<1>. QED BY <1>1, <1>5, <1>8, <1>10 DEF LiveInv

LEMMA LiveIgnore ==
  ASSUME TypeOK, TypeOK', NEW f \in FileIds, LiveInv(f), UNCHANGED receiverVars,
         IgnoreAck(f)
  PROVE  LiveInv(f)'
<1>1. RunInv(f)'
  BY IgnoreAckInv DEF LiveInv
<1>2. /\ acks[f] # << >> /\ acks'[f] = Tail(acks[f])
      /\ pc[f] = "acks" /\ pc' = pc
      /\ UNCHANGED <<file, ack_queue, toReceiver, toSender, handle>>
  BY DEF IgnoreAck, TypeOK, SenderTypeOK, fileVars, wireVars, receiverVars
<1>3. /\ acks[f] \in Seq(Ack) /\ acks'[f] \in Seq(Ack)
  BY DEF TypeOK, SenderTypeOK
<1>4. Thinner(acks[f], acks'[f], f)
  BY <1>2, <1>3, ThinnerCases
<1>5. RoundInv(f)'
  BY <1>2 DEF LiveInv, RoundInv
<1>6. NoEndAck(f) => NoEndAck(f)'
  BY <1>2, <1>3, <1>4, Thinned DEF NoEndAck
<1>7. /\ Final(acks'[f], f, LastPart(file[f]))
      /\ FinalBefore(acks'[f], ack_queue[f], f, LastPart(file[f]))
      /\ FinalBefore(acks'[f], toSender, f, LastPart(file[f]))
  BY <1>3, <1>4, Thinned DEF LiveInv, EndInv
<1>8. EndInv(f)'
  BY <1>2, <1>6, <1>7 DEF LiveInv, EndInv
<1>9. AckedParts(f)' = AckedParts(f)
  BY SameSender DEF IgnoreAck, fileVars, windowVars
<1>10. SettledInv(f)'
  BY <1>2, <1>9 DEF LiveInv, SettledInv
<1>. QED BY <1>1, <1>5, <1>8, <1>10 DEF LiveInv

LEMMA LiveNoTimeout ==
  ASSUME TypeOK, NEW f \in FileIds, LiveInv(f), UNCHANGED receiverVars, NoTimeout(f)
  PROVE  LiveInv(f)'
<1>1. RunInv(f)'
  BY NoTimeoutInv DEF LiveInv
<1>2. /\ pc'[f] # "resend"
      /\ UNCHANGED <<file, acks, ack_queue, toReceiver, toSender, handle>>
  BY DEF NoTimeout, LoopHead, TypeOK, SenderTypeOK, fileVars, ackVars, wireVars, receiverVars
<1>3. AckedParts(f)' = AckedParts(f)
  BY SameSender DEF NoTimeout, fileVars, windowVars
<1>. QED BY <1>1, <1>2, <1>3
         DEF LiveInv, RoundInv, EndInv, NoEndAck, SettledInv, Settled, Quiet

\* A timer expires when nothing of the stream is under way.
LEMMA LiveTimeout ==
  ASSUME ~EarlyTimeout, TypeOK, NEW f \in FileIds, LiveInv(f), UNCHANGED receiverVars,
         Timeout(f)
  PROVE  LiveInv(f)'
<1>1. RunInv(f)'
  BY TimeoutInv DEF LiveInv
<1>2. /\ acks[f] = << >> /\ ack_queue[f] = << >>
      /\ NoneOf(toReceiver, f) /\ NoneOf(toSender, f)
  BY DEF Timeout, Expired, Quiet, NoneOf
<1>3. UNCHANGED <<file, acks, ack_queue, toReceiver, toSender, handle>>
  BY DEF Timeout, fileVars, ackVars, wireVars, receiverVars
<1>4. AckedParts(f)' = AckedParts(f)
  BY SameSender DEF Timeout, fileVars, windowVars
<1>5. NoEndAck(f)'
  BY <1>2, <1>3, EmptyQueue DEF NoEndAck, NoneOf, Without
<1>6. RoundInv(f)'
  BY <1>2, <1>3 DEF RoundInv, Rising, Below, NoneOf
<1>7. EndInv(f)'
  BY <1>3, <1>5 DEF LiveInv, EndInv
<1>8. SettledInv(f)'
  BY <1>3, <1>4 DEF LiveInv, SettledInv, Settled, Quiet
<1>. QED BY <1>1, <1>6, <1>7, <1>8 DEF LiveInv

\* The next packet of a round is of a later part than those before it.
LEMMA LiveResend ==
  ASSUME TypeOK, NEW f \in FileIds, LiveInv(f), UNCHANGED receiverVars, Resend(f)
  PROVE  LiveInv(f)'
<1>. DEFINE d == Dist(seq[f], base[f])
            m == buffer[f][seq[f]]
            k == AckedParts(f) + d
<1>1. RunInv(f)' /\ RunInv(f)
  BY ResendInv DEF LiveInv
<1>2. /\ d \in Nat /\ d < InFlight(f) /\ AckedParts(f) \in Nat
      /\ k \in Nat /\ m \in Packet /\ m.file_id = f /\ m.part = k
      /\ toReceiver' = toReceiver \/ toReceiver' = Append(toReceiver, m)
      /\ NextSeq(seq[f]) # nextseqnum[f] => Dist(NextSeq(seq[f]), base[f]) = d + 1
      /\ seq'[f] = NextSeq(seq[f]) /\ base' = base
  BY <1>1, Resent DEF Put
<1>3. /\ pc[f] = "resend"
      /\ pc'[f] = "resend" => NextSeq(seq[f]) # nextseqnum[f]
      /\ UNCHANGED <<file, acks, ack_queue, toSender, handle>>
  BY DEF Resend, LoopHead, TypeOK, SenderTypeOK, fileVars, ackVars, receiverVars
<1>4. AckedParts(f)' = AckedParts(f)
  BY SameSender DEF Resend, fileVars
<1>5. Rising(toReceiver, f) /\ Below(toReceiver, f, k) /\ toReceiver \in Seq(Packet)
  BY <1>3 DEF LiveInv, RoundInv, TypeOK
<1>. HIDE DEF m, d
<1>6. k + 1 = AckedParts(f) + (d + 1) /\ k < k + 1
  BY <1>2
<1>7. Rising(toReceiver', f) /\ Below(toReceiver', f, k + 1)
  <2>1. Below(toReceiver, f, k + 1)
    BY <1>2, <1>5, BelowMore
  <2>. QED BY <1>2, <1>5, <1>6, <2>1, Appended
<1>8. RoundInv(f)'
  BY <1>2, <1>3, <1>4, <1>6, <1>7 DEF RoundInv
<1>9. NoEndAck(f) /\ NoEndAck(f)'
  BY <1>3 DEF LiveInv, EndInv, NoEndAck
<1>10. EndInv(f)'
  BY <1>3, <1>9 DEF LiveInv, EndInv
<1>11. AckedParts(f) # LastPart(file[f]) + 1
  BY <1>1, <1>2, SentBound, Counts DEF RunInv
<1>12. SettledInv(f)'
  BY <1>3, <1>4, <1>11 DEF SettledInv
<1>. QED BY <1>1, <1>8, <1>10, <1>12 DEF LiveInv

\* An ACK goes from the socket to the queue of its thread.
LEMMA LiveRoute ==
  ASSUME TypeOK, TypeOK', NEW f \in FileIds, LiveInv(f), UNCHANGED receiverVars,
         RouteAck(f), pc[f] # "done"
  PROVE  LiveInv(f)'
<1>. DEFINE m == Head(toSender)
            L == LastPart(file[f])
<1>1. RunInv(f)'
  BY RouteAckInv DEF LiveInv
<1>2. /\ toSender # << >> /\ m.file_id = f /\ toSender' = Tail(toSender)
      /\ ack_queue'[f] = Append(ack_queue[f], m)
      /\ UNCHANGED <<file, pc, seq, acks, toReceiver, handle, base>>
  BY DEF RouteAck, TypeOK, SenderTypeOK, fileVars, windowVars, receiverVars
<1>3. /\ toSender \in Seq(Ack) /\ toSender' \in Seq(Ack) /\ ack_queue[f] \in Seq(Ack)
      /\ ack_queue'[f] \in Seq(Ack)
  BY DEF TypeOK, SenderTypeOK
<1>4. 1 \in DOMAIN toSender /\ m = toSender[1] /\ m \in Ack
  BY <1>2, <1>3, TailElements
<1>5. AckedParts(f)' = AckedParts(f)
  BY SameSender DEF RouteAck, fileVars, windowVars
<1>. HIDE DEF m
<1>6. Thinner(toSender, toSender', f)
  BY <1>2, <1>3, ThinnerCases
<1>7. /\ Without(toSender, f, L) => Without(toSender', f, L)
      /\ Final(toSender', f, L)
      /\ FinalBefore(acks[f], toSender', f, L)
      /\ FinalBefore(ack_queue[f], toSender', f, L)
  BY <1>3, <1>6, Thinned DEF LiveInv, EndInv
<1>8. Without(ack_queue[f], f, L) /\ Without(acks[f], f, L)
  BY <1>2, <1>4 DEF LiveInv, EndInv, FinalBefore, Without
<1>9. Final(ack_queue'[f], f, L) /\ FinalBefore(acks'[f], ack_queue'[f], f, L)
  <2>1. Without(ack_queue[f], f, L) => Final(Append(ack_queue[f], m), f, L)
    BY <1>2, <1>3, <1>4, Appended
  <2>2. Without(acks[f], f, L) => FinalBefore(acks[f], Append(ack_queue[f], m), f, L)
    BY <1>2, <1>3, <1>4, Appended
  <2>. QED BY <1>2, <1>8, <2>1, <2>2
<1>10. FinalBefore(ack_queue'[f], toSender', f, L)
  <2>. SUFFICES ASSUME NEW i \in DOMAIN ack_queue'[f], NEW j \in DOMAIN toSender',
                       ack_queue'[f][i].file_id = f, toSender'[j].file_id = f
                PROVE  ack_queue'[f][i].part # L
    BY DEF FinalBefore
  <2>1. CASE i \in DOMAIN ack_queue[f] /\ ack_queue'[f][i] = ack_queue[f][i]
    BY <1>7, <2>1 DEF FinalBefore
  <2>2. CASE ack_queue'[f][i] = m
    <3>1. j + 1 \in DOMAIN toSender /\ toSender'[j] = toSender[j + 1] /\ 1 < j + 1
      BY <1>2, <1>3, TailElements
    <3>. QED BY <1>2, <1>4, <2>2, <3>1 DEF LiveInv, EndInv, Final
  <2>. QED BY <1>2, <1>3, <1>4, <2>1, <2>2, AppendElements
<1>11. NoEndAck(f) => NoEndAck(f)'
  <2>1. Without(toSender, f, L) => m.part # L
    BY <1>2, <1>4 DEF Without
  <2>2. Without(toSender, f, L) => Without(ack_queue'[f], f, L)
    BY <1>2, <1>3, <1>4, <1>8, <2>1, Appended
  <2>. QED BY <1>2, <1>7, <2>2 DEF NoEndAck
<1>12. RoundInv(f)'
  BY <1>2, <1>5 DEF LiveInv, RoundInv
<1>13. EndInv(f)'
  BY <1>2, <1>7, <1>9, <1>10, <1>11 DEF LiveInv, EndInv
<1>14. SettledInv(f)'
  BY <1>2, <1>4, <1>5 DEF LiveInv, SettledInv, Settled, Quiet
<1>. QED BY <1>1, <1>12, <1>13, <1>14 DEF LiveInv

-----------------------------------------------------------------------------
(* The receiver's steps for a stream of the batch.                         *)

\* Only the handling of the END sends an ACK of it.
LEMMA AckOfEnd ==
  ASSUME TypeOK, NEW f \in FileIds, CoreInv(f), Receive(f)
  PROVE  \/ toSender' = toSender
         \/ \E m \in Ack : /\ m.file_id = f /\ toSender' = Append(toSender, m)
                           /\ m.part = LastPart(file[f])
                                => RecvEnd(f) /\ pkt.part = LastPart(file[f])
<1>. DEFINE L == LastPart(file[f])
            Answer(n, k) ==
              /\ n \in SeqNums /\ k \in Nat /\ SendAck(f, n, k)
              /\ k = L => RecvEnd(f) /\ pkt.part = L
<1>1. /\ L \in Nat /\ L > 0 /\ L = Chunks[file[f]] + 1 /\ Chunks[file[f]] \in Nat
      /\ file[f] \in Files
  BY Counts DEF TypeOK, SenderTypeOK, LastPart
<1>2. ASSUME Take(f)
      PROVE  /\ pkt.seq_num \in SeqNums /\ pkt.part \in Nat
             /\ pkt = PacketOf(f, file[f], pkt.part)
  BY <1>2, Arrival DEF Packet
<1>3. ASSUME NEW n, NEW k, Answer(n, k)
      PROVE  \E m \in Ack : /\ m.file_id = f /\ toSender' = Append(toSender, m)
                            /\ m.part = L => RecvEnd(f) /\ pkt.part = L
             \/ toSender' = toSender
  <2>. DEFINE a == [file_id |-> f, ack_num |-> n, part |-> k]
  <2>1. a \in Ack /\ a.file_id = f /\ a.part = k
    BY <1>3 DEF Ack
  <2>2. toSender' = Put(toSender, AckCap, a)
    BY <1>3 DEF SendAck
  <2>. HIDE DEF a
  <2>. QED BY <1>3, <2>1, <2>2 DEF Put
<1>4. CASE RecvStart(f)
  <2>1. Take(f) /\ pkt.ptype = "START" /\ SendAck(f, pkt.seq_num, pkt.part)
    BY <1>4 DEF RecvStart, Accept
  <2>2. pkt.part # L
    BY <1>1, <1>2, <2>1, KindOfPart
  <2>3. Answer(pkt.seq_num, pkt.part)
    BY <1>2, <2>1, <2>2
  <2>. QED BY <1>3, <2>3
<1>5. CASE RecvData(f)
  <2>1. Take(f) /\ pkt.ptype = "DATA" /\ SendAck(f, pkt.seq_num, pkt.part)
    BY <1>5 DEF RecvData, Accept
  <2>2. pkt.part # L
    BY <1>1, <1>2, <2>1, KindOfPart
  <2>3. Answer(pkt.seq_num, pkt.part)
    BY <1>2, <2>1, <2>2
  <2>. QED BY <1>3, <2>3
<1>6. CASE RecvEnd(f)
  <2>1. Take(f) /\ pkt.ptype = "END" /\ SendAck(f, pkt.seq_num, pkt.part)
    BY <1>6 DEF RecvEnd
  <2>2. pkt.part = L
    BY <1>1, <1>2, <2>1, KindOfPart
  <2>3. Answer(pkt.seq_num, pkt.part)
    BY <1>2, <1>6, <2>1, <2>2
  <2>. QED BY <1>3, <2>3
<1>7. CASE Discard(f) /\ expected_seq[f] > 0
  <2>1. SendAck(f, LastInOrder(f), Len(out[f]))
    BY <1>7 DEF Discard
  <2>2. /\ expected_seq[f] \in SeqNums /\ out[f] \in Seq(Chunk) /\ 1 \in SeqNums
    BY Bounds DEF TypeOK, ReceiverTypeOK, SeqNums
  <2>3. LastInOrder(f) \in SeqNums
    BY <2>2, CircleTypes DEF LastInOrder
  <2>4. handle[f] # None
    <3>1. 0 % MAX_SEQ = 0
      BY Bounds, ResidueSmall
    <3>. QED BY <1>7, <3>1 DEF CoreInv, ReceiverInv, ExpectedPart
  <2>5. Len(out[f]) \in Nat /\ Len(out[f]) < L
    BY <1>1, <2>2, <2>4 DEF CoreInv, ReceiverInv, IsPrefixOf
  <2>6. Answer(LastInOrder(f), Len(out[f]))
    BY <1>1, <2>1, <2>3, <2>5
  <2>. QED BY <1>3, <2>6
<1>8. CASE RejectStart(f) \/ IgnoreData(f) \/ (Discard(f) /\ ~(expected_seq[f] > 0))
  BY <1>8 DEF RejectStart, IgnoreData, Discard
<1>. QED BY <1>4, <1>5, <1>6, <1>7, <1>8, <1>3 DEF Receive

\* Before the END is taken nothing of the stream is settled, and what is put on
\* the wire after it is its ACK.
LEMMA LiveReceive ==
  ASSUME TypeOK, TypeOK', NEW f \in FileIds, LiveInv(f), Receive(f),
         UNCHANGED senderVars
  PROVE  LiveInv(f)'
<1>. DEFINE L == LastPart(file[f])
<1>0. RunInv(f) /\ CoreInv(f) /\ PcInv(f)
  BY DEF LiveInv, RunInv
<1>1. Take(f)
  BY DEF Receive, RecvStart, RejectStart, RecvData, IgnoreData, RecvEnd, Discard
<1>2. /\ CoreInv(f)' /\ PcInv(f)' /\ AckedParts(f)' = AckedParts(f)
  BY <1>0, ReceiveInv, ReceiveFrame
<1>3. /\ toReceiver # << >> /\ toReceiver' = Tail(toReceiver)
      /\ toReceiver \in Seq(Packet) /\ toReceiver' \in Seq(Packet)
      /\ toSender \in Seq(Ack) /\ toSender' \in Seq(Ack)
      /\ 1 \in DOMAIN toReceiver /\ pkt = toReceiver[1] /\ pkt.file_id = f
  BY <1>1, TailElements DEF Take, TypeOK, pkt
<1>4. UNCHANGED <<file, pc, seq, base, acks, ack_queue>>
  BY DEF senderVars, fileVars, windowVars, ackVars
<1>5. Thinner(toReceiver, toReceiver', f)
  BY <1>3, ThinnerCases
<1>6. RoundInv(f)'
  BY <1>2, <1>3, <1>4, <1>5, Thinned DEF LiveInv, RoundInv
<1>7. NoEndAck(f)
  BY <1>3 DEF LiveInv, EndInv, NoneOf
<1>8. AckedParts(f) # L + 1
  BY <1>3 DEF LiveInv, SettledInv, Settled, Quiet
<1>9. SettledInv(f)'
  BY <1>2, <1>4, <1>8 DEF SettledInv
<1>10. CASE toSender' = toSender
  <2>1. NoEndAck(f)'
    BY <1>4, <1>7, <1>10 DEF NoEndAck
  <2>2. EndInv(f)'
    BY <1>4, <1>10, <2>1 DEF LiveInv, EndInv
  <2>. QED BY <1>2, <1>6, <1>9, <2>2 DEF LiveInv, RunInv
<1>11. ASSUME NEW m \in Ack, m.file_id = f, toSender' = Append(toSender, m),
              m.part = L => RecvEnd(f) /\ pkt.part = L
       PROVE  LiveInv(f)'
  <2>1. Without(acks[f], f, L) /\ Without(ack_queue[f], f, L) /\ Without(toSender, f, L)
    BY <1>7 DEF NoEndAck
  <2>2. Final(toSender', f, L)
    <3>1. Without(toSender, f, L) => Final(Append(toSender, m), f, L)
      BY <1>3, <1>11, Appended
    <3>. QED BY <1>11, <2>1, <3>1
  <2>3. FinalBefore(acks[f], toSender', f, L) /\ FinalBefore(ack_queue[f], toSender', f, L)
    BY <2>1 DEF Without, FinalBefore
  <2>4. ASSUME m.part = L
        PROVE  pc[f] # "resend" /\ handle'[f] = None /\ NoneOf(toReceiver', f)
    <3>1. RecvEnd(f) /\ pkt.part = L
      BY <1>11, <2>4
    <3>2. handle'[f] = None
      BY <3>1 DEF RecvEnd, TypeOK, ReceiverTypeOK
    <3>3. /\ SentParts(f) <= L + 1 /\ SentParts(f) \in Nat /\ L \in Nat
          /\ AckedParts(f) \in Int /\ InFlight(f) \in Nat
          /\ AckedParts(f) + InFlight(f) = SentParts(f)
      BY <1>0, Counts, SentBound
    <3>4. pc[f] # "resend"
      <4>. SUFFICES ASSUME pc[f] = "resend" PROVE FALSE
        OBVIOUS
      <4>. DEFINE d == Dist(seq[f], base[f])
      <4>1. d < InFlight(f)
        BY <1>0 DEF PcInv
      <4>2. L < AckedParts(f) + d
        BY <1>3, <3>1 DEF LiveInv, RoundInv, Below
      <4>3. d \in Nat
        <5>1. d \in SeqNums
          BY CircleTypes DEF TypeOK, SenderTypeOK
        <5>. QED BY <5>1, Bounds DEF SeqNums
      <4>. HIDE DEF d
      <4>. QED BY <3>3, <4>1, <4>2, <4>3
    <3>5. ASSUME NEW i \in DOMAIN toReceiver', toReceiver'[i].file_id = f
          PROVE  FALSE
      <4>1. i + 1 \in DOMAIN toReceiver /\ toReceiver'[i] = toReceiver[i + 1] /\ 1 < i + 1
        BY <1>3, TailElements
      <4>2. L < toReceiver[i + 1].part
        BY <1>3, <3>1, <3>5, <4>1 DEF LiveInv, RoundInv, Rising
      <4>3. toReceiver[i + 1].part < SentParts(f)
        BY <1>0, <3>5, <4>1 DEF CoreInv, DataInv, DataQueueFits, DataFits
      <4>4. toReceiver[i + 1] \in Packet
        BY <1>3, <4>1
      <4>5. toReceiver[i + 1].part \in Nat
        BY <4>4 DEF Packet
      <4>. QED BY <3>3, <4>2, <4>3, <4>5
    <3>. QED BY <3>2, <3>4, <3>5 DEF NoneOf
  <2>5. m.part # L => NoEndAck(f)'
    <3>1. Without(toSender, f, L) /\ m.part # L => Without(Append(toSender, m), f, L)
      BY <1>3, <1>11, Appended
    <3>. QED BY <1>4, <1>11, <2>1, <3>1 DEF NoEndAck
  <2>6. EndInv(f)'
    BY <1>4, <2>2, <2>3, <2>4, <2>5 DEF LiveInv, EndInv
  <2>. QED BY <1>2, <1>6, <1>9, <2>6 DEF LiveInv, RunInv
<1>. QED BY <1>0, <1>10, <1>11, AckOfEnd

-----------------------------------------------------------------------------
(* Interruptions, restarts and new batches.                                *)

\* An interruption ends the threads and leaves all else as it is.
LEMMA InterruptStream ==
  ASSUME NEW f \in FileIds, CoreInv(f), Interrupt
  PROVE  StreamInv(f)'
<1>1. /\ UNCHANGED <<fileVars, windowVars, ackVars, wireVars, receiverVars>>
      /\ ack_states' = {}
  BY DEF Interrupt
<1>. USE <1>1 DEF fileVars, windowVars, ackVars, wireVars, receiverVars
<1>2. /\ SentParts(f)' = SentParts(f) /\ AckedParts(f)' = AckedParts(f)
      /\ InFlight(f)' = InFlight(f)
      /\ ExpectedPart(f)' = ExpectedPart(f) /\ GotParts(f)' = GotParts(f)
  BY SameSender, SameReceiver
<1>3. ReadInv(f)' /\ NumberInv(f)' /\ BufferInv(f)'
  BY <1>2 DEF CoreInv, ReadInv, NumberInv, BufferInv
<1>4. DataInv(f)' /\ AckValueInv(f)' /\ AckOrderInv(f)' /\ ReceiverInv(f)'
  BY <1>2 DEF CoreInv, DataInv, AckValueInv, AckOrderInv, ReceiverInv
<1>. QED BY <1>3, <1>4 DEF CoreInv, StreamInv

\* A receiver that starts again knows of no file; of a stream that it had no
\* file of nothing is lost.
LEMMA RestartStream ==
  ASSUME TypeOK, NEW f \in FileIds, StreamInv(f), Restart, handle[f] = None
  PROVE  StreamInv(f)'
<1>1. /\ UNCHANGED senderVars /\ toSender' = toSender /\ saved' = saved
      /\ ack_states' = ack_states /\ toReceiver' = << >>
      /\ expected_seq'[f] = 0 /\ handle'[f] = None /\ out'[f] = << >>
  BY DEF Restart
<1>2. UNCHANGED <<file, started, read, eof_reached, base, nextseqnum, buffer, timer,
                  acks, ack_queue, pc, seq>>
  BY <1>1 DEF senderVars, fileVars, windowVars, ackVars
<1>3. /\ SentParts(f)' = SentParts(f) /\ AckedParts(f)' = AckedParts(f)
      /\ InFlight(f)' = InFlight(f)
  BY <1>2, SameSender
<1>4. ExpectedPart(f) = 0 /\ ExpectedPart(f)' = 0 /\ GotParts(f)' = GotParts(f)
  BY <1>1, <1>2 DEF ExpectedPart, GotParts
<1>5. ReadInv(f)' /\ NumberInv(f)' /\ BufferInv(f)' /\ (PcInv(f) => PcInv(f)')
  BY <1>2, <1>3 DEF StreamInv, CoreInv, ReadInv, NumberInv, BufferInv, PcInv
<1>6. DataInv(f)'
  BY <1>1 DEF DataInv, DataQueueFits, Ordered
<1>7. AckValueInv(f)' /\ AckOrderInv(f)'
  BY <1>1, <1>2, <1>3, <1>4 DEF StreamInv, CoreInv, AckValueInv, AckOrderInv
<1>8. ReceiverInv(f)'
  <2>1. 0 % MAX_SEQ = 0
    BY Bounds, ResidueSmall
  <2>. QED BY <1>1, <1>2, <1>3, <1>4, <2>1 DEF StreamInv, CoreInv, ReceiverInv
<1>9. NoneOf(toReceiver', f) /\ Rising(toReceiver', f)
      /\ \A k : Below(toReceiver', f, k)
  BY <1>1, EmptyQueue
<1>10. RoundInv(f)'
  BY <1>9 DEF RoundInv
<1>11. EndInv(f) => EndInv(f)'
  BY <1>1, <1>2, <1>9 DEF EndInv, NoEndAck
<1>12. Settled(f) => Settled(f)'
  BY <1>1 DEF Settled, Quiet
<1>13. SettledInv(f) => SettledInv(f)'
  BY <1>2, <1>3, <1>12 DEF SettledInv
<1>. QED BY <1>1, <1>5, <1>6, <1>7, <1>8, <1>10, <1>11, <1>12, <1>13
         DEF StreamInv, CoreInv

\* Nothing of a stream that was not cut off is left when a batch begins.
LEMMA NothingLeft ==
  ASSUME TypeOK, NEW f \in FileIds, StreamInv(f), StartBatch, handle[f] = None
  PROVE  NoneOf(toReceiver', f) /\ NoneOf(toSender', f)
<1>1. CASE ack_states = {}
  BY <1>1 DEF StartBatch, Restarted, NoneOf
<1>2. CASE ack_states # {}
  <2>1. Settled(f)
    <3>1. CASE f \notin ack_states
      BY <1>2, <3>1 DEF StreamInv
    <3>2. CASE f \in ack_states
      <4>1. eof_reached[f] /\ base[f] = nextseqnum[f]
        BY <3>2 DEF StartBatch, AllDone, StreamInv, PcInv
      <4>2. AckedParts(f) = LastPart(file[f]) + 1
        BY <4>1, DoneMeansAll DEF StreamInv
      <4>. QED BY <3>2, <4>2 DEF StreamInv, SettledInv
    <3>. QED BY <3>1, <3>2
  <2>. QED BY <1>2, <2>1 DEF StartBatch, Settled, Quiet, NoneOf
<1>. QED BY <1>1, <1>2

\* So every stream of the batch begins as the first batch did.
LEMMA BatchStream ==
  ASSUME TypeOK, TypeOK', NEW f \in FileIds, StreamInv(f), StartBatch, handle[f] = None
  PROVE  StreamInv(f)'
<1>1. NoneOf(toReceiver', f) /\ NoneOf(toSender', f)
  BY NothingLeft
<1>2. /\ base'[f] = 0 /\ nextseqnum'[f] = 0 /\ timer'[f] = FALSE
      /\ started'[f] = FALSE /\ read'[f] = 0 /\ eof_reached'[f] = FALSE
      /\ seq'[f] = 0 /\ acks'[f] = << >> /\ ack_queue'[f] = << >> /\ saved'[f] = {}
      /\ \A s \in SeqNums : buffer'[f][s] = None
      /\ handle'[f] = None /\ expected_seq'[f] = expected_seq[f]
      /\ out'[f] = out[f]
  BY DEF StartBatch
<1>3. expected_seq[f] = 0 /\ 0 % MAX_SEQ = 0
  <2>1. 0 % MAX_SEQ = 0
    BY Bounds, ResidueSmall
  <2>. QED BY <2>1 DEF StreamInv, CoreInv, ReceiverInv, ExpectedPart
<1>4. /\ SentParts(f)' = 0 /\ InFlight(f)' = 0 /\ AckedParts(f)' = 0
      /\ ExpectedPart(f)' = 0 /\ GotParts(f)' = 0
      /\ LastPart(file[f])' \in Nat /\ LastPart(file[f])' > 0
  <2>1. Dist(0, 0) = 0
    BY <1>3 DEF Dist
  <2>2. SentParts(f)' = 0 /\ InFlight(f)' = 0
    BY <1>2, <2>1 DEF SentParts, InFlight
  <2>3. AckedParts(f)' = 0
    BY <1>2, <2>1, <2>2 DEF AckedParts
  <2>4. ExpectedPart(f)' = 0 /\ GotParts(f)' = 0
    BY <1>2 DEF ExpectedPart, GotParts
  <2>5. file'[f] \in Files
    BY DEF TypeOK, SenderTypeOK
  <2>6. Chunks[file'[f]] \in Nat
    BY <2>5, ChunksAssumption
  <2>. QED BY <2>2, <2>3, <2>4, <2>6 DEF LastPart
<1>5. ReadInv(f)' /\ NumberInv(f)'
  <2>1. file'[f] \in Files
    BY DEF TypeOK, SenderTypeOK
  <2>2. Chunks[file'[f]] \in Nat
    BY <2>1, ChunksAssumption
  <2>3. ReadInv(f)'
    BY <1>2, <2>2 DEF ReadInv
  <2>4. NumberInv(f)'
    BY <1>2, <1>3, <1>4, Bounds DEF NumberInv
  <2>. QED BY <2>3, <2>4
<1>6. BufferInv(f)'
  <2>1. \A s \in SeqNums : ~(Dist(s, 0) < 0)
    <3>1. 0 \in SeqNums
      BY Bounds DEF SeqNums
    <3>2. \A s \in SeqNums : Dist(s, 0) \in SeqNums
      BY <3>1, CircleTypes
    <3>. QED BY <3>2, Bounds DEF SeqNums
  <2>. QED BY <1>2, <1>4, <2>1 DEF BufferInv
<1>7. DataInv(f)'
  BY <1>1 DEF DataInv, DataQueueFits, Ordered, NoneOf
<1>8. AckValueInv(f)' /\ AckOrderInv(f)'
  BY <1>1, <1>2, EmptyOrder
  DEF AckValueInv, AckQueueFits, AckOrderInv, Ordered, Precedes, OfFile, NoneOf
<1>9. ReceiverInv(f)'
  BY <1>2, <1>3, <1>4 DEF ReceiverInv
<1>10. CoreInv(f)'
  BY <1>5, <1>6, <1>7, <1>8, <1>9 DEF CoreInv
<1>11. Settled(f)'
  BY <1>1, <1>2 DEF Settled, Quiet, NoneOf
<1>12. ASSUME f \in ack_states'
       PROVE  PcInv(f)' /\ RoundInv(f)' /\ EndInv(f)' /\ SettledInv(f)'
  <2>1. pc'[f] = "send"
    BY <1>12 DEF StartBatch, FirstIds
  <2>2. PcInv(f)'
    BY <1>2, <2>1 DEF PcInv
  <2>3. RoundInv(f)'
    BY <1>1, <2>1 DEF RoundInv, Rising, NoneOf
  <2>4. EndInv(f)'
    BY <1>1, <1>2, EmptyQueue DEF EndInv, NoEndAck, Without, Final, FinalBefore, NoneOf
  <2>5. SettledInv(f)'
    BY <1>4 DEF SettledInv
  <2>. QED BY <2>2, <2>3, <2>4, <2>5
<1>. QED BY <1>10, <1>11, <1>12 DEF StreamInv

-----------------------------------------------------------------------------
(* Every step keeps the invariant.                                         *)

LEMMA ThreadStream ==
  ASSUME ~EarlyTimeout, ShapeInv, TypeOK', NEW f \in FileIds, NEW g \in FileIds,
         StreamInv(g), SenderStep(f) \/ Timeout(f) \/ RouteAck(f),
         UNCHANGED <<receiverVars, sessionVars>>
  PROVE  StreamInv(g)'
<1>1. /\ TypeOK /\ ThreadInv(f) /\ OwnBuffer(f) /\ ack_states' = ack_states
      /\ UNCHANGED receiverVars /\ ReceiverStill(g)
  BY DEF ShapeInv, ThreadInv, sessionVars, receiverVars, ReceiverStill
<1>2. /\ \/ toReceiver' = toReceiver
         \/ \E cap, m : m \in Packet /\ m.file_id = f
                        /\ toReceiver' = Put(toReceiver, cap, m)
      /\ \/ toSender' = toSender
         \/ toSender # << >> /\ toSender' = Tail(toSender)
  BY <1>1, SenderWire
<1>3. CASE g # f
  <2>1. Still(g)
    BY <1>1, <1>3, SenderLocal
  <2>. QED BY <1>1, <1>2, <1>3, <2>1, StreamOthers
<1>4. CASE g = f /\ pc[f] = "done"
  <2>1. RouteAck(f)
    BY <1>4 DEF SenderStep, SendStart, SendData, SendEnd, Drain, AcceptAck,
                IgnoreAck, NoTimeout, Resend, Timeout
  <2>2. Still(g) /\ toReceiver' = toReceiver
    BY <1>4, <2>1 DEF RouteAck, Still, fileVars, windowVars
  <2>. QED BY <1>1, <1>2, <2>2, StreamOthers
<1>5. CASE g = f /\ pc[f] # "done"
  <2>1. f \in ack_states /\ LiveInv(f)
    BY <1>1, <1>5 DEF ThreadInv, StreamInv, LiveInv, RunInv
  <2>2. LiveInv(f)'
    BY <1>1, <1>5, <2>1, LiveSend, LiveDrain, LiveAccept, LiveIgnore,
       LiveNoTimeout, LiveTimeout, LiveResend, LiveRoute DEF SenderStep
  <2>. QED BY <1>1, <1>5, <2>1, <2>2 DEF StreamInv, LiveInv, RunInv
<1>. QED BY <1>3, <1>4, <1>5

LEMMA ReceiverStream ==
  ASSUME TypeOK, TypeOK', NEW f \in FileIds, NEW g \in FileIds, StreamInv(g),
         Receive(f), UNCHANGED <<senderVars, sessionVars>>
  PROVE  StreamInv(g)'
<1>1. /\ toReceiver # << >> /\ Head(toReceiver).file_id = f
      /\ toReceiver' = Tail(toReceiver)
      /\ \/ toSender' = toSender
         \/ \E cap, m : m \in Ack /\ m.file_id = f
                        /\ toSender' = Put(toSender, cap, m)
  BY ReceiverWire
<1>2. UNCHANGED senderVars /\ ack_states' = ack_states
  BY DEF sessionVars
<1>3. CASE g # f
  <2>1. Still(g)
    BY <1>2 DEF Still, senderVars, fileVars, windowVars, ackVars
  <2>2. ReceiverStill(g)
    BY <1>3, ReceiverLocal
  <2>. QED BY <1>1, <1>2, <1>3, <2>1, <2>2, StreamOthers
<1>4. CASE g = f /\ f \in ack_states
  <2>1. LiveInv(f)'
    BY <1>2, <1>4, LiveReceive DEF StreamInv, LiveInv, RunInv
  <2>. QED BY <1>2, <1>4, <2>1 DEF StreamInv, LiveInv, RunInv
<1>5. CASE g = f /\ f \notin ack_states
  <2>1. CoreInv(f)'
    BY <1>2, <1>5, ReceiveInv DEF StreamInv
  <2>2. ack_states = {}
    <3>1. toReceiver \in Seq(Packet)
      BY DEF TypeOK
    <3>2. 1 \in DOMAIN toReceiver /\ toReceiver[1].file_id = f
      BY <1>1, <3>1, TailElements
    <3>3. ~Settled(f)
      BY <3>2 DEF Settled, Quiet
    <3>. QED BY <1>5, <3>3 DEF StreamInv
  <2>. QED BY <1>2, <1>5, <2>1, <2>2 DEF StreamInv
<1>. QED BY <1>3, <1>4, <1>5

LEMMA StreamNext ==
  ASSUME ~EarlyTimeout, SInv, [SessionNext]_allVars, NEW g \in FileIds \ cut'
  PROVE  StreamInv(g)'
<1>1. TypeOK /\ ShapeInv /\ TypeOK'
  BY SessionTypes DEF SInv, ShapeInv
<1>2. g \in FileIds /\ StreamInv(g)
  <2>1. cut \subseteq cut'
    BY DEF SessionNext, StopRouting, StartBatch, Interrupt, Restart, Exit,
           allVars, sessionVars
  <2>. QED BY <2>1 DEF SInv
<1>3. ASSUME NEW f \in FileIds, SenderStep(f) \/ Timeout(f) \/ RouteAck(f),
             UNCHANGED <<receiverVars, sessionVars>>
      PROVE  StreamInv(g)'
  BY <1>1, <1>2, <1>3, ThreadStream
<1>4. ASSUME NEW f \in FileIds, Handle(f), UNCHANGED <<senderVars, sessionVars>>
      PROVE  StreamInv(g)'
  BY <1>1, <1>2, <1>4, ReceiverStream DEF Handle, Receive
<1>5. CASE \/ LoseData /\ UNCHANGED <<senderVars, sessionVars>>
           \/ LoseAck /\ UNCHANGED <<senderVars, receiverVars, sessionVars>>
           \/ StopRouting \/ Exit \/ UNCHANGED allVars
  <2>1. /\ UNCHANGED <<senderVars, receiverVars>> /\ ack_states' = ack_states
        /\ \/ toReceiver' = toReceiver
           \/ toReceiver # << >> /\ toReceiver' = Tail(toReceiver)
        /\ \/ toSender' = toSender
           \/ toSender # << >> /\ toSender' = Tail(toSender)
    BY <1>5 DEF LoseData, LoseAck, StopRouting, Exit, allVars, vars, wireVars, sessionVars
  <2>2. Still(g) /\ ReceiverStill(g)
    BY <2>1 DEF Still, ReceiverStill, senderVars, receiverVars, fileVars, windowVars, ackVars
  <2>. QED BY <1>1, <1>2, <2>1, <2>2, StreamOthers
<1>6. CASE Interrupt
  BY <1>2, <1>6, InterruptStream DEF StreamInv
<1>7. CASE Restart
  <2>1. handle[g] = None
    BY <1>7 DEF Restart, OpenIds
  <2>. QED BY <1>1, <1>2, <1>7, <2>1, RestartStream
<1>8. CASE StartBatch
  <2>1. handle[g] = None
    BY <1>8 DEF StartBatch, OpenIds
  <2>. QED BY <1>1, <1>2, <1>8, <2>1, BatchStream
<1>. QED BY <1>3, <1>4, <1>5, <1>6, <1>7, <1>8 DEF SessionNext

LEMMA SInvInit == SessionInit => SInv
<1>. SUFFICES ASSUME SessionInit, NEW f \in FileIds PROVE StreamInv(f)
  BY ShapeInit DEF SInv
<1>1. TypeOK /\ CoreInv(f) /\ PcInv(f)
  BY InvInit DEF SessionInit, IInv, FileInv, RunInv
<1>2. /\ pc[f] = "send" /\ acks[f] = << >> /\ ack_queue[f] = << >>
      /\ toReceiver = << >> /\ toSender = << >> /\ handle[f] = None
  BY DEF SessionInit, Init, WireInit, SenderInit, ReceiverInit
<1>3. RoundInv(f) /\ EndInv(f)
  BY <1>2, EmptyQueue DEF RoundInv, EndInv, NoEndAck
<1>4. SettledInv(f)
  BY <1>2 DEF SettledInv, Settled, Quiet
<1>5. f \in ack_states
  BY DEF SessionInit
<1>. QED BY <1>1, <1>3, <1>4, <1>5 DEF StreamInv

LEMMA SInvNext ==
  ASSUME ~EarlyTimeout
  PROVE  SInv /\ [SessionNext]_allVars => SInv'
BY ShapeNext, StreamNext DEF SInv

(* Without early timers every stream that was not cut off stays apart from *)
(* the others and from the batches before, whatever is lost, interrupted   *)
(* or started again: an ACK of its END is the last that is heard of it, so *)
(* that a batch leaves nothing to the next                                 *)
(* (sender_gbn.py:254-289, receiver_gbn.py:103-146).                       *)
THEOREM SessionInductive ==
  ASSUME ~EarlyTimeout
  PROVE  SessionSpec => []SInv
<1>. QED BY SInvInit, SInvNext, PTL DEF SessionSpec

(* A file that is open at the receiver has the beginning of the file of    *)
(* its stream, in every batch, whatever the batches before have left or an *)
(* interruption has cut off of other streams                               *)
(* (receiver_gbn.py:99-122, sender_gbn.py:254-261).                        *)
THEOREM NeverMixedUncut ==
  ASSUME ~EarlyTimeout
  PROVE  SessionSpec => []UnmixedUnlessCut
<1>1. SInv => UnmixedUnlessCut
  <2>. SUFFICES ASSUME SInv, NEW f \in FileIds \ cut, handle[f] # None
                PROVE  /\ file[f] \in Files /\ BaseName[file[f]] = handle[f]
                       /\ IsPrefixOf(out[f], file[f])
    BY DEF UnmixedUnlessCut, Unmixed
  <2>1. CoreInv(f) /\ TypeOK
    BY DEF SInv, ShapeInv, StreamInv
  <2>. QED BY <2>1 DEF CoreInv, ReceiverInv, TypeOK, SenderTypeOK
<1>. QED BY <1>1, SessionInductive, PTL

\* The file of a thread that has returned is closed.
LEMMA DoneIsClosed ==
  ASSUME TypeOK, NEW f \in FileIds, StreamInv(f), f \in ack_states, pc[f] = "done"
  PROVE  handle[f] = None /\ saved[f] # {}
<1>1. CoreInv(f) /\ PcInv(f) /\ SettledInv(f)
  BY DEF StreamInv
<1>2. AckedParts(f) = LastPart(file[f]) + 1
  BY <1>1, DoneMeansAll DEF PcInv
<1>3. handle[f] = None
  BY <1>1, <1>2 DEF SettledInv, Settled
<1>4. GotParts(f) > 0
  BY <1>1, <1>2, Counts DEF CoreInv, ReceiverInv
<1>. QED BY <1>3, <1>4 DEF GotParts, ExpectedPart

\* Without interruptions and restarts no transfer is cut off.
LEMMA NothingCut ==
  ASSUME ~EarlyTimeout, ~Interrupts, ~Restarts
  PROVE  SessionSpec => [](cut = {})
<1>1. SessionInit => cut = {}
  BY DEF SessionInit
<1>2. SInv /\ cut = {} /\ [SessionNext]_allVars => (cut = {})'
  <2>. SUFFICES ASSUME SInv, cut = {}, [SessionNext]_allVars PROVE cut' = {}
    OBVIOUS
  <2>1. CASE StartBatch
    <3>1. cut' = cut \cup OpenIds /\ AllDone
      BY <2>1 DEF StartBatch
    <3>2. ack_states # {}
      BY DEF SInv, ShapeInv, BatchInv
    <3>3. ASSUME NEW f \in FileIds PROVE handle[f] = None
      <4>1. TypeOK /\ StreamInv(f) /\ pc[f] = "done"
        BY <3>1 DEF SInv, ShapeInv, AllDone
      <4>2. CASE f \in ack_states
        BY <4>1, <4>2, DoneIsClosed
      <4>3. CASE f \notin ack_states
        BY <3>2, <4>1, <4>3 DEF StreamInv, Settled
      <4>. QED BY <4>2, <4>3
    <3>. QED BY <3>1, <3>3 DEF OpenIds
  <2>2. CASE ~StartBatch
    BY <2>2 DEF SessionNext, StopRouting, Interrupt, Restart, Exit, allVars,
                sessionVars
  <2>. QED BY <2>1, <2>2
<1>. QED BY <1>1, <1>2, SessionInductive, PTL DEF SessionSpec

(* Streams never get mixed, as is promised (Bonus.txt:27), in any batch,   *)
(* whatever is lost, if no timer is early, the sender is not interrupted   *)
(* and the receiver not started again                                      *)
(* (receiver_gbn.py:99-122, sender_gbn.py:254-261).                        *)
THEOREM NeverMixedOtherwise ==
  ASSUME ~EarlyTimeout, ~Interrupts, ~Restarts
  PROVE  SessionSpec => []NeverMixed
<1>1. UnmixedUnlessCut /\ cut = {} => NeverMixed
  BY DEF UnmixedUnlessCut, NeverMixed
<1>. QED BY <1>1, NeverMixedUncut, NothingCut, PTL

(* What is reported complete in any batch was closed whole by the receiver *)
(* in that batch, and nothing else was, unless its file_id was cut off: no *)
(* ACK of another stream or of a batch before is believed                  *)
(* (sender_gbn.py:194-206, 254-261, receiver_gbn.py:131-134).              *)
THEOREM BatchIsSaved ==
  ASSUME ~EarlyTimeout
  PROVE  SessionSpec => []BatchSaved
<1>1. SInv => BatchSaved
  <2>. SUFFICES ASSUME SInv, NEW f \in FileIds \ cut
                PROVE  /\ saved[f] \subseteq {Copy(file[f])}
                       /\ f \in ack_states /\ pc[f] = "done" => saved[f] # {}
    BY DEF BatchSaved
  <2>1. TypeOK /\ CoreInv(f) /\ StreamInv(f)
    BY DEF SInv, ShapeInv, StreamInv
  <2>2. f \in ack_states /\ pc[f] = "done" => saved[f] # {}
    BY <2>1, DoneIsClosed
  <2>. QED BY <2>1, <2>2 DEF CoreInv, ReceiverInv
<1>. QED BY <1>1, SessionInductive, PTL

-----------------------------------------------------------------------------
(* The files on disk.                                                      *)

\* What SInv says of the file that a stream which was not cut off writes.
LEMMA OwnFile ==
  ASSUME SInv, NEW f \in FileIds \ cut
  PROVE  /\ file[f] \in Files /\ BaseName[file[f]] \in Names
         /\ BaseName[file[f]] # None
         /\ Chunks[file[f]] \in Nat
         /\ handle[f] \in {None, BaseName[file[f]]}
         /\ handle[f] # None => IsPrefixOf(out[f], file[f])
         /\ saved[f] \subseteq {Copy(file[f])}
         /\ out[f] \in Seq(Chunk) /\ Len(out[f]) \in Nat
<1>1. CoreInv(f) /\ TypeOK
  BY DEF SInv, ShapeInv, StreamInv
<1>2. file[f] \in Files /\ out[f] \in Seq(Chunk)
  BY <1>1 DEF TypeOK, SenderTypeOK, ReceiverTypeOK
<1>. QED BY <1>1, <1>2, NoneAssumption, ChunksAssumption
         DEF CoreInv, ReceiverInv, Names

\* Two streams write into one file only if they send the same one.
LEMMA SameFile ==
  ASSUME DistinctNames, SInv, NEW f \in FileIds \ cut, NEW g \in FileIds \ cut,
         BaseName[file[f]] = BaseName[file[g]]
  PROVE  file[f] = file[g]
BY OwnFile DEF DistinctNames

\* A flush by a handle of f: nothing right becomes wrong, and if what f had
\* flushed before was there, all that it has written is.
LEMMA FlushKeeps ==
  ASSUME SInv, BytesInv, NEW f \in FileIds \ cut, handle[f] # None,
         NEW d, d = Flush(disk, f)
  PROVE  /\ d \in [Names -> Seq(Chunk \cup {None})]
         /\ \A m \in Names : m # handle[f] => d[m] = disk[m]
         /\ Len(d[handle[f]]) <= Chunks[file[f]]
         /\ \A j \in Nat : Begins(disk[handle[f]], file[f], j)
                           => Begins(d[handle[f]], file[f], j)
         /\ Begins(disk[handle[f]], file[f], flushed[f])
              => Begins(d[handle[f]], file[f], Len(out[f]))
<1>. DEFINE n == handle[f]
            p == file[f]
            c == disk[n]
            o == out[f]
            k == flushed[f]
            r == Flushed(c, o, k, None)
<1>1. /\ p \in Files /\ n = BaseName[p] /\ n \in Names /\ Chunks[p] \in Nat
      /\ IsPrefixOf(o, p) /\ o \in Seq(Chunk) /\ Len(o) \in Nat
  BY OwnFile
<1>2. /\ disk \in [Names -> Seq(Chunk \cup {None})]
      /\ c \in Seq(Chunk \cup {None}) /\ Len(c) \in Nat /\ Len(c) <= Chunks[p]
      /\ o \in Seq(Chunk \cup {None}) /\ None \in Chunk \cup {None}
      /\ k \in Nat /\ k <= Len(o)
  BY <1>1 DEF BytesInv, FileOf
<1>. HIDE DEF c, o, k, n
<1>3. r \in Seq(Chunk \cup {None})
  BY <1>2, FlushedElements
<1>4. /\ Len(c) <= Len(o) => Len(r) = Len(o)
      /\ Len(o) <= Len(c) => Len(r) = Len(c)
  BY <1>2, FlushedElements
<1>5. SameFrom(r, o, k) /\ SameBut(r, c, k, Len(o))
  BY <1>2, FlushedElements
<1>6. d = [disk EXCEPT ![n] = r]
  BY DEF Flush, FlushTo, c, o, k, n
<1>. HIDE DEF r, p
<1>7. /\ d \in [Names -> Seq(Chunk \cup {None})] /\ d[n] = r
      /\ \A m \in Names : m # n => d[m] = disk[m]
  BY <1>1, <1>2, <1>3, <1>6
<1>8. Len(r) <= Chunks[p] /\ Len(r) >= Len(c) /\ Len(r) >= Len(o) /\ Len(r) \in Nat
  BY <1>1, <1>2, <1>4 DEF IsPrefixOf
<1>9. ASSUME NEW i \in 1 .. Len(o), k < i PROVE r[i] = [path |-> p, part |-> i]
  BY <1>1, <1>5, <1>9 DEF SameFrom, IsPrefixOf
<1>10. ASSUME NEW j \in Nat, Begins(c, p, j) PROVE Begins(r, p, j)
  <2>1. j <= Len(r)
    BY <1>2, <1>8, <1>10 DEF Begins
  <2>2. ASSUME NEW i \in 1 .. j PROVE r[i] = [path |-> p, part |-> i]
    <3>1. i \in 1 .. Len(c) /\ c[i] = [path |-> p, part |-> i]
      BY <1>2, <1>10 DEF Begins
    <3>2. CASE i <= k \/ Len(o) < i
      BY <1>5, <3>1, <3>2 DEF SameBut
    <3>3. CASE ~(i <= k \/ Len(o) < i)
      <4>1. i \in 1 .. Len(o) /\ k < i
        BY <1>1, <1>2, <3>3
      <4>. QED BY <1>9, <4>1
    <3>. QED BY <3>2, <3>3
  <2>. QED BY <2>1, <2>2 DEF Begins
<1>11. ASSUME Begins(c, p, k) PROVE Begins(r, p, Len(o))
  <2>1. ASSUME NEW i \in 1 .. Len(o) PROVE r[i] = [path |-> p, part |-> i]
    <3>1. CASE k < i
      BY <1>9, <3>1
    <3>2. CASE ~(k < i)
      <4>1. i \in 1 .. k
        BY <1>1, <1>2, <3>2
      <4>2. Begins(r, p, k)
        BY <1>2, <1>10, <1>11
      <4>. QED BY <4>1, <4>2 DEF Begins
    <3>. QED BY <3>1, <3>2
  <2>. QED BY <1>8, <2>1 DEF Begins
<1>. QED BY <1>7, <1>8, <1>10, <1>11 DEF c, o, k, n, p

\* A step that leaves the receiver, its files and the batch alone.
LEMMA FilesStill ==
  ASSUME BytesInv, \A g \in FileIds : OpenInv(g) /\ ClosedInv(g),
         UNCHANGED <<file, receiverVars, diskVars>>
  PROVE  BytesInv' /\ \A g \in FileIds : OpenInv(g)' /\ ClosedInv(g)'
<1>1. /\ UNCHANGED <<disk, flushed, out, handle, saved>> /\ file' = file
  BY DEF receiverVars, diskVars
<1>. QED BY <1>1 DEF BytesInv, OpenInv, ClosedInv, FileOf, Begins

\* A START opens its file, and so truncates it.
LEMMA FilesStart ==
  ASSUME DistinctNames, SInv, SInv', cut = {}, cut' = {}, file' = file, BytesInv,
         \A g \in FileIds : OpenInv(g) /\ ClosedInv(g),
         NEW f \in FileIds, RecvStart(f), OpenFile(f)
  PROVE  BytesInv' /\ \A g \in FileIds : OpenInv(g)' /\ ClosedInv(g)'
<1>. DEFINE p == file[f]
            n == BaseName[p]
            d == Flush(disk, f)
<1>0. /\ TypeOK /\ TypeOK' /\ f \in FileIds \ cut /\ f \in FileIds \ cut'
  BY DEF SInv, ShapeInv
<1>1. /\ p \in Files /\ n \in Names /\ n # None /\ Chunks[p] \in Nat
      /\ handle[f] \in {None, n}
  BY <1>0, OwnFile
<1>2. handle' = [handle EXCEPT ![f] = n]
  <2>1. handle' = [handle EXCEPT ![f] = BaseName[pkt.path]]
    BY DEF RecvStart
  <2>2. handle'[f] = BaseName[pkt.path] /\ handle'[f] \in {None, n}
    <3>1. CoreInv(f)'
      BY <1>0 DEF SInv, StreamInv
    <3>. QED BY <1>0, <2>1, <3>1 DEF TypeOK, ReceiverTypeOK, CoreInv, ReceiverInv
  <2>3. BaseName[pkt.path] # None
    <3>1. toReceiver # << >> /\ toReceiver \in Seq(Packet)
      BY <1>0 DEF RecvStart, Take, TypeOK
    <3>2. pkt \in Packet
      BY <3>1 DEF pkt
    <3>3. pkt.path \in Files
      BY <3>2 DEF Packet
    <3>. QED BY <3>3, NoneAssumption DEF Names
  <2>. QED BY <2>1, <2>2, <2>3
<1>3. /\ d \in [Names -> Seq(Chunk \cup {None})]
      /\ \A m \in Names : m # n => d[m] = disk[m]
  <2>1. CASE handle[f] = None
    BY <2>1 DEF Flush, BytesInv
  <2>2. CASE handle[f] # None
    BY <1>0, <1>1, <2>2, FlushKeeps
  <2>. QED BY <2>1, <2>2
<1>4. /\ disk' = [d EXCEPT ![n] = << >>]
      /\ flushed' = [flushed EXCEPT ![f] = 0]
  <2>1. n = BaseName[pkt.path]
    BY <1>0, <1>2 DEF RecvStart, TypeOK, ReceiverTypeOK
  <2>. QED BY <2>1 DEF OpenFile
<1>5. /\ out' = [out EXCEPT ![f] = << >>] /\ saved' = saved
  BY DEF RecvStart
<1>. HIDE DEF d
<1>6. /\ disk' \in [Names -> Seq(Chunk \cup {None})] /\ disk'[n] = << >>
      /\ \A m \in Names : m # n => disk'[m] = disk[m]
  <2>1. << >> \in Seq(Chunk \cup {None})
    OBVIOUS
  <2>. QED BY <1>1, <1>3, <1>4, <2>1
<1>. HIDE DEF n, p
<1>7. BytesInv'
  <2>1. \A q \in Files : BaseName[q] \in Names /\ Chunks[q] \in Nat
    BY ChunksAssumption DEF Names
  <2>2. \A q \in Files : Len(disk'[BaseName[q]]) <= Chunks[q]
    <3>. SUFFICES ASSUME NEW q \in Files PROVE Len(disk'[BaseName[q]]) <= Chunks[q]
      OBVIOUS
    <3>1. CASE BaseName[q] = n
      BY <1>6, <2>1, <3>1
    <3>2. CASE BaseName[q] # n
      BY <1>6, <2>1, <3>2 DEF BytesInv, FileOf
    <3>. QED BY <3>1, <3>2
  <2>3. flushed' \in [FileIds -> Nat]
    BY <1>4 DEF BytesInv
  <2>4. \A g \in FileIds : flushed'[g] <= Len(out'[g])
    <3>. SUFFICES ASSUME NEW g \in FileIds PROVE flushed'[g] <= Len(out'[g])
      OBVIOUS
    <3>1. CASE g = f
      <4>1. flushed'[g] = 0 /\ out'[g] = << >>
        BY <1>0, <1>4, <1>5, <3>1 DEF BytesInv, TypeOK, ReceiverTypeOK
      <4>. QED BY <4>1
    <3>2. CASE g # f
      BY <1>0, <1>4, <1>5, <3>2 DEF BytesInv, TypeOK, ReceiverTypeOK
    <3>. QED BY <3>1, <3>2
  <2>. QED BY <1>6, <2>2, <2>3, <2>4 DEF BytesInv, FileOf
<1>8. /\ handle'[f] = n /\ flushed'[f] = 0
      /\ \A g \in FileIds : g # f => handle'[g] = handle[g] /\ flushed'[g] = flushed[g]
  BY <1>0, <1>2, <1>4 DEF TypeOK, ReceiverTypeOK, BytesInv
<1>9. ASSUME NEW g \in FileIds PROVE OpenInv(g)' /\ ClosedInv(g)'
  <2>1. /\ g \in FileIds \ cut /\ BaseName[file[g]] \in Names
        /\ handle[g] \in {None, BaseName[file[g]]} /\ OpenInv(g) /\ ClosedInv(g)
    <3>1. g \in FileIds \ cut
      OBVIOUS
    <3>. QED BY <3>1, OwnFile
  <2>2. CASE BaseName[file[g]] = n
    <3>1. Begins(disk'[n], file[g], flushed'[f])
      BY <1>6, <1>8 DEF Begins
    <3>2. handle'[g] # None => handle'[g] = n
      BY <1>8, <2>1, <2>2
    <3>. QED BY <1>8, <2>2, <3>1, <3>2 DEF OpenInv, ClosedInv, FileOf
  <2>3. CASE BaseName[file[g]] # n
    <3>1. g # f /\ handle'[g] = handle[g] /\ saved'[g] = saved[g]
      BY <1>5, <1>8, <2>3 DEF n, p
    <3>2. disk'[BaseName[file[g]]] = disk[BaseName[file[g]]]
      BY <1>6, <2>1, <2>3
    <3>3. OpenInv(g)'
      <4>. SUFFICES ASSUME handle[g] # None,
                           ~Begins(FileOf(file[g]), file[g], Chunks[file[g]])
                    PROVE  \E h \in FileIds :
                             handle'[h] = handle[g]
                             /\ Begins(FileOf(file[g]), file[g], flushed'[h])
        BY <3>1, <3>2 DEF OpenInv, FileOf, Begins
      <4>1. PICK h \in FileIds : handle[h] = handle[g]
                                /\ Begins(FileOf(file[g]), file[g], flushed[h])
        BY <2>1 DEF OpenInv
      <4>2. h # f
        BY <1>1, <2>1, <2>3, <4>1
      <4>. QED BY <1>8, <4>1, <4>2
    <3>4. ClosedInv(g)'
      <4>1. ASSUME \A h \in FileIds : handle'[h] # BaseName[file[g]]
            PROVE  \A h \in FileIds : handle[h] # BaseName[file[g]]
        <5>. SUFFICES ASSUME NEW h \in FileIds PROVE handle[h] # BaseName[file[g]]
          OBVIOUS
        <5>1. CASE h = f
          <6>1. BaseName[file[g]] # None
            BY <2>1, NoneAssumption
          <6>. QED BY <1>1, <2>3, <5>1, <6>1
        <5>2. CASE h # f
          BY <1>8, <4>1, <5>2
        <5>. QED BY <5>1, <5>2
      <4>. QED BY <2>1, <3>1, <3>2, <4>1 DEF ClosedInv, FileOf, Begins
    <3>. QED BY <3>3, <3>4
  <2>. QED BY <2>2, <2>3
<1>. QED BY <1>7, <1>9

\* The buffer of f is flushed: what is right on disk stays so, for every stream.
LEMMA FlushRight ==
  ASSUME DistinctNames, SInv, cut = {}, BytesInv, NEW f \in FileIds,
         handle[f] # None, FlushBuffer(f), NEW g \in FileIds
  PROVE  LET p == file[g] IN
         /\ \A j \in Nat : Begins(FileOf(p), p, j) => Begins(disk'[BaseName[p]], p, j)
         /\ BaseName[p] = handle[f] /\ Begins(FileOf(p), p, flushed[f])
              => Begins(disk'[BaseName[p]], p, Len(out[f]))
         /\ BaseName[p] # handle[f] => disk'[BaseName[p]] = FileOf(p)
<1>. DEFINE p == file[g]
<1>1. /\ f \in FileIds \ cut /\ g \in FileIds \ cut /\ disk' = Flush(disk, f)
  BY DEF FlushBuffer
<1>2. /\ p \in Files /\ BaseName[p] \in Names /\ handle[f] = BaseName[file[f]]
  BY <1>1, OwnFile
<1>3. CASE BaseName[p] # handle[f]
  <2>1. disk'[BaseName[p]] = FileOf(p)
    BY <1>1, <1>2, <1>3, FlushKeeps DEF FileOf
  <2>. QED BY <1>3, <2>1
<1>4. CASE BaseName[p] = handle[f]
  <2>1. p = file[f]
    BY <1>1, <1>2, <1>4, SameFile
  <2>. QED BY <1>1, <1>4, <2>1, FlushKeeps DEF FileOf
<1>. QED BY <1>3, <1>4

\* Its types, and the lengths of the files.
LEMMA FlushBytes ==
  ASSUME DistinctNames, SInv, cut = {}, BytesInv, NEW f \in FileIds,
         handle[f] # None, FlushBuffer(f)
  PROVE  /\ disk' \in [Names -> Seq(Chunk \cup {None})]
         /\ \A q \in Files : Len(disk'[BaseName[q]]) <= Chunks[q]
         /\ flushed' \in [FileIds -> Nat] /\ flushed'[f] = Len(out[f])
         /\ \A g \in FileIds : g # f => flushed'[g] = flushed[g]
<1>1. f \in FileIds \ cut /\ disk' = Flush(disk, f)
  BY DEF FlushBuffer
<1>2. /\ handle[f] = BaseName[file[f]] /\ file[f] \in Files /\ Len(out[f]) \in Nat
  BY <1>1, OwnFile
<1>3. ASSUME NEW q \in Files PROVE Len(disk'[BaseName[q]]) <= Chunks[q]
  <2>1. BaseName[q] \in Names
    BY DEF Names
  <2>2. CASE BaseName[q] # handle[f]
    <3>1. disk'[BaseName[q]] = disk[BaseName[q]]
      BY <1>1, <2>1, <2>2, FlushKeeps
    <3>. QED BY <3>1 DEF BytesInv, FileOf
  <2>3. CASE BaseName[q] = handle[f]
    <3>1. q = file[f]
      BY <1>2, <2>3 DEF DistinctNames
    <3>2. Len(disk'[handle[f]]) <= Chunks[file[f]]
      BY <1>1, FlushKeeps
    <3>. QED BY <2>3, <3>1, <3>2
  <2>. QED BY <2>2, <2>3
<1>4. disk' \in [Names -> Seq(Chunk \cup {None})]
  BY <1>1, FlushKeeps
<1>5. flushed' = [flushed EXCEPT ![f] = Len(out[f])] /\ flushed \in [FileIds -> Nat]
  BY DEF FlushBuffer, BytesInv
<1>. QED BY <1>2, <1>3, <1>4, <1>5

\* A chunk is written, which may flush the buffer before it.
LEMMA FilesData ==
  ASSUME DistinctNames, SInv, cut = {}, file' = file, BytesInv,
         \A g \in FileIds : OpenInv(g) /\ ClosedInv(g),
         NEW f \in FileIds, RecvData(f), WriteFile(f)
  PROVE  BytesInv' /\ \A g \in FileIds : OpenInv(g)' /\ ClosedInv(g)'
<1>0. /\ TypeOK /\ f \in FileIds \ cut /\ out \in [FileIds -> Seq(Chunk)]
      /\ handle[f] # None /\ handle' = handle /\ saved' = saved
  BY DEF SInv, ShapeInv, TypeOK, ReceiverTypeOK, RecvData
<1>1. \A g \in FileIds : Len(out[g]) <= Len(out'[g]) /\ Len(out'[g]) \in Nat
                          /\ Len(out[g]) \in Nat
  <2>1. pkt.path \in Files /\ pkt.part \in Nat
    <3>1. toReceiver # << >> /\ toReceiver \in Seq(Packet)
      BY <1>0 DEF RecvData, Take, TypeOK
    <3>2. pkt \in Packet
      BY <3>1 DEF pkt
    <3>. QED BY <3>2 DEF Packet
  <2>2. [path |-> pkt.path, part |-> pkt.part] \in Chunk
    BY <2>1 DEF Chunk
  <2>3. out' = [out EXCEPT ![f] = Append(@, [path |-> pkt.path, part |-> pkt.part])]
    BY DEF RecvData
  <2>. QED BY <1>0, <2>2, <2>3
<1>2. CASE UNCHANGED diskVars
  <2>1. disk' = disk /\ flushed' = flushed
    BY <1>2 DEF diskVars
  <2>2. BytesInv'
    BY <1>1, <2>1 DEF BytesInv, FileOf
  <2>3. \A g \in FileIds : OpenInv(g)' /\ ClosedInv(g)'
    BY <1>0, <2>1 DEF OpenInv, ClosedInv, FileOf, Begins
  <2>. QED BY <2>2, <2>3
<1>3. CASE FlushBuffer(f)
  <2>1. /\ flushed' \in [FileIds -> Nat] /\ flushed'[f] = Len(out[f])
        /\ \A g \in FileIds : g # f => flushed'[g] = flushed[g]
        /\ disk' \in [Names -> Seq(Chunk \cup {None})]
        /\ \A q \in Files : Len(disk'[BaseName[q]]) <= Chunks[q]
    BY <1>0, <1>3, FlushBytes
  <2>2. \A g \in FileIds : flushed'[g] <= Len(out'[g])
    <3>. SUFFICES ASSUME NEW g \in FileIds PROVE flushed'[g] <= Len(out'[g])
      OBVIOUS
    <3>1. flushed[g] <= Len(out[g]) /\ flushed[g] \in Nat
      BY DEF BytesInv
    <3>. QED BY <1>1, <2>1, <3>1
  <2>3. BytesInv'
    BY <2>1, <2>2 DEF BytesInv, FileOf
  <2>4. ASSUME NEW g \in FileIds PROVE OpenInv(g)' /\ ClosedInv(g)'
    <3>. DEFINE p == file[g]
    <3>1. /\ \A j \in Nat : Begins(FileOf(p), p, j) => Begins(disk'[BaseName[p]], p, j)
          /\ BaseName[p] = handle[f] /\ Begins(FileOf(p), p, flushed[f])
               => Begins(disk'[BaseName[p]], p, Len(out[f]))
      BY <1>0, <1>3, FlushRight
    <3>2. /\ g \in FileIds \ cut /\ Chunks[p] \in Nat
          /\ handle[g] \in {None, BaseName[p]} /\ OpenInv(g) /\ ClosedInv(g)
      <4>1. g \in FileIds \ cut
        OBVIOUS
      <4>. QED BY <4>1, OwnFile
    <3>3. Begins(FileOf(p), p, Chunks[p]) => Begins(disk'[BaseName[p]], p, Chunks[p])
      BY <3>1, <3>2
    <3>4. ASSUME handle[g] # None, NEW h \in FileIds, handle[h] = handle[g],
                 Begins(FileOf(p), p, flushed[h])
          PROVE  Begins(disk'[BaseName[p]], p, flushed'[h])
      <4>1. CASE h = f
        BY <2>1, <3>1, <3>2, <3>4, <4>1
      <4>2. CASE h # f
        BY <2>1, <3>1, <3>4, <4>2 DEF BytesInv
      <4>. QED BY <4>1, <4>2
    <3>5. OpenInv(g)'
      BY <1>0, <3>2, <3>3, <3>4 DEF OpenInv, FileOf
    <3>6. ClosedInv(g)'
      BY <1>0, <3>2, <3>3 DEF ClosedInv, FileOf
    <3>. QED BY <3>5, <3>6
  <2>. QED BY <2>3, <2>4
<1>. QED BY <1>2, <1>3 DEF WriteFile

\* An END closes its file, which has everything then.
LEMMA FilesEnd ==
  ASSUME DistinctNames, SInv, SInv', cut = {}, cut' = {}, file' = file, BytesInv,
         \A g \in FileIds : OpenInv(g) /\ ClosedInv(g),
         NEW f \in FileIds, RecvEnd(f), CloseFile(f)
  PROVE  BytesInv' /\ \A g \in FileIds : OpenInv(g)' /\ ClosedInv(g)'
<1>0. /\ TypeOK /\ f \in FileIds \ cut /\ f \in FileIds \ cut'
      /\ handle \in [FileIds -> Names \cup {None}]
      /\ out \in [FileIds -> Seq(Chunk)] /\ out' = out /\ FlushBuffer(f)
      /\ Len(out[f]) \in Nat /\ flushed \in [FileIds -> Nat]
  BY DEF SInv, ShapeInv, TypeOK, ReceiverTypeOK, RecvEnd, CloseFile, BytesInv
<1>1. /\ handle'[f] = None
      /\ \A g \in FileIds : g # f => handle'[g] = handle[g] /\ saved'[g] = saved[g]
      /\ saved'[f] = saved[f] \cup Closed(f)
  BY <1>0 DEF RecvEnd, TypeOK, ReceiverTypeOK
<1>2. /\ flushed' \in [FileIds -> Nat] /\ flushed'[f] = Len(out[f])
      /\ \A g \in FileIds : g # f => flushed'[g] = flushed[g]
  BY <1>0 DEF FlushBuffer
<1>3. ASSUME NEW g \in FileIds
      PROVE  /\ g \in FileIds \ cut /\ Chunks[file[g]] \in Nat
             /\ BaseName[file[g]] # None /\ handle[g] \in {None, BaseName[file[g]]}
             /\ OpenInv(g) /\ ClosedInv(g)
  <2>1. g \in FileIds \ cut
    OBVIOUS
  <2>. QED BY <2>1, OwnFile
<1>4. \A g \in FileIds : flushed'[g] <= Len(out'[g])
  <2>. SUFFICES ASSUME NEW g \in FileIds PROVE flushed'[g] <= Len(out[g])
    BY <1>0
  <2>1. flushed[g] <= Len(out[g])
    BY DEF BytesInv
  <2>2. CASE g = f
    BY <1>0, <1>2, <2>2
  <2>3. CASE g # f
    BY <1>2, <2>1, <2>3
  <2>. QED BY <2>2, <2>3
<1>5. CASE handle[f] = None
  <2>1. disk' = disk
    BY <1>0, <1>5 DEF FlushBuffer, Flush
  <2>2. BytesInv'
    BY <1>2, <1>4, <2>1 DEF BytesInv, FileOf
  <2>3. \A g \in FileIds : handle'[g] = handle[g] /\ saved'[g] = saved[g]
    BY <1>1, <1>5 DEF Closed
  <2>4. ASSUME NEW g \in FileIds PROVE OpenInv(g)' /\ ClosedInv(g)'
    <3>1. ClosedInv(g)'
      BY <1>3, <2>1, <2>3 DEF ClosedInv, FileOf, Begins
    <3>2. \A h \in FileIds : handle[g] # None /\ handle[h] = handle[g]
                            => flushed'[h] = flushed[h]
      BY <1>2, <1>5
    <3>3. OpenInv(g)'
      BY <1>3, <2>1, <2>3, <3>2 DEF OpenInv, FileOf, Begins
    <3>. QED BY <3>1, <3>3
  <2>. QED BY <2>2, <2>4
<1>6. CASE handle[f] # None
  <2>. DEFINE q == file[f]
  <2>1. /\ disk' \in [Names -> Seq(Chunk \cup {None})]
        /\ \A r \in Files : Len(disk'[BaseName[r]]) <= Chunks[r]
    BY <1>0, <1>6, FlushBytes
  <2>2. BytesInv'
    BY <1>2, <1>4, <2>1 DEF BytesInv, FileOf
  <2>3. Len(out[f]) = Chunks[q] /\ handle[f] = BaseName[q]
    <3>1. saved'[f] \subseteq {Copy(q)}
      <4>1. CoreInv(f)'
        BY <1>0 DEF SInv, StreamInv
      <4>. QED BY <4>1 DEF CoreInv, ReceiverInv
    <3>2. [name |-> handle[f], content |-> out[f]] = Copy(q)
      BY <1>1, <1>6, <3>1 DEF Closed
    <3>3. out[f] = Content(q)
      BY <3>2 DEF Copy
    <3>. QED BY <1>0, <1>3, <1>6, <3>3 DEF Content
  <2>4. ASSUME NEW g \in FileIds PROVE OpenInv(g)' /\ ClosedInv(g)'
    <3>. DEFINE p == file[g]
                Whole == Begins(disk'[BaseName[p]], p, Chunks[p])
    <3>1. /\ \A j \in Nat : Begins(FileOf(p), p, j) => Begins(disk'[BaseName[p]], p, j)
          /\ BaseName[p] = handle[f] /\ Begins(FileOf(p), p, flushed[f])
               => Begins(disk'[BaseName[p]], p, Len(out[f]))
      BY <1>0, <1>6, FlushRight
    <3>2. Begins(FileOf(p), p, Chunks[p]) => Whole
      BY <1>3, <3>1
    <3>3. BaseName[p] = handle[f] => p = q
      <4>1. g \in FileIds \ cut
        OBVIOUS
      <4>. QED BY <1>0, <2>3, <4>1, SameFile
    <3>4. ASSUME NEW h \in FileIds, handle[h] = BaseName[p],
                 Begins(FileOf(p), p, flushed[h])
          PROVE  Whole \/ (h # f /\ Begins(disk'[BaseName[p]], p, flushed'[h]))
      <4>1. CASE h = f
        <5>1. Begins(disk'[BaseName[p]], p, Len(out[f])) /\ p = q
          BY <3>1, <3>3, <3>4, <4>1
        <5>. QED BY <2>3, <5>1
      <4>2. CASE h # f
        BY <1>0, <1>2, <3>1, <3>4, <4>2
      <4>. QED BY <4>1, <4>2
    <3>5. OpenInv(g)'
      <4>. SUFFICES ASSUME handle'[g] # None, ~Whole
                    PROVE  \E h \in FileIds :
                             /\ handle'[h] = handle'[g]
                             /\ Begins(disk'[BaseName[p]], p, flushed'[h])
        BY DEF OpenInv, FileOf
      <4>1. g # f /\ handle[g] = BaseName[p] /\ handle'[g] = handle[g]
        BY <1>1, <1>3
      <4>2. PICK h \in FileIds : handle[h] = handle[g]
                                /\ Begins(FileOf(p), p, flushed[h])
        BY <1>3, <3>2, <4>1 DEF OpenInv
      <4>3. h # f /\ Begins(disk'[BaseName[p]], p, flushed'[h])
        BY <3>4, <4>1, <4>2
      <4>. QED BY <1>1, <4>1, <4>2, <4>3
    <3>6. ClosedInv(g)'
      <4>. SUFFICES ASSUME saved'[g] # {},
                           \A h \in FileIds : handle'[h] # BaseName[p]
                    PROVE  Whole
        BY DEF ClosedInv, FileOf
      <4>1. CASE handle[f] = BaseName[p]
        <5>1. OpenInv(f) /\ p = q
          BY <1>3, <3>3, <4>1
        <5>2. CASE Begins(FileOf(q), q, Chunks[q])
          BY <3>2, <5>1, <5>2
        <5>3. CASE ~Begins(FileOf(q), q, Chunks[q])
          <6>1. PICK h \in FileIds : handle[h] = handle[f]
                                    /\ Begins(FileOf(q), q, flushed[h])
            BY <1>6, <5>1, <5>3 DEF OpenInv
          <6>2. h = f
            BY <1>1, <4>1, <6>1
          <6>. QED BY <3>4, <4>1, <5>1, <6>1, <6>2
        <5>. QED BY <5>2, <5>3
      <4>2. CASE handle[f] # BaseName[p]
        <5>1. g # f
          BY <2>3, <4>2
        <5>2. saved[g] # {} /\ \A h \in FileIds : handle[h] # BaseName[p]
          BY <1>1, <4>2, <5>1
        <5>. QED BY <1>3, <3>2, <5>2 DEF ClosedInv
      <4>. QED BY <4>1, <4>2
    <3>. QED BY <3>5, <3>6
  <2>. QED BY <2>2, <2>4
<1>. QED BY <1>5, <1>6

LEMMA FilesInit == SessionInit => FilesInv
<1>. SUFFICES ASSUME SessionInit PROVE BytesInv /\ \A f \in FileIds : OpenInv(f) /\ ClosedInv(f)
  BY DEF FilesInv
<1>1. /\ handle = [f \in FileIds |-> None] /\ saved = [f \in FileIds |-> {}]
      /\ out = [f \in FileIds |-> << >>] /\ flushed = [f \in FileIds |-> 0]
      /\ disk = [n \in Names |-> << >>]
  BY DEF SessionInit, Init, ReceiverInit
<1>2. \A p \in Files : BaseName[p] \in Names /\ Chunks[p] \in Nat
  BY ChunksAssumption DEF Names
<1>3. BytesInv
  <2>1. disk \in [Names -> Seq(Chunk \cup {None})]
    <3>1. << >> \in Seq(Chunk \cup {None})
      OBVIOUS
    <3>. QED BY <1>1, <3>1
  <2>2. \A p \in Files : disk[BaseName[p]] = << >>
    BY <1>1, <1>2
  <2>. QED BY <1>1, <1>2, <2>1, <2>2 DEF BytesInv, FileOf
<1>. QED BY <1>1, <1>3 DEF OpenInv, ClosedInv

LEMMA FilesNext ==
  ASSUME DistinctNames, SInv, SInv', FilesInv, [SessionNext]_allVars
  PROVE  FilesInv'
<1>. SUFFICES ASSUME cut' = {}
              PROVE  BytesInv' /\ \A g \in FileIds : OpenInv(g)' /\ ClosedInv(g)'
  BY DEF FilesInv
<1>1. cut \subseteq cut'
  BY DEF SessionNext, StopRouting, StartBatch, Interrupt, Restart, Exit,
         allVars, sessionVars
<1>2. cut = {} /\ BytesInv /\ \A g \in FileIds : OpenInv(g) /\ ClosedInv(g)
  <2>1. cut = {}
    BY <1>1
  <2>. QED BY <2>1 DEF FilesInv
<1>3. CASE UNCHANGED <<file, receiverVars, diskVars>>
  BY <1>2, <1>3, FilesStill
<1>4. ASSUME NEW f \in FileIds, SenderStep(f) \/ Timeout(f) \/ RouteAck(f),
             UNCHANGED <<receiverVars, sessionVars, diskVars>>
      PROVE  UNCHANGED <<file, receiverVars, diskVars>>
  BY <1>4 DEF SenderStep, SendStart, SendData, SendEnd, Transmit, Drain, AcceptAck,
              IgnoreAck, NoTimeout, Resend, Timeout, RouteAck, fileVars
<1>5. CASE \/ LoseData /\ UNCHANGED <<senderVars, sessionVars, diskVars>>
           \/ LoseAck /\ UNCHANGED <<senderVars, receiverVars, sessionVars, diskVars>>
           \/ StopRouting \/ Interrupt \/ Exit \/ UNCHANGED allVars
  <2>1. UNCHANGED <<file, receiverVars, diskVars>>
    BY <1>5 DEF LoseData, LoseAck, StopRouting, Interrupt, Exit, allVars, vars,
                senderVars, fileVars
  <2>. QED BY <1>3, <2>1
<1>6. ASSUME NEW f \in FileIds, Handle(f), UNCHANGED <<senderVars, sessionVars>>
      PROVE  BytesInv' /\ \A g \in FileIds : OpenInv(g)' /\ ClosedInv(g)'
  <2>1. file' = file
    BY <1>6 DEF senderVars, fileVars
  <2>2. CASE RecvStart(f) /\ OpenFile(f)
    BY <1>2, <2>1, <2>2, FilesStart
  <2>3. CASE RecvData(f) /\ WriteFile(f)
    BY <1>2, <2>1, <2>3, FilesData
  <2>4. CASE RecvEnd(f) /\ CloseFile(f)
    BY <1>2, <2>1, <2>4, FilesEnd
  <2>5. CASE (RejectStart(f) \/ IgnoreData(f) \/ Discard(f)) /\ UNCHANGED diskVars
    <3>1. UNCHANGED receiverVars
      BY <2>5 DEF RejectStart, IgnoreData, Discard
    <3>. QED BY <1>3, <2>1, <2>5, <3>1
  <2>. QED BY <1>6, <2>2, <2>3, <2>4, <2>5 DEF Handle
<1>7. CASE StartBatch
  <2>1. /\ handle' = handle /\ out' = out /\ UNCHANGED <<flushed, disk>>
        /\ saved' = [f \in FileIds |-> {}]
    BY <1>7 DEF StartBatch, diskVars
  <2>2. \A g \in FileIds : handle[g] = None
    BY <1>7 DEF StartBatch, OpenIds
  <2>3. BytesInv'
    BY <1>2, <2>1 DEF BytesInv, FileOf
  <2>. QED BY <2>1, <2>2, <2>3 DEF OpenInv, ClosedInv
<1>8. CASE Restart
  <2>1. OpenIds = {}
    BY <1>8 DEF Restart
  <2>2. /\ disk' = disk /\ flushed' = [f \in FileIds |-> 0]
        /\ handle' = [f \in FileIds |-> None] /\ out' = [f \in FileIds |-> << >>]
        /\ saved' = saved /\ file' = file
    BY <1>8, <2>1 DEF Restart, AllClosed, senderVars, fileVars
  <2>3. \A g \in FileIds : handle[g] = None /\ handle'[g] = None
    BY <2>1, <2>2 DEF OpenIds
  <2>4. BytesInv'
    BY <1>2, <2>2 DEF BytesInv, FileOf
  <2>5. ASSUME NEW g \in FileIds PROVE OpenInv(g)' /\ ClosedInv(g)'
    <3>1. saved[g] # {} => Begins(FileOf(file[g]), file[g], Chunks[file[g]])
      <4>1. BaseName[file[g]] # None
        <5>1. g \in FileIds \ cut
          BY <1>2
        <5>. QED BY <5>1, OwnFile
      <4>. QED BY <1>2, <2>3, <4>1 DEF ClosedInv
    <3>. QED BY <2>2, <2>3, <3>1 DEF OpenInv, ClosedInv, FileOf, Begins
  <2>. QED BY <2>4, <2>5
<1>. QED BY <1>3, <1>4, <1>5, <1>6, <1>7, <1>8 DEF SessionNext

\* A file with all chunks of its path, and no more, is that path's.
LEMMA WholeFile ==
  ASSUME BytesInv, NEW p \in Files, Begins(FileOf(p), p, Chunks[p])
  PROVE  FileOf(p) = Content(p)
<1>1. /\ BaseName[p] \in Names /\ Chunks[p] \in Nat
      /\ FileOf(p) \in Seq(Chunk \cup {None}) /\ Len(FileOf(p)) = Chunks[p]
  BY ChunksAssumption DEF Names, BytesInv, FileOf, Begins
<1>2. \A i \in 1 .. Chunks[p] : FileOf(p)[i] = [path |-> p, part |-> i]
  BY DEF Begins
<1>3. FileOf(p) = [i \in 1 .. Chunks[p] |-> FileOf(p)[i]]
  BY <1>1
<1>. HIDE DEF FileOf
<1>. QED BY <1>2, <1>3 DEF Content

(* Without early timers, and if no two paths have one base name, of the    *)
(* handles that are open on one file the last opened has on disk all that  *)
(* it flushed, until one has the whole file there, and a file of the batch *)
(* that was closed is whole, although every START truncates what is there  *)
(* and each stream writes through a buffer of its own                      *)
(* (receiver_gbn.py:111-115, 122, 127-129).                                *)
THEOREM FilesOnDisk ==
  ASSUME ~EarlyTimeout, DistinctNames
  PROVE  SessionSpec => []FilesInv
<1>1. SessionInit => FilesInv
  BY FilesInit
<1>2. SInv /\ SInv' /\ FilesInv /\ [SessionNext]_allVars => FilesInv'
  BY FilesNext
<1>. QED BY <1>1, <1>2, SessionInductive, PTL DEF SessionSpec

(* Under the same assumptions the files of a batch that has returned are   *)
(* on disk as they were sent, byte for byte, although those of several     *)
(* streams, or the same one by several, are written at once                *)
(* (receiver_gbn.py:111-115, 122, 127-129).                                *)
THEOREM FilesAreWhole ==
  ASSUME ~EarlyTimeout, DistinctNames
  PROVE  SessionSpec => []WholeOnDisk
<1>1. SInv /\ FilesInv => WholeOnDisk
  <2>. SUFFICES ASSUME SInv, FilesInv, cut = {}, AllDone, NEW f \in ack_states
                PROVE  FileOf(file[f]) = Content(file[f])
    BY DEF WholeOnDisk, FileOf
  <2>1. /\ ack_states \subseteq FileIds /\ ack_states # {} /\ f \in FileIds
    BY DEF SInv, ShapeInv, BatchInv
  <2>2. ASSUME NEW g \in FileIds
        PROVE  handle[g] = None /\ (g \in ack_states => saved[g] # {})
    <3>1. TypeOK /\ StreamInv(g) /\ CoreInv(g) /\ pc[g] = "done"
      BY DEF SInv, ShapeInv, StreamInv, AllDone
    <3>2. CASE g \in ack_states
      BY <3>1, <3>2, DoneIsClosed
    <3>3. CASE g \notin ack_states
      BY <2>1, <3>1, <3>3 DEF StreamInv, Settled
    <3>. QED BY <3>2, <3>3
  <2>3. file[f] \in Files /\ BaseName[file[f]] # None
    <3>1. f \in FileIds \ cut
      BY <2>1
    <3>. QED BY <3>1, OwnFile
  <2>4. BytesInv /\ ClosedInv(f)
    BY <2>1 DEF FilesInv
  <2>5. Begins(FileOf(file[f]), file[f], Chunks[file[f]])
    BY <2>1, <2>2, <2>3, <2>4 DEF ClosedInv
  <2>. QED BY <2>3, <2>4, <2>5, WholeFile
<1>. QED BY <1>1, FilesOnDisk, SessionInductive, PTL
=============================================================================
