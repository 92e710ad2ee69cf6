--------------------------- MODULE AckDemuxProofs ---------------------------
(***************************************************************************)
(* Proofs about AckDemux: its types, that recvfrom never blocks while the  *)
(* joins are in time, and that the threads are the mailbox of AckMailbox.  *)
(***************************************************************************)
EXTENDS DemuxInv, FiniteSetTheorems, SequenceTheorems, TLAPS

-----------------------------------------------------------------------------
(* The invariant holds at the start and is kept by every step.             *)

LEMMA BatchTypes ==
  /\ 1 \in Batches /\ MaxBatches \in Nat /\ Batches \subseteq Nat
  /\ \A n \in Nat : FirstIds(n) \subseteq FileIds
  /\ \A f \in FileIds : f \in FirstIds(f + 1)
BY DemuxAssumption DEF Batches, FirstIds

LEMMA InvInit == Init => DInv
<1>. SUFFICES ASSUME Init PROVE DInv
  OBVIOUS
<1>. USE DEF Init
<1>1. PICK k \in FileIds : ack_states = FirstIds(k + 1)
  OBVIOUS
<1>2. ack_states \in SUBSET FileIds
  BY <1>1, BatchTypes DEF FirstIds
<1>3. DemuxTypeOK
  <2>1. sock \in Seq(Acks) /\ Len(sock) <= SockCap /\ arrived \in 0 .. MaxAcks
    BY DemuxAssumption
  <2>2. /\ batch \in Batches /\ stop_event \subseteq 1 .. batch
        /\ outlived \subseteq stop_event
    BY BatchTypes
  <2>3. /\ router \in [Batches -> {"unborn", "check", "select", "recv", "append",
                                   "notify", "trace", "ended"}]
        /\ data \in [Batches -> Acks \cup {None}]
    OBVIOUS
  <2>4. \A g \in Batches :
          data[g] # None <=> router[g] \in {"append", "notify", "trace"}
    OBVIOUS
  <2>5. /\ thread \in [FileIds -> {"work", "wait", "drain", "clear", "handle", "done"}]
        /\ notified \in [FileIds -> BOOLEAN]
        /\ lock \in [FileIds -> {"none", "thread", "router"}]
    BY DEF Working, Idle, Free
  <2>6. /\ acks \in [FileIds -> Seq(Acks)] /\ ack_queue \in [FileIds -> Seq(Acks)]
        /\ \A f \in FileIds \ ack_states : ack_queue[f] = << >>
    BY DEF Empty
  <2>. QED BY <1>2, <2>1, <2>2, <2>3, <2>4, <2>5, <2>6 DEF DemuxTypeOK
<1>4. LockInv
  BY BatchTypes DEF LockInv, Working
<1>5. ThreadInv
  BY DEF ThreadInv, Working
<1>6. BatchInv
  BY BatchTypes DEF BatchInv, closed, Batches
<1>7. JoinInv /\ NeverBlocks
  BY BatchTypes DEF JoinInv, NeverBlocks
<1>. QED BY <1>3, <1>4, <1>5, <1>6, <1>7 DEF DInv

\* The ACKs that arrive, and those that are taken from a queue.
LEMMA QueueTypes ==
  ASSUME NEW T, NEW q \in Seq(T)
  PROVE  /\ Len(q) \in Nat
         /\ \A m \in T : Append(q, m) \in Seq(T) /\ Len(Append(q, m)) = Len(q) + 1
         /\ q # << >> => /\ Head(q) \in T /\ Tail(q) \in Seq(T)
                         /\ Len(Tail(q)) = Len(q) - 1
OBVIOUS

\* A step of a thread.
LEMMA ThreadInvNext ==
  ASSUME DInv, NEW f \in FileIds, Thread(f)
  PROVE  DInv'
<1>. USE DEF DInv
<1>1. /\ UNCHANGED <<sock, arrived, userVars, routerVars>>
      /\ \A h \in FileIds \ {f} :
           /\ thread'[h] = thread[h] /\ lock'[h] = lock[h]
           /\ ack_queue'[h] = ack_queue[h] /\ acks'[h] = acks[h]
           /\ notified'[h] = notified[h]
      /\ f \in ack_states /\ thread[f] # "done"
      /\ thread' \in [FileIds -> {"work", "wait", "drain", "clear", "handle", "done"}]
  BY DEF Thread, BeginWait, Wake, Copy, Clear, Handle, AfterAcks, DemuxTypeOK,
     ThreadInv
<1>2. /\ notified' \in [FileIds -> BOOLEAN]
      /\ acks' \in [FileIds -> Seq(Acks)] /\ ack_queue' \in [FileIds -> Seq(Acks)]
      /\ lock' \in [FileIds -> {"none", "thread", "router"}]
  <2>. << >> \in Seq(Acks)
    OBVIOUS
  <2>1. CASE BeginWait(f) \/ Wake(f) \/ Handle(f)
    BY <2>1 DEF BeginWait, Wake, Handle, DemuxTypeOK
  <2>2. CASE Copy(f)
    BY <2>2 DEF Copy, DemuxTypeOK
  <2>3. CASE Clear(f)
    BY <2>3 DEF Clear, DemuxTypeOK
  <2>. QED BY <2>1, <2>2, <2>3 DEF Thread
<1>3. \/ lock' = lock /\ thread'[f] # "clear"
      \/ lock[f] = "none" /\ lock'[f] = "thread"
      \/ thread[f] = "clear" /\ lock'[f] = "none" /\ thread'[f] = "handle"
  BY DEF Thread, BeginWait, Wake, Copy, Clear, Handle, AfterAcks, DemuxTypeOK
<1>4. DemuxTypeOK'
  BY <1>1, <1>2 DEF DemuxTypeOK, userVars, routerVars
<1>5. LockInv'
  <2>1. ASSUME NEW h \in FileIds, thread'[h] = "clear" PROVE lock'[h] = "thread"
    BY <1>1, <1>3, <2>1 DEF LockInv
  <2>2. ASSUME router[batch] = "trace"
        PROVE  lock'[data[batch].file_id] = "router"
    <3>1. data[batch].file_id \in FileIds
      BY <2>2, DemuxNoneAssumption DEF DemuxTypeOK, Acks
    <3>. QED BY <1>1, <1>3, <2>2, <3>1 DEF LockInv
  <2>. QED BY <1>1, <2>1, <2>2 DEF LockInv, userVars, routerVars
<1>6. ThreadInv'
  <2>1. Reading # {}
    BY <1>1 DEF Reading
  <2>. QED BY <1>1, <2>1 DEF ThreadInv, userVars
<1>7. BatchInv' /\ JoinInv' /\ NeverBlocks'
  BY <1>1 DEF BatchInv, JoinInv, NeverBlocks, closed, userVars, routerVars
<1>. QED BY <1>4, <1>5, <1>6, <1>7

\* A step of a demultiplexer leaves to the others what is theirs.
LEMMA RouterFrame ==
  ASSUME DInv, NEW g \in Batches, Router(g)
  PROVE  /\ UNCHANGED <<arrived, userVars, thread, acks>>
         /\ router \in [Batches -> {"unborn", "check", "select", "recv", "append",
                                    "notify", "trace", "ended"}]
         /\ router' \in [Batches -> {"unborn", "check", "select", "recv", "append",
                                     "notify", "trace", "ended"}]
         /\ \A h \in Batches \ {g} : router'[h] = router[h] /\ data'[h] = data[h]
         /\ router[g] \notin {"unborn", "ended"} /\ router'[g] # "unborn"
         /\ g <= batch
<1>. USE DEF DInv
<1>1. /\ UNCHANGED <<arrived, userVars, thread, acks>>
      /\ router' \in [Batches -> {"unborn", "check", "select", "recv", "append",
                                  "notify", "trace", "ended"}]
      /\ \A h \in Batches \ {g} : router'[h] = router[h] /\ data'[h] = data[h]
      /\ router[g] \notin {"unborn", "ended"} /\ router'[g] # "unborn"
  BY DEF Router, Check, Select, Abort, Recv, Ignore, AppendAck, Notify, Release, At,
     routerVars, threadVars, DemuxTypeOK
<1>2. g <= batch
  BY <1>1, BatchTypes DEF BatchInv, DemuxTypeOK
<1>. QED BY <1>1, <1>2 DEF DemuxTypeOK

\* An ACK in the hands of a demultiplexer.
LEMMA HeldAck ==
  ASSUME DemuxTypeOK, NEW g \in Batches,
         router[g] \in {"append", "notify", "trace"}
  PROVE  data[g] \in Acks /\ data[g].file_id \in FileIds
BY DEF DemuxTypeOK, Acks

LEMMA RouterTypes ==
  ASSUME DInv, NEW g \in Batches, Router(g)
  PROVE  DemuxTypeOK'
<1>. USE DEF DInv
<1>1. CASE Check(g) \/ Select(g) \/ Abort(g)
  <2>1. /\ UNCHANGED <<sock, data, threadVars, ack_queue, lock>>
        /\ router[g] \in {"check", "select", "recv"}
        /\ router'[g] \in {"check", "select", "recv", "ended"}
    BY <1>1, RouterFrame DEF Check, Select, Abort, At
  <2>2. \A h \in Batches :
          data'[h] # None <=> router'[h] \in {"append", "notify", "trace"}
    BY <2>1, RouterFrame DEF DemuxTypeOK
  <2>. QED BY <2>1, <2>2, RouterFrame DEF DemuxTypeOK, userVars, threadVars
<1>2. CASE Recv(g)
  <2>1. /\ sock # << >> /\ sock' = Tail(sock) /\ router'[g] = "append"
        /\ data' = [data EXCEPT ![g] = Head(sock)]
        /\ UNCHANGED <<threadVars, ack_queue, lock>>
    BY <1>2, RouterFrame DEF Recv, At
  <2>2. Head(sock) \in Acks /\ sock' \in Seq(Acks) /\ Len(sock') <= SockCap
    BY <2>1, QueueTypes, DemuxAssumption DEF DemuxTypeOK
  <2>3. data' \in [Batches -> Acks \cup {None}] /\ data'[g] = Head(sock)
    BY <2>1, <2>2 DEF DemuxTypeOK
  <2>4. \A h \in Batches :
          data'[h] # None <=> router'[h] \in {"append", "notify", "trace"}
    BY <2>1, <2>2, <2>3, RouterFrame, DemuxNoneAssumption DEF DemuxTypeOK
  <2>. QED BY <2>1, <2>2, <2>3, <2>4, RouterFrame DEF DemuxTypeOK, userVars, threadVars
<1>3. CASE Ignore(g)
  <2>1. /\ router'[g] = "check" /\ data' = [data EXCEPT ![g] = None]
        /\ UNCHANGED <<sock, threadVars, ack_queue, lock>>
    BY <1>3, RouterFrame DEF Ignore, At
  <2>2. data' \in [Batches -> Acks \cup {None}] /\ data'[g] = None
    BY <2>1 DEF DemuxTypeOK
  <2>3. \A h \in Batches :
          data'[h] # None <=> router'[h] \in {"append", "notify", "trace"}
    BY <2>1, <2>2, RouterFrame DEF DemuxTypeOK
  <2>. QED BY <2>1, <2>2, <2>3, RouterFrame DEF DemuxTypeOK, userVars, threadVars
<1>4. CASE AppendAck(g)
  <2>. DEFINE f == data[g].file_id
  <2>1. /\ router[g] = "append" /\ router'[g] = "notify"
        /\ f \in ack_states /\ UNCHANGED <<sock, data, threadVars, lock>>
        /\ ack_queue' = [ack_queue EXCEPT ![f] = Append(@, data[g])]
    BY <1>4, RouterFrame DEF AppendAck, At, Unread
  <2>2. data[g] \in Acks /\ f \in FileIds
    BY <2>1, HeldAck
  <2>. HIDE DEF f
  <2>3. /\ ack_queue' \in [FileIds -> Seq(Acks)]
        /\ \A h \in FileIds \ {f} : ack_queue'[h] = ack_queue[h]
    <3>1. ack_queue[f] \in Seq(Acks)
      BY <2>2 DEF DemuxTypeOK
    <3>2. Append(ack_queue[f], data[g]) \in Seq(Acks)
      BY <2>2, <3>1, QueueTypes
    <3>. QED BY <2>1, <2>2, <3>2 DEF DemuxTypeOK
  <2>4. \A h \in Batches :
          data'[h] # None <=> router'[h] \in {"append", "notify", "trace"}
    BY <2>1, RouterFrame DEF DemuxTypeOK
  <2>5. \A h \in FileIds \ ack_states : ack_queue'[h] = << >>
    BY <2>1, <2>3 DEF DemuxTypeOK
  <2>. QED
    BY <2>1, <2>3, <2>4, <2>5, RouterFrame DEF DemuxTypeOK, userVars, threadVars
<1>5. CASE Notify(g)
  <2>1. /\ router[g] = "notify" /\ router'[g] = "trace"
        /\ UNCHANGED <<sock, data, ack_queue>>
        /\ lock' = [lock EXCEPT ![data[g].file_id] = "router"]
        /\ notified' = [notified EXCEPT ![data[g].file_id]
                          = thread[data[g].file_id] = "wait"]
    BY <1>5, RouterFrame DEF Notify, At
  <2>2. /\ lock' \in [FileIds -> {"none", "thread", "router"}]
        /\ notified' \in [FileIds -> BOOLEAN]
    BY <2>1 DEF DemuxTypeOK
  <2>3. \A h \in Batches :
          data'[h] # None <=> router'[h] \in {"append", "notify", "trace"}
    BY <2>1, RouterFrame DEF DemuxTypeOK
  <2>. QED BY <2>1, <2>2, <2>3, RouterFrame DEF DemuxTypeOK, userVars
<1>6. CASE Release(g)
  <2>1. /\ router'[g] = "check" /\ data' = [data EXCEPT ![g] = None]
        /\ UNCHANGED <<sock, threadVars, ack_queue>>
        /\ lock' = lock \/ lock' = [lock EXCEPT ![data[g].file_id] = "none"]
    BY <1>6, RouterFrame DEF Release, At
  <2>2. /\ data' \in [Batches -> Acks \cup {None}] /\ data'[g] = None
        /\ lock' \in [FileIds -> {"none", "thread", "router"}]
    BY <2>1 DEF DemuxTypeOK
  <2>3. \A h \in Batches :
          data'[h] # None <=> router'[h] \in {"append", "notify", "trace"}
    BY <2>1, <2>2, RouterFrame DEF DemuxTypeOK
  <2>. QED BY <2>1, <2>2, <2>3, RouterFrame DEF DemuxTypeOK, userVars, threadVars
<1>. QED BY <1>1, <1>2, <1>3, <1>4, <1>5, <1>6 DEF Router

\* Only the batch's own demultiplexer touches a lock.
LEMMA RouterLocks ==
  ASSUME DInv, NEW g \in Batches, Router(g)
  PROVE  LockInv'
<1>. USE DEF DInv
<1>1. UNCHANGED <<batch, thread>>
  BY RouterFrame DEF userVars
<1>2. batch \in Batches
  BY DEF DemuxTypeOK
<1>3. CASE Notify(g)
  <2>. DEFINE f == data[g].file_id
  <2>1. /\ g = batch /\ lock[f] = "none" /\ data' = data
        /\ router[g] = "notify" /\ lock' = [lock EXCEPT ![f] = "router"]
    BY <1>3 DEF Notify, At
  <2>2. f \in FileIds
    BY <2>1, HeldAck
  <2>. HIDE DEF f
  <2>3. lock'[f] = "router" /\ \A h \in FileIds \ {f} : lock'[h] = lock[h]
    BY <2>1, <2>2 DEF DemuxTypeOK
  <2>4. ASSUME NEW h \in FileIds, thread'[h] = "clear" PROVE lock'[h] = "thread"
    BY <1>1, <2>1, <2>3, <2>4 DEF LockInv
  <2>. QED BY <1>1, <2>1, <2>3, <2>4 DEF LockInv, f
<1>4. CASE Release(g) /\ g = batch
  <2>. DEFINE f == data[g].file_id
  <2>1. /\ router[g] = "trace" /\ lock' = [lock EXCEPT ![f] = "none"]
        /\ router'[g] = "check"
    BY <1>2, <1>4, BatchTypes, RouterFrame DEF Release, At
  <2>2. f \in FileIds /\ lock[f] = "router"
    BY <1>4, <2>1, HeldAck DEF LockInv
  <2>. HIDE DEF f
  <2>3. \A h \in FileIds \ {f} : lock'[h] = lock[h]
    BY <2>1, <2>2 DEF DemuxTypeOK
  <2>4. ASSUME NEW h \in FileIds, thread'[h] = "clear" PROVE lock'[h] = "thread"
    BY <1>1, <2>2, <2>3, <2>4 DEF LockInv
  <2>. QED BY <1>1, <1>4, <2>1, <2>4 DEF LockInv
<1>5. CASE ~Notify(g) /\ ~(Release(g) /\ g = batch)
  <2>1. lock' = lock /\ router'[g] # "trace"
    BY <1>5, RouterFrame
    DEF Router, Check, Select, Abort, Recv, Ignore, AppendAck, Release, At
  <2>2. router'[batch] = "trace" => g # batch
    BY <1>1, <2>1
  <2>3. router'[batch] = "trace"
          => router[batch] = "trace" /\ data'[batch] = data[batch]
    BY <1>2, <2>2, RouterFrame
  <2>. QED BY <1>1, <2>1, <2>3 DEF LockInv
<1>. QED BY <1>3, <1>4, <1>5

\* While every join was in time only the batch's own takes an ACK.
LEMMA RouterAlone ==
  ASSUME DInv, NEW g \in Batches, Router(g)
  PROVE  JoinInv' /\ NeverBlocks'
<1>. USE DEF DInv
<1>1. SUFFICES ASSUME outlived = {} PROVE JoinInv' /\ NeverBlocks'
  BY RouterFrame DEF JoinInv, NeverBlocks, userVars
<1>2. batch \in Nat /\ g \in Nat /\ batch \in Batches
  BY BatchTypes DEF DemuxTypeOK
<1>3. g = batch /\ user # "prompt"
  <2>1. ~(g < batch)
    BY <1>1, <1>2, RouterFrame DEF JoinInv, Batches
  <2>2. g = batch
    BY <1>2, <2>1, RouterFrame
  <2>. QED BY <1>1, <2>2, RouterFrame DEF JoinInv
<1>4. JoinInv'
  <2>1. UNCHANGED <<batch, user, outlived>>
    BY RouterFrame DEF userVars
  <2>2. \A h \in 1 .. batch - 1 : h \in Batches \ {g} /\ router[h] = "ended"
    BY <1>1, <1>2, <1>3, BatchTypes DEF JoinInv, Batches
  <2>3. \A h \in 1 .. batch - 1 : router'[h] = "ended"
    BY <2>2, RouterFrame
  <2>. QED BY <1>3, <2>1, <2>3 DEF JoinInv
<1>5. NeverBlocks'
  <2>1. ASSUME NEW h \in Batches, router'[h] = "recv" PROVE h = g
    <3>1. CASE h < batch
      BY <1>1, <1>2, <1>3, <2>1, <3>1, RouterFrame DEF JoinInv, Batches
    <3>2. CASE h > batch
      BY <1>3, <2>1, <3>2, RouterFrame DEF BatchInv
    <3>. QED BY <1>2, <1>3, <3>1, <3>2 DEF Batches
  <2>2. router'[g] = "recv" => sock' # << >>
    BY RouterFrame DEF Router, Check, Select, Abort, Recv, Ignore, AppendAck, Notify,
       Release, At
  <2>. QED BY <2>1, <2>2 DEF NeverBlocks
<1>. QED BY <1>4, <1>5

LEMMA RouterInvNext ==
  ASSUME DInv, NEW g \in Batches, Router(g)
  PROVE  DInv'
<1>. USE DEF DInv
<1>1. ThreadInv'
  BY RouterFrame DEF ThreadInv, Reading, userVars
<1>2. BatchInv'
  <2>1. \A h \in Batches : router'[h] = "unborn" <=> router[h] = "unborn"
    BY RouterFrame
  <2>. QED BY <2>1, RouterFrame DEF BatchInv, closed, userVars
<1>. QED BY <1>1, <1>2, RouterTypes, RouterLocks, RouterAlone

-----------------------------------------------------------------------------
(* The steps of the network and of the caller.                             *)

LEMMA ArriveInvNext == DInv /\ Arrive => DInv'
<1>. SUFFICES ASSUME DInv, Arrive PROVE DInv'
  OBVIOUS
<1>. USE DEF DInv
<1>1. PICK f \in FileIds : sock' = Append(sock, [file_id |-> f, number |-> arrived'])
  BY DEF Arrive
<1>2. /\ arrived' \in 1 .. MaxAcks /\ Len(sock) < SockCap
      /\ UNCHANGED <<userVars, routerVars, threadVars, ack_queue, lock>>
  BY DemuxAssumption DEF Arrive, DemuxTypeOK
<1>3. [file_id |-> f, number |-> arrived'] \in Acks
  BY <1>2 DEF Acks
<1>4. sock' \in Seq(Acks) /\ Len(sock') <= SockCap /\ sock' # << >>
  <2>1. /\ sock \in Seq(Acks) /\ sock' \in Seq(Acks) /\ Len(sock') = Len(sock) + 1
        /\ Len(sock) \in Nat
    BY <1>1, <1>3, QueueTypes DEF DemuxTypeOK
  <2>. QED BY <1>2, <2>1, DemuxAssumption
<1>5. DemuxTypeOK'
  BY <1>2, <1>4, DemuxAssumption
  DEF DemuxTypeOK, userVars, routerVars, threadVars
<1>6. LockInv' /\ ThreadInv' /\ BatchInv' /\ JoinInv'
  BY <1>2
  DEF LockInv, ThreadInv, BatchInv, JoinInv, Reading, closed, userVars, routerVars,
      threadVars
<1>7. NeverBlocks'
  BY <1>4 DEF NeverBlocks
<1>. QED BY <1>5, <1>6, <1>7

LEMMA CallerInvNext == DInv /\ (Stop \/ Join \/ Close) => DInv'
<1>. SUFFICES ASSUME DInv, Stop \/ Join \/ Close PROVE DInv'
  OBVIOUS
<1>. USE DEF DInv
<1>1. UNCHANGED <<sock, arrived, routerVars, threadVars, ack_queue, lock, batch,
                  ack_states, caller>>
  BY DEF Stop, Join, Close
<1>2. /\ stop_event \subseteq stop_event' /\ outlived \subseteq outlived'
      /\ stop_event' \subseteq 1 .. batch /\ outlived' \subseteq stop_event'
      /\ user' \in {"stopping", "prompt", "closed"} /\ batch \in stop_event'
  <2>1. /\ stop_event \subseteq 1 .. batch /\ outlived \subseteq stop_event
        /\ batch \in 1 .. batch
    BY BatchTypes DEF DemuxTypeOK, Batches
  <2>2. CASE Stop
    BY <2>1, <2>2 DEF Stop
  <2>3. CASE Join \/ Close
    BY <2>1, <2>3 DEF Join, Close, BatchInv
  <2>. QED BY <2>2, <2>3
<1>3. DemuxTypeOK'
  BY <1>1, <1>2 DEF DemuxTypeOK, routerVars, threadVars
<1>4. LockInv'
  BY <1>1 DEF LockInv, routerVars, threadVars
<1>5. ThreadInv'
  <2>1. user' = "prompt" => caller = "user_loop"
    BY DEF Stop, Join, Close
  <2>2. user' \in {"stopping", "prompt"} /\ caller = "user_loop" => Reading = {}
    BY DEF Stop, Join, Close, GivesUp, ThreadInv, Reading
  <2>. QED BY <1>1, <2>1, <2>2 DEF ThreadInv, Reading, threadVars
<1>6. BatchInv'
  <2>1. user' = "closed" => caller = "run_transfer"
    BY DEF Stop, Join, Close
  <2>. QED BY <1>1, <1>2, <2>1 DEF BatchInv, closed, routerVars
<1>7. JoinInv'
  <2>1. user' = "prompt" /\ outlived' = {} => router[batch] = "ended"
    BY DEF Stop, Join, Close, Joined
  <2>. QED BY <1>1, <1>2, <2>1 DEF JoinInv, routerVars
<1>8. NeverBlocks'
  BY <1>1, <1>2 DEF NeverBlocks, routerVars
<1>. QED BY <1>3, <1>4, <1>5, <1>6, <1>7, <1>8

\* A new batch finds the one before it over, and nothing of it but the strays.
LEMMA StartBatchInvNext == DInv /\ StartBatch => DInv'
<1>. SUFFICES ASSUME DInv, StartBatch PROVE DInv'
  OBVIOUS
<1>. USE DEF DInv
<1>1. /\ user = "prompt" /\ user' = "joining" /\ batch' = batch + 1
      /\ UNCHANGED <<sock, arrived, caller, stop_event, outlived, data>>
  BY DEF StartBatch
<1>2. batch \in Nat /\ batch \in Batches /\ batch' \in Batches
  BY <1>1, DemuxAssumption DEF StartBatch, DemuxTypeOK, Batches
<1>3. PICK f \in FileIds : ack_states' = FirstIds(f + 1)
  BY DEF StartBatch
<1>4. /\ ack_states' \in SUBSET FileIds
      /\ thread' = Working(ack_states') /\ lock' = Free /\ notified' = Idle
      /\ acks' = Empty /\ ack_queue' = Empty
  BY <1>3 DEF StartBatch, FirstIds
<1>5. /\ router' \in [Batches -> {"unborn", "check", "select", "recv", "append",
                                  "notify", "trace", "ended"}]
      /\ router'[batch'] = "check" /\ router[batch'] = "unborn"
      /\ \A g \in Batches \ {batch'} : router'[g] = router[g]
  BY <1>1, <1>2 DEF StartBatch, DemuxTypeOK, BatchInv
<1>6. DemuxTypeOK'
  <2>1. sock' \in Seq(Acks) /\ Len(sock') <= SockCap /\ arrived' \in 0 .. MaxAcks
    BY <1>1 DEF DemuxTypeOK
  <2>2. /\ caller' \in {"user_loop", "run_transfer"}
        /\ stop_event' \subseteq 1 .. batch' /\ outlived' \subseteq stop_event'
    BY <1>1, <1>2 DEF DemuxTypeOK
  <2>3. data' \in [Batches -> Acks \cup {None}]
    BY <1>1 DEF DemuxTypeOK
  <2>4. \A g \in Batches :
          data'[g] # None <=> router'[g] \in {"append", "notify", "trace"}
    BY <1>1, <1>5 DEF DemuxTypeOK
  <2>5. /\ thread' \in [FileIds -> {"work", "wait", "drain", "clear", "handle", "done"}]
        /\ notified' \in [FileIds -> BOOLEAN]
        /\ lock' \in [FileIds -> {"none", "thread", "router"}]
    BY <1>4 DEF Working, Idle, Free
  <2>6. /\ acks' \in [FileIds -> Seq(Acks)] /\ ack_queue' \in [FileIds -> Seq(Acks)]
        /\ \A h \in FileIds \ ack_states' : ack_queue'[h] = << >>
    BY <1>4 DEF Empty
  <2>. QED BY <1>1, <1>2, <1>4, <1>5, <2>1, <2>2, <2>3, <2>4, <2>5, <2>6 DEF DemuxTypeOK
<1>7. LockInv' /\ ThreadInv'
  BY <1>1, <1>4, <1>5 DEF LockInv, ThreadInv, Working
<1>8. BatchInv'
  <2>1. caller = "user_loop" /\ batch \in stop_event
    BY <1>1 DEF ThreadInv, BatchInv
  <2>2. \A g \in 1 .. batch' - 1 : g \in stop_event'
    BY <1>1, <1>2, <2>1 DEF BatchInv
  <2>3. \A g \in Batches : router'[g] = "unborn" <=> g > batch'
    BY <1>1, <1>2, <1>5, BatchTypes DEF BatchInv
  <2>. QED BY <1>1, <2>1, <2>2, <2>3 DEF BatchInv, closed
<1>9. JoinInv'
  <2>1. ASSUME outlived = {}, NEW g \in 1 .. batch' - 1 PROVE router'[g] = "ended"
    <3>1. g \in Batches \ {batch'} /\ (g = batch \/ g \in 1 .. batch - 1)
      BY <1>1, <1>2, <2>1, BatchTypes DEF Batches
    <3>. QED BY <1>1, <1>5, <2>1, <3>1 DEF JoinInv
  <2>. QED BY <1>1, <2>1 DEF JoinInv
<1>10. NeverBlocks'
  BY <1>1, <1>5 DEF NeverBlocks
<1>. QED BY <1>6, <1>7, <1>8, <1>9, <1>10

LEMMA InvNext == DInv /\ [Next]_vars => DInv'
<1>. SUFFICES ASSUME DInv, [Next]_vars PROVE DInv'
  OBVIOUS
<1>1. CASE Arrive
  BY <1>1, ArriveInvNext
<1>2. CASE Stop \/ Join \/ Close
  BY <1>2, CallerInvNext
<1>3. CASE StartBatch
  BY <1>3, StartBatchInvNext
<1>4. CASE \E f \in FileIds : Thread(f)
  BY <1>4, ThreadInvNext
<1>5. CASE \E g \in Batches : Router(g)
  BY <1>5, RouterInvNext
<1>6. CASE UNCHANGED vars
  BY <1>6
  DEF vars, userVars, routerVars, threadVars, DInv, DemuxTypeOK, LockInv, ThreadInv,
      BatchInv, JoinInv, NeverBlocks, Reading, closed
<1>. QED BY <1>1, <1>2, <1>3, <1>4, <1>5, <1>6 DEF Next, Exit

(* At every moment a lock is held by the thread that copies its list or by *)
(* the batch's own demultiplexer, every thread is of the batch, and the    *)
(* demultiplexer of every batch before was told to stop, and has ended     *)
(* unless a join gave up (sender_gbn.py:118-126, 176-206, 287-289).        *)
THEOREM DemuxInductive == Spec => []DInv
<1>. QED BY InvInit, InvNext, PTL DEF Spec

(* The types: in particular a demultiplexer holds an ACK exactly while it  *)
(* handles one, and no list but those of the batch ever has an ACK in it   *)
(* (sender_gbn.py:198-208).                                                *)
THEOREM DemuxTypeCorrect == Spec => []DemuxTypeOK
<1>1. DInv => DemuxTypeOK
  BY DEF DInv
<1>. QED BY <1>1, DemuxInductive, PTL

(* While every join of ack_receiver is in time, none of them blocks in     *)
(* recvfrom: what select has seen nobody else takes                        *)
(* (sender_gbn.py:177-184).                                                *)
THEOREM RecvNeverBlocks == Spec => []NeverBlocks
<1>1. DInv => NeverBlocks
  BY DEF DInv
<1>. QED BY <1>1, DemuxInductive, PTL

-----------------------------------------------------------------------------
(* The threads are a mailbox: each step is one of AckMailbox or a stutter. *)

LEMMA StraysFinite ==
  ASSUME DInv
  PROVE  IsFiniteSet(Strays) /\ Cardinality(Strays) \in Nat
<1>1. batch \in Nat
  BY BatchTypes DEF DInv, DemuxTypeOK
<1>2. IsFiniteSet(1 .. batch - 1)
  BY <1>1, FS_Interval
<1>3. Strays \subseteq 1 .. batch - 1
  BY DEF Strays
<1>. QED BY <1>2, <1>3, FS_Subset, FS_CardinalityType

LEMMA OneStrayLess ==
  ASSUME DInv, NEW g \in Strays, Strays' = Strays \ {g}
  PROVE  Cardinality(Strays) > 0 /\ Cardinality(Strays') = Cardinality(Strays) - 1
<1>1. Cardinality(Strays \ {g}) = Cardinality(Strays) - 1
  BY StraysFinite, FS_RemoveElement
<1>2. IsFiniteSet(Strays \ {g})
  BY StraysFinite, FS_Subset
<1>3. Cardinality(Strays \ {g}) \in Nat
  BY <1>2, FS_CardinalityType
<1>. QED BY <1>1, <1>3, StraysFinite

\* The queue of a mailbox is a queue of ACKs.
LEMMA TakenType ==
  ASSUME DInv
  PROVE  /\ sock \in Seq(Acks) /\ Taken \in Seq(Acks) /\ Taken \o sock \in Seq(Acks)
         /\ router[batch] = "append"
              => Taken = <<data[batch]>> /\ data[batch] \in Acks
         /\ router[batch] # "append" => Taken = << >> /\ Taken \o sock = sock
<1>1. sock \in Seq(Acks) /\ batch \in Batches
  BY DEF DInv, DemuxTypeOK
<1>2. CASE router[batch] = "append"
  <2>1. data[batch] \in Acks
    BY <1>1, <1>2, HeldAck DEF DInv
  <2>2. Taken = <<data[batch]>> /\ Taken \in Seq(Acks)
    BY <1>2, <2>1 DEF Taken
  <2>. QED BY <1>1, <1>2, <2>1, <2>2
<1>3. CASE router[batch] # "append"
  <2>1. Taken = << >> /\ Taken \in Seq(Acks)
    BY <1>3 DEF Taken
  <2>2. Taken \o sock = sock
    BY <1>1, <2>1
  <2>. QED BY <1>1, <1>3, <2>1, <2>2
<1>. QED BY <1>2, <1>3

LEMMA MailboxInit == Init => Mailbox!Init
<1>. SUFFICES ASSUME Init PROVE Mailbox!Init
  OBVIOUS
<1>1. PICK k \in FileIds : ack_states = FirstIds(k + 1)
  BY DEF Init
<1>2. /\ sock = << >> /\ batch = 1 /\ thread = Working(ack_states)
      /\ ack_queue = Empty /\ router[batch] = "check"
  BY BatchTypes DEF Init
<1>3. Reading \in SUBSET FileIds /\ Reading # {}
  <2>1. k \in ack_states /\ ack_states \subseteq FileIds
    BY <1>1, BatchTypes DEF FirstIds
  <2>. QED BY <1>2, <2>1 DEF Reading, Working
<1>4. Taken \o sock = << >>
  <2>1. Taken = << >>
    BY <1>2 DEF Taken
  <2>. QED BY <1>2, <2>1
<1>5. Box = Mailbox!Empty /\ Hand = Mailbox!Empty
  BY <1>2 DEF Box, Hand, Mailbox!Empty, Empty, Working
<1>6. Cardinality(Strays) = 0
  <2>1. Strays = {}
    BY <1>2 DEF Strays
  <2>. QED BY <2>1, FS_EmptySet
<1>. QED BY <1>3, <1>4, <1>5, <1>6 DEF Mailbox!Init

\* A thread collects, uses or leaves.
LEMMA ThreadMailbox ==
  ASSUME DInv, NEW f \in FileIds, Thread(f)
  PROVE  [Mailbox!Next]_(Mailbox!vars)
<1>. USE DEF DInv
<1>1. /\ UNCHANGED <<Taken, sock, Strays, ack_states>>
      /\ thread \in [FileIds -> {"work", "wait", "drain", "clear", "handle", "done"}]
      /\ f \in ack_states /\ f \in Reading
  BY DEF Thread, BeginWait, Wake, Copy, Clear, Handle, DemuxTypeOK, ThreadInv, Taken,
     Strays, Reading, userVars, routerVars
<1>2. /\ acks \in [FileIds -> Seq(Acks)] /\ ack_queue \in [FileIds -> Seq(Acks)]
  BY DEF DemuxTypeOK
<1>3. CASE BeginWait(f) \/ Wake(f)
  <2>1. /\ thread[f] \in {"work", "wait"} /\ UNCHANGED <<ack_queue, acks>>
        /\ \E there \in {"wait", "drain"} : thread' = [thread EXCEPT ![f] = there]
    BY <1>3 DEF BeginWait, Wake
  <2>2. Reading' = Reading
    BY <1>1, <2>1 DEF Reading
  <2>3. Box' = Box /\ Hand' = Hand
    BY <1>1, <2>1, <2>2 DEF Box, Hand
  <2>. QED BY <1>1, <2>2, <2>3 DEF Mailbox!vars
<1>4. CASE Copy(f)
  <2>1. /\ thread[f] = "drain" /\ thread' = [thread EXCEPT ![f] = "clear"]
        /\ acks' = [acks EXCEPT ![f] = ack_queue[f]] /\ UNCHANGED ack_queue
    BY <1>4 DEF Copy
  <2>2. Reading' = Reading
    BY <1>1, <2>1 DEF Reading
  <2>3. Hand[f] = << >> /\ Hand' = [Hand EXCEPT ![f] = Box[f]]
    BY <1>1, <1>2, <2>1 DEF Box, Hand
  <2>4. Box' = [Box EXCEPT ![f] = << >>]
    BY <1>1, <2>1, <2>2 DEF Box
  <2>. QED BY <1>1, <2>2, <2>3, <2>4 DEF Mailbox!Next, Mailbox!Collect
<1>5. CASE Clear(f)
  <2>1. /\ thread[f] = "clear" /\ thread' = [thread EXCEPT ![f] = "handle"]
        /\ ack_queue' = [ack_queue EXCEPT ![f] = << >>] /\ UNCHANGED acks
    BY <1>5 DEF Clear
  <2>2. Reading' = Reading
    BY <1>1, <2>1 DEF Reading
  <2>3. Box' = Box /\ Hand' = Hand
    BY <1>1, <1>2, <2>1, <2>2 DEF Box, Hand
  <2>. QED BY <1>1, <2>2, <2>3 DEF Mailbox!vars
<1>6. CASE Handle(f)
  <2>1. PICK next \in {"work", "done"} : thread' = [thread EXCEPT ![f] = next]
    BY <1>6 DEF Handle, AfterAcks
  <2>2. thread[f] = "handle" /\ UNCHANGED <<acks, ack_queue>>
    BY <1>6 DEF Handle
  <2>3. Hand[f] = acks[f] /\ Hand' = [Hand EXCEPT ![f] = << >>]
    BY <1>1, <2>1, <2>2 DEF Hand
  <2>4. CASE next = "work"
    <3>1. Reading' = Reading
      BY <1>1, <2>1, <2>2, <2>4 DEF Reading
    <3>2. Box' = Box
      BY <1>1, <2>1, <2>2, <2>4, <3>1 DEF Box
    <3>3. CASE acks[f] = << >>
      <4>1. Hand' = Hand
        BY <2>3, <3>3 DEF Hand
      <4>. QED BY <1>1, <3>1, <3>2, <4>1 DEF Mailbox!vars
    <3>4. CASE acks[f] # << >>
      <4>. DEFINE k == Len(Hand[f])
      <4>1. Hand[f] \in Seq(Acks) /\ Hand[f] # << >>
        BY <1>2, <2>3, <3>4
      <4>2. k \in 1 .. Len(Hand[f]) /\ SubSeq(Hand[f], k + 1, Len(Hand[f])) = << >>
        BY <4>1
      <4>. HIDE DEF k
      <4>3. Mailbox!Use(f)
        BY <1>1, <2>3, <3>1, <3>2, <4>2 DEF Mailbox!Use
      <4>. QED BY <4>3 DEF Mailbox!Next
    <3>. QED BY <3>3, <3>4
  <2>5. CASE next = "done"
    <3>1. Reading' = Reading \ {f} /\ Reading \ Reading' = {f}
      BY <1>1, <2>1, <2>5 DEF Reading
    <3>2. Box' = [h \in FileIds |-> IF h \in {f} THEN << >> ELSE Box[h]]
      BY <1>1, <2>1, <2>2, <2>5, <3>1 DEF Box
    <3>3. Hand' = [h \in FileIds |-> IF h \in {f} THEN << >> ELSE Hand[h]]
      BY <2>3 DEF Hand
    <3>. QED BY <1>1, <3>1, <3>2, <3>3 DEF Mailbox!Next, Mailbox!Leave
  <2>. QED BY <2>1, <2>4, <2>5
<1>. QED BY <1>3, <1>4, <1>5, <1>6 DEF Thread

\* The batch's own demultiplexer routes.
LEMMA RouterMailbox ==
  ASSUME DInv, Router(batch)
  PROVE  [Mailbox!Next]_(Mailbox!vars)
<1>. USE DEF DInv
<1>1. batch \in Batches /\ batch \in Nat
  BY BatchTypes DEF DemuxTypeOK
<1>2. UNCHANGED <<userVars, thread, acks, Reading, Hand, Strays>>
  <2>1. UNCHANGED <<userVars, thread, acks>>
    BY <1>1, RouterFrame
  <2>2. \A g \in 1 .. batch - 1 : router'[g] = router[g]
    BY <1>1, BatchTypes, RouterFrame DEF Batches
  <2>. QED BY <2>1, <2>2 DEF Reading, Hand, Strays, userVars
<1>3. CASE Check(batch) \/ Select(batch) \/ Abort(batch) \/ Notify(batch) \/ Release(batch)
  <2>1. /\ UNCHANGED <<sock, ack_queue>>
        /\ router[batch] # "append" /\ router'[batch] # "append"
    BY <1>1, <1>3, RouterFrame DEF Check, Select, Abort, Notify, Release, At
  <2>2. Taken' = Taken
    BY <1>2, <2>1 DEF Taken, userVars
  <2>3. Box' = Box
    BY <1>2, <2>1 DEF Box
  <2>. QED BY <1>2, <2>1, <2>2, <2>3 DEF Mailbox!vars
<1>4. CASE Recv(batch)
  <2>1. /\ router[batch] = "recv" /\ router'[batch] = "append" /\ sock # << >>
        /\ sock' = Tail(sock) /\ data'[batch] = Head(sock) /\ UNCHANGED ack_queue
    BY <1>1, <1>4, RouterFrame DEF Recv, At, DemuxTypeOK
  <2>2. Taken \o sock = sock /\ Taken' = <<Head(sock)>>
    BY <1>2, <2>1, TakenType DEF Taken, userVars
  <2>3. Taken' \o sock' = sock
    BY <2>1, <2>2, TakenType
  <2>4. Box' = Box
    BY <1>2, <2>1 DEF Box
  <2>. QED BY <1>2, <2>2, <2>3, <2>4 DEF Mailbox!vars
<1>5. CASE Ignore(batch) \/ AppendAck(batch)
  <2>. DEFINE d == data[batch]
              f == d.file_id
  <2>1. /\ router[batch] = "append" /\ router'[batch] # "append" /\ sock' = sock
    BY <1>1, <1>5, RouterFrame DEF Ignore, AppendAck, At
  <2>2. d \in Acks /\ f \in FileIds
    BY <1>1, <2>1, HeldAck
  <2>3. Taken = <<d>> /\ Taken' = << >>
    BY <1>2, <2>1 DEF Taken, userVars
  <2>4. /\ Taken \o sock # << >> /\ Head(Taken \o sock) = d
        /\ Tail(Taken \o sock) = sock /\ Taken' \o sock' = sock
    <3>. HIDE DEF d
    <3>. QED BY <2>1, <2>2, <2>3, TakenType
  <2>5. Box' = IF f \in Reading THEN [Box EXCEPT ![f] = Append(@, d)] ELSE Box
    <3>1. CASE Ignore(batch)
      <4>1. f \notin Reading /\ UNCHANGED ack_queue
        BY <1>1, <3>1 DEF Ignore, Unread, Reading
      <4>. QED BY <1>2, <4>1 DEF Box
    <3>2. CASE AppendAck(batch)
      <4>1. /\ lock[f] = "none"
            /\ ack_queue' = [ack_queue EXCEPT ![f] = Append(@, d)]
        BY <3>2 DEF AppendAck, MayAppend
      <4>2. thread[f] # "clear"
        BY <2>2, <4>1 DEF LockInv
      <4>3. \A h \in FileIds : ack_queue'[h] = IF h = f THEN Append(ack_queue[f], d)
                                              ELSE ack_queue[h]
        <5>1. ack_queue \in [FileIds -> Seq(Acks)]
          BY DEF DemuxTypeOK
        <5>. HIDE DEF d, f
        <5>. QED BY <4>1, <5>1
      <4>. HIDE DEF d, f
      <4>4. CASE f \in Reading
        <5>1. Box[f] = ack_queue[f]
          BY <2>2, <4>2, <4>4 DEF Box
        <5>. QED BY <1>2, <2>2, <4>2, <4>3, <4>4, <5>1 DEF Box
      <4>5. CASE f \notin Reading
        BY <1>2, <4>3, <4>5 DEF Box
      <4>. QED BY <4>4, <4>5
    <3>. QED BY <1>5, <3>1, <3>2
  <2>. HIDE DEF d
  <2>. QED BY <1>2, <2>4, <2>5 DEF Mailbox!Next, Mailbox!Route
<1>. QED BY <1>3, <1>4, <1>5 DEF Router

\* The next ACK is cut out of a queue, or the one after an ACK in hand.
LEMMA CutQueue ==
  ASSUME NEW T, NEW q \in Seq(T), q # << >>, NEW d \in T
  PROVE  /\ Tail(q) = SubSeq(q, 1, 0) \o SubSeq(q, 2, Len(q))
         /\ <<d>> \o Tail(q)
              = SubSeq(<<d>> \o q, 1, 1) \o SubSeq(<<d>> \o q, 3, Len(<<d>> \o q))
<1>1. SubSeq(q, 1, 0) = << >> /\ SubSeq(q, 2, Len(q)) = Tail(q) /\ Tail(q) \in Seq(T)
  OBVIOUS
<1>2. Tail(q) = SubSeq(q, 1, 0) \o SubSeq(q, 2, Len(q))
  BY <1>1
<1>. DEFINE p == <<d>> \o q
<1>3. p \in Seq(T) /\ Len(p) = Len(q) + 1 /\ Len(q) \in Nat \ {0} /\ p[1] = d
  OBVIOUS
<1>4. Tail(p) = q /\ p # << >>
  OBVIOUS
<1>. HIDE DEF p
<1>5. SubSeq(p, 1, 1) = <<d>>
  <2>1. SubSeq(p, 2, 1) = << >>
    BY SubSeqEmpty
  <2>2. 1 \in 1 .. Len(p) /\ 1 \in 1 .. 1
    BY <1>3
  <2>3. SubSeq(p, 1, 1) = <<p[1]>> \o SubSeq(p, 1 + 1, 1)
    BY <1>3, <2>2, SubSeqRecursiveFirst
  <2>4. <<d>> \o << >> = <<d>>
    OBVIOUS
  <2>5. SubSeq(p, 1, 1) = <<d>> \o SubSeq(p, 2, 1)
    BY <1>3, <2>3
  <2>. QED BY <2>1, <2>4, <2>5
<1>6. SubSeq(p, 3, Len(p)) = Tail(q)
  <2>1. SubSeq(p, 2, Len(p)) = q
    BY <1>3, <1>4, TailIsSubSeq
  <2>2. 2 \in 1 .. Len(p) /\ Len(p) \in 2 .. Len(p)
    BY <1>3
  <2>3. Tail(SubSeq(p, 2, Len(p))) = SubSeq(p, 2 + 1, Len(p))
    BY <1>3, <2>2, HeadTailOfSubSeq
  <2>. QED BY <2>1, <2>3
<1>. QED BY <1>2, <1>5, <1>6 DEF p

\* One of an earlier batch takes an ACK or passes.
LEMMA StrayMailbox ==
  ASSUME DInv, NEW g \in Batches, g # batch, Router(g)
  PROVE  [Mailbox!Next]_(Mailbox!vars)
<1>. USE DEF DInv
<1>1. batch \in Batches /\ batch \in Nat /\ g \in 1 .. batch - 1
  <2>1. batch \in Batches /\ batch \in Nat /\ g \in Nat
    BY BatchTypes DEF DemuxTypeOK
  <2>. QED BY <2>1, RouterFrame DEF Batches
<1>2. UNCHANGED <<userVars, thread, acks, Reading, Hand, Taken>>
  <2>1. UNCHANGED <<userVars, thread, acks>>
    BY RouterFrame
  <2>2. router'[batch] = router[batch] /\ data'[batch] = data[batch]
    BY <1>1, RouterFrame
  <2>. QED BY <2>1, <2>2 DEF Reading, Hand, Taken, userVars
<1>3. g \in stop_event /\ ~closed
  BY <1>1 DEF BatchInv, closed
<1>4. ~Notify(g) /\ ~AppendAck(g) /\ ~Abort(g)
  BY <1>1, <1>3 DEF Notify, AppendAck, Unread, Abort
<1>5. UNCHANGED Box
  <2>1. UNCHANGED ack_queue
    BY <1>4 DEF Router, Check, Select, Recv, Ignore, Release
  <2>. QED BY <1>2, <2>1 DEF Box
<1>6. \A h \in 1 .. batch - 1 : h # g => router'[h] = router[h]
  BY <1>1, BatchTypes, RouterFrame DEF Batches
<1>7. CASE Check(g) \/ Ignore(g) \/ Release(g) \/ (Select(g) /\ sock # << >>)
  <2>1. /\ UNCHANGED sock
        /\ router[g] \in {"select", "recv"} <=> router'[g] \in {"select", "recv"}
    BY <1>3, <1>7, RouterFrame DEF Check, Ignore, Release, Select, At
  <2>2. Strays' = Strays
    BY <1>2, <1>6, <2>1 DEF Strays, userVars
  <2>. QED BY <1>2, <1>5, <2>1, <2>2 DEF Mailbox!vars
<1>8. CASE Recv(g) \/ (Select(g) /\ sock = << >>)
  <2>1. /\ router[g] \in {"select", "recv"} /\ router'[g] \notin {"select", "recv"}
        /\ sock' = sock \/ (sock # << >> /\ sock' = Tail(sock))
    BY <1>8, RouterFrame DEF Recv, Select, At
  <2>2. g \in Strays /\ Strays' = Strays \ {g}
    BY <1>1, <1>2, <1>6, <2>1 DEF Strays, userVars
  <2>3. Cardinality(Strays) > 0 /\ Cardinality(Strays') = Cardinality(Strays) - 1
    BY <2>2, OneStrayLess
  <2>4. Cardinality(Strays)' = Cardinality(Strays) - 1
    BY <2>3
  <2>5. CASE sock' = sock
    BY <1>2, <1>5, <2>3, <2>4, <2>5 DEF Mailbox!Next, Mailbox!Pass
  <2>6. CASE sock # << >> /\ sock' = Tail(sock)
    <3>. DEFINE q == Taken \o sock
                i == Len(Taken) + 1
    <3>1. i \in {1, 2} \cap DOMAIN q
      BY <2>6, TakenType DEF Taken
    <3>2. Taken' \o sock' = SubSeq(q, 1, i - 1) \o SubSeq(q, i + 1, Len(q))
      <4>1. CASE router[batch] = "append"
        <5>. HIDE DEF i
        <5>1. Taken = <<data[batch]>> /\ data[batch] \in Acks
          BY <4>1, TakenType
        <5>2. i = 2
          BY <5>1 DEF i
        <5>. QED BY <1>2, <2>6, <5>1, <5>2, CutQueue, TakenType
      <4>2. CASE router[batch] # "append"
        <5>1. Taken = << >> /\ q = sock /\ i = 1
          BY <4>2, TakenType
        <5>2. Taken' \o sock' = Tail(sock)
          BY <1>2, <2>6, <5>1, TakenType
        <5>3. PICK d \in Acks : TRUE
          BY <2>6, TakenType
        <5>. QED BY <2>6, <5>1, <5>2, <5>3, CutQueue, TakenType
      <4>. QED BY <4>1, <4>2
    <3>. HIDE DEF q, i
    <3>3. Mailbox!Stray
      BY <1>2, <1>5, <2>3, <2>4, <3>1, <3>2 DEF Mailbox!Stray, q
    <3>. QED BY <3>3 DEF Mailbox!Next
  <2>. QED BY <2>1, <2>5, <2>6
<1>. QED BY <1>4, <1>7, <1>8 DEF Router

LEMMA ArriveMailbox ==
  ASSUME DInv, Arrive
  PROVE  Mailbox!Arrive
<1>. DEFINE q == Taken \o sock
<1>1. UNCHANGED <<Taken, Reading, Box, Hand, Strays>>
  BY DEF Arrive, Taken, Reading, Box, Hand, Strays, userVars, routerVars, threadVars
<1>2. PICK e \in Acks : sock' = Append(sock, e)
  <2>1. PICK f \in FileIds :
          sock' = Append(sock, [file_id |-> f, number |-> arrived'])
    BY DEF Arrive
  <2>2. [file_id |-> f, number |-> arrived'] \in Acks
    BY DemuxAssumption DEF Arrive, Acks, DInv, DemuxTypeOK
  <2>. QED BY <2>1, <2>2
<1>3. q \in Seq(Acks) /\ Taken' \o sock' = Append(q, e)
  BY <1>1, <1>2, TakenType
<1>. HIDE DEF q
<1>4. Len(Append(q, e)) = Len(q) + 1 /\ SubSeq(Append(q, e), 1, Len(q)) = q
  BY <1>3
<1>. QED BY <1>1, <1>3, <1>4 DEF Mailbox!Arrive, q

\* The caller is not seen, until it begins a new batch.
LEMMA CallerMailbox ==
  ASSUME DInv, Stop \/ Join \/ Close \/ UNCHANGED vars
  PROVE  UNCHANGED Mailbox!vars
<1>1. UNCHANGED <<sock, routerVars, threadVars, ack_queue, batch, ack_states>>
  BY DEF Stop, Join, Close, vars, userVars
<1>2. UNCHANGED <<Taken, Reading, Box, Hand, Strays>>
  BY <1>1 DEF Taken, Reading, Box, Hand, Strays, routerVars, threadVars
<1>. QED BY <1>1, <1>2 DEF Mailbox!vars

LEMMA StartBatchMailbox ==
  ASSUME DInv, StartBatch
  PROVE  Mailbox!NewBatch
<1>. USE DEF DInv
<1>1. /\ user = "prompt" /\ batch' = batch + 1 /\ UNCHANGED <<sock, data>>
      /\ thread' = Working(ack_states') /\ ack_queue' = Empty
      /\ router' = [router EXCEPT ![batch'] = "check"]
  BY DEF StartBatch
<1>2. /\ batch \in Nat /\ batch \in Batches /\ batch' \in Batches
      /\ router \in [Batches -> {"unborn", "check", "select", "recv", "append",
                                 "notify", "trace", "ended"}]
  BY DemuxAssumption DEF StartBatch, DemuxTypeOK, Batches
<1>3. Reading = {} /\ \A f \in FileIds : thread[f] = "done"
  <2>1. Reading = {}
    BY <1>1 DEF ThreadInv
  <2>. QED BY <2>1 DEF ThreadInv, Reading
<1>4. Reading' \in SUBSET FileIds
  <2>1. PICK f \in FileIds : ack_states' = FirstIds(f + 1)
    BY DEF StartBatch
  <2>. QED BY <2>1 DEF Reading, FirstIds
<1>5. Box' = Box /\ Hand' = Hand
  BY <1>1, <1>3 DEF Box, Hand, Working, Empty
<1>6. Taken' \o sock' = sock
  <2>1. router'[batch'] = "check"
    BY <1>1, <1>2
  <2>2. Taken' = << >>
    BY <2>1 DEF Taken
  <2>. QED BY <1>1, <2>2, TakenType
<1>7. \A g \in 1 .. batch : g \in Batches /\ router'[g] = router[g]
  <2>1. \A g \in 1 .. batch : g \in Batches /\ g # batch'
    BY <1>1, <1>2, BatchTypes DEF Batches
  <2>. QED BY <1>1, <1>2, <2>1
<1>8. Strays' = {g \in 1 .. batch : router[g] \in {"select", "recv"}}
  <2>1. batch' - 1 = batch
    BY <1>1, <1>2
  <2>. QED BY <1>7, <2>1 DEF Strays
<1>9. batch \notin Strays /\ 1 .. batch = (1 .. batch - 1) \cup {batch}
  BY <1>2, BatchTypes DEF Strays, Batches
<1>10. CASE router[batch] \in {"select", "recv"}
  <2>1. Strays' = Strays \cup {batch}
    BY <1>8, <1>9, <1>10 DEF Strays
  <2>2. Cardinality(Strays \cup {batch}) = Cardinality(Strays) + 1
    BY <1>9, StraysFinite, FS_AddElement
  <2>3. Taken \o sock = sock
    BY <1>10, TakenType
  <2>. QED BY <1>3, <1>4, <1>5, <1>6, <2>1, <2>2, <2>3 DEF Mailbox!NewBatch
<1>11. CASE router[batch] \notin {"select", "recv"}
  <2>1. Strays' = Strays
    BY <1>8, <1>9, <1>11 DEF Strays
  <2>2. CASE router[batch] = "append"
    <3>1. Taken \o sock # << >> /\ Tail(Taken \o sock) = sock
      <4>1. Taken = <<data[batch]>> /\ data[batch] \in Acks /\ sock \in Seq(Acks)
        BY <2>2, TakenType
      <4>. QED BY <4>1
    <3>. QED BY <1>3, <1>4, <1>5, <1>6, <2>1, <3>1 DEF Mailbox!NewBatch
  <2>3. CASE router[batch] # "append"
    <3>1. Taken \o sock = sock
      BY <2>3, TakenType
    <3>. QED BY <1>3, <1>4, <1>5, <1>6, <2>1, <3>1 DEF Mailbox!NewBatch
  <2>. QED BY <2>2, <2>3
<1>. QED BY <1>10, <1>11

LEMMA MailboxNext == DInv /\ [Next]_vars => [Mailbox!Next]_(Mailbox!vars)
<1>. SUFFICES ASSUME DInv, [Next]_vars PROVE [Mailbox!Next]_(Mailbox!vars)
  OBVIOUS
<1>1. CASE Arrive
  BY <1>1, ArriveMailbox DEF Mailbox!Next
<1>2. CASE Stop \/ Join \/ Close \/ UNCHANGED vars
  BY <1>2, CallerMailbox
<1>3. CASE StartBatch
  BY <1>3, StartBatchMailbox DEF Mailbox!Next
<1>4. CASE \E f \in FileIds : Thread(f)
  BY <1>4, ThreadMailbox
<1>5. CASE \E g \in Batches : Router(g)
  BY <1>5, RouterMailbox, StrayMailbox
<1>. QED BY <1>1, <1>2, <1>3, <1>4, <1>5 DEF Next, Exit

(* For every number of files, ACKs and batches, and however the threads,   *)
(* the demultiplexers and the caller interleave: the threads are a mailbox *)
(* that gives each of them its ACKs in order, once, and all but one for    *)
(* each demultiplexer that outlived its batch                              *)
(* (sender_gbn.py:122-126, 176-206, 287-289).                              *)
THEOREM MailboxImplemented == Spec => ImplementsMailbox
<1>. QED BY MailboxInit, MailboxNext, DemuxInductive, PTL
         DEF Spec, ImplementsMailbox, Mailbox!Spec
=============================================================================
