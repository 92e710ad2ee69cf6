----------------------------- MODULE AckDemux -----------------------------
(***************************************************************************)
(* How ACKs come to the threads of sender_gbn.py: the ack_receiver thread  *)
(* of each batch, the list, the lock and the condition variable of each    *)
(* file_id, the wait and the draining in send_file_gbn, and the end of a   *)
(* batch: in user_loop, whose join of ack_receiver may give up, or in      *)
(* run_transfer of visualize_gbn_threads.py, which runs one batch, gives   *)
(* up on its threads after a minute, and closes the socket.                *)
(*                                                                         *)
(* GbnSender has all this as two atomic steps, RouteAck and Drain; what    *)
(* the threads do with the ACKs is there, and left open here.  The number  *)
(* of an ACK is auxiliary: it tells ACKs apart.                            *)
(***************************************************************************)
EXTENDS Naturals, Sequences, FiniteSets

CONSTANTS
  FileIds,
  MaxBatches,   \* bound on the batches the user asks for
  MaxAcks,      \* bound on the ACKs that arrive
  SockCap,      \* datagrams the sender's socket buffer holds
  Slow,         \* whether the join may give up before ack_receiver has ended
  None          \* no ACK

ASSUME DemuxAssumption ==
  /\ FileIds \subseteq Nat /\ 0 \in FileIds
  /\ MaxBatches \in Nat \ {0} /\ MaxAcks \in Nat /\ SockCap \in Nat
  /\ Slow \in BOOLEAN

Batches == 1 .. MaxBatches

Acks == [file_id : FileIds, number : 1 .. MaxAcks]

ASSUME DemuxNoneAssumption == None \notin Acks

VARIABLES
  sock,         \* ACKs waiting at the sender's socket
  arrived,      \* how many have arrived
  batch,        \* batches begun
  ack_states,   \* the file_ids of the batch
  caller,       \* who runs the threads: "user_loop" or "run_transfer"
  user,         \* the caller: "joining" the threads, "stopping" ack_receiver,
                \* at the "prompt", or "closed" when the socket is
  stop_event,   \* the batches whose stop_event is set
  outlived,     \* history: the batches whose join gave up
  router,       \* where the ack_receiver of each batch is
  data,         \* the ACK it has received
  thread,       \* where the thread of each file_id is
  notified,     \* whether it was notified in its wait
  acks,         \* its copy of the ACKs
  ack_queue,
  lock          \* who holds the lock of a file_id: "thread", "router" or "none"

userVars == <<batch, ack_states, caller, user, stop_event, outlived>>
routerVars == <<router, data>>
threadVars == <<thread, notified, acks>>
vars == <<sock, arrived, userVars, routerVars, threadVars, ack_queue, lock>>

FirstIds(n) == {f \in FileIds : f < n}

Empty == [f \in FileIds |-> << >>]
Idle == [f \in FileIds |-> FALSE]
Free == [f \in FileIds |-> "none"]
Working(ids) == [f \in FileIds |-> IF f \in ids THEN "work" ELSE "done"]

Init ==
  /\ sock = << >> /\ arrived = 0
  /\ caller \in {"user_loop", "run_transfer"}
  /\ batch = 1 /\ user = "joining" /\ stop_event = {} /\ outlived = {}
  /\ ack_states \in {FirstIds(f + 1) : f \in FileIds}
  /\ router = [g \in Batches |-> IF g = 1 THEN "check" ELSE "unborn"]
  /\ data = [g \in Batches |-> None]
  /\ thread = Working(ack_states) /\ notified = Idle /\ acks = Empty
  /\ ack_queue = Empty /\ lock = Free

closed == user = "closed"

-----------------------------------------------------------------------------
\* An ACK arrives for any file_id, of this batch or an earlier one.  One that
\* finds the buffer full is dropped.
Arrive ==
  /\ arrived < MaxAcks /\ Len(sock) < SockCap /\ ~closed
  /\ arrived' = arrived + 1
  /\ \E f \in FileIds :
       sock' = Append(sock, [file_id |-> f, number |-> arrived'])
  /\ UNCHANGED <<userVars, routerVars, threadVars, ack_queue, lock>>

-----------------------------------------------------------------------------
(* The thread of f: cond.wait(0.01), the draining, and what it does else.  *)

\* with cond: wait.  The lock is taken, and given back while the thread waits.
\* Whether the list already has ACKs is not looked at.
BeginWait(f) ==
  /\ thread[f] = "work" /\ lock[f] = "none"
  /\ thread' = [thread EXCEPT ![f] = "wait"]
  /\ notified' = [notified EXCEPT ![f] = FALSE]
  /\ UNCHANGED <<sock, arrived, userVars, routerVars, acks, ack_queue, lock>>

\* Mutant: the wait has no bound.
BugWoken(f) == notified[f]

\* The wait ends on a notification or after 10 ms.
Woken(f) == TRUE

\* It ends with the lock, which is given back at once.
Wake(f) ==
  /\ thread[f] = "wait" /\ Woken(f) /\ lock[f] = "none"
  /\ thread' = [thread EXCEPT ![f] = "drain"]
  /\ UNCHANGED <<sock, arrived, userVars, routerVars, notified, acks>>
  /\ UNCHANGED <<ack_queue, lock>>

\* acks = list(ack_queue)
Copy(f) ==
  /\ thread[f] = "drain" /\ lock[f] = "none"
  /\ lock' = [lock EXCEPT ![f] = "thread"]
  /\ acks' = [acks EXCEPT ![f] = ack_queue[f]]
  /\ thread' = [thread EXCEPT ![f] = "clear"]
  /\ UNCHANGED <<sock, arrived, userVars, routerVars, notified, ack_queue>>

\* ack_queue.clear()
Clear(f) ==
  /\ thread[f] = "clear"
  /\ lock' = [lock EXCEPT ![f] = "none"]
  /\ ack_queue' = [ack_queue EXCEPT ![f] = << >>]
  /\ thread' = [thread EXCEPT ![f] = "handle"]
  /\ UNCHANGED <<sock, arrived, userVars, routerVars, notified, acks>>

\* What comes after the draining, rounds without effect left out: the outer loop
\* goes on, or the thread returns, or, when its window expires on a closed socket,
\* it dies of the exception that sendto raises.
AfterAcks == IF closed THEN {"done"} ELSE {"work", "done"}

\* The ACKs are handled and the timer is checked.
Handle(f) ==
  /\ thread[f] = "handle"
  /\ \E next \in AfterAcks : thread' = [thread EXCEPT ![f] = next]
  /\ UNCHANGED <<sock, arrived, userVars, routerVars, notified, acks>>
  /\ UNCHANGED <<ack_queue, lock>>

Thread(f) == BeginWait(f) \/ Wake(f) \/ Copy(f) \/ Clear(f) \/ Handle(f)

-----------------------------------------------------------------------------
(* ack_receiver of batch g.                                                *)

At(g, here, there) ==
  router[g] = here /\ router' = [router EXCEPT ![g] = there]

\* while not stop_event.is_set()
Check(g) ==
  /\ At(g, "check", IF g \in stop_event THEN "ended" ELSE "select")
  /\ UNCHANGED <<sock, arrived, userVars, data, threadVars, ack_queue, lock>>

\* Mutant: select has no timeout.
BugPolled == sock # << >>

\* select returns when there is something to read, or after 50 ms.
Polled == TRUE

Select(g) ==
  /\ Polled
  /\ At(g, "select", IF sock = << >> THEN "check" ELSE "recv")
  /\ UNCHANGED <<sock, arrived, userVars, data, threadVars, ack_queue, lock>>

\* select and recvfrom raise an exception when the socket is closed.
Abort(g) ==
  /\ closed
  /\ At(g, "select", "ended") \/ At(g, "recv", "ended")
  /\ UNCHANGED <<sock, arrived, userVars, data, threadVars, ack_queue, lock>>

\* recvfrom, which blocks when another has taken what select had seen.
Recv(g) ==
  /\ At(g, "recv", "append") /\ sock # << >> /\ ~closed
  /\ data' = [data EXCEPT ![g] = Head(sock)]
  /\ sock' = Tail(sock)
  /\ UNCHANGED <<arrived, userVars, threadVars, ack_queue, lock>>

\* Mutant: the file_id is not looked up.
BugUnread(g) == g < batch

\* The ACK is of no file of the batch, or the lists of the batch are no
\* longer read by anyone.
Unread(g) == g < batch \/ data[g].file_id \notin ack_states

Ignore(g) ==
  /\ At(g, "append", "check") /\ Unread(g)
  /\ data' = [data EXCEPT ![g] = None]
  /\ UNCHANGED <<sock, arrived, userVars, threadVars, ack_queue, lock>>

\* Mutant: the list is appended to without its lock.
BugMayAppend(f) == TRUE

\* with state['lock']
MayAppend(f) == lock[f] = "none"

AppendAck(g) ==
  /\ At(g, "append", "notify") /\ ~Unread(g)
  /\ LET f == data[g].file_id
     IN  /\ MayAppend(f)
         /\ ack_queue' = [ack_queue EXCEPT ![f] = Append(@, data[g])]
  /\ UNCHANGED <<sock, arrived, userVars, data, threadVars, lock>>

\* with state['condition']: notify and trace, which may sleep with the lock.
\* Only a thread that waits hears of it.
Notify(g) ==
  /\ g = batch /\ At(g, "notify", "trace")
  /\ LET f == data[g].file_id
     IN  /\ lock[f] = "none"
         /\ lock' = [lock EXCEPT ![f] = "router"]
         /\ notified' = [notified EXCEPT ![f] = thread[f] = "wait"]
  /\ UNCHANGED <<sock, arrived, userVars, data, thread, acks, ack_queue>>

\* The end of both, when nobody uses the lock of a batch that is over.
Release(g) ==
  /\ \/ At(g, "trace", "check")
     \/ g < batch /\ At(g, "notify", "check")
  /\ lock' = IF g = batch THEN [lock EXCEPT ![data[g].file_id] = "none"] ELSE lock
  /\ data' = [data EXCEPT ![g] = None]
  /\ UNCHANGED <<sock, arrived, userVars, threadVars, ack_queue>>

Router(g) ==
  \/ Check(g) \/ Select(g) \/ Abort(g) \/ Recv(g) \/ Ignore(g)
  \/ AppendAck(g) \/ Notify(g) \/ Release(g)

-----------------------------------------------------------------------------
(* user_loop and run_transfer.                                             *)

\* Mutant: run_transfer joins without a limit.
BugGivesUp == FALSE

\* t.join(timeout=60) of run_transfer returns though the thread has not.
GivesUp == caller = "run_transfer"

\* Every thread was joined, or given up: stop_event.set().
Stop ==
  /\ user = "joining"
  /\ GivesUp \/ \A f \in ack_states : thread[f] = "done"
  /\ user' = "stopping"
  /\ stop_event' = stop_event \cup {batch}
  /\ UNCHANGED <<batch, ack_states, caller, outlived>>
  /\ UNCHANGED <<sock, arrived, routerVars, threadVars, ack_queue, lock>>

\* Mutant: ack_receiver is not waited for.
BugJoined == TRUE

Joined == router[batch] = "ended"

\* ack_thread.join(1.0) returns; whether the thread has ended is not asked.
Join ==
  /\ user = "stopping" /\ caller = "user_loop"
  /\ \/ Joined /\ UNCHANGED outlived
     \/ Slow /\ ~Joined /\ outlived' = outlived \cup {batch}
  /\ user' = "prompt"
  /\ UNCHANGED <<batch, ack_states, caller, stop_event>>
  /\ UNCHANGED <<sock, arrived, routerVars, threadVars, ack_queue, lock>>

\* run_transfer sleeps 0.2 s instead, then closes the socket.
Close ==
  /\ user = "stopping" /\ caller = "run_transfer"
  /\ user' = "closed"
  /\ UNCHANGED <<batch, ack_states, caller, stop_event, outlived>>
  /\ UNCHANGED <<sock, arrived, routerVars, threadVars, ack_queue, lock>>

\* The next batch: new ack_states, stop_event and threads, on the same socket.
StartBatch ==
  /\ user = "prompt" /\ batch < MaxBatches
  /\ batch' = batch + 1 /\ user' = "joining"
  /\ \E f \in FileIds : ack_states' = FirstIds(f + 1)
  /\ router' = [router EXCEPT ![batch'] = "check"]
  /\ thread' = Working(ack_states') /\ notified' = Idle /\ acks' = Empty
  /\ ack_queue' = Empty /\ lock' = Free
  /\ UNCHANGED <<sock, arrived, caller, stop_event, outlived, data>>

\* The user ends the session at the prompt, or run_transfer returns.
Exit == (closed \/ (user = "prompt" /\ batch = MaxBatches)) /\ UNCHANGED vars

Next ==
  \/ Arrive \/ Stop \/ Join \/ Close \/ StartBatch \/ Exit
  \/ \E f \in FileIds : Thread(f)
  \/ \E g \in Batches : Router(g)

Spec == Init /\ [][Next]_vars

(***************************************************************************)
(* The threads are scheduled by the operating system.  A lock is given     *)
(* back again and again, by a demultiplexer that then goes into a system   *)
(* call, so that a thread that asks for it gets it some time.              *)
(* run_transfer goes on by itself; nothing is assumed of the user, and     *)
(* nothing of the network.                                                 *)
(***************************************************************************)
FairSpec ==
  /\ Spec
  /\ \A f \in FileIds : SF_vars(Thread(f))
  /\ \A g \in Batches : SF_vars(Router(g))
  /\ WF_vars(Stop \/ Close)

-----------------------------------------------------------------------------
(* Every variable has its type, an ack_receiver holds an ACK exactly while *)
(* it handles one, and no ACKs are kept for a file_id that is not of the   *)
(* batch (sender_gbn.py:198-208).                                          *)
DemuxTypeOK ==
  /\ sock \in Seq(Acks) /\ Len(sock) <= SockCap /\ arrived \in 0 .. MaxAcks
  /\ batch \in Batches /\ caller \in {"user_loop", "run_transfer"}
  /\ user \in {"joining", "stopping", "prompt", "closed"}
  /\ ack_states \in SUBSET FileIds
  /\ stop_event \subseteq 1 .. batch /\ outlived \subseteq stop_event
  /\ router \in [Batches -> {"unborn", "check", "select", "recv", "append",
                             "notify", "trace", "ended"}]
  /\ data \in [Batches -> Acks \cup {None}]
  /\ \A g \in Batches :
       data[g] # None <=> router[g] \in {"append", "notify", "trace"}
  /\ thread \in [FileIds -> {"work", "wait", "drain", "clear", "handle", "done"}]
  /\ notified \in [FileIds -> BOOLEAN]
  /\ acks \in [FileIds -> Seq(Acks)] /\ ack_queue \in [FileIds -> Seq(Acks)]
  /\ \A f \in FileIds \ ack_states : ack_queue[f] = << >>
  /\ lock \in [FileIds -> {"none", "thread", "router"}]

\* The threads that have not returned.
Reading == {f \in ack_states : thread[f] # "done"}

\* The ack_receivers of earlier batches that can still take an ACK.
Strays == {g \in 1 .. batch - 1 : router[g] \in {"select", "recv"}}

\* The ACK that the batch's own ack_receiver has taken, but not yet put aside.
Taken == IF router[batch] = "append" THEN <<data[batch]>> ELSE << >>

\* What a thread finds put aside, and what it has taken.
Box == [f \in FileIds |-> IF f \in Reading /\ thread[f] # "clear"
                          THEN ack_queue[f] ELSE << >>]
Hand == [f \in FileIds |-> IF thread[f] \in {"clear", "handle"}
                           THEN acks[f] ELSE << >>]

(* The threads are a mailbox: ACKs come to the thread of their file_id in  *)
(* order, once, and all of them, but for one that each ack_receiver that   *)
(* outlives its batch may take (sender_gbn.py:122-126, 176-206, 287-289).  *)
Mailbox == INSTANCE AckMailbox WITH
  Lossy <- FALSE, NewSocket <- FALSE,
  open   <- Reading,
  sock   <- Taken \o sock,
  box    <- Box,
  hand   <- Hand,
  strays <- Cardinality(Strays)

ImplementsMailbox == Mailbox!Spec

(* While every join was in time, recvfrom never blocks: a demultiplexer    *)
(* has the socket to itself (sender_gbn.py:177-184).                       *)
NeverBlocks ==
  outlived = {} => \A g \in Batches : router[g] = "recv" => sock # << >>

(* No ACK stays in the list of a thread that goes on, even if the          *)
(* notification came before the wait and nothing more arrives: the wait    *)
(* is bounded (sender_gbn.py:118-126, 203-206).                            *)
DrainedInTime ==
  \A f \in FileIds :
    ack_queue[f] # << >> /\ thread[f] # "done"
      ~> ack_queue[f] = << >> \/ thread[f] = "done"

(* Every thread of run_transfer ends, though its transfer may never be     *)
(* complete: the join gives up, and the socket is closed under it.  These  *)
(* are no daemon threads: one left would keep the program from ending      *)
(* (visualize_gbn_threads.py:169-186).                                     *)
WorkersEnd ==
  caller = "run_transfer" ~> \A f \in FileIds : thread[f] = "done"

(* A demultiplexer that is told to stop ends, unless one of another batch  *)
(* has taken the ACK that select had seen: then it hangs in recvfrom       *)
(* (sender_gbn.py:176-184).                                                *)
RoutersEnd ==
  \A g \in Batches :
    g \in stop_event ~> \/ router[g] = "ended"
                        \/ outlived # {} /\ router[g] = "recv" /\ sock = << >>
=============================================================================
