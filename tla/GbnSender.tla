----------------------------- MODULE GbnSender -----------------------------
(***************************************************************************)
(* sender_gbn.py: one send_file_gbn thread per file_id, and the            *)
(* ack_receiver thread that routes ACKs from the shared socket to them.    *)
(*                                                                         *)
(* A step is the code between two operations on shared state: a sendto     *)
(* under sock_lock, the draining of an ack_queue under its lock, or the    *)
(* handling of one drained ACK.  The program counter of a thread is        *)
(*   "send"    at the head of the outer loop or in its sending loop,       *)
(*   "acks"    handling the drained ACKs, then checking the timer,         *)
(*   "resend"  in the retransmission loop,                                 *)
(*   "done"    returned.                                                   *)
(***************************************************************************)
EXTENDS GbnWire

CONSTANTS
  QueueCap,     \* bound on an ack_queue (a Python list, unbounded in the code)
  EarlyTimeout  \* whether a timer may expire while an answer is on its way

ASSUME QueueCapAssumption == QueueCap \in Nat

VARIABLES
  file,         \* file[f]: the file_name argument of the thread
  pc,
  base,         \* oldest unacknowledged sequence number
  nextseqnum,   \* next sequence number to assign
  buffer,       \* buffer[f][s]: the cached packet numbered s, or None
  timer,        \* whether timer_start is not None
  started,      \* whether START has been sent
  read,         \* chunks read from the file so far
  eof_reached,
  seq,          \* cursor of the retransmission loop
  acks,         \* the thread's local copy of the drained ACKs
  ack_queue     \* ack_states[f]['ack_queue']

fileVars == <<file, started, read, eof_reached>>
windowVars == <<base, nextseqnum, buffer, timer>>
ackVars == <<acks, ack_queue>>
senderVars == <<fileVars, windowVars, ackVars, pc, seq>>

SenderInit ==
  /\ file \in [FileIds -> Files]
  /\ pc = [f \in FileIds |-> "send"]
  /\ base = [f \in FileIds |-> 0]
  /\ nextseqnum = [f \in FileIds |-> 0]
  /\ buffer = [f \in FileIds |-> [s \in SeqNums |-> None]]
  /\ timer = [f \in FileIds |-> FALSE]
  /\ started = [f \in FileIds |-> FALSE]
  /\ read = [f \in FileIds |-> 0]
  /\ eof_reached = [f \in FileIds |-> FALSE]
  /\ seq = [f \in FileIds |-> 0]
  /\ acks = [f \in FileIds |-> << >>]
  /\ ack_queue = [f \in FileIds |-> << >>]

-----------------------------------------------------------------------------
(* The sending loop: while the window has room, send START, then one DATA  *)
(* per chunk, then END.                                                    *)

\* Mutant: one packet more than the window.
BugRoom(f) == Dist(nextseqnum[f], base[f]) <= WINDOW_SIZE

Room(f) == Dist(nextseqnum[f], base[f]) < WINDOW_SIZE

CanSend(f) == Room(f) /\ ~eof_reached[f]

\* Build a packet, send it, cache it, and start the timer if it is the first
\* of the window.
Transmit(f, ptype, part) ==
  LET pkt == [file_id |-> f, seq_num |-> nextseqnum[f], ptype |-> ptype,
              path |-> file[f], part |-> part]
  IN  /\ toReceiver' = Put(toReceiver, DataCap, pkt)
      /\ buffer' = [buffer EXCEPT ![f][nextseqnum[f]] = pkt]
      /\ timer' = [timer EXCEPT ![f] = @ \/ base[f] = nextseqnum[f]]
      /\ nextseqnum' = [nextseqnum EXCEPT ![f] = NextSeq(@)]
      /\ UNCHANGED <<file, pc, base, seq, ackVars, toSender>>

SendStart(f) ==
  /\ pc[f] = "send" /\ CanSend(f) /\ ~started[f]
  /\ started' = [started EXCEPT ![f] = TRUE]
  /\ Transmit(f, "START", 0)
  /\ UNCHANGED <<read, eof_reached>>

SendData(f) ==
  /\ pc[f] = "send" /\ CanSend(f) /\ started[f]
  /\ read[f] < Chunks[file[f]]
  /\ read' = [read EXCEPT ![f] = @ + 1]
  /\ Transmit(f, "DATA", read[f] + 1)
  /\ UNCHANGED <<started, eof_reached>>

SendEnd(f) ==
  /\ pc[f] = "send" /\ CanSend(f) /\ started[f]
  /\ read[f] = Chunks[file[f]]
  /\ eof_reached' = [eof_reached EXCEPT ![f] = TRUE]
  /\ Transmit(f, "END", read[f] + 1)
  /\ UNCHANGED <<started, read>>

-----------------------------------------------------------------------------
(* cond.wait(0.01), then the draining of the queue.  The wait ends on a    *)
(* notification or after 10 ms, so nothing guards the draining.            *)

Drain(f) ==
  /\ pc[f] = "send" /\ ~CanSend(f)
  /\ acks' = [acks EXCEPT ![f] = ack_queue[f]]
  /\ ack_queue' = [ack_queue EXCEPT ![f] = << >>]
  /\ pc' = [pc EXCEPT ![f] = "acks"]
  /\ UNCHANGED <<fileVars, windowVars, seq, wireVars>>

\* Whether an ACK number falls inside the window, sent or not.
InWindow(f, ack_num) == Dist(ack_num, base[f]) < WINDOW_SIZE

\* Mutant: the packet that is acknowledged last stays in the buffer.
BugFreed(f, new_base) ==
  [s \in SeqNums |-> IF Dist(s, base[f]) + 1 < Dist(new_base, base[f])
                     THEN None ELSE buffer[f][s]]

\* The buffer once the packets from base up to new_base are popped.
Freed(f, new_base) ==
  [s \in SeqNums |-> IF Dist(s, base[f]) < Dist(new_base, base[f])
                     THEN None ELSE buffer[f][s]]

\* Mutant: any ACK stops the timer.
BugTimerAfterAck(f, new_base) == FALSE

\* Whether the timer runs once base has moved to new_base.
TimerAfterAck(f, new_base) == new_base # nextseqnum[f]

AcceptAck(f) ==
  /\ pc[f] = "acks" /\ acks[f] # << >>
  /\ InWindow(f, Head(acks[f]).ack_num)
  /\ LET new_base == NextSeq(Head(acks[f]).ack_num)
     IN  /\ buffer' = [buffer EXCEPT ![f] = Freed(f, new_base)]
         /\ base' = [base EXCEPT ![f] = new_base]
         /\ timer' = [timer EXCEPT ![f] = TimerAfterAck(f, new_base)]
  /\ acks' = [acks EXCEPT ![f] = Tail(@)]
  /\ UNCHANGED <<fileVars, pc, nextseqnum, seq, ack_queue, wireVars>>

IgnoreAck(f) ==
  /\ pc[f] = "acks" /\ acks[f] # << >>
  /\ ~InWindow(f, Head(acks[f]).ack_num)
  /\ acks' = [acks EXCEPT ![f] = Tail(@)]
  /\ UNCHANGED <<fileVars, windowVars, pc, seq, ack_queue, wireVars>>

-----------------------------------------------------------------------------
(* The timeout check and the head of the outer loop.                       *)

\* Mutant: the loop ends with the file, not with its acknowledgment.
BugMoreToDo(f) == ~eof_reached[f]

\* The condition of the outer while loop.
MoreToDo(f) == base[f] # nextseqnum[f] \/ ~eof_reached[f]

LoopHead(f) == IF MoreToDo(f) THEN "send" ELSE "done"

\* time.time() - timer_start > TIMEOUT.  Time is not modelled: unless
\* EarlyTimeout, TIMEOUT exceeds every round trip, so that a timer expires
\* only when neither a packet nor an ACK of this file is on its way.
Expired(f) ==
  /\ timer[f]
  /\ EarlyTimeout \/ (Quiet(f) /\ ack_queue[f] = << >>)

\* The timer is off or has not expired: go on with the outer loop.
NoTimeout(f) ==
  /\ pc[f] = "acks" /\ acks[f] = << >>
  /\ pc' = [pc EXCEPT ![f] = LoopHead(f)]
  /\ UNCHANGED <<fileVars, windowVars, ackVars, seq, wireVars>>

Timeout(f) ==
  /\ pc[f] = "acks" /\ acks[f] = << >>
  /\ Expired(f)
  /\ pc' = [pc EXCEPT ![f] = "resend"]
  /\ seq' = [seq EXCEPT ![f] = base[f]]
  /\ UNCHANGED <<fileVars, windowVars, ackVars, wireVars>>

\* One iteration of the retransmission loop; after the last, restart the timer.
Resend(f) ==
  LET more == NextSeq(seq[f]) # nextseqnum[f]
  IN  /\ pc[f] = "resend"
      /\ toReceiver' = IF buffer[f][seq[f]] = None THEN toReceiver
                       ELSE Put(toReceiver, DataCap, buffer[f][seq[f]])
      /\ seq' = [seq EXCEPT ![f] = NextSeq(@)]
      /\ timer' = [timer EXCEPT ![f] = @ \/ ~more]
      /\ pc' = [pc EXCEPT ![f] = IF more THEN "resend" ELSE LoopHead(f)]
      /\ UNCHANGED <<fileVars, base, nextseqnum, buffer, ackVars, toSender>>

SenderStep(f) ==
  \/ SendStart(f) \/ SendData(f) \/ SendEnd(f)
  \/ Drain(f) \/ AcceptAck(f) \/ IgnoreAck(f)
  \/ NoTimeout(f) \/ Resend(f)

-----------------------------------------------------------------------------
(* ack_receiver: take one ACK from the socket and append it to the queue   *)
(* of its file_id.  The queue of a thread that has returned is never read  *)
(* again, so an ACK for it is not kept.                                    *)

\* Mutant: the ACK takes the place of what was in the queue.
BugRouteAck(f) ==
  /\ toSender # << >> /\ Head(toSender).file_id = f
  /\ ack_queue' = [ack_queue EXCEPT ![f] = IF pc[f] = "done" THEN @
                                           ELSE <<Head(toSender)>>]
  /\ toSender' = Tail(toSender)
  /\ UNCHANGED <<fileVars, windowVars, pc, seq, acks, toReceiver>>

RouteAck(f) ==
  /\ toSender # << >> /\ Head(toSender).file_id = f
  /\ pc[f] = "done" \/ Len(ack_queue[f]) < QueueCap
  /\ ack_queue' = IF pc[f] = "done" THEN ack_queue
                  ELSE [ack_queue EXCEPT ![f] = Append(@, Head(toSender))]
  /\ toSender' = Tail(toSender)
  /\ UNCHANGED <<fileVars, windowVars, pc, seq, acks, toReceiver>>

SenderTypeOK ==
  /\ file \in [FileIds -> Files]
  /\ pc \in [FileIds -> {"send", "acks", "resend", "done"}]
  /\ base \in [FileIds -> SeqNums]
  /\ nextseqnum \in [FileIds -> SeqNums]
  /\ buffer \in [FileIds -> [SeqNums -> Packet \cup {None}]]
  /\ timer \in [FileIds -> BOOLEAN]
  /\ started \in [FileIds -> BOOLEAN]
  /\ read \in [FileIds -> Nat]
  /\ eof_reached \in [FileIds -> BOOLEAN]
  /\ seq \in [FileIds -> SeqNums]
  /\ acks \in [FileIds -> Seq(Ack)]
  /\ ack_queue \in [FileIds -> Seq(Ack)]
=============================================================================
