----------------------------- MODULE GbnSession -----------------------------
(***************************************************************************)
(* user_loop of sender_gbn.py: one batch of transfers after the other on   *)
(* one socket, or on a new one if the sender was interrupted and started   *)
(* again, against a receiver that keeps its state throughout, unless it is *)
(* started again itself; and the receiver's output files.                  *)
(***************************************************************************)
EXTENDS GoBackN, OutputFiles
LOCAL INSTANCE FiniteSetsExt

CONSTANTS
  MaxBatches,   \* bound on the batches the user asks for
  BufferSize,   \* chunks that Python's file buffer holds
  Interrupts,   \* whether the user may interrupt the sender in a batch
  Restarts      \* whether the receiver may be stopped and started again

ASSUME SessionAssumption ==
  /\ MaxBatches \in Nat \ {0} /\ BufferSize \in Nat \ {0}
  /\ FileIds \subseteq Nat /\ 0 \in FileIds

VARIABLES
  batch,        \* batches begun
  ack_states,   \* the file_ids of the batch, the keys of ack_states
  routing,      \* whether the ack_receiver thread of the batch still runs
  cut,          \* history: the file_ids whose transfer was under way at the
                \* receiver when a later batch began, or when it was stopped
  flushed,      \* flushed[f]: chunks of out[f] that have left the file buffer
  disk          \* contents of the receiver's files, by name

sessionVars == <<batch, ack_states, routing, cut>>
diskVars == <<flushed, disk>>
allVars == <<vars, sessionVars, diskVars>>

\* The first batch has every file_id.
SessionInit ==
  /\ Init /\ batch = 1 /\ ack_states = FileIds /\ routing = TRUE /\ cut = {}
  /\ flushed = [f \in FileIds |-> 0] /\ disk = [n \in Names |-> << >>]

AllDone == \A f \in FileIds : pc[f] = "done"

-----------------------------------------------------------------------------
(* The receiver's files.                                                   *)

\* The files d once the file of f, if it has one open, is flushed.
Flush(d, f) ==
  IF handle[f] = None THEN d ELSE FlushTo(d, handle[f], out[f], flushed[f], None)

\* What is in the buffer of the file of f goes to disk.
FlushBuffer(f) ==
  /\ disk' = Flush(disk, f)
  /\ flushed' = [flushed EXCEPT ![f] = Len(out[f])]

\* Mutant: the file is not closed.
BugCloseFile(f) == UNCHANGED <<flushed, disk>>

CloseFile(f) == FlushBuffer(f)

\* START closes the file that is open, then opens, and so truncates, its own.
OpenFile(f) ==
  /\ disk' = [Flush(disk, f) EXCEPT ![BaseName[pkt.path]] = << >>]
  /\ flushed' = [flushed EXCEPT ![f] = 0]

\* write(): a full buffer is flushed first.
WriteFile(f) ==
  IF Len(out[f]) - flushed[f] < BufferSize THEN UNCHANGED diskVars ELSE FlushBuffer(f)

\* A datagram is handled, with what this does to the files.
Handle(f) ==
  \/ RecvStart(f) /\ OpenFile(f)
  \/ RecvData(f) /\ WriteFile(f)
  \/ RecvEnd(f) /\ CloseFile(f)
  \/ (RejectStart(f) \/ IgnoreData(f) \/ Discard(f)) /\ UNCHANGED diskVars

\* The file_ids that have a file open.
OpenIds == {f \in FileIds : handle[f] # None}

\* The files once all that are open are closed.
AllClosed ==
  IF OpenIds = {} THEN disk ELSE FoldSet(LAMBDA f, d : Flush(d, f), disk, OpenIds)

\* The receiver is stopped and started again, with new file_states.  If it was
\* interrupted it closes its files, if it was killed it does not.  What waited
\* at its socket is gone.
Restart ==
  /\ Restarts
  /\ disk' \in {disk, AllClosed}
  /\ flushed' = [f \in FileIds |-> 0]
  /\ expected_seq' = [f \in FileIds |-> 0]
  /\ handle' = [f \in FileIds |-> None]
  /\ out' = [f \in FileIds |-> << >>]
  /\ toReceiver' = << >>
  /\ cut' = cut \cup OpenIds
  /\ UNCHANGED <<senderVars, toSender, saved, batch, ack_states, routing>>

-----------------------------------------------------------------------------
(* The session.                                                            *)

\* stop_event.set(), and ack_thread.join: the thread sees the event within its
\* poll of 50 ms, long before the join gives up.
StopRouting ==
  /\ routing /\ AllDone
  /\ routing' = FALSE
  /\ UNCHANGED <<vars, batch, ack_states, cut, diskVars>>

\* Ctrl-C in a batch ends user_loop, and main closes the socket: the threads
\* fail at their next sendto.
Interrupt ==
  /\ Interrupts /\ ~AllDone
  /\ pc' = [f \in FileIds |-> "done"]
  /\ ack_states' = {} /\ routing' = FALSE
  /\ UNCHANGED <<fileVars, windowVars, ackVars, seq, wireVars, receiverVars>>
  /\ UNCHANGED <<batch, cut, diskVars>>

\* A sender that is started again has a new socket, which gets nothing that
\* was sent to the old one.  Its user is slower than the receiver, which has
\* handled what was sent.
Restarted == ack_states = {} /\ toReceiver = << >>

\* The file_ids of a batch that asks for n files.
FirstIds(n) == {f \in FileIds : f < n}

\* The next batch: new threads and new ack_states, for n files that the user
\* names.  What is in the sockets stays, unless they are new.
StartBatch ==
  /\ batch < MaxBatches /\ AllDone /\ ~routing
  /\ ack_states # {} \/ Restarted
  /\ toSender' = IF ack_states = {} THEN << >> ELSE toSender
  /\ \E n \in {f + 1 : f \in FileIds} :
       \E names \in [FirstIds(n) -> Files] :
         /\ ack_states' = FirstIds(n)
         /\ file' = [f \in FileIds |-> IF f < n THEN names[f] ELSE file[f]]
         /\ pc' = [f \in FileIds |-> IF f < n THEN "send" ELSE "done"]
  /\ batch' = batch + 1 /\ routing' = TRUE
  /\ cut' = cut \cup OpenIds
  /\ base' = [f \in FileIds |-> 0]
  /\ nextseqnum' = [f \in FileIds |-> 0]
  /\ buffer' = [f \in FileIds |-> [s \in SeqNums |-> None]]
  /\ timer' = [f \in FileIds |-> FALSE]
  /\ started' = [f \in FileIds |-> FALSE]
  /\ read' = [f \in FileIds |-> 0]
  /\ eof_reached' = [f \in FileIds |-> FALSE]
  /\ seq' = [f \in FileIds |-> 0]
  /\ acks' = [f \in FileIds |-> << >>]
  /\ ack_queue' = [f \in FileIds |-> << >>]
  /\ saved' = [f \in FileIds |-> {}]    \* history: of this batch
  /\ UNCHANGED <<toReceiver, expected_seq, handle, out, diskVars>>

\* The user ends the session at the prompt.
Exit ==
  /\ AllDone /\ ~routing /\ batch = MaxBatches /\ toReceiver = << >>
  /\ UNCHANGED allVars

SessionNext ==
  \/ /\ \E f \in FileIds :
          SenderStep(f) \/ Timeout(f) \/ (routing /\ RouteAck(f))
     /\ UNCHANGED <<receiverVars, sessionVars, diskVars>>
  \/ \E f \in FileIds : Handle(f) /\ UNCHANGED <<senderVars, sessionVars>>
  \/ LoseData /\ UNCHANGED <<senderVars, sessionVars, diskVars>>
  \/ LoseAck /\ UNCHANGED <<senderVars, receiverVars, sessionVars, diskVars>>
  \/ StopRouting \/ StartBatch \/ Interrupt \/ Restart \/ Exit

SessionSpec == SessionInit /\ [][SessionNext]_allVars

\* As Fairness of GoBackN, in every batch.  The user need not go on.
SessionFairness ==
  /\ \A f \in FileIds :
       /\ WF_allVars(SenderStep(f)
                       /\ UNCHANGED <<receiverVars, sessionVars, diskVars>>)
       /\ SF_allVars(Timeout(f)
                       /\ UNCHANGED <<receiverVars, sessionVars, diskVars>>)
       /\ SF_allVars(routing /\ RouteAck(f)
                       /\ UNCHANGED <<receiverVars, sessionVars, diskVars>>)
  /\ \A f \in FileIds, s \in SeqNums :
       SF_allVars(Handle(f) /\ pkt.seq_num = s
                   /\ UNCHANGED <<senderVars, sessionVars>>)

FairSession == SessionSpec /\ SessionFairness

-----------------------------------------------------------------------------
\* An output file that is open has the beginning of a file of its name.
Unmixed(f) ==
  handle[f] # None =>
    \E p \in Files : BaseName[p] = handle[f] /\ IsPrefixOf(out[f], p)

(* Streams never get mixed (Bonus.txt:27), in any batch.                   *)
NeverMixed == \A f \in FileIds : Unmixed(f)

(* Nor does what the batches before have left, or an interruption of other *)
(* streams, mix them, unless a file_id was cut off in a transfer           *)
(* (receiver_gbn.py:99-122, sender_gbn.py:254-261).                        *)
UnmixedUnlessCut == \A f \in FileIds \ cut : Unmixed(f)

(* Unless its file_id was cut off, a transfer of the batch that is         *)
(* reported complete was closed whole by the receiver, and nothing else    *)
(* was: no ACK of another stream or batch is believed                      *)
(* (sender_gbn.py:194-206, 254-261, receiver_gbn.py:131-134).              *)
BatchSaved ==
  \A f \in FileIds \ cut :
    /\ saved[f] \subseteq {Copy(file[f])}
    /\ f \in ack_states /\ pc[f] = "done" => saved[f] # {}

(* When a batch has returned, each output file is on disk as the one file  *)
(* that was sent under its name, byte for byte (Bonus.txt:38-39).  If      *)
(* several were sent under it, it must be one of them; no START of another *)
(* batch truncates it, no handle that is still open writes into it         *)
(* (receiver_gbn.py:111-115, 122, 127-129).                                *)
WholeOnDisk ==
  cut = {} /\ AllDone /\ toReceiver = << >> =>
    \A f \in ack_states :
      \E g \in ack_states :
        /\ BaseName[file[g]] = BaseName[file[f]]
        /\ disk[BaseName[file[f]]] = Content(file[g])

\* The threads that have not returned, the ACKs put aside for them, and those
\* that they have drained.
Open == {f \in ack_states : pc[f] # "done"}

Box == [f \in FileIds |-> IF pc[f] # "done" THEN ack_queue[f] ELSE << >>]

Hand == [f \in FileIds |-> IF pc[f] # "done" THEN acks[f] ELSE << >>]

(* The queues of ACKs, as they are routed and drained here in one step     *)
(* each, give the threads what the mailbox allows without strays: every    *)
(* ACK once, in order, to its file_id.  AckDemux implements the same       *)
(* mailbox, with strays when a join gives up (sender_gbn.py:122-126,       *)
(* 176-206).                                                               *)
Mailbox == INSTANCE AckMailbox WITH
  Lossy <- LossyAcks, NewSocket <- Interrupts,
  open <- Open, sock <- toSender, box <- Box, hand <- Hand, strays <- 0

ImplementsMailbox == Mailbox!Spec

(* Every transfer of every batch is reported complete in the end, unless   *)
(* the receiver was stopped in the middle of it: what the batches before   *)
(* have left stalls none, nor does a receiver that starts anew when no     *)
(* transfer is under way there (receiver_gbn.py:59-70, 131-134).           *)
BatchesEnd ==
  \A f \in FileIds :
    f \in ack_states /\ pc[f] # "done" ~> pc[f] = "done" \/ f \in cut
=============================================================================
