# Reliable transfer over UDP: models, checks and proofs

A verification project for the two file-transfer protocols of this repository:
Stop-and-Wait (`sender_stopwait.py`, `receiver_stopwait.py`) and Go-Back-N with
parallel transfers (`sender_gbn.py`, `receiver_gbn.py`), over the packets of
`packet.py`. TLA+ modules model the programs, TLC checks them on small
instances, and TLAPS proves what matters most for every value of the constants.

Line numbers refer to the files under `src/`.

## 1. Inventory

### The parts and their state

| Part | State | Operations |
|---|---|---|
| `packet.py` | none; a packet is a value | `compute_checksum` (sum, fold to 8 bits, invert), `to_bytes`, `from_bytes` (lengths, checksum) |
| Go-Back-N sender thread, one per file (`send_file_gbn`) | `base`, `nextseqnum`, `buffer`, `timer_start`, `started`, `eof_reached`, the position in the file | send new packets while the window has room; wait 10 ms; drain the queue of ACKs; move the window; on a timeout resend it all; end when everything is acknowledged |
| ACK demultiplexer (`ack_receiver`) | none of its own; fills `ack_states[fid]` | poll the socket, append each ACK to the queue of its `file_id`, notify |
| Go-Back-N prompt (`user_loop`) | the batch: file names, `ack_states`, threads, `stop_event` | validate names, start demultiplexer and threads, join them, next batch |
| Go-Back-N receiver (`receiver_loop`) | per `file_id`: `expected_seq`, `file_handle`, `file_name` | take a datagram; maybe lose or corrupt it; START opens, DATA writes, END closes, ACK; otherwise discard and repeat the last ACK |
| Stop-and-Wait sender | `seq_num`, the packet awaited, `retries` | send and wait; resend on a timeout; give up after 20; next packet; END; back to the prompt |
| Stop-and-Wait receiver | `expected_seq`, `file_handle`, `transfer_active`, `file_name`, and the output files | START opens whatever is expected; DATA writes or repeats an ACK; END closes |
| `gbn_trace.py` | an optional callback | may sleep, in `ack_receiver` with a lock held |
| `run_experiments.py` | the trial under way, its receiver and sender processes, `results.csv` | per trial: start a receiver, run a sender with a timeout, stop the receiver, write a row |
| `visualize.py` | none; reads `results.csv` | group the rows by configuration, average, draw what there is |
| `visualize_gbn_threads.py` | one batch, run in its own process | start receiver and threads, give up on a thread after a minute, close the socket; draw |
| `tests/` | scripts | assert |

### How they interact

The programs talk through two UDP sockets on localhost. The threads of one
Go-Back-N sender share a socket: writes under `sock_lock`, reads by the
demultiplexer only, which hands ACKs over through a list under a lock. The
receiver is sequential: it handles one datagram to the end before the next. It
keeps its state over the end of a transfer, of a batch, and of the sender.

### What is hard

Packets and ACKs are lost (by `--loss-rate`, `--corruption-rate`, full socket
buffers); a timer may expire while the answer is on its way or already queued;
whole windows are repeated and arrive after the receiver has moved on, or has
closed the file; receivers and senders stop in a transfer and are started again;
what is written waits in a buffer; threads hand ACKs over by lock and condition, and a
demultiplexer may outlive its batch; numbers wrap at 256, or at 2; streams of several files
interleave; a receiver that starts over at 0 after END cannot tell a late START
from a new one; and a transfer that was given up leaves its messages behind.
`PROJECT.json` lists each hazard at its line with the properties that cover it.

### What makes each part correct

- Go-Back-N sender: base never passes what the receiver has taken, nor runs more
  than a window behind what was sent; a window never goes without a timer;
  completion is reported only when the whole file was closed at the receiver; and
  it is reported some time.
- ACK demultiplexer: every ACK comes to the thread of its `file_id` once, in order, and
  soon; it ends with its batch, or takes one ACK of the next at most.
- Go-Back-N receiver: what is written for a stream is always a beginning of that
  stream's file; nothing written is taken back; what is closed is whole, and
  stays whole.
- Stop-and-Wait: one bit is enough, that is, sender and receiver stay in lock
  step; the ACK that is taken is that of the packet awaited; every transfer ends;
  what is reported complete is whole on disk.
- Checksum: folding ends in a byte; one flipped bit is always detected; an intact
  packet is never rejected.
- Harness: each trial is measured against its own receiver; none is left behind on the
  port; each condition gets its number of rows; and the experiment ends.

## 2. Plan

In the order of importance, with what each step adds:

1. `GbnWire`, `GbnSender`, `GbnReceiver`, `GoBackN`: Go-Back-N, one batch. *Done.*
2. `SlidingWindow`: what it promises, and the refinement. *Done.*
3. `GbnInv` and the proofs: the inductive invariant, from which every safety
   property of `GoBackN` and the refinement follow. *Done.*
4. `StopAndWait`: sessions of transfers, retries and giving up, the output files, a
   receiver that is started again; the proofs of its safety. `SerialTransfer`, what such a
   session promises, and the refinement. *Done.*
5. `Checksum` and its proofs. *Done.*
6. `GbnSession`: several batches on one socket, a sender or a receiver that is stopped and
   started again, the receiver's leftover state, the bytes of its files; the invariant of a
   session without early timers, and the proofs. *Done.*
7. `AckMailbox` and `AckDemux`: the lists, locks and conditions between the
   demultiplexers and the threads, the wait with its bound, `stop_event`, the joins that
   may give up; shown, and proved, to implement the same mailbox as `GbnSession`. *Done.*
8. `Experiments` and `Charts`: the trials of `run_experiments.py`, with their timeouts and
   rows, and what `visualize.py` makes of them; the proofs of their safety. *Done.*

## 3. The models

A payload is abstracted to the part of the file it carries: part 0 is the START,
part *k* the *k*-th chunk, the part after the last chunk the END. No guard reads
it (nor the auxiliary fields of ACKs), so it is the identity by which properties
tell chunks apart. Loss and corruption are one action, since a packet that fails
its checksum is discarded without a trace; `Checksum` justifies that.

| Module | Models |
|---|---|
| `GbnWire` | numbers modulo `MAX_SEQ`, packets and ACKs, the two socket buffers (bounded, in arrival order) |
| `GbnSender` | `send_file_gbn`, and `ack_receiver` as one step per ACK |
| `GbnReceiver` | `receiver_loop` of `receiver_gbn.py` |
| `GoBackN` | both programs over the two sockets: `Init`, `Next`, fairness, the properties |
| `GbnSession` | `user_loop`: batches, the socket they share, Ctrl-C and a new sender, over `GoBackN`; the receiver's output files, its end and its new start |
| `AckMailbox` | the abstract specification of how ACKs come to the threads of a batch |
| `AckDemux` | `ack_receiver`, the lists, locks and conditions, the wait and the draining, the end of a batch; `run_transfer` of the thread visualizer |
| `OutputFiles` | what a flush does to the bytes of a file (used by `GbnSession` and `StopAndWait`) |
| `SlidingWindow` | the abstract specification: counters of packets sent, taken and acknowledged, per file |
| `SerialTransfer` | the abstract specification of a Stop-and-Wait session: the parts of one file after the other, each taken once, no sequence numbers |
| `GbnInv`, `SwInv`, `DemuxInv`, `SessionInv` | the inductive invariants of `GoBackN`, `StopAndWait`, `AckDemux` and `GbnSession` |
| `StopAndWait` | both Stop-and-Wait programs, the file buffer and the directory, and the properties |
| `Checksum` | `compute_checksum` as a loop, the bit flip, the comparison |
| `Experiments` | `run_experiments.py`: the trials, their processes, the port, the rows |
| `Charts` | `visualize.py`: averages by configuration, table cells, the curves of the corruption chart |
| `MCGoBackN`, `MCGbnSession`, `MCAckDemux`, `MCStopAndWait`, `MCChecksum`, `MCExperiments` | constants for TLC |
| `GbnBasics`, `GbnProofs`, `GbnSessionProofs`, `OutputFilesProofs`, `StopAndWaitProofs`, `AckDemuxProofs`, `ExperimentsProofs`, `ChecksumProofs` | proofs |

### Go-Back-N

A step of a sender thread is the code between two operations on what it shares
with others. `SendStart`, `SendData` and `SendEnd` are the iterations of the
sending loop (lines 85-116), each from the choice of the packet through `sendto`
to `nextseqnum`. When the window is full or the file at its end (`~CanSend`),
`Drain` is the wait and the draining (119-126): the wait returns on a
notification or after 10 ms, so nothing guards it. `AcceptAck` and `IgnoreAck`
are the iterations over the drained list (128-147), `NoTimeout` and `Timeout` the
check of the timer (151), `Resend` one iteration of the retransmission loop
(154-159) and, in the last, the restart of the timer (163). `LoopHead` is the
condition of the outer loop (82). Time is not modelled: with
`EarlyTimeout = TRUE` a running timer may expire at any check; with `FALSE` only
when nothing of this file is in a socket or a queue, which is a timeout longer
than every round trip. `RouteAck` is an iteration of `ack_receiver` (176-201).

A step of the receiver is an iteration of its loop. The variable `handle` stands
for `file_handle` and `file_name`, `out` for what was written through the handle
opened last, and `saved` is history: what an END closed, under which name. That
`END` resets `expected_seq` and that a rejected START advances nothing are part
of the actions `RecvEnd` and `RejectStart`.

`GbnSession` begins in a first batch with every file_id. When all threads have returned,
`StopRouting` is `stop_event` and the join; `StartBatch` the prompt, the new `ack_states`
and the new threads, for the first *n* file_ids, while the sockets and the receiver stay
as they are; what is routed to a file_id outside `ack_states` is dropped. `Interrupt` is
Ctrl-C in a batch, after which `StartBatch` is a new process with a new socket, started
by hand, so after the receiver has handled what was sent. The history
variable `cut` has the file_ids that were under way at the receiver when a batch began:
after an interruption the receiver is in the middle of a file, and nothing good can
be said of that stream.

`Handle` adds to each step of the receiver what it does to the files: an output file is a
Python buffered file with an offset of its own, whose chunks reach `disk` when the buffer
is full or on `close`. `Restart` is a receiver that is stopped and started again, by hand
or because an exception ended it: the `finally` clause closes the files (148-152), a kill
does not; `file_states` is new, and what waited in the socket's buffer is gone. A
file_id that had a file open is `cut`, too. That exception is needed: a
receiver that expects 0 answers nothing that the sender repeats, so that the transfer
hangs; and if its END is numbered 0, after 255 chunks, say, the new receiver takes END
for what it expects, and the transfer is reported complete although the file is not
whole (TLC finds this without `cut`).

### How ACKs come to the threads

`GbnSender` routes an ACK in one step and drains a queue in one step. The code does not:
`ack_receiver` polls the socket (178), receives (182), appends under the lock (200) and
notifies under it again (202); a thread waits on the condition (120), and copies and clears
the list under the lock (124-126). `AckDemux` has each of these as a step of its own,
for the demultiplexers of all batches at once, since the join of the first may give up
after a second (289). What a thread does with its ACKs is left open (`Handle`).

`AckMailbox` is what the two have in common, and joins them: every ACK goes once, in
order, to the box of its file_id if that is of the batch and its thread has not
returned, the thread takes all there is, and up to one ACK per demultiplexer that has
outlived its batch goes astray. `AckDemux` implements it with `FairSpec`'s threads and locks,
`GbnSession` with its atomic steps and without strays. What the two share is this
specification: `GbnSession` is not derived from `AckDemux`.

`AckDemux` also has the other program that runs these threads, `run_transfer` of
`visualize_gbn_threads.py` (`caller`): it gives up on a thread after a minute (`GivesUp`),
sleeps 0.2 s instead of joining the demultiplexer, and closes the socket (`Close`), after
which `select`, `recvfrom` and `sendto` raise (`Abort`, `AfterAcks`). The trace hook is the
state `"trace"` of a demultiplexer: between `Notify` and `Release` it may sleep with the lock
held.

### Stop-and-Wait

The sender is a program counter (`"prompt"`, `"waiting"`), the packet it waits on
and its retries; a step is the code between two returns of `recvfrom`. So
`TakeAck` includes the sending of the next packet. The receiver is as in the
code, with one thing more: the output file is a Python buffered file, whose
chunks reach the disk when the buffer is full, or on `close`. START opens, and so
truncates, the name first, and only the assignment to `file_handle` drops a
handle still open, which CPython closes, and so flushes, at once (reference
counting; under another implementation it would be later, and worse). `disk`
holds the directory.

`Restart` is the receiver's end and new start, as in `GbnSession`: the `finally` clause
closes the file (159-162), a kill does not. START carries the path as it was typed,
and `from_bytes` discards a payload over 1024 bytes: `Rejected` has both reasons why a START
gets no ACK.

`xfer` numbers the transfers, and `of` in an ACK says which packet it answers.
Both are auxiliary.

`SerialTransfer` has no sequence numbers, queues, losses or timeouts: the sender comes to a
part, the receiver takes it, the sender goes on; END stores the whole file. The mapping takes the
sender's packet for the part come to, `taken = IdOf(packet)` for "it was taken", `saved` for
what is stored, and `Undisturbed` for a clean session: once a transfer was given up with answers
late, nothing is promised any more. Repetitions, losses, timeouts and `Restart` are stutters.

### The harness

`Matrix` is the sequence of trials that the loops of `main` run through; `Nested` is the order
of two nested loops, by quotient and remainder. A trial is
`StartReceiver` (118-129), `Poll` (130), then either `SenderEnded` or `TimesOut`
(153-163), then `StopReceiver` (181) and `WriteRow` (183-200). The processes run beside:
a receiver binds the port of its protocol or fails to (`Bind`, `BindFails`), before or after
`Poll`, and ends when it is told to (`Dies`); another program, say a receiver that someone runs by
hand, may take a port that is free and leave it, at any time (`ForeignBinds`, `ForeignLeaves`);
a sender completes with whoever has the port, gives up (Stop-and-Wait), or repeats for ever. `TimesOut` may raise: what a killed
sender had printed comes as bytes even with `text=True`, in which a pattern of text
cannot be searched, so that the first trial that times out after its prompt ends
the experiment, though line 160 only warns. `server`, who completed the
transfer, is history.

`Charts` reads the rows at any moment, as `visualize.py` may. An average is abstracted to
the trials it is over.

## 4. What TLC checks

Go-Back-N (`MCGoBackN`). A path `p<k>` has `k` chunks, so that a transfer has
`k + 2` packets.

| Run | Instance | Shows |
|---|---|---|
| `gbn_safety` | one file of 0..4 chunks, one name rejected; window 2, numbers modulo 4; every loss, early timers | types, `WindowSound`, `PrefixOfSource`, `CompleteMeansSaved`, `TimerCoversWindow`, the inductive invariant `IInv`, `NoTruncationBeforeEnd`, the refinement of `SlidingWindow` |
| `gbn_session` (`MCGbnSession`) | two batches of one or two files, ACKs lost, packets dropped by the receiver's full socket, interruptions, no early timer | `BatchSaved`, `UnmixedUnlessCut`, `WholeOnDisk`: streams and ACKs never cross, every file is whole on disk, and what one batch leaves harms no later one, unless the stream was cut off; the inductive invariant `SInv`; the refinement of `AckMailbox` |
| `gbn_patient` (`MCGbnSession`) | three batches of one file of 0, 1 or 4 chunks; window 3, modulo 6; losses of packets, a receiver that is started again at any time, no early timer, no lost ACK | `BatchesEnd`: every transfer completes unless the receiver was stopped in it; the inductive invariant `FilesInv` of the files, of which with `SInv` (checked in `gbn_session`) `WholeOnDisk` is a consequence |
| `gbn_truncated` | 1 chunk, early timer, no lost ACK | **violated**: a complete file is truncated by a late START |
| `gbn_lost_end_ack` | a lost ACK | **violated**: the sender never returns |
| `gbn_interrupted` (`MCGbnSession`) | an interruption, no loss at all | **violated**: chunks of one file in another |
| `gbn_shared_name` (`MCGbnSession`) | two files of one batch with one base name, no loss at all | **violated**: a file with chunks of both, both reported complete |
| `ack_demux` (`MCAckDemux`) | two batches of one or two threads, two ACKs, joins that give up, both callers | `NeverBlocks`: while every join was in time, no demultiplexer blocks; the inductive invariant `DInv`, with the types; the refinement of `AckMailbox`; `DrainedInTime`: no ACK lies in a list for want of a notification; `RoutersEnd`, `WorkersEnd`: demultiplexers and threads end |

Stop-and-Wait (`MCStopAndWait`).

| Run | Instance | Shows |
|---|---|---|
| `sw_session` | up to 3 transfers of 0, 2 or 3 chunks, one with a path that is too long, 4 retries, every loss, early timeouts, a receiver that is started again at any time | types, `InLockStep`, `NoFalseAck`, `SavedWhole`, `LastOnDisk`; the invariants `IInv` and `DiskInv`; the refinement of `SerialTransfer`; `TransfersEnd` |
| `sw_old_buffer` | a transfer given up, two paths with one base name | **violated**: chunks of one file in another that was just truncated, and reported complete |

The safety properties of `sw_session` except a session in which a transfer was given up
after a timeout that had come before a late answer (`Undisturbed`). They need to: without
that exception TLC finds `NoFalseAck` violated, for the late ACK of the START of the
transfer that was given up is taken for that of the next one's START, which has the same
number, although the comment at `sender_stopwait.py:95` calls it the "Correct ACK for the
packet we sent". Transfers that are given up for losses, a rejected name or a receiver that
is gone are included.

With a join that gave up, two demultiplexers poll one socket, and the one that comes
late to `recvfrom` hangs there, without seeing `stop_event`: the comment at
`sender_gbn.py:177` ("so we can notice stop_event promptly") speaks of `select` only.
`RoutersEnd` says what is true; it takes a join of more than a second.

`checksum` (`MCChecksum`): every byte, every bit of it, and sums of the other
bytes around each boundary of the folding loop.

The harness and the charts (`MCExperiments`): the matrix of `--quick` with one file size, eight
trials of both protocols. Rate 0 is in both lists, and so is the other one, as 0.1 is without
`--quick`.

| Run | Instance | Shows |
|---|---|---|
| `experiments` | other programs on the ports at any time | types, `NoOtherTrial`, `NoOrphan`, `TrialsEach`, `CurvesFromZero`, `HarnessEnds` |

`NoOtherTrial` excludes the receivers of other trials only. With `OwnReceiver` as the invariant TLC
finds a transfer recorded under the rates of its trial that another program has served: it has
the port, and the receiver of the trial takes longer than the 0.2 s of `BIND_WAIT` to come to its
`bind`, passes the poll (130) and fails only then, with its stderr discarded.

`TrialsEach` says which trials an average is over, for any lists. Each rate of each matrix has its
trials, as `run_experiments.py:8` and `Readme.txt:36,108` promise ("5 trials each"); but the condition
without loss or corruption belongs to both matrices, with the same trial numbers, and one key in
`visualize.py:89`, so that its average is over 10 trials, where all others are over 5
(`n_trials` in `summary.csv` says so). With `SameTrialsEach` as the invariant TLC finds this.

A rejected name makes a Go-Back-N sender repeat START for ever, too: with
`ValidNames = {n1}`, `Files = {p1, p2}` and `LossyAcks = FALSE` in `GbnLostEndAck.cfg`, TLC
finds `EventuallyComplete` violated.

`gbn_session` and `gbn_patient` exclude early timers, and need to: the ACKs that a batch's
repetitions leave in the socket are believed in the next one. With `EarlyTimeout = TRUE` and
`Interrupts = FALSE` in `GbnInterrupted.cfg`, TLC finds `BatchSaved` and `NeverMixed` violated.

Two of the violated properties hold under conditions, and are proved there (section 5):
`IntactAtRest`, which `gbn_truncated` refutes with one chunk, for files that are longer than
a window, which with the code's window of 8 means 7 chunks or more; `NeverMixed`, which `gbn_interrupted` refutes,
when neither program is stopped and no timer is early. So do `OwnReceiver`,
when no other program takes a port, and `SameTrialsEach`, when no condition is in both matrices.

The violations are the findings of `PROJECT.json`: there a comment, a document or
a test says one thing, and the run shows the code do another.

### Bounds, and why they are enough

- **Window 2 or 3, `MAX_SEQ` twice the window.** The code has 8 and 256. What can go
  wrong with numbers is a confusion of laps, and it comes first when the modulus is
  smallest: twice the window is the least the argument below needs (the code has 32
  times), and files of 3 and 4 chunks wrap it.
- **Files of 0 to 4 chunks.** An empty file, files that fit into one window with
  START and END (which a late START can open again), and files that do not.
- **Socket buffers of 2 to 4 datagrams, queues of 2 ACKs.** At least a whole window and
  part of another fit, so that old and new packets meet; full buffers drop, as
  the kernel does. The `ack_queue` is unbounded in the code: `QueueCap` only delays
  the demultiplexer.
- **No random loss of packets in `gbn_session`.** Its socket buffer of 3 datagrams drops what two
  windows of 2 send beyond that, of either stream; other losses are in `gbn_safety` and, over
  batches, in `gbn_patient`.
- **Two files.** Streams share nothing but the sockets; two show whether they cross. For
  any number there is the proof.
- **Two or three batches.** A batch meets what the ones before it have left in the sockets and
  at the receiver; two show that, and a third that it does not add up.
- **Three transfers, 2 or 4 retries.** A transfer meets what at most the two before it
  have left. The code allows 20 retries; 4 packets fill the buffers already.
- **Eight trials, one per condition and matrix.** A trial meets what the one before it has left.
  Both protocols, both matrices and the condition they share are there.
- **A buffer of 1 or 2 chunks.** Python's holds 4 or more (4 KiB to 128 KiB, by version and
  file system); what matters is a rest that is not flushed, and a full one.
- **Two ACKs, two batches, two threads in `ack_demux`.** One ACK can be in the hands of a
  demultiplexer, or in a list, while another one comes; two demultiplexers can see the same
  ACK. No more than two are ever at one lock.

### Fairness

`GoBackN!FairSpec`: the threads and programs are scheduled by the operating system
(weak fairness of `SenderStep`). `Timeout` and `RouteAck` get strong fairness: a timer
that is running again and again when it is checked has expired at some check, and an
ACK that is lost with a chance below one arrives some time. The receiver is
strongly fair for each sequence number, since `--loss-rate` drops each datagram with an
independent chance: a number that is sent again and again is received. For
a rate of 1.0 this does not hold and nothing completes. `gbn_lost_end_ack` assumes
all this, and still refutes completion.

`GbnSession!FairSession` assumes the same of every batch, and nothing of the user, nor of
`Restart`: the receiver may be started again for ever.

`AckDemux!FairSpec`: threads and demultiplexers are scheduled, and get a lock that is given
back again and again (strong fairness): the demultiplexer, which gives it back last, then
goes into a system call. `run_transfer` goes on by itself, by its timeouts. Nothing is
assumed of the network, of the user, of the join, or that an ACK is ever notified in time.

`StopAndWait!FairSpec` assumes only that both programs keep running, nothing of the
network: transfers end by their retries. `Checksum!FairSpec` assumes that
the program keeps running. `Experiments!FairSpec` assumes that the harness does, and that a
process that was terminated, or killed two seconds later, ends; a sender need never end.

## 5. What is proved

| Theorem (module) | Statement |
|---|---|
| `TypeCorrect` (`GbnBasics`) | `Spec => []TypeOK` |
| `Inductive` (`GbnProofs`) | `Spec => []IInv` |
| `WindowIsSound` | `Spec => []WindowSound` |
| `NeverCorrupted` | `Spec => []PrefixOfSource` |
| `CompleteIsSaved` | `Spec => []CompleteMeansSaved` |
| `TimerRuns` | `Spec => []TimerCoversWindow` |
| `NothingTakenBack` | `Spec => NoTruncationBeforeEnd` |
| `LongFilesStayIntact` | `Spec => [](\A f \in FileIds : pc[f] = "done" /\ Long(f) => out[f] = Content(file[f]))` |
| `IntactIfLong` | `\A p \in Files : LastPart(p) + 1 > WINDOW_SIZE`: `Spec => []IntactAtRest` |
| `ImplementsPromise` | `Spec => ImplementsSlidingWindow` |
| `SessionMailbox` (`GbnSessionProofs`) | `SessionSpec => ImplementsMailbox` |
| `SessionInductive` | `~EarlyTimeout`: `SessionSpec => []SInv` |
| `NeverMixedUncut` | `~EarlyTimeout`: `SessionSpec => []UnmixedUnlessCut` |
| `NeverMixedOtherwise` | `~EarlyTimeout`, `~Interrupts`, `~Restarts`: `SessionSpec => []NeverMixed` |
| `BatchIsSaved` | `~EarlyTimeout`: `SessionSpec => []BatchSaved` |
| `FilesOnDisk` | `~EarlyTimeout`, `DistinctNames`: `SessionSpec => []FilesInv` |
| `FilesAreWhole` | `~EarlyTimeout`, `DistinctNames`: `SessionSpec => []WholeOnDisk` |
| `DemuxInductive` (`AckDemuxProofs`) | `Spec => []DInv` |
| `DemuxTypeCorrect` | `Spec => []DemuxTypeOK` |
| `RecvNeverBlocks` | `Spec => []NeverBlocks` |
| `MailboxImplemented` | `Spec => ImplementsMailbox` |
| `SwTypeCorrect` (`StopAndWaitProofs`) | `Spec => []SwTypeOK` |
| `SwInductive` | `Spec => []IInv` |
| `OneBitIsEnough` | `Spec => []InLockStep` |
| `AckIsNotFalse` | `Spec => NoFalseAck` |
| `ReportedIsSaved` | `Spec => []SavedWhole` |
| `SerialImplemented` | `Spec => ImplementsSerialTransfer` |
| `DiskInductive` | `DistinctNames`: `Spec => []DiskInv` |
| `LastTransferOnDisk` | `DistinctNames`: `Spec => []LastOnDisk` |
| `HarnessTypes` (`ExperimentsProofs`) | `Spec => []ExpTypeOK` |
| `NotAnotherReceiver` | `Spec => []NoOtherTrial` |
| `MeasuresItsOwn` | `~PortTaken`: `Spec => []OwnReceiver` |
| `NothingLeftBehind` | `Spec => []NoOrphan` |
| `AveragesAreComplete` | `Spec => []TrialsEach` |
| `SameTrialsOtherwise` | `skip_bonus \/ 0 \notin Range(CORRUPTION_RATES_BONUS)`: `Spec => []SameTrialsEach` |
| `CurvesBegin` | `Spec => []CurvesFromZero` |
| `ChecksumFits` (`ChecksumProofs`) | `Spec => []CsTypeOK` |
| `CorruptionDetected` | `Spec => []FlipDetected` |
| `IntactPasses` | `Spec => []IntactAccepted` |

They hold for any sets of files, names and file_ids, any file sizes, any window, modulus and
buffer sizes, any number of batches, transfers, retries, threads, demultiplexers and trials,
with or without losses, interruptions, restarts and early timers, except where the table
states a condition.

**Assumptions.** Of Go-Back-N: the window is positive, `MAX_SEQ >= 2 * WINDOW_SIZE`, and
`None` is not a name; all others say only what kind of thing a constant is. One window more
than Go-Back-N needs in textbooks: this receiver starts over at 0 after END, opens the
file again for a late START of a file that fits into one window, and then acknowledges
packets that were acknowledged before, so that an ACK may be a whole
window behind the sender's base. With less, `Dist(ack_num, base) < WINDOW_SIZE` could
take such an ACK for a new one.

Six theorems about sessions of Go-Back-N assume `~EarlyTimeout`, a timeout longer than every
round trip; four theorems about what is on disk assume that no two paths have one base name
(`DistinctNames`). Neither can be left out: TLC finds the properties violated without
them (section 4, `sw_old_buffer` and `gbn_shared_name`). Nor can those of `IntactIfLong` and
`NeverMixedOtherwise` (`gbn_truncated`, `gbn_interrupted`), nor those of `MeasuresItsOwn` and
`SameTrialsOtherwise` (section 4, the harness). The first is met where nobody else
uses the two ports; the second with `--skip-bonus`, but not by the default experiment.

Of the harness: the protocols, sizes and rates are lists without repetition
(`ListsAssumption`), and rate 0 is among the loss rates (`RatesAssumption`), as in
`run_experiments.py:62` and 219. Were a rate listed twice, its average would be over twice the
trials.

**The invariant of Go-Back-N.** The safety properties are not inductive: nothing in them says what is on
the wire. `IInv` says of each file that (1) `base`, `nextseqnum` and `expected_seq` are the
residues of absolute counts of parts, the buffer holds exactly the window between
the first two, and the timer runs exactly when that window is not empty; (2) a packet
on the wire is a packet that was sent, and no more than a window behind what the
receiver has taken; (3) an ACK, in the socket, in the queue or already drained, stands
for a part that was taken, and is no more than a window behind the base;
(4) of two messages in one direction the later is less than a window older than the
earlier: that is what keeps (2) and (3) when the earlier one is taken and moves the
counters; (5) what was written is a beginning of the file, and a handle is open after
an END only when the whole file fits into one window. From (2) and
`MAX_SEQ >= 2 * WINDOW_SIZE` a packet whose number is the expected one is the
expected packet; from (3) an ACK within the window of `base` was given for a part in it.

**Long files.** A file that was closed, and is not open again, is whole (`ClosedWhole`). Only a
START can open it again, and by (2) one that is taken after the END is no more than a window behind
it; so with START and END the file fits into one window. A longer one stays closed, and whole,
whatever is lost or late.

**The invariant of a session.** `IInv` holds of the first batch. The next one begins with
counters at 0 and whatever the sockets and the receiver still have, so `IInv` would have to
hold again, for other files. `SInv` shows why it does for each stream that was not `cut`. A
timer that expires only when nothing of its stream is under way (`Quiet`) starts each round
on an empty wire. Within a round packets are sent in ascending order, so those on the wire
ascend (`RoundInv`), and nothing follows the END. So nothing follows the ACK of END either,
wherever it is, and while it is under way nothing else of the stream is, and the file is
closed (`EndInv`). Once it is taken, the stream is settled (`SettledInv`): nothing
in a socket, a queue or a list, no file open, and the receiver expects 0. A thread returns
only then, so that a batch whose threads have all returned leaves nothing behind, and the
invariant of a first batch holds of the next. An interruption ends threads in any state,
but what it leaves of a stream is still right by `CoreInv` until the receiver has handled
what was sent; then either the receiver is in the middle of that file, and the stream
becomes `cut`, or it expects 0, and the new socket has nothing else. The same goes for a
receiver that is started again.

**The invariant of the files.** What was flushed is on disk only where the flushes of
several handles on one file leave it there. `FilesInv` says, while no stream was cut, that a
handle has flushed no more than was written to it and no file is longer than its source
(`BytesInv`), that of the handles on a file one, the one opened last, has on disk all that it
flushed, until the whole file is there (`OpenInv`), and that a file that was closed, and is
not open again, is whole (`ClosedInv`). That what is flushed is right is in `SInv`. A START empties the file, and then its own handle is the
last; a flush of another handle writes right chunks, as with distinct names only that file
has this name; an END closes the handle whose chunks are the whole file. A late START opens
the file again after that, and its ACKs are those of a file that is written once more.

**The mailbox.** `AckDemux` implements `AckMailbox` by a mapping with no history: an ACK is in
the mailbox's box from the append on, and at the head of its socket until then.
`DInv` says who holds which lock, that at most one demultiplexer belongs to the batch
that runs, and that the others have been left behind by a join that gave up, so that as
long as none did, the one that `select` has told of an ACK is alone with it
(`NeverBlocks`). Each step is one of the mailbox's or a stutter: the append is its delivery, the
copying of the list its draining, and the clearing after it a stutter, because the lock lets
nobody append in between.

**The invariant of Stop-and-Wait.** One bit cannot tell a packet from the one two before.
`IInv` says why it need not: read from the ACKs over the packet taken last to the packets,
nothing older follows anything newer, and all is of the packet awaited or the one before
(or an END that nobody heeds). So a packet
with the expected bit is the one awaited, an ACK with its bit is given for it, and the
receiver is the same packet or one behind. At the prompt nothing of a transfer that ended
is left that could be taken. All this only while `Undisturbed`. `DiskInv` adds what is on disk:
of the open file what was flushed is right and the file no longer than it will be;
after a reported END it is whole. An older transfer's buffer can only write into the file
whose name it has, which with distinct names is the same file.

**The serial transfer.** `IInv` is what the refinement needs of the wire: a packet that is taken
is the sender's, which was not taken before (`TakePart`), and an ACK that is believed is for
the packet that was taken (`NextPart`, `Report`). After a transfer was given up `taken` still
names a packet of it, but no transfer has that number again. When `Undisturbed` ends, the
mapped session is no longer clean, and any step is one of the promise's.

**The harness.** Only the receiver of the trial under way runs, from its start until it was
stopped, so that of all the harness's receivers only it can hold the port; a sender that is
complete was served by it, or by another program, which there is none of without `PortTaken`.
That row *i* is of trial *i* gives the averages: the rows of a condition are as many as its
trials in the matrices. By quotient and remainder nested loops run through all combinations, each once
(`NestedList`), so that a condition has one trial of each number in each matrix that lists it.
The corruption chart begins at rate 0 because that condition is in the first matrix, which
is recorded to the end before any trial with corruption is.

**The checksum.** Folding keeps the total modulo 255 and above 0; the sum of a packet is
above 0; a flipped bit changes the sum by 1 to 128, which is not a multiple of 255.

**The layout.** `GbnBasics` has the arithmetic of residues and of `Dist`, the types, and what
appending, taking and losing do to the parts (2), (3) and (4) of the invariant;
`GbnProofs` has one lemma for each action, about one stream, puts them together and derives the properties and the refinement, whose every step is one of `Send`,
`TakeNext`, `Learn`, `Report` or a stutter of the abstract one; `GbnSessionProofs` cites
the same lemmas for the streams of a session. `OutputFilesProofs` says what a flush does to a
file, for both receivers. The other proof modules stand by themselves; `StopAndWaitProofs` has the
properties first, then the serial transfer, then the disk.

**Only model-checked.** Liveness (`EventuallyComplete`, `BatchesEnd`, `TransfersEnd`,
`DrainedInTime`, `RoutersEnd`, `WorkersEnd`, `FoldEnds`, `HarnessEnds`), which is beyond this
prover under fairness.

## 6. What is not modelled, and why

- Bytes of headers, lengths, encodings of names: packets are records. A datagram is
  delivered as it was sent, lost, or discarded.
- Reordering and duplication in the network: both programs run on localhost (an
  assumption of `Readme.txt`), where a socket's queue keeps the order. Repetitions
  come from the senders.
- Early timers over several batches, and strays, in `GbnSession`: the properties do not hold
  there (section 4). Both are in models of their own, `GoBackN` and `AckDemux`.
- Failures of the file system: an `open` that fails ends the receiver, which is modelled by
  its consequence, `Restart`, or a sender thread, which is not (its batch would be reported
  complete at `sender_gbn.py:291` with that file missing).
- The prompts' checks of what is typed: only files that exist and have an extension are given.
- The retransmission counters, and everything that is printed.
- Of `gbn_trace.py` and `visualize_gbn_threads.py`: the log of events, the drawing, the
  temporary files. What they do to the protocol's threads is in `AckDemux`.
- Of `visualize.py`: the summary file, formatting, the charts that have a point for each
  row of the tables, and the retransmission bars, where no data and unmeasured trials
  are drawn as 0.
- The tests, which are read for what they promise.
- Of the harness: the making of test files, the arguments, the length of the timeouts, and
  Ctrl-C.
