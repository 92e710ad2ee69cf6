----------------------------- MODULE SessionInv -----------------------------
(***************************************************************************)
(* The inductive invariant of GbnSession without early timers.  A timer    *)
(* then expires only when nothing of its stream is under way, so that what *)
(* is on the wire is of one round, in ascending order, and an ACK of the   *)
(* END is the last that is heard of a stream.  So a batch that has         *)
(* returned leaves nothing of its streams behind.                          *)
(***************************************************************************)
EXTENDS GbnSession, GbnInv

\* The packets of f in q have ascending parts.
Rising(q, f) ==
  \A i, j \in DOMAIN q :
    i < j /\ q[i].file_id = f /\ q[j].file_id = f => q[i].part < q[j].part

\* The messages of f in q are of parts below k.
Below(q, f, k) == \A i \in DOMAIN q : q[i].file_id = f => q[i].part < k

\* No message of f in q is of part k.
Without(q, f, k) == \A i \in DOMAIN q : q[i].file_id = f => q[i].part # k

\* No message of f follows one of part k: within q, and from q to r.
Final(q, f, k) ==
  \A i, j \in DOMAIN q :
    i < j /\ q[i].file_id = f /\ q[j].file_id = f => q[i].part # k

FinalBefore(q, r, f, k) ==
  \A i \in DOMAIN q, j \in DOMAIN r :
    q[i].file_id = f /\ r[j].file_id = f => q[i].part # k

\* Nothing of f waits in q.
NoneOf(q, f) == \A i \in DOMAIN q : q[i].file_id # f

\* No ACK of the END of f is under way.
NoEndAck(f) ==
  /\ Without(acks[f], f, LastPart(file[f]))
  /\ Without(ack_queue[f], f, LastPart(file[f]))
  /\ Without(toSender, f, LastPart(file[f]))

\* The packets of a round come in order, each once.
RoundInv(f) ==
  /\ Rising(toReceiver, f)
  /\ pc[f] = "resend" =>
       Below(toReceiver, f, AckedParts(f) + Dist(seq[f], base[f]))

\* The ACK of the END comes last, when the file is closed.
EndInv(f) ==
  /\ ~NoEndAck(f) => /\ pc[f] # "resend" /\ handle[f] = None
                     /\ NoneOf(toReceiver, f)
  /\ Final(acks[f], f, LastPart(file[f]))
  /\ Final(ack_queue[f], f, LastPart(file[f]))
  /\ Final(toSender, f, LastPart(file[f]))
  /\ FinalBefore(acks[f], ack_queue[f], f, LastPart(file[f]))
  /\ FinalBefore(acks[f], toSender, f, LastPart(file[f]))
  /\ FinalBefore(ack_queue[f], toSender, f, LastPart(file[f]))

\* Nothing of f is under way, and its file is closed.
Settled(f) == Quiet(f) /\ handle[f] = None

\* Once everything is acknowledged.
SettledInv(f) ==
  AckedParts(f) = LastPart(file[f]) + 1 =>
    Settled(f) /\ acks[f] = << >> /\ ack_queue[f] = << >>

\* A stream of the batch, one that is not, or one that was interrupted.
StreamInv(f) ==
  /\ CoreInv(f)
  /\ f \in ack_states => PcInv(f) /\ RoundInv(f) /\ EndInv(f) /\ SettledInv(f)
  /\ f \notin ack_states /\ ack_states # {} => Settled(f)

\* The threads are those of the batch.
ThreadInv(f) ==
  /\ pc[f] # "done" => f \in ack_states
  /\ pc[f] \in {"send", "resend"} => acks[f] = << >>
  /\ OwnBuffer(f)

\* An interrupted sender has no batch.
BatchInv ==
  /\ batch \in Nat /\ ack_states \subseteq FileIds /\ cut \subseteq FileIds
  /\ ack_states = {} => Interrupts

\* What holds with early timers, too.
ShapeInv == TypeOK /\ BatchInv /\ \A f \in FileIds : ThreadInv(f)

(* What every step keeps, whatever was lost, interrupted or started again. *)
SInv == ShapeInv /\ \A f \in FileIds \ cut : StreamInv(f)

-----------------------------------------------------------------------------
(* The bytes on disk.                                                      *)

DistinctNames ==
  \A p, q \in Files : BaseName[p] = BaseName[q] => p = q

\* The first k chunks in d are those of path p.
Begins(d, p, k) ==
  k <= Len(d) /\ \A i \in 1 .. k : d[i] = [path |-> p, part |-> i]

\* The file of path p on disk.
FileOf(p) == disk[BaseName[p]]

\* A file is a sequence of chunks, possibly with holes, and no longer than what
\* is sent under its name.
BytesInv ==
  /\ flushed \in [FileIds -> Nat]
  /\ \A f \in FileIds : flushed[f] <= Len(out[f])
  /\ disk \in [Names -> Seq(Chunk \cup {None})]
  /\ \A p \in Files : Len(FileOf(p)) <= Chunks[p]

\* Of the handles on the file of f, the last opened has on disk all that it
\* flushed, until one has the whole file there.
OpenInv(f) ==
  handle[f] # None =>
    \/ Begins(FileOf(file[f]), file[f], Chunks[file[f]])
    \/ \E g \in FileIds :
         handle[g] = handle[f] /\ Begins(FileOf(file[f]), file[f], flushed[g])

\* A file that was closed in this batch, and is not open again.
ClosedInv(f) ==
  saved[f] # {} /\ (\A g \in FileIds : handle[g] # BaseName[file[f]]) =>
    Begins(FileOf(file[f]), file[f], Chunks[file[f]])

(* What every step keeps of the files on disk, if no two paths have one    *)
(* base name and no transfer was cut off at the receiver.                  *)
FilesInv == cut = {} => BytesInv /\ \A f \in FileIds : OpenInv(f) /\ ClosedInv(f)
=============================================================================
