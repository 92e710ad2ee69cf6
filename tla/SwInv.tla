-------------------------------- MODULE SwInv --------------------------------
(***************************************************************************)
(* The inductive invariant of StopAndWait.  Two packets at most are under  *)
(* way: the one the sender waits for and the one before it.  What makes    *)
(* one bit tell them apart is their order: read from the ACKs at the       *)
(* sender over the packet taken last to the packets at the receiver,       *)
(* nothing older follows anything newer.                                   *)
(***************************************************************************)
EXTENDS StopAndWait

\* The first k chunks of path p.
FirstParts(p, k) == [i \in 1 .. k |-> [path |-> p, part |-> i]]

\* Every packet of a transfer has the type its place calls for.
WellFormed(m) ==
  /\ m.part <= Chunks[m.path] + 1
  /\ m.ptype = IF m.part = 0 THEN "START" ELSE Kind(m.path, m.part)

\* The ids of the packet the sender waits for, and of the one before it.
Now == IdOf(packet)
Previous == [xfer |-> packet.xfer, part |-> packet.part - 1]

-----------------------------------------------------------------------------
(* While the sender waits.                                                 *)

\* m is the packet before the one waited for.
IsPrevious(m) ==
  /\ WellFormed(m)
  /\ m.path = packet.path /\ IdOf(m) = Previous
  /\ m.seq_num = Flip(packet.seq_num)

\* m is the END of an earlier transfer, which nobody heeds any more.
IsLeftOver(m) == packet.part = 0 /\ m.ptype = "END" /\ handle = None

DataInv ==
  \A i \in DOMAIN toReceiver :
    /\ \/ toReceiver[i] = packet
       \/ IsPrevious(toReceiver[i])
       \/ IsLeftOver(toReceiver[i])
    /\ taken = Now => toReceiver[i] = packet
    /\ \A j \in DOMAIN toReceiver :
         i < j /\ toReceiver[i] = packet => toReceiver[j] = packet

\* An END is taken, and acknowledged, once.
AckInv ==
  \A i \in DOMAIN toSender :
    /\ \/ toSender[i] = [ack_num |-> packet.seq_num, of |-> Now]
       \/ packet.part > 0
          /\ toSender[i] = [ack_num |-> Flip(packet.seq_num), of |-> Previous]
    /\ toSender[i].of = Now => taken = Now
    /\ \A j \in DOMAIN toSender :
         i < j /\ toSender[i].of = Now
           => toSender[j].of = Now /\ packet.ptype # "END"

\* What the receiver knows of the transfer it takes part in.
TakenInv ==
  /\ \/ taken = Now
     \/ packet.part > 0 /\ taken = Previous
     \/ packet.part = 0 /\ taken.xfer < packet.xfer
  /\ handle # None /\ taken.xfer = packet.xfer =>
       /\ expected_seq = IF taken = Now THEN Flip(packet.seq_num)
                         ELSE packet.seq_num
       /\ handle = BaseName[packet.path]
       /\ out = FirstParts(packet.path, taken.part)
  /\ packet.ptype = "END" /\ taken = Now =>
       handle = None /\ Copy(packet.path) \in saved

WaitingInv ==
  /\ packet.xfer = xfer /\ WellFormed(packet)
  /\ DataInv /\ AckInv /\ TakenInv

-----------------------------------------------------------------------------
\* At the prompt nothing is under way but ENDs that are ignored.
PromptInv ==
  /\ toSender = << >>
  /\ \A i \in DOMAIN toReceiver : toReceiver[i].ptype = "END" /\ handle = None

SavedInv ==
  /\ \A p \in reported : Copy(p) \in saved
  /\ saved \subseteq {Copy(p) : p \in Files}

ProtocolInv ==
  /\ taken.xfer <= xfer
  /\ sender = "waiting" => WaitingInv
  /\ sender = "prompt" => PromptInv
  /\ SavedInv

(* What every step of the two programs keeps: sequence numbers, packets    *)
(* and ACKs fit together until a transfer is given up with its answers     *)
(* late, and InLockStep, NoFalseAck and SavedWhole follow from it.         *)
IInv == SwTypeOK /\ (Undisturbed => ProtocolInv)

-----------------------------------------------------------------------------
(* The bytes on disk.                                                      *)

DistinctNames ==
  \A p, q \in Files : BaseName[p] = BaseName[q] => p = q

\* The open file has on disk what was flushed, and after it no more than an
\* earlier transfer of the same path has left there.
OpenInv ==
  handle # None =>
    \E p \in Files :
      /\ handle = BaseName[p]
      /\ \E k \in 0 .. Chunks[p] : out = FirstParts(p, k)
      /\ flushed <= Len(disk[handle]) /\ Len(disk[handle]) <= Chunks[p]
      /\ \A i \in 1 .. flushed : disk[handle][i] = out[i]

\* The file of a transfer whose END was taken, or that was reported complete.
EndedInv ==
  /\ sender = "waiting" /\ packet.ptype = "END" /\ taken = Now =>
       disk[BaseName[packet.path]] = Content(packet.path)
  /\ sender = "prompt" /\ packet # None /\ packet \notin gaveUp =>
       handle = None /\ disk[BaseName[packet.path]] = Content(packet.path)

(* What every step keeps of the files on disk if no two paths have one     *)
(* base name; LastOnDisk follows from it.                                  *)
DiskInv == Undisturbed => OpenInv /\ EndedInv
=============================================================================
