------------------------------ MODULE Checksum ------------------------------
(***************************************************************************)
(* packet.py: the 8-bit checksum of a packet, and the bit flip with which  *)
(* the receivers simulate corruption.  The checksum is a sum, so a packet  *)
(* is reduced to one byte that may be flipped and the sum of all others;   *)
(* the folding loop runs one iteration per step.                           *)
(***************************************************************************)
EXTENDS Integers

CONSTANT Rests   \* sums of the bytes of a packet without one

\* At most: seq_num 255, file_id 254, type DATA, a payload of 1024 = 4 * 256
\* bytes.  At least the length of a payload that has a byte to flip.
MaxRest == 255 + 254 + 4 + 1023 * 255

ASSUME RestsAssumption == Rests \subseteq 1 .. MaxRest

Byte == 0 .. 255

Bit == {1, 2, 4, 8, 16, 32, 64, 128}

VARIABLES
  phase,    \* where to_bytes, the corruption and from_bytes have got to
  rest,     \* the sum of the bytes that are not flipped
  byte,     \* the byte that may be
  sent,     \* history: its value at the sender
  total,
  chksum

vars == <<phase, rest, byte, sent, total, chksum>>

Init ==
  /\ phase = "packing"
  /\ rest \in Rests /\ byte \in Byte /\ sent = byte
  /\ total = rest + byte
  /\ chksum = 0

\* Mutant: a total of 255 is folded too.
BugTooLarge(t) == t >= 255

TooLarge(t) == t > 255

\* Add the bits above the low eight to them.
Folded(t) == (t % 256) + (t \div 256)

Fold ==
  /\ phase \in {"packing", "parsing"} /\ TooLarge(total)
  /\ total' = Folded(total)
  /\ UNCHANGED <<phase, rest, byte, sent, chksum>>

\* Mutant: complemented to 254.
BugInverted(t) == 254 - t

\* total ^ 0xFF
Inverted(t) == 255 - t

Pack ==
  /\ phase = "packing" /\ ~TooLarge(total)
  /\ chksum' = Inverted(total)
  /\ phase' = "packed"
  /\ UNCHANGED <<rest, byte, sent, total>>

\* byte ^ bit
Flipped(bit) == IF (byte \div bit) % 2 = 0 THEN byte + bit ELSE byte - bit

Corrupt ==
  /\ phase = "packed"
  /\ \E bit \in Bit : byte' = Flipped(bit)
  /\ phase' = "corrupted"
  /\ UNCHANGED <<rest, sent, total, chksum>>

\* Mutant: the byte is not covered.
BugSum == rest

Sum == rest + byte

Parse ==
  /\ phase \in {"packed", "corrupted"}
  /\ total' = Sum
  /\ phase' = "parsing"
  /\ UNCHANGED <<rest, byte, sent, chksum>>

\* Mutant: the total is compared without inverting it.
BugMatches == total = chksum

Matches == Inverted(total) = chksum

Verdict ==
  /\ phase = "parsing" /\ ~TooLarge(total)
  /\ phase' = IF Matches THEN "accepted" ELSE "rejected"
  /\ UNCHANGED <<rest, byte, sent, total, chksum>>

Finished == phase \in {"accepted", "rejected"} /\ UNCHANGED vars

Next == Fold \/ Pack \/ Corrupt \/ Parse \/ Verdict \/ Finished

Spec == Init /\ [][Next]_vars

FairSpec == Spec /\ WF_vars(Next)

-----------------------------------------------------------------------------
(* The bytes are bytes, and so is the checksum: struct.pack takes it.      *)
CsTypeOK ==
  /\ phase \in {"packing", "packed", "corrupted", "parsing", "accepted", "rejected"}
  /\ rest \in 1 .. MaxRest /\ byte \in Byte /\ sent \in Byte
  /\ total \in Nat /\ chksum \in Byte

(* A packet of which one bit was flipped is never accepted                 *)
(* (packet.py:79-87, 141).                                                 *)
FlipDetected == phase = "accepted" => byte = sent

(* A packet that was not corrupted is never rejected by its checksum.      *)
IntactAccepted == phase = "rejected" => byte # sent

(* The folding loop ends, at the sender and at the receiver.               *)
FoldEnds == <>(phase \in {"accepted", "rejected"})
=============================================================================
