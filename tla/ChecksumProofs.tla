--------------------------- MODULE ChecksumProofs ---------------------------
(***************************************************************************)
(* The checksum detects the simulated corruption for every packet: folding *)
(* keeps the total modulo 255, and a flipped bit changes it.               *)
(***************************************************************************)
EXTENDS Checksum, TLAPS

\* Folding keeps the residue modulo 255, and never makes a total 0.
LEMMA FoldResidue ==
  ASSUME NEW t \in Nat, t > 255
  PROVE  /\ Folded(t) \in Nat /\ Folded(t) > 0
         /\ \E k \in Int : t - Folded(t) = 255 * k
<1>. DEFINE h == t \div 256
            l == t % 256
<1>1. h \in Nat /\ l \in 0 .. 255 /\ t = 256 * h + l /\ h > 0
  OBVIOUS
<1>2. Folded(t) = l + h
  BY DEF Folded
<1>. HIDE DEF h, l
<1>3. t - Folded(t) = 255 * h
  BY <1>1, <1>2
<1>. QED BY <1>1, <1>2, <1>3

\* A flipped byte is a byte that differs by a power of two.
LEMMA FlipChanges ==
  ASSUME NEW bit \in Bit, byte \in Byte
  PROVE  /\ Flipped(bit) \in Byte
         /\ Flipped(bit) - byte \in -128 .. 128 /\ Flipped(bit) # byte
BY DEF Flipped, Bit, Byte

\* a and b have one residue modulo 255.
SameResidue(a, b) == \E k \in Int : a - b = 255 * k

(* The strengthening: while a total is folded its residue stays that of    *)
(* the sum, and the checksum inverts a total with the residue of the sum   *)
(* as it was sent.                                                         *)
CsInv ==
  /\ CsTypeOK /\ total > 0
  /\ phase = "packing" => byte = sent
  /\ phase \in {"packing", "parsing"} => SameResidue(total, rest + byte)
  /\ phase # "packing" => /\ chksum < 255
                          /\ SameResidue(255 - chksum, rest + sent)
  /\ phase \notin {"packing", "packed"} => byte - sent \in -128 .. 128
  /\ phase = "packed" => byte = sent
  /\ phase = "accepted" => byte = sent
  /\ phase = "rejected" => byte # sent

LEMMA RestIsNat == ASSUME NEW r \in 1 .. MaxRest PROVE r \in Nat /\ r > 0
<1>1. MaxRest \in Nat
  BY DEF MaxRest
<1>. QED BY <1>1

LEMMA CsInit == Init => CsInv
<1>. SUFFICES ASSUME Init PROVE CsInv
  OBVIOUS
<1>1. rest \in 1 .. MaxRest /\ byte \in 0 .. 255 /\ total = rest + byte
  BY RestsAssumption DEF Init, Byte
<1>2. SameResidue(total, rest + byte)
  BY <1>1 DEF SameResidue
<1>3. rest \in Nat /\ rest > 0
  BY <1>1, RestIsNat
<1>4. CsTypeOK /\ total > 0
  BY <1>1, <1>3 DEF Init, CsTypeOK, Byte
<1>. QED BY <1>2, <1>4 DEF Init, CsInv

\* SameResidue is symmetric and transitive.
LEMMA SameSym ==
  ASSUME NEW a \in Int, NEW b \in Int, SameResidue(a, b)
  PROVE  SameResidue(b, a)
<1>1. PICK k \in Int : a - b = 255 * k
  BY DEF SameResidue
<1>2. b - a = 255 * (-k) /\ -k \in Int
  BY <1>1
<1>. QED BY <1>2 DEF SameResidue

LEMMA SameTrans ==
  ASSUME NEW a \in Int, NEW b \in Int, NEW c \in Int,
         SameResidue(a, b), SameResidue(b, c)
  PROVE  SameResidue(a, c)
<1>1. PICK k \in Int : a - b = 255 * k
  BY DEF SameResidue
<1>2. PICK m \in Int : b - c = 255 * m
  BY DEF SameResidue
<1>3. a - c = 255 * (k + m) /\ k + m \in Int
  BY <1>1, <1>2
<1>. QED BY <1>3 DEF SameResidue

LEMMA CsNext == CsInv /\ [Next]_vars => CsInv'
<1>. SUFFICES ASSUME CsInv, [Next]_vars PROVE CsInv'
  OBVIOUS
<1>. USE DEF CsInv, CsTypeOK
<1>a. rest \in Nat /\ rest > 0
  BY RestIsNat
<1>0. /\ byte \in 0 .. 255 /\ sent \in 0 .. 255 /\ chksum \in 0 .. 255
      /\ rest \in Nat /\ rest > 0 /\ total \in Nat /\ total > 0
  BY <1>a DEF Byte
<1>1. CASE UNCHANGED vars \/ Finished
  BY <1>1 DEF vars, Finished, SameResidue
<1>2. CASE Fold
  <2>1. total \in Nat /\ total > 255 /\ total' = Folded(total)
    BY <1>2 DEF Fold, TooLarge
  <2>2. total' \in Nat /\ total' > 0 /\ SameResidue(total, total')
    BY <2>1, FoldResidue DEF SameResidue
  <2>4. SameResidue(total', total)
    BY <1>0, <2>2, SameSym
  <2>5. SameResidue(total, rest + byte) => SameResidue(total', rest + byte)
    BY <1>0, <2>2, <2>4, SameTrans
  <2>. QED BY <1>2, <2>2, <2>5 DEF Fold, SameResidue
<1>3. CASE Pack
  <2>1. total \in 1 .. 255 /\ chksum' = 255 - total
    BY <1>0, <1>3 DEF Pack, TooLarge, Inverted
  <2>2. chksum' \in Byte /\ chksum' < 255 /\ 255 - chksum' = total
    BY <2>1 DEF Byte
  <2>3. byte = sent /\ SameResidue(total, rest + byte)
    BY <1>3 DEF Pack
  <2>. QED BY <1>3, <2>2, <2>3 DEF Pack, SameResidue
<1>4. CASE Corrupt
  <2>1. PICK bit \in Bit : byte' = Flipped(bit)
    BY <1>4 DEF Corrupt
  <2>2. byte' \in Byte /\ byte' - byte \in -128 .. 128 /\ byte = sent
    BY <1>4, <2>1, FlipChanges DEF Corrupt
  <2>. QED BY <1>4, <2>2 DEF Corrupt, SameResidue
<1>5. CASE Parse
  <2>1. total' = rest + byte /\ total' \in Nat /\ total' > 0
    BY <1>5, <1>0 DEF Parse, Sum
  <2>2. SameResidue(total', rest + byte)
    BY <1>0, <2>1 DEF SameResidue
  <2>3. byte - sent \in -128 .. 128
    BY <1>0, <1>5 DEF Parse
  <2>. QED BY <1>5, <2>1, <2>2, <2>3 DEF Parse, SameResidue
<1>6. CASE Verdict
  <2>1. /\ total \in 1 .. 255 /\ 255 - chksum \in 1 .. 255
        /\ SameResidue(total, rest + byte)
        /\ SameResidue(255 - chksum, rest + sent)
        /\ byte - sent \in -128 .. 128
    BY <1>0, <1>6 DEF Verdict, TooLarge
  <2>. DEFINE recovered == 255 - chksum
  <2>2. total = recovered <=> byte = sent
    <3>1. /\ recovered \in 1 .. 255 /\ SameResidue(recovered, rest + sent)
          /\ total \in 1 .. 255 /\ SameResidue(total, rest + byte)
          /\ byte - sent \in -128 .. 128
      BY <2>1
    <3>. HIDE DEF recovered, CsInv, CsTypeOK
    <3>2. PICK k \in Int : total - (rest + byte) = 255 * k
      BY <3>1 DEF SameResidue
    <3>3. PICK m \in Int : recovered - (rest + sent) = 255 * m
      BY <3>1 DEF SameResidue
    <3>4. /\ (total - recovered) - (byte - sent) = 255 * (k - m)
          /\ (total - recovered) - (byte - sent) \in -382 .. 382
      BY <1>0, <3>1, <3>2, <3>3
    <3>5. k - m \in {-1, 0, 1}
      BY <3>4
    <3>. QED BY <1>0, <3>1, <3>4, <3>5
  <2>3. Matches <=> byte = sent
    BY <1>0, <2>2 DEF Matches, Inverted
  <2>. QED BY <1>6, <2>3 DEF Verdict, SameResidue
<1>. QED BY <1>1, <1>2, <1>3, <1>4, <1>5, <1>6 DEF Next

(* Every checksum is a byte, as struct.pack demands, and so is a byte that  *)
(* was flipped (packet.py:21-45).                                          *)
THEOREM ChecksumFits == Spec => []CsTypeOK
<1>1. CsInv => CsTypeOK
  BY DEF CsInv
<1>. QED BY <1>1, CsInit, CsNext, PTL DEF Spec

(* No packet with a flipped bit is ever accepted, whatever its other bytes. *)
THEOREM CorruptionDetected == Spec => []FlipDetected
<1>1. CsInv => FlipDetected
  BY DEF CsInv, FlipDetected
<1>. QED BY <1>1, CsInit, CsNext, PTL DEF Spec

(* No intact packet is ever rejected by its checksum.                      *)
THEOREM IntactPasses == Spec => []IntactAccepted
<1>1. CsInv => IntactAccepted
  BY DEF CsInv, IntactAccepted
<1>. QED BY <1>1, CsInit, CsNext, PTL DEF Spec
=============================================================================
