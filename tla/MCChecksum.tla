----------------------------- MODULE MCChecksum -----------------------------
(***************************************************************************)
(* Checksum on sums around the places where folding takes one iteration    *)
(* more, up to the largest sum of a packet.                                *)
(***************************************************************************)
EXTENDS Checksum

SomeRests == (1 .. 3) \cup (253 .. 258) \cup (508 .. 513) \cup {65025, 65279, 65280, 65281, 65535}
             \cup {MaxRest - 1, MaxRest}
=============================================================================
