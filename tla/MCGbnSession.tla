----------------------------- MODULE MCGbnSession -----------------------------
(***************************************************************************)
(* Constants for model-checking GbnSession on small instances.  Paths and     *)
(* names are model values of the configurations.                           *)
(***************************************************************************)
EXTENDS SessionInv

CONSTANTS p0, p1, p2, p3, p4, n0, n1, n2, n3, n4

\* p<k> has k chunks; p3 and p4 wrap the sequence numbers when MAX_SEQ is 4.
AllChunks == [p \in Files |->
  CASE p = p0 -> 0 [] p = p1 -> 1 [] p = p2 -> 2 [] p = p3 -> 3 [] p = p4 -> 4]

OwnNames == [p \in Files |->
  CASE p = p0 -> n0 [] p = p1 -> n1 [] p = p2 -> n2 [] p = p3 -> n3 [] p = p4 -> n4]

\* Two paths with one base name, as dir1/x.txt and dir2/x.txt.
OneName == [p \in Files |-> n0]
=============================================================================
