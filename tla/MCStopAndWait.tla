--------------------------- MODULE MCStopAndWait ---------------------------
(***************************************************************************)
(* Constants for model-checking StopAndWait on small instances.            *)
(***************************************************************************)
EXTENDS SwInv

CONSTANTS p0, p1, p2, p3, n0, n1, n2, n3

\* p<k> has k chunks.
AllChunks == [p \in Files |->
  CASE p = p0 -> 0 [] p = p1 -> 1 [] p = p2 -> 2 [] p = p3 -> 3]

OwnNames == [p \in Files |->
  CASE p = p0 -> n0 [] p = p1 -> n1 [] p = p2 -> n2 [] p = p3 -> n3]

\* Two paths with one base name, as dir1/x.txt and dir2/x.txt.
OneName == [p \in Files |-> n0]
=============================================================================
