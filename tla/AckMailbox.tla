---------------------------- MODULE AckMailbox ----------------------------
(***************************************************************************)
(* What the ACK demultiplexer of sender_gbn.py promises its threads: the   *)
(* ACKs of a file_id reach its thread in the order in which they came, each *)
(* once, and all of them, but for those that a demultiplexer of an earlier *)
(* batch takes away: one at most, for each that outlived its batch.        *)
(*                                                                         *)
(* AckDemux implements it with threads and locks.  GbnSession implements   *)
(* it with the atomic steps RouteAck and Drain, and without strays.        *)
(***************************************************************************)
EXTENDS Naturals, Sequences

CONSTANTS
  FileIds,
  Lossy,        \* whether the network may lose an ACK that is on its way
  NewSocket     \* whether a batch may begin on a new socket

VARIABLES
  open,         \* the file_ids of the batch whose threads have not returned
  sock,         \* ACKs on their way to the socket or waiting there
  box,          \* box[f]: ACKs put aside for the thread of f
  hand,         \* hand[f]: ACKs that thread has taken and not yet handled
  strays        \* ACKs that demultiplexers of earlier batches may still take

vars == <<open, sock, box, hand, strays>>

Empty == [f \in FileIds |-> << >>]

Init ==
  /\ open \in SUBSET FileIds /\ open # {}
  /\ sock = << >> /\ box = Empty /\ hand = Empty /\ strays = 0

Arrive ==
  /\ Len(sock') = Len(sock) + 1 /\ SubSeq(sock', 1, Len(sock)) = sock
  /\ UNCHANGED <<open, box, hand, strays>>

Lose ==
  /\ Lossy /\ sock # << >> /\ sock' = Tail(sock)
  /\ UNCHANGED <<open, box, hand, strays>>

\* The next ACK goes to the box of its file_id, or, if there is no thread for
\* it, nowhere.
Route ==
  /\ sock # << >> /\ sock' = Tail(sock)
  /\ LET f == Head(sock).file_id
     IN  box' = IF f \in open THEN [box EXCEPT ![f] = Append(@, Head(sock))]
                ELSE box
  /\ UNCHANGED <<open, hand, strays>>

\* A thread that has handled all it took takes all there is.
Collect(f) ==
  /\ hand[f] = << >>
  /\ hand' = [hand EXCEPT ![f] = box[f]]
  /\ box' = [box EXCEPT ![f] = << >>]
  /\ UNCHANGED <<open, sock, strays>>

\* It handles some, in order.
Use(f) ==
  /\ \E k \in 1 .. Len(hand[f]) :
       hand' = [hand EXCEPT ![f] = SubSeq(@, k + 1, Len(@))]
  /\ UNCHANGED <<open, sock, box, strays>>

\* Threads return, and what was put aside for them is forgotten.
Leave ==
  LET gone == open \ open'
  IN  /\ gone # {} /\ open' \subseteq open
      /\ box' = [f \in FileIds |-> IF f \in gone THEN << >> ELSE box[f]]
      /\ hand' = [f \in FileIds |-> IF f \in gone THEN << >> ELSE hand[f]]
      /\ UNCHANGED <<sock, strays>>

\* A demultiplexer that outlived its batch takes an ACK: the next, or the one
\* after it if the next is already in the hands of the batch's own.
Stray ==
  /\ strays > 0 /\ strays' = strays - 1
  /\ \E i \in {1, 2} \cap DOMAIN sock :
       sock' = SubSeq(sock, 1, i - 1) \o SubSeq(sock, i + 1, Len(sock))
  /\ UNCHANGED <<open, box, hand>>

\* It ends without taking one.
Pass ==
  /\ strays > 0 /\ strays' = strays - 1
  /\ UNCHANGED <<open, sock, box, hand>>

\* The next batch, once all threads have returned.  What is in the socket stays
\* there, unless a new sender has a new one.  The demultiplexer of this batch has
\* ended, keeps the ACK in its hands, or may take one more.
NewBatch ==
  /\ open = {} /\ open' \in SUBSET FileIds
  /\ \/ sock' = sock /\ strays' \in {strays, strays + 1}
     \/ sock # << >> /\ sock' = Tail(sock) /\ UNCHANGED strays
     \/ NewSocket /\ sock' = << >> /\ UNCHANGED strays
  /\ UNCHANGED <<box, hand>>

Next ==
  \/ Arrive \/ Lose \/ Route \/ Leave \/ Stray \/ Pass \/ NewBatch
  \/ \E f \in FileIds : Collect(f) \/ Use(f)

Spec == Init /\ [][Next]_vars
=============================================================================
