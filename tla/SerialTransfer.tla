--------------------------- MODULE SerialTransfer ---------------------------
(***************************************************************************)
(* What a Stop-and-Wait session promises, with nothing of how: one file    *)
(* after the other is transferred, part by part, and the receiver takes    *)
(* each part of a transfer once, after the sender has come to it and       *)
(* before it goes on.  There is no sequence number, no queue, no loss and  *)
(* no timeout, but any transfer may be given up.  The promise holds while  *)
(* the session is clean: until a transfer is given up with answers late.   *)
(***************************************************************************)
EXTENDS Integers

CONSTANTS
  Paths,
  LastPart,   \* LastPart[p]: the number of the END of path p, START being 0
  CopyOf,     \* CopyOf[p]: what the receiver makes of the file of path p
  NoPath

VARIABLES
  clean,
  busy,       \* whether a transfer is under way
  path,       \* of that transfer
  part,       \* the part the sender has come to
  got,        \* whether the receiver has taken it
  stored,     \* what the receiver has closed
  reported    \* the paths reported complete

transfer == <<busy, path, part, got>>
stVars == <<clean, transfer, stored, reported>>

Idle == busy = FALSE /\ path = NoPath /\ part = 0 /\ got = FALSE

Init == clean = TRUE /\ Idle /\ stored = {} /\ reported = {}

Begin(p) ==
  /\ ~busy
  /\ busy' = TRUE /\ path' = p /\ part' = 0 /\ got' = FALSE
  /\ UNCHANGED <<stored, reported>>

\* With the END the copy is complete and closed.
TakePart ==
  /\ busy /\ ~got
  /\ got' = TRUE
  /\ stored' = IF part = LastPart[path] THEN stored \cup {CopyOf[path]} ELSE stored
  /\ UNCHANGED <<busy, path, part, reported>>

\* The sender goes on.
NextPart ==
  /\ busy /\ got /\ part < LastPart[path]
  /\ part' = part + 1 /\ got' = FALSE
  /\ UNCHANGED <<busy, path, stored, reported>>

Report ==
  /\ busy /\ got /\ part = LastPart[path]
  /\ reported' = reported \cup {path}
  /\ Idle' /\ UNCHANGED stored

GiveUp == busy /\ Idle' /\ UNCHANGED <<stored, reported>>

Next ==
  \/ /\ UNCHANGED clean
     /\ (\E p \in Paths : Begin(p)) \/ TakePart \/ NextPart \/ Report \/ GiveUp
  \/ clean' = FALSE

Spec == Init /\ [][Next]_stVars
=============================================================================
