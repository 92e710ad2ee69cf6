---------------------------- MODULE OutputFiles ----------------------------
(***************************************************************************)
(* The bytes of a receiver's output files.  open(name, "wb") is a buffered *)
(* file object with an offset of its own: what is written through it stays *)
(* in its buffer until the buffer is full or the object is closed, and     *)
(* reaches the file at the offset at which it was written, whatever other  *)
(* handles have done to that file meanwhile.                               *)
(***************************************************************************)
EXTENDS Naturals, Sequences

\* The contents c with the chunks s written over them at offset k; a hole is
\* left where nothing was ever written.
Overwrite(c, k, s, hole) ==
  [i \in 1 .. (IF k + Len(s) > Len(c) THEN k + Len(s) ELSE Len(c)) |->
     IF k < i /\ i <= k + Len(s) THEN s[i - k]
     ELSE IF i <= Len(c) THEN c[i] ELSE hole]

\* The contents c once a handle that has written the chunks out, the first
\* flushed of which it flushed before, is flushed.
Flushed(c, out, flushed, hole) ==
  Overwrite(c, flushed, SubSeq(out, flushed + 1, Len(out)), hole)

\* The files d once a handle on name is flushed.
FlushTo(d, name, out, flushed, hole) ==
  [d EXCEPT ![name] = Flushed(@, out, flushed, hole)]
=============================================================================
