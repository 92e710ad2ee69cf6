-------------------------- MODULE OutputFilesProofs --------------------------
(***************************************************************************)
(* What writing and flushing do to the contents of a file, chunk by chunk. *)
(***************************************************************************)
EXTENDS OutputFiles, SequenceTheorems, TLAPS

\* A file after the chunks s were written at offset k.
LEMMA OverwriteElements ==
  ASSUME NEW T, NEW c \in Seq(T), NEW s \in Seq(T), NEW k \in Nat, NEW hole \in T
  PROVE  /\ Overwrite(c, k, s, hole) \in Seq(T)
         /\ Len(Overwrite(c, k, s, hole))
              = IF k + Len(s) > Len(c) THEN k + Len(s) ELSE Len(c)
         /\ \A i \in 1 .. Len(Overwrite(c, k, s, hole)) :
              Overwrite(c, k, s, hole)[i]
                = IF k < i /\ i <= k + Len(s) THEN s[i - k]
                  ELSE IF i <= Len(c) THEN c[i] ELSE hole
<1>. DEFINE n == IF k + Len(s) > Len(c) THEN k + Len(s) ELSE Len(c)
            g(i) == IF k < i /\ i <= k + Len(s) THEN s[i - k]
                    ELSE IF i <= Len(c) THEN c[i] ELSE hole
            r == Overwrite(c, k, s, hole)
<1>1. n \in Nat /\ r = [i \in 1 .. n |-> g(i)]
  BY DEF Overwrite
<1>2. ASSUME NEW i \in 1 .. n PROVE g(i) \in T
  OBVIOUS
<1>3. r \in Seq(T) /\ Len(r) = n
  <2>. HIDE DEF n, g, r
  <2>. QED BY <1>1, <1>2
<1>4. \A i \in 1 .. n : r[i] = g(i)
  <2>. HIDE DEF n, g, r
  <2>. QED BY <1>1
<1>. QED BY <1>3, <1>4

\* r has the chunks of o from offset k on.
SameFrom(r, o, k) == \A i \in 1 .. Len(o) : k < i => r[i] = o[i]

\* r has the chunks of c but between the offsets k and n.
SameBut(r, c, k, n) == \A i \in 1 .. Len(c) : i <= k \/ n < i => r[i] = c[i]

\* A file after a flush of the chunks o, the first k of which were flushed before.
LEMMA FlushedElements ==
  ASSUME NEW T, NEW c \in Seq(T), NEW o \in Seq(T), NEW k \in Nat, k <= Len(o),
         NEW hole \in T
  PROVE  /\ Flushed(c, o, k, hole) \in Seq(T)
         /\ Len(c) <= Len(o) => Len(Flushed(c, o, k, hole)) = Len(o)
         /\ Len(o) <= Len(c) => Len(Flushed(c, o, k, hole)) = Len(c)
         /\ SameFrom(Flushed(c, o, k, hole), o, k)
         /\ SameBut(Flushed(c, o, k, hole), c, k, Len(o))
<1>. DEFINE s == SubSeq(o, k + 1, Len(o))
<1>1. /\ s \in Seq(T) /\ Len(s) = Len(o) - k /\ Len(o) \in Nat /\ Len(c) \in Nat
      /\ \A i \in 1 .. Len(s) : s[i] = o[k + i]
  BY SubSeqProperties
<1>. HIDE DEF s
<1>2. s \in Seq(T)
  BY <1>1
<1>3. /\ Overwrite(c, k, s, hole) \in Seq(T)
      /\ Len(Overwrite(c, k, s, hole))
           = IF k + Len(s) > Len(c) THEN k + Len(s) ELSE Len(c)
      /\ \A i \in 1 .. Len(Overwrite(c, k, s, hole)) :
           Overwrite(c, k, s, hole)[i]
             = IF k < i /\ i <= k + Len(s) THEN s[i - k]
               ELSE IF i <= Len(c) THEN c[i] ELSE hole
  BY <1>2, OverwriteElements
<1>. DEFINE r == Overwrite(c, k, s, hole)
<1>. HIDE DEF r
<1>4. k + Len(s) = Len(o)
  BY <1>1
<1>5. ASSUME NEW i \in 1 .. Len(r), k < i, i <= Len(o)
      PROVE  r[i] = o[i]
  <2>1. i - k \in 1 .. Len(s) /\ k + (i - k) = i
    BY <1>1, <1>5
  <2>2. r[i] = s[i - k]
    BY <1>3, <1>4, <1>5 DEF r
  <2>. QED BY <1>1, <2>1, <2>2
<1>6. ASSUME NEW i \in 1 .. Len(r), ~(k < i /\ i <= Len(o))
      PROVE  r[i] = IF i <= Len(c) THEN c[i] ELSE hole
  BY <1>3, <1>4, <1>6 DEF r
<1>7. /\ r \in Seq(T)
      /\ Len(r) = IF Len(o) > Len(c) THEN Len(o) ELSE Len(c)
  BY <1>3, <1>4 DEF r
<1>8. Flushed(c, o, k, hole) = r
  BY DEF Flushed, r, s
<1>9. SameFrom(r, o, k) /\ SameBut(r, c, k, Len(o))
  BY <1>1, <1>5, <1>6, <1>7 DEF SameFrom, SameBut
<1>. QED BY <1>1, <1>7, <1>8, <1>9
=============================================================================
