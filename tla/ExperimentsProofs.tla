------------------------- MODULE ExperimentsProofs -------------------------
(***************************************************************************)
(* Proofs about Experiments and Charts, for any matrix: each trial is      *)
(* measured against the receiver that was started for it, none is left     *)
(* behind, and the averages are over the trials they are meant for.        *)
(***************************************************************************)
EXTENDS Charts, FiniteSetTheorems, FunctionTheorems, TLAPS

-----------------------------------------------------------------------------
(* The trials of the matrices.                                             *)

LEMMA Multiples ==
  ASSUME NEW b \in Nat, NEW q \in Nat, NEW r \in Nat, q < r
  PROVE  b * q + b <= b * r
<1>. DEFINE d == r - q - 1
<1>1. d \in Nat /\ r = q + 1 + d
  OBVIOUS
<1>. HIDE DEF d
<1>2. b * r = b * q + b + b * d
  BY <1>1
<1>3. b * d \in Nat
  BY <1>1
<1>. QED BY <1>2, <1>3

\* Of a times b passes, the n-th has one number in each of the two loops.
LEMMA Digits ==
  ASSUME NEW a \in Nat, NEW b \in Nat, NEW n \in 1 .. a * b
  PROVE  /\ (n - 1) \div b \in 0 .. a - 1 /\ (n - 1) % b \in 0 .. b - 1
         /\ n = b * ((n - 1) \div b) + ((n - 1) % b) + 1
<1>. DEFINE q == (n - 1) \div b
            r == (n - 1) % b
<1>1. b # 0 /\ a * b \in Nat /\ n - 1 \in Nat /\ n <= a * b
  BY a * 0 = 0
<1>2. q \in Int /\ r \in 0 .. b - 1 /\ n - 1 = b * q + r
  BY <1>1
<1>. HIDE DEF q, r
<1>3. q >= 0
  <2>1. SUFFICES ASSUME q < 0 PROVE FALSE
    BY <1>2
  <2>2. -q - 1 \in Nat /\ q = -1 - (-q - 1)
    BY <1>2, <2>1
  <2>3. PICK d \in Nat : q = -1 - d
    BY <2>2
  <2>4. b * q = -b - b * d /\ b * d \in Nat
    BY <2>3
  <2>. QED BY <1>1, <1>2, <2>4
<1>4. q < a
  <2>1. SUFFICES ASSUME q >= a PROVE FALSE
    BY <1>2
  <2>2. b * q >= b * a
    BY <1>3, <1>2, <2>1, Multiples
  <2>3. b * a = a * b
    OBVIOUS
  <2>. QED BY <1>1, <1>2, <2>2, <2>3
<1>. QED BY <1>2, <1>3, <1>4 DEF q, r

\* And every pair of numbers has a pass.
LEMMA FromDigits ==
  ASSUME NEW a \in Nat, NEW b \in Nat, NEW i \in 1 .. a, NEW j \in 1 .. b
  PROVE  \E n \in 1 .. a * b :
           ((n - 1) \div b) + 1 = i /\ ((n - 1) % b) + 1 = j
<1>. DEFINE n == b * (i - 1) + j
            q == (n - 1) \div b
            r == (n - 1) % b
<1>0. b * (i - 1) \in Nat /\ b * (i - 1) + b <= b * a /\ b * a = a * b
  BY Multiples
<1>1. n \in 1 .. a * b /\ a * b \in Nat
  BY <1>0
<1>2. q \in 0 .. a - 1 /\ r \in 0 .. b - 1 /\ n = b * q + r + 1
  BY <1>1, Digits
<1>3. b * q + r = b * (i - 1) + (j - 1)
  BY <1>0, <1>2
<1>. HIDE DEF n, q, r
<1>4. b * q \in Nat /\ i - 1 \in Nat /\ q \in Nat /\ r \in Nat /\ r < b
  BY <1>2
<1>5. q = i - 1
  <2>1. CASE q < i - 1
    <3>1. b * q + b <= b * (i - 1)
      BY <1>4, <2>1, Multiples
    <3>. QED BY <1>0, <1>2, <1>3, <1>4, <3>1
  <2>2. CASE i - 1 < q
    <3>1. b * (i - 1) + b <= b * q
      BY <1>4, <2>2, Multiples
    <3>. QED BY <1>0, <1>2, <1>3, <1>4, <3>1
  <2>. QED BY <1>4, <2>1, <2>2
<1>6. r = j - 1
  BY <1>0, <1>2, <1>3, <1>5
<1>. QED BY <1>1, <1>5, <1>6, <1>2 DEF q, r

LEMMA ListElements ==
  ASSUME NEW l, IsList(l)
  PROVE  /\ Len(l) \in Nat /\ DOMAIN l = 1 .. Len(l)
         /\ \A i \in 1 .. Len(l) : l[i] \in Range(l)
         /\ \A x \in Range(l) : \E i \in 1 .. Len(l) : l[i] = x
         /\ \A i, j \in 1 .. Len(l) : l[i] = l[j] => i = j
BY DEF IsList, Range, IsInjective

LEMMA IsListIf ==
  ASSUME NEW n \in Nat, NEW l, DOMAIN l = 1 .. n, l = [i \in 1 .. n |-> l[i]],
         \A i, j \in 1 .. n : l[i] = l[j] => i = j
  PROVE  IsList(l) /\ Len(l) = n
BY DEF IsList, Range, IsInjective

\* Two nested loops run through all pairs, each once.
LEMMA NestedList ==
  ASSUME NEW a, NEW b, IsList(a), IsList(b)
  PROVE  IsList(Nested(a, b)) /\ Range(Nested(a, b)) = Range(a) \X Range(b)
<1>. DEFINE m == Len(a) * Len(b)
            q(n) == (n - 1) \div Len(b)
            r(n) == (n - 1) % Len(b)
            l == Nested(a, b)
<1>1. m \in Nat /\ l = [n \in 1 .. m |-> <<a[q(n) + 1], b[r(n) + 1]>>]
  BY ListElements DEF Nested
<1>2. ASSUME NEW n \in 1 .. m
      PROVE  /\ q(n) + 1 \in 1 .. Len(a) /\ r(n) + 1 \in 1 .. Len(b)
             /\ n = Len(b) * q(n) + r(n) + 1 /\ q(n) \in Nat /\ r(n) \in Nat
  <2>1. /\ q(n) \in 0 .. Len(a) - 1 /\ r(n) \in 0 .. Len(b) - 1
        /\ n = Len(b) * q(n) + r(n) + 1
    BY ListElements, Digits
  <2>. QED BY <2>1, ListElements
<1>3. \A i \in 1 .. Len(a), j \in 1 .. Len(b) :
        \E n \in 1 .. m : q(n) + 1 = i /\ r(n) + 1 = j
  BY ListElements, FromDigits
<1>. HIDE DEF m, q, r, l
<1>4. ASSUME NEW i \in 1 .. m, NEW j \in 1 .. m, l[i] = l[j] PROVE i = j
  <2>1. a[q(i) + 1] = a[q(j) + 1] /\ b[r(i) + 1] = b[r(j) + 1]
    BY <1>1, <1>4
  <2>2. /\ \A x, y \in 1 .. Len(a) : a[x] = a[y] => x = y
        /\ \A x, y \in 1 .. Len(b) : b[x] = b[y] => x = y
    BY ListElements
  <2>3. q(i) + 1 = q(j) + 1 /\ r(i) + 1 = r(j) + 1
    BY <1>2, <2>1, <2>2
  <2>. QED BY <1>2, <2>3
<1>5. IsList(l)
  BY <1>1, <1>4, IsListIf
<1>6. Range(l) \subseteq Range(a) \X Range(b)
  <2>1. ASSUME NEW n \in 1 .. m PROVE l[n] \in Range(a) \X Range(b)
    <3>1. a[q(n) + 1] \in Range(a) /\ b[r(n) + 1] \in Range(b)
      BY <1>2, ListElements
    <3>. QED BY <1>1, <3>1
  <2>. QED BY <1>1, <2>1 DEF Range
<1>7. ASSUME NEW x \in Range(a), NEW y \in Range(b) PROVE <<x, y>> \in Range(l)
  <2>1. PICK i \in 1 .. Len(a), j \in 1 .. Len(b) : x = a[i] /\ y = b[j]
    BY ListElements
  <2>2. PICK n \in 1 .. m : q(n) + 1 = i /\ r(n) + 1 = j
    BY <1>3
  <2>. QED BY <1>1, <2>1, <2>2 DEF Range
<1>8. Range(l) = Range(a) \X Range(b)
  BY <1>6, <1>7
<1>. QED BY <1>5, <1>8 DEF l

LEMMA NumbersList == IsList(Numbers) /\ Range(Numbers) = 1 .. TRIALS
<1>1. TRIALS \in Nat /\ Numbers = [t \in 1 .. TRIALS |-> t]
  BY TrialsAssumption DEF Numbers
<1>2. IsList(Numbers)
  BY <1>1, IsListIf
<1>. QED BY <1>1, <1>2 DEF Range

\* The trials of a matrix over conditions.
TrialsOf(conditions) ==
  {Trial(p, s, c[1], c[2], t) :
     p \in Range(PROTOCOLS), s \in Range(FILE_SIZES), c \in conditions, t \in 1 .. TRIALS}

\* The four loops run through all its trials, each once.
LEMMA LoopsList ==
  ASSUME NEW C, IsList(C), NEW X, NEW Y, Range(C) \subseteq X \X Y
  PROVE  IsList(Loops(C)) /\ Range(Loops(C)) = TrialsOf(Range(C))
<1>. DEFINE order == Nested(PROTOCOLS, Nested(FILE_SIZES, Nested(C, Numbers)))
            Run(r) == Trial(r[1], r[2][1], r[2][2][1][1], r[2][2][1][2], r[2][2][2])
            l == Loops(C)
            R == Range(PROTOCOLS) \X (Range(FILE_SIZES) \X (Range(C) \X (1 .. TRIALS)))
<1>1. IsList(order) /\ Range(order) = R
  <2>. DEFINE inner == Nested(C, Numbers)
              middle == Nested(FILE_SIZES, inner)
  <2>1. IsList(inner) /\ Range(inner) = Range(C) \X (1 .. TRIALS)
    BY NestedList, NumbersList
  <2>. HIDE DEF inner
  <2>2. IsList(middle) /\ Range(middle) = Range(FILE_SIZES) \X Range(inner)
    BY <2>1, NestedList, ListsAssumption
  <2>. HIDE DEF middle
  <2>3. /\ IsList(Nested(PROTOCOLS, middle))
        /\ Range(Nested(PROTOCOLS, middle)) = Range(PROTOCOLS) \X Range(middle)
    BY <2>2, NestedList, ListsAssumption
  <2>. QED BY <2>1, <2>2, <2>3 DEF inner, middle
<1>2. l = [n \in DOMAIN order |-> Run(order[n])]
  BY DEF Loops
<1>. HIDE DEF order, l
<1>3. \A x, y \in R : Run(x) = Run(y) => x = y
  BY DEF Trial
<1>4. IsList(l)
  <2>1. /\ Len(order) \in Nat /\ DOMAIN order = 1 .. Len(order)
        /\ \A i \in 1 .. Len(order) : order[i] \in R
        /\ \A i, j \in 1 .. Len(order) : order[i] = order[j] => i = j
    BY <1>1, ListElements
  <2>. HIDE DEF R, Run
  <2>2. \A i, j \in 1 .. Len(order) : l[i] = l[j] => i = j
    BY <1>2, <1>3, <2>1
  <2>. QED BY <1>2, <2>1, <2>2, IsListIf
<1>5. Range(l) = {Run(x) : x \in R}
  <2>1. Range(l) = {Run(order[n]) : n \in DOMAIN order}
    BY <1>2 DEF Range
  <2>2. R = {order[n] : n \in DOMAIN order}
    BY <1>1 DEF Range
  <2>. HIDE DEF R, Run
  <2>. QED BY <2>1, <2>2
<1>6. {Run(x) : x \in R} = TrialsOf(Range(C))
  <2>1. ASSUME NEW x \in R PROVE Run(x) \in TrialsOf(Range(C))
    BY DEF TrialsOf
  <2>2. ASSUME NEW p \in Range(PROTOCOLS), NEW s \in Range(FILE_SIZES),
               NEW c \in Range(C), NEW t \in 1 .. TRIALS
        PROVE  \E x \in R : Run(x) = Trial(p, s, c[1], c[2], t)
    <3>. DEFINE x == <<p, <<s, <<c, t>>>>>>
    <3>1. x \in R /\ Run(x) = Trial(p, s, c[1], c[2], t)
      OBVIOUS
    <3>. QED BY <3>1
  <2>. HIDE DEF R, Run
  <2>. QED BY <2>1, <2>2 DEF TrialsOf
<1>. QED BY <1>4, <1>5, <1>6 DEF l

LEMMA ConditionsList ==
  /\ IsList(WithLoss) /\ Range(WithLoss) = Range(LOSS_RATES) \X {0}
  /\ IsList(WithCorruption)
  /\ Range(WithCorruption) = {0} \X Range(CORRUPTION_RATES_BONUS)
<1>1. IsList(WithLoss) /\ Range(WithLoss) = Range(LOSS_RATES) \X {0}
  <2>. DEFINE n == Len(LOSS_RATES)
  <2>1. n \in Nat /\ WithLoss = [k \in 1 .. n |-> <<LOSS_RATES[k], 0>>]
    BY ListElements, ListsAssumption DEF WithLoss
  <2>2. \A i, j \in 1 .. n : LOSS_RATES[i] = LOSS_RATES[j] => i = j
    BY ListElements, ListsAssumption
  <2>3. Range(LOSS_RATES) = {LOSS_RATES[k] : k \in 1 .. n}
    BY ListElements, ListsAssumption DEF Range
  <2>. HIDE DEF n
  <2>4. IsList(WithLoss)
    BY <2>1, <2>2, IsListIf
  <2>5. Range(WithLoss) = {<<LOSS_RATES[k], 0>> : k \in 1 .. n}
    BY <2>1 DEF Range
  <2>. QED BY <2>3, <2>4, <2>5
<1>2. /\ IsList(WithCorruption)
      /\ Range(WithCorruption) = {0} \X Range(CORRUPTION_RATES_BONUS)
  <2>. DEFINE n == Len(CORRUPTION_RATES_BONUS)
  <2>1. /\ n \in Nat
        /\ WithCorruption = [k \in 1 .. n |-> <<0, CORRUPTION_RATES_BONUS[k]>>]
    BY ListElements, ListsAssumption DEF WithCorruption
  <2>2. \A i, j \in 1 .. n :
          CORRUPTION_RATES_BONUS[i] = CORRUPTION_RATES_BONUS[j] => i = j
    BY ListElements, ListsAssumption
  <2>3. Range(CORRUPTION_RATES_BONUS) = {CORRUPTION_RATES_BONUS[k] : k \in 1 .. n}
    BY ListElements, ListsAssumption DEF Range
  <2>. HIDE DEF n
  <2>4. IsList(WithCorruption)
    BY <2>1, <2>2, IsListIf
  <2>5. Range(WithCorruption) = {<<0, CORRUPTION_RATES_BONUS[k]>> : k \in 1 .. n}
    BY <2>1 DEF Range
  <2>. QED BY <2>3, <2>4, <2>5
<1>. QED BY <1>1, <1>2

\* The two matrices, the second of which may be skipped.
LossTrials == Loops(WithLoss)
BonusTrials == IF skip_bonus THEN << >> ELSE Loops(WithCorruption)

LEMMA MatrixElements ==
  /\ Len(LossTrials) \in Nat /\ Len(BonusTrials) \in Nat
  /\ Len(Matrix) = Len(LossTrials) + Len(BonusTrials)
  /\ \A i \in 1 .. Len(LossTrials) : Matrix[i] = LossTrials[i]
  /\ \A i \in Len(LossTrials) + 1 .. Len(LossTrials) + Len(BonusTrials) :
       Matrix[i] = BonusTrials[i - Len(LossTrials)]
<1>1. IsList(Loops(WithLoss)) /\ IsList(Loops(WithCorruption))
  BY LoopsList, ConditionsList
<1>. DEFINE S == Range(LossTrials) \cup Range(BonusTrials)
<1>2. LossTrials \in Seq(S) /\ BonusTrials \in Seq(S)
  BY <1>1 DEF LossTrials, BonusTrials, IsList
<1>3. Matrix = LossTrials \o BonusTrials
  BY DEF Matrix, LossTrials, BonusTrials
<1>. HIDE DEF S
<1>. QED BY <1>2, <1>3

LEMMA MatrixLength == Len(Matrix) \in Nat
BY MatrixElements

LEMMA MatrixTrials ==
  ASSUME NEW i \in 1 .. Len(Matrix)
  PROVE  Matrix[i].size \in Range(FILE_SIZES) /\ Matrix[i].protocol \in Range(PROTOCOLS)
<1>1. ASSUME NEW C, IsList(C), NEW X, NEW Y, Range(C) \subseteq X \X Y,
             NEW j \in 1 .. Len(Loops(C))
      PROVE  /\ Loops(C)[j].size \in Range(FILE_SIZES)
             /\ Loops(C)[j].protocol \in Range(PROTOCOLS)
  <2>1. Loops(C)[j] \in TrialsOf(Range(C))
    BY <1>1, LoopsList, ListElements
  <2>. QED BY <2>1 DEF TrialsOf, Trial
<1>2. CASE i \in 1 .. Len(LossTrials)
  BY <1>1, <1>2, ConditionsList, MatrixElements DEF LossTrials
<1>3. CASE i \notin 1 .. Len(LossTrials)
  <2>. DEFINE j == i - Len(LossTrials)
  <2>1. j \in 1 .. Len(BonusTrials) /\ Matrix[i] = BonusTrials[j]
    BY <1>3, MatrixElements
  <2>2. ~skip_bonus /\ BonusTrials = Loops(WithCorruption)
    BY <2>1 DEF BonusTrials
  <2>. HIDE DEF j
  <2>. QED BY <1>1, <2>1, <2>2, ConditionsList
<1>. QED BY <1>2, <1>3

\* The trials of configuration k in a matrix that begins after the first o
\* trials of all.
TrialsOfKey(C, o, k) ==
  {i \in o + 1 .. o + Len(Loops(C)) : Key(Loops(C)[i - o]) = k}

LEMMA CountTrials ==
  ASSUME NEW C, IsList(C), NEW X, NEW Y, Range(C) \subseteq X \X Y, NEW o \in Nat,
         NEW p \in Range(PROTOCOLS), NEW s \in Range(FILE_SIZES), NEW l \in X, NEW c \in Y
  PROVE  /\ IsFiniteSet(TrialsOfKey(C, o, <<p, s, l, c>>))
         /\ Cardinality(TrialsOfKey(C, o, <<p, s, l, c>>)) =
              IF <<l, c>> \in Range(C) THEN TRIALS ELSE 0
<1>. DEFINE L == Loops(C)
            S == TrialsOfKey(C, o, <<p, s, l, c>>)
            x(t) == Trial(p, s, l, c, t)
<1>1. /\ Len(L) \in Nat
      /\ \A i \in 1 .. Len(L) : L[i] \in TrialsOf(Range(C))
      /\ \A y \in TrialsOf(Range(C)) : \E i \in 1 .. Len(L) : L[i] = y
      /\ \A i, j \in 1 .. Len(L) : L[i] = L[j] => i = j
  <2>1. IsList(L) /\ Range(L) = TrialsOf(Range(C))
    BY LoopsList
  <2>. HIDE DEF L
  <2>. QED BY <2>1, ListElements
<1>2. S = {i \in o + 1 .. o + Len(L) : Key(L[i - o]) = <<p, s, l, c>>}
  BY DEF TrialsOfKey
<1>. HIDE DEF L, S
<1>3. \A i \in S : i \in Int /\ i - o \in 1 .. Len(L)
  BY <1>1, <1>2
<1>4. ASSUME NEW i \in S PROVE <<l, c>> \in Range(C) /\ \E t \in 1 .. TRIALS : L[i - o] = x(t)
  <2>1. i - o \in 1 .. Len(L) /\ Key(L[i - o]) = <<p, s, l, c>>
    BY <1>1, <1>2
  <2>2. PICK q \in Range(PROTOCOLS), r \in Range(FILE_SIZES), d \in Range(C),
             t \in 1 .. TRIALS : L[i - o] = Trial(q, r, d[1], d[2], t)
    BY <1>1, <2>1 DEF TrialsOf
  <2>3. Key(L[i - o]) = <<q, r, d[1], d[2]>>
    BY <2>2 DEF Key, Trial
  <2>4. q = p /\ r = s /\ d[1] = l /\ d[2] = c
    BY <2>1, <2>3
  <2>5. d = <<l, c>>
    BY <2>4
  <2>. QED BY <2>2, <2>4, <2>5
<1>5. CASE <<l, c>> \notin Range(C)
  BY <1>4, <1>5, FS_EmptySet DEF S
<1>6. CASE <<l, c>> \in Range(C)
  <2>. DEFINE f == [t \in 1 .. TRIALS |-> CHOOSE i \in S : L[i - o] = x(t)]
  <2>1. ASSUME NEW t \in 1 .. TRIALS PROVE \E i \in S : L[i - o] = x(t)
    <3>0. x(t) \in TrialsOf(Range(C))
      BY <1>6 DEF TrialsOf
    <3>1. PICK j \in 1 .. Len(L) : L[j] = x(t)
      BY <1>1, <3>0
    <3>2. Key(L[j]) = <<p, s, l, c>>
      BY <3>1 DEF Key, Trial
    <3>3. o + j \in o + 1 .. o + Len(L) /\ (o + j) - o = j
      BY <1>1
    <3>4. o + j \in S
      BY <1>2, <3>2, <3>3
    <3>. QED BY <3>1, <3>3, <3>4
  <2>2. \A t \in 1 .. TRIALS : f[t] \in S /\ L[f[t] - o] = x(t)
    BY <2>1
  <2>3. f \in [1 .. TRIALS -> S]
    BY <2>2
  <2>. HIDE DEF f
  <2>4. \A t, u \in 1 .. TRIALS : f[t] = f[u] => t = u
    <3>1. \A t \in 1 .. TRIALS : x(t).trial = t
      BY DEF Trial
    <3>. HIDE DEF x
    <3>. QED BY <2>2, <3>1
  <2>5. \A i \in S : \E t \in 1 .. TRIALS : f[t] = i
    <3>1. SUFFICES ASSUME NEW i \in S PROVE \E t \in 1 .. TRIALS : f[t] = i
      OBVIOUS
    <3>2. PICK t \in 1 .. TRIALS : L[i - o] = x(t)
      BY <1>4
    <3>3. i - o \in 1 .. Len(L) /\ f[t] - o \in 1 .. Len(L) /\ i \in Int /\ f[t] \in Int
      BY <1>3, <2>2
    <3>4. i - o = f[t] - o
      BY <1>1, <2>2, <3>2, <3>3
    <3>. QED BY <3>3, <3>4
  <2>6. ExistsBijection(1 .. TRIALS, S)
    <3>1. f \in Bijection(1 .. TRIALS, S)
      BY <2>3, <2>4, <2>5, Fun_IsBij
    <3>. QED BY <3>1 DEF ExistsBijection
  <2>7. /\ TRIALS \in Nat /\ IsFiniteSet(1 .. TRIALS)
        /\ Cardinality(1 .. TRIALS) = TRIALS
    BY TrialsAssumption, FS_Interval
  <2>. QED BY <1>6, <2>6, <2>7, FS_Bijection DEF S
<1>. QED BY <1>5, <1>6 DEF S

-----------------------------------------------------------------------------
(* The trials, one after the other.                                        *)

\* A row of results.csv.
RowType ==
  [config : {Matrix[i] : i \in 1 .. Len(Matrix)}, complete : BOOLEAN,
   blank : BOOLEAN, server : (1 .. Len(Matrix)) \cup {Nobody, Foreign}]

\* Only the receiver of the trial runs, from its start until it was stopped.
RunningInv ==
  /\ receivers \subseteq {this}
  /\ pc \in {"trial", "recording", "finished", "aborted"} => receivers = {}

\* A receiver has no port but that of its protocol.
PortInv ==
  \A p \in Range(PROTOCOLS) : port[p] \in receivers => PortOf(port[p]) = p

\* A transfer that is complete was served by it, unless by a program that is not
\* of the harness, and there is none before Poll.
ServedInv ==
  /\ sender = "complete" => server \in {this, Foreign}
  /\ pc \in {"trial", "binding"} => sender = "none"

\* A row per trial, in the order of the matrix, and in the end of all.
RowsInv ==
  /\ rows \in Seq(RowType) /\ Len(rows) = done
  /\ \A i \in 1 .. done : rows[i].config = Matrix[i]
  /\ pc = "finished" => done = Len(Matrix)

(* The strengthening: NoOtherTrial says nothing of the trial that runs.    *)
ExpInv ==
  ExpTypeOK /\ RunningInv /\ PortInv /\ ServedInv /\ RowsInv /\ NoOtherTrial

LEMMA ExpInit == Init => ExpInv
<1>. SUFFICES ASSUME Init PROVE ExpInv
  OBVIOUS
<1>1. RunningInv /\ PortInv /\ ServedInv
  BY DEF Init, RunningInv, PortInv, ServedInv
<1>2. ExpTypeOK
  <2>1. done \in 0 .. Len(Matrix) /\ server = Nobody
    BY MatrixLength DEF Init
  <2>2. rows = << >> /\ Len(rows) <= done
    BY DEF Init
  <2>. QED BY <2>1, <2>2 DEF Init, ExpTypeOK
<1>3. RowsInv /\ NoOtherTrial
  BY DEF Init, RowsInv, NoOtherTrial
<1>. QED BY <1>1, <1>2, <1>3 DEF ExpInv

\* A port is bound or left, and a receiver process fails to bind, or ends.
LEMMA PortStep ==
  ASSUME ExpInv,
         \/ \E n \in 1 .. Len(Matrix) : Bind(n) \/ BindFails(n) \/ Dies(n)
         \/ \E p \in Range(PROTOCOLS) : ForeignBinds(p) \/ ForeignLeaves(p)
  PROVE  ExpInv'
<1>. USE DEF ExpInv
<1>1. /\ UNCHANGED <<pc, done, sender, server, failed, rows>>
      /\ receivers' \subseteq receivers
  BY DEF Bind, BindFails, Dies, ForeignBinds, ForeignLeaves
<1>2. port' \in [Range(PROTOCOLS) -> receivers' \cup {Nobody, Foreign}]
  <2>1. port \in [Range(PROTOCOLS) -> receivers \cup {Nobody, Foreign}]
    BY DEF ExpTypeOK
  <2>2. CASE \E p \in Range(PROTOCOLS) : ForeignBinds(p) \/ ForeignLeaves(p)
    BY <2>1, <2>2 DEF ForeignBinds, ForeignLeaves
  <2>3. CASE \E n \in 1 .. Len(Matrix) : Bind(n)
    BY <2>1, <2>3 DEF Bind
  <2>4. CASE \E n \in 1 .. Len(Matrix) : BindFails(n)
    <3>1. PICK n \in 1 .. Len(Matrix) : BindFails(n)
      BY <2>4
    <3>2. \A p \in Range(PROTOCOLS) : port[p] # n
      BY <3>1 DEF BindFails, PortInv
    <3>. QED BY <2>1, <3>1, <3>2 DEF BindFails
  <2>5. CASE \E n \in 1 .. Len(Matrix) : Dies(n)
    BY <2>1, <2>5 DEF Dies
  <2>. QED BY <2>2, <2>3, <2>4, <2>5
<1>3. ExpTypeOK'
  BY <1>1, <1>2 DEF ExpTypeOK, this
<1>4. PortInv'
  <2>1. /\ port \in [Range(PROTOCOLS) -> receivers \cup {Nobody, Foreign}]
        /\ receivers \subseteq 1 .. Len(Matrix)
    BY DEF ExpTypeOK
  <2>2. Nobody \notin receivers /\ Foreign \notin receivers
    BY <2>1, MatrixLength DEF Nobody, Foreign
  <2>. QED BY <1>1, <2>1, <2>2
           DEF PortInv, PortOf, Bind, BindFails, Dies, ForeignBinds, ForeignLeaves
<1>5. RunningInv' /\ ServedInv' /\ RowsInv' /\ NoOtherTrial'
  BY <1>1 DEF RunningInv, ServedInv, RowsInv, NoOtherTrial, this
<1>. QED BY <1>3, <1>4, <1>5

\* Of the receivers of the trials, only that of the trial can have its port.
LEMMA ServedBy ==
  ASSUME ExpInv, Completes
  PROVE  port[PortOf(this)] \in {this, Nobody, Foreign}
<1>1. PortOf(this) \in Range(PROTOCOLS)
  BY MatrixTrials, MatrixLength DEF ExpInv, ExpTypeOK, Completes, this, PortOf
<1>. QED BY <1>1 DEF ExpInv, ExpTypeOK, RunningInv

\* The sender goes on, or ends, or is killed, and main goes on with the trial.
LEMMA TrialStep ==
  ASSUME ExpInv,
         \/ StartReceiver \/ Poll \/ Completes \/ GivesUp \/ TimesOut
         \/ SenderEnded \/ StopReceiver \/ Finish
  PROVE  ExpInv'
<1>. USE DEF ExpInv
<1>1. UNCHANGED <<done, rows>>
  BY DEF StartReceiver, Poll, Completes, GivesUp, TimesOut, SenderEnded,
     StopReceiver, Finish
<1>2. done \in Nat /\ this \in Nat /\ this # 0
  BY DEF ExpTypeOK, this
<1>3. RunningInv' /\ PortInv'
  <2>1. RunningInv'
    BY <1>1 DEF RunningInv, StartReceiver, Poll, Completes, GivesUp, TimesOut,
       SenderEnded, StopReceiver, Stopped, Finish, this
  <2>2. CASE StartReceiver
    <3>1. /\ receivers' = receivers \cup {this} /\ port' = port
          /\ receivers = {} /\ this \in Nat
          /\ \A p \in Range(PROTOCOLS) : port[p] \in receivers \cup {Nobody, Foreign}
      BY <1>2, <2>2 DEF StartReceiver, RunningInv, ExpTypeOK
    <3>2. \A p \in Range(PROTOCOLS) : port[p] \notin receivers'
      BY <1>2, <3>1 DEF Nobody, Foreign
    <3>. QED BY <2>1, <3>1, <3>2 DEF PortInv
  <2>3. CASE ~StartReceiver
    BY <2>1, <2>3 DEF PortInv, PortOf, Poll, Completes, GivesUp, TimesOut,
       SenderEnded, StopReceiver, Finish
  <2>. QED BY <2>2, <2>3
<1>4. ServedInv'
  BY <1>1, ServedBy DEF ServedInv, StartReceiver, Poll, Completes,
     GivesUp, TimesOut, SenderEnded, StopReceiver, Finish, this
<1>5. RowsInv' /\ NoOtherTrial'
  BY <1>1 DEF RowsInv, NoOtherTrial, StartReceiver, Poll, Completes, GivesUp,
     TimesOut, SenderEnded, StopReceiver, Finish
<1>6. ExpTypeOK'
  <2>1. /\ done' \in 0 .. Len(Matrix) /\ Len(rows') <= done'
    BY <1>1 DEF ExpTypeOK
  <2>2. CASE StartReceiver
    BY <1>2, <2>1, <2>2, MatrixLength
    DEF ExpTypeOK, StartReceiver, MoreTrials, this
  <2>3. CASE Completes
    <3>1. this \in 1 .. Len(Matrix)
      BY <1>2, <2>3, MatrixLength DEF ExpTypeOK, Completes
    <3>. QED BY <1>1, <2>1, <2>3, <3>1, ServedBy DEF ExpTypeOK, Completes, this
  <2>4. CASE Poll \/ GivesUp \/ TimesOut
    BY <1>1, <2>1, <2>4 DEF ExpTypeOK, Poll, GivesUp, TimesOut, this
  <2>5. CASE SenderEnded \/ StopReceiver \/ Finish
    BY <1>1, <2>1, <2>5 DEF ExpTypeOK, SenderEnded, StopReceiver, Finish, this
  <2>. QED BY <2>2, <2>3, <2>4, <2>5
<1>. QED BY <1>3, <1>4, <1>5, <1>6

\* The row of the trial is written.
LEMMA WriteRowStep ==
  ASSUME ExpInv, WriteRow
  PROVE  ExpInv'
<1>. USE DEF ExpInv
<1>1. /\ pc = "recording" /\ rows' = Append(rows, Row) /\ done' = done + 1
      /\ sender' = "none" /\ pc' = "trial"
      /\ UNCHANGED <<receivers, port, server, failed>>
  BY DEF WriteRow, Recorded, this
<1>2. done \in Nat /\ done' \in 0 .. Len(Matrix) /\ this \in 1 .. Len(Matrix)
  BY <1>1, MatrixLength DEF ExpTypeOK, this
<1>3. Row \in RowType
  BY <1>2 DEF Row, RowType, ExpTypeOK
<1>4. /\ rows' \in Seq(RowType) /\ Len(rows') = done' /\ rows'[this] = Row
      /\ \A i \in DOMAIN rows : rows'[i] = rows[i]
      /\ DOMAIN rows' = DOMAIN rows \cup {this}
  <2>. DEFINE r == Row
  <2>1. rows \in Seq(RowType) /\ Len(rows) = done /\ r \in RowType
    BY <1>3 DEF RowsInv
  <2>. HIDE DEF r
  <2>2. rows' = Append(rows, r)
    BY <1>1 DEF r
  <2>3. /\ rows' \in Seq(RowType) /\ Len(rows') = done + 1 /\ rows'[done + 1] = r
        /\ \A i \in 1 .. done : rows'[i] = rows[i]
        /\ DOMAIN rows = 1 .. done /\ DOMAIN rows' = 1 .. done + 1
    BY <1>2, <2>1, <2>2
  <2>. QED BY <1>1, <1>2, <2>3 DEF this, r
<1>5. NoOtherTrial'
  <2>1. Row.complete => Row.server \in {this, Foreign}
    BY DEF Row, ServedInv
  <2>2. ASSUME NEW i \in DOMAIN rows', rows'[i].complete PROVE rows'[i].server \in {i, Foreign}
    BY <1>4, <2>1, <2>2 DEF NoOtherTrial
  <2>. QED BY <2>2 DEF NoOtherTrial
<1>6. RunningInv' /\ PortInv' /\ ServedInv'
  BY <1>1, <1>4 DEF RunningInv, PortInv, PortOf, ServedInv
<1>7. RowsInv'
  <2>1. Row.config = Matrix[this]
    BY DEF Row
  <2>2. ASSUME NEW i \in 1 .. done' PROVE rows'[i].config = Matrix[i]
    BY <1>1, <1>2, <1>4, <2>1, <2>2 DEF RowsInv, this
  <2>. QED BY <1>1, <1>4, <2>2 DEF RowsInv
<1>8. ExpTypeOK'
  BY <1>1, <1>2, <1>4 DEF ExpTypeOK
<1>. QED BY <1>5, <1>6, <1>7, <1>8

LEMMA ExpNext == ExpInv /\ [Next]_vars => ExpInv'
<1>. SUFFICES ASSUME ExpInv, [Next]_vars PROVE ExpInv'
  OBVIOUS
<1>1. CASE UNCHANGED vars
  BY <1>1 DEF vars, ExpInv, ExpTypeOK, RunningInv, PortInv, PortOf, ServedInv, RowsInv,
     NoOtherTrial, this
<1>. QED BY <1>1, PortStep, TrialStep, WriteRowStep DEF Next, Main, Repeats, Ended

LEMMA ExpInductive == Spec => []ExpInv
<1>. QED BY ExpInit, ExpNext, PTL DEF Spec

(* Types: no trial is past the matrix, no row without its trial, and the   *)
(* port is never left to a receiver that does not run                      *)
(* (run_experiments.py:118-200, 236-257).                                  *)
THEOREM HarnessTypes == Spec => []ExpTypeOK
<1>1. ExpInv => ExpTypeOK
  BY DEF ExpInv
<1>. QED BY <1>1, ExpInductive, PTL

(* However slowly receivers bind and end, whatever kills the sender, and   *)
(* whoever else takes a port: a transfer recorded as complete was not      *)
(* served by the receiver of another trial (run_experiments.py:118-141,    *)
(* 166-181).                                                               *)
THEOREM NotAnotherReceiver == Spec => []NoOtherTrial
<1>1. ExpInv => NoOtherTrial
  BY DEF ExpInv
<1>. QED BY <1>1, ExpInductive, PTL

\* Nothing is served by a program that is not of the harness.
NoForeign ==
  /\ \A p \in Range(PROTOCOLS) : port[p] # Foreign
  /\ server # Foreign
  /\ \A i \in DOMAIN rows : rows[i].server # Foreign

(* Unless another program takes a port, the transfer was served by the     *)
(* receiver of its own trial, with its rates: that start_receiver does not *)
(* wait for the socket harms nothing then (run_experiments.py:129-132).    *)
THEOREM MeasuresItsOwn ==
  ASSUME ~PortTaken
  PROVE  Spec => []OwnReceiver
<1>1. Init => NoForeign
  BY DEF Init, NoForeign, Nobody, Foreign
<1>2. ExpInv /\ NoForeign /\ [Next]_vars => NoForeign'
  <2>. SUFFICES ASSUME ExpInv, NoForeign, [Next]_vars PROVE NoForeign'
    OBVIOUS
  <2>. USE DEF NoForeign
  <2>1. CASE \E n \in 1 .. Len(Matrix) : Bind(n) \/ BindFails(n) \/ Dies(n)
    <3>1. port \in [Range(PROTOCOLS) -> receivers \cup {Nobody, Foreign}]
      BY DEF ExpInv, ExpTypeOK
    <3>2. \A n \in 1 .. Len(Matrix) : n # Foreign
      BY MatrixLength DEF Foreign
    <3>3. UNCHANGED <<server, rows>>
      BY <2>1 DEF Bind, BindFails, Dies
    <3>4. \A p \in Range(PROTOCOLS) : port'[p] # Foreign
      BY <2>1, <3>1, <3>2 DEF Bind, BindFails, Dies, Nobody, Foreign
    <3>. QED BY <3>3, <3>4
  <2>2. CASE \E p \in Range(PROTOCOLS) : ForeignBinds(p) \/ ForeignLeaves(p)
    BY <2>2 DEF ForeignBinds, ForeignLeaves
  <2>3. CASE Completes
    <3>1. PortOf(this) \in Range(PROTOCOLS)
      BY <2>3, MatrixTrials, MatrixLength DEF ExpInv, ExpTypeOK, Completes, this, PortOf
    <3>. QED BY <2>3, <3>1 DEF Completes
  <2>4. CASE WriteRow
    <3>1. /\ UNCHANGED <<port, server>> /\ rows' = Append(rows, Row)
      BY <2>4 DEF WriteRow, Recorded
    <3>2. Row.server # Foreign
      BY DEF Row
    <3>3. rows \in Seq(RowType) /\ Row \in RowType
      BY <2>4, MatrixLength DEF ExpInv, ExpTypeOK, RowsInv, Row, RowType, WriteRow, this
    <3>. DEFINE r == Row
    <3>4. rows' = Append(rows, r) /\ r \in RowType /\ r.server # Foreign
      BY <3>1, <3>2, <3>3
    <3>. HIDE DEF r
    <3>. QED BY <3>1, <3>3, <3>4
  <2>5. CASE Poll \/ TimesOut
    BY <2>5 DEF Poll, TimesOut, Nobody, Foreign
  <2>6. CASE StartReceiver \/ GivesUp \/ SenderEnded \/ StopReceiver \/ Finish
             \/ UNCHANGED vars
    BY <2>6 DEF StartReceiver, GivesUp, SenderEnded, StopReceiver, Finish, vars
  <2>. QED BY <2>1, <2>2, <2>3, <2>4, <2>5, <2>6 DEF Next, Main, Repeats, Ended
<1>3. NoOtherTrial /\ NoForeign => OwnReceiver
  BY DEF NoOtherTrial, NoForeign, OwnReceiver
<1>. QED BY <1>1, <1>2, <1>3, ExpInductive, NotAnotherReceiver, PTL DEF Spec

(* No receiver process outlives main (run_experiments.py:138-147, 180-181). *)
THEOREM NothingLeftBehind == Spec => []NoOrphan
<1>1. ExpInv => NoOrphan
  BY DEF ExpInv, RunningInv, NoOrphan
<1>. QED BY <1>1, ExpInductive, PTL

-----------------------------------------------------------------------------
(* The averages.                                                           *)

\* The rows of configuration k, and among them those of the two matrices.
RowsOf(k) == {i \in 1 .. done : Key(Matrix[i]) = k}

LEMMA RowsOfKey ==
  ASSUME ExpInv
  PROVE  /\ DOMAIN rows = 1 .. done /\ done \in Nat
         /\ \A i \in DOMAIN rows : rows[i].config = Matrix[i]
         /\ DOMAIN averaged = {Key(Matrix[i]) : i \in 1 .. done}
         /\ \A k : IsFiniteSet(RowsOf(k)) /\ Cell(k) = Cardinality(RowsOf(k))
<1>1. DOMAIN rows = 1 .. done /\ done \in Nat
  BY DEF ExpInv, RowsInv, ExpTypeOK
<1>2. \A i \in DOMAIN rows : rows[i].config = Matrix[i]
  BY <1>1 DEF ExpInv, RowsInv
<1>3. DOMAIN groups = {Key(Matrix[i]) : i \in 1 .. done}
  BY <1>1, <1>2 DEF groups
<1>4. DOMAIN averaged = DOMAIN groups
  BY DEF averaged
<1>5. ASSUME NEW k
      PROVE  IsFiniteSet(RowsOf(k)) /\ Cell(k) = Cardinality(RowsOf(k))
  <2>1. IsFiniteSet(RowsOf(k))
    <3>1. IsFiniteSet(1 .. done)
      BY <1>1, FS_Interval
    <3>. QED BY <3>1, FS_Subset DEF RowsOf
  <2>2. CASE k \in DOMAIN averaged
    <3>1. groups[k] = {i \in DOMAIN rows : Key(rows[i].config) = k}
      BY <1>4, <2>2 DEF groups
    <3>2. groups[k] = RowsOf(k)
      BY <1>1, <1>2, <3>1 DEF RowsOf
    <3>3. Cell(k) = Cardinality(groups[k])
      BY <1>4, <2>2 DEF Cell, averaged
    <3>. QED BY <2>1, <3>2, <3>3
  <2>3. CASE k \notin DOMAIN averaged
    <3>1. RowsOf(k) = {}
      BY <1>3, <1>4, <2>3 DEF RowsOf
    <3>. QED BY <2>1, <2>3, <3>1, FS_EmptySet DEF Cell
  <2>. QED BY <2>2, <2>3
<1>. QED BY <1>1, <1>2, <1>3, <1>4, <1>5

\* The trials behind each cell of the tables in the end.
LEMMA CellsInTheEnd ==
  ASSUME ExpInv, pc = "finished",
         NEW p \in Range(PROTOCOLS), NEW s \in Range(FILE_SIZES),
         NEW l \in Nat, NEW c \in Nat
  PROVE  Cell(<<p, s, l, c>>) =
           (IF l \in Range(LOSS_RATES) /\ c = 0 THEN TRIALS ELSE 0)
         + (IF ~skip_bonus /\ l = 0 /\ c \in Range(CORRUPTION_RATES_BONUS)
            THEN TRIALS ELSE 0)
<1>. DEFINE k == <<p, s, l, c>>
            m == Len(LossTrials)
            b == Len(BonusTrials)
            S == {i \in 1 .. m : Key(Matrix[i]) = k}
            T == {i \in m + 1 .. m + b : Key(Matrix[i]) = k}
<1>1. m \in Nat /\ b \in Nat /\ done = m + b
  BY MatrixElements DEF ExpInv, RowsInv
<1>2. /\ IsFiniteSet(S)
      /\ Cardinality(S) = IF l \in Range(LOSS_RATES) /\ c = 0 THEN TRIALS ELSE 0
  <2>1. /\ IsList(WithLoss) /\ Range(WithLoss) = Range(LOSS_RATES) \X {0}
        /\ Range(WithLoss) \subseteq Nat \X Nat
    BY ConditionsList, RatesAssumption
  <2>2. S = TrialsOfKey(WithLoss, 0, k)
    BY <1>1, MatrixElements DEF LossTrials, TrialsOfKey
  <2>. HIDE DEF S
  <2>3. /\ IsFiniteSet(TrialsOfKey(WithLoss, 0, <<p, s, l, c>>))
        /\ Cardinality(TrialsOfKey(WithLoss, 0, <<p, s, l, c>>)) =
             IF <<l, c>> \in Range(WithLoss) THEN TRIALS ELSE 0
    BY <2>1, CountTrials
  <2>4. <<l, c>> \in Range(WithLoss) <=> l \in Range(LOSS_RATES) /\ c = 0
    BY <2>1
  <2>. QED BY <2>2, <2>3, <2>4
<1>3. /\ IsFiniteSet(T)
      /\ Cardinality(T) =
           IF ~skip_bonus /\ l = 0 /\ c \in Range(CORRUPTION_RATES_BONUS)
           THEN TRIALS ELSE 0
  <2>1. CASE skip_bonus
    <3>1. b = 0
      BY <2>1 DEF BonusTrials
    <3>2. T = {}
      BY <1>1, <3>1
    <3>. QED BY <2>1, <3>2, FS_EmptySet
  <2>2. CASE ~skip_bonus
    <3>1. /\ IsList(WithCorruption)
          /\ Range(WithCorruption) = {0} \X Range(CORRUPTION_RATES_BONUS)
          /\ Range(WithCorruption) \subseteq Nat \X Nat
      BY ConditionsList, RatesAssumption
    <3>2. BonusTrials = Loops(WithCorruption)
      BY <2>2 DEF BonusTrials
    <3>3. \A i \in m + 1 .. m + b : Matrix[i] = Loops(WithCorruption)[i - m]
      BY <3>2, MatrixElements
    <3>4. b = Len(Loops(WithCorruption))
      BY <3>2
    <3>. HIDE DEF m, b
    <3>5. T = TrialsOfKey(WithCorruption, m, k)
      BY <3>3, <3>4 DEF TrialsOfKey
    <3>. HIDE DEF T
    <3>6. /\ IsList(WithCorruption) /\ Range(WithCorruption) \subseteq Nat \X Nat
          /\ m \in Nat
      BY <1>1, <3>1
    <3>. HIDE DEF S
    <3>7. /\ IsFiniteSet(TrialsOfKey(WithCorruption, m, <<p, s, l, c>>))
          /\ Cardinality(TrialsOfKey(WithCorruption, m, <<p, s, l, c>>)) =
               IF <<l, c>> \in Range(WithCorruption) THEN TRIALS ELSE 0
      BY <3>6, CountTrials
    <3>8. /\ IsFiniteSet(T)
          /\ Cardinality(T) = IF <<l, c>> \in Range(WithCorruption) THEN TRIALS ELSE 0
      BY <3>5, <3>7
    <3>9. <<l, c>> \in Range(WithCorruption)
            <=> l = 0 /\ c \in Range(CORRUPTION_RATES_BONUS)
      BY <3>1
    <3>. QED BY <2>2, <3>8, <3>9
  <2>. QED BY <2>1, <2>2
<1>4. RowsOf(k) = S \cup T /\ S \cap T = {}
  <2>1. 1 .. done = (1 .. m) \cup (m + 1 .. m + b)
    BY <1>1
  <2>. HIDE DEF m, b
  <2>. QED BY <1>1, <2>1 DEF RowsOf
<1>. HIDE DEF S, T, k, m, b
<1>5. Cardinality(S \cup T) = Cardinality(S) + Cardinality(T) - Cardinality({})
  BY <1>2, <1>3, <1>4, FS_Union
<1>6. Cell(k) = Cardinality(S) + Cardinality(T)
  <2>1. Cell(k) = Cardinality(S \cup T)
    BY <1>4, RowsOfKey
  <2>2. Cardinality({}) = 0 /\ Cardinality(S) \in Nat /\ Cardinality(T) \in Nat
    BY <1>2, <1>3, FS_EmptySet, FS_CardinalityType
  <2>. QED BY <1>5, <2>1, <2>2
<1>. QED BY <1>2, <1>3, <1>6 DEF k

(* In the tables of an experiment that was not aborted, each cell is the   *)
(* average over all trials of its condition, those of both matrices if     *)
(* both have it, and over no others, whichever rates the two lists have in *)
(* common (run_experiments.py:236-257, visualize.py:80-107).               *)
THEOREM AveragesAreComplete == Spec => []TrialsEach
<1>1. ExpInv => TrialsEach
  <2>1. SUFFICES ASSUME ExpInv, pc = "finished",
                        NEW p \in Range(PROTOCOLS), NEW s \in Range(FILE_SIZES),
                        NEW l \in Rates, NEW c \in Rates
                 PROVE  Cell(<<p, s, l, c>>) =
                          Promised(WithLoss, <<l, c>>) + Promised(Bonus, <<l, c>>)
    BY DEF TrialsEach
  <2>2. l \in Nat /\ c \in Nat
    BY RatesAssumption DEF Rates
  <2>3. Promised(WithLoss, <<l, c>>) =
          IF l \in Range(LOSS_RATES) /\ c = 0 THEN TRIALS ELSE 0
    BY ConditionsList DEF Promised
  <2>4. Promised(Bonus, <<l, c>>) =
          IF ~skip_bonus /\ l = 0 /\ c \in Range(CORRUPTION_RATES_BONUS)
          THEN TRIALS ELSE 0
    <3>1. CASE skip_bonus
      <4>1. Range(Bonus) = {}
        BY <3>1 DEF Bonus, Range
      <4>. QED BY <3>1, <4>1 DEF Promised
    <3>2. CASE ~skip_bonus
      BY <3>2, ConditionsList DEF Promised, Bonus
    <3>. QED BY <3>1, <3>2
  <2>. QED BY <2>1, <2>2, <2>3, <2>4, CellsInTheEnd
<1>. QED BY <1>1, ExpInductive, PTL

\* The condition of a trial is one of the lists'.
LEMMA MatrixConditions ==
  ASSUME NEW i \in 1 .. Len(Matrix)
  PROVE  \E p \in Range(PROTOCOLS), s \in Range(FILE_SIZES), l \in Nat, c \in Nat :
           /\ Key(Matrix[i]) = <<p, s, l, c>>
           /\ \/ l \in Range(LOSS_RATES) /\ c = 0
              \/ ~skip_bonus /\ l = 0 /\ c \in Range(CORRUPTION_RATES_BONUS)
<1>1. ASSUME NEW C, IsList(C), Range(C) \subseteq Nat \X Nat, NEW j \in 1 .. Len(Loops(C))
      PROVE  \E p \in Range(PROTOCOLS), s \in Range(FILE_SIZES), d \in Range(C) :
               Key(Loops(C)[j]) = <<p, s, d[1], d[2]>>
  <2>1. Loops(C)[j] \in TrialsOf(Range(C))
    BY <1>1, LoopsList, ListElements
  <2>. QED BY <2>1 DEF TrialsOf, Trial, Key
<1>2. /\ Range(WithLoss) = Range(LOSS_RATES) \X {0} /\ IsList(WithLoss)
      /\ Range(WithCorruption) = {0} \X Range(CORRUPTION_RATES_BONUS)
      /\ IsList(WithCorruption)
      /\ Range(LOSS_RATES) \subseteq Nat /\ Range(CORRUPTION_RATES_BONUS) \subseteq Nat
  BY ConditionsList, RatesAssumption
<1>3. CASE i \in 1 .. Len(LossTrials)
  <2>1. PICK p \in Range(PROTOCOLS), s \in Range(FILE_SIZES), d \in Range(WithLoss) :
          Key(Matrix[i]) = <<p, s, d[1], d[2]>>
    BY <1>1, <1>2, <1>3, MatrixElements DEF LossTrials
  <2>2. d[1] \in Range(LOSS_RATES) /\ d[2] = 0 /\ d[1] \in Nat
    BY <1>2
  <2>. QED BY <2>1, <2>2
<1>4. CASE i \notin 1 .. Len(LossTrials)
  <2>. DEFINE j == i - Len(LossTrials)
  <2>1. j \in 1 .. Len(BonusTrials) /\ Matrix[i] = BonusTrials[j]
    BY <1>4, MatrixElements
  <2>2. ~skip_bonus /\ BonusTrials = Loops(WithCorruption)
    BY <2>1 DEF BonusTrials
  <2>. HIDE DEF j
  <2>3. PICK p \in Range(PROTOCOLS), s \in Range(FILE_SIZES), d \in Range(WithCorruption) :
          Key(Matrix[i]) = <<p, s, d[1], d[2]>>
    BY <1>1, <1>2, <2>1, <2>2
  <2>4. d[1] = 0 /\ d[2] \in Range(CORRUPTION_RATES_BONUS) /\ d[2] \in Nat
    BY <1>2
  <2>. QED BY <2>2, <2>3, <2>4
<1>. QED BY <1>3, <1>4

(* The averages are comparable, all over the same number of trials, when   *)
(* no condition is in both matrices: the corruption matrix is skipped, or  *)
(* its list has no rate 0 (run_experiments.py:62-63, 248-257).             *)
THEOREM SameTrialsOtherwise ==
  ASSUME skip_bonus \/ 0 \notin Range(CORRUPTION_RATES_BONUS)
  PROVE  Spec => []SameTrialsEach
<1>1. ExpInv => SameTrialsEach
  <2>1. SUFFICES ASSUME ExpInv, pc = "finished", NEW k \in DOMAIN averaged
                 PROVE  averaged[k].n_trials = TRIALS
    BY DEF SameTrialsEach
  <2>2. PICK i \in 1 .. Len(Matrix) : k = Key(Matrix[i])
    BY <2>1, RowsOfKey DEF ExpInv, RowsInv
  <2>3. PICK p \in Range(PROTOCOLS), s \in Range(FILE_SIZES), l \in Nat, c \in Nat :
          /\ k = <<p, s, l, c>>
          /\ \/ l \in Range(LOSS_RATES) /\ c = 0
             \/ ~skip_bonus /\ l = 0 /\ c \in Range(CORRUPTION_RATES_BONUS)
    BY <2>2, MatrixConditions
  <2>4. averaged[k].n_trials = Cell(k)
    BY <2>1 DEF Cell
  <2>5. TRIALS \in Nat
    BY TrialsAssumption
  <2>6. Cell(<<p, s, l, c>>) = TRIALS
    BY <2>1, <2>3, <2>5, CellsInTheEnd
  <2>. QED BY <2>3, <2>4, <2>6
<1>. QED BY <1>1, ExpInductive, PTL

(* Whenever an experiment ends, or is ended by an exception: if a trial    *)
(* with corruption was recorded, so were all those of the first matrix,    *)
(* and every curve of the chart of corruption rates has its point at zero  *)
(* (run_experiments.py:238-257, visualize.py:208-232).                     *)
THEOREM CurvesBegin == Spec => []CurvesFromZero
<1>1. ExpInv => CurvesFromZero
  <2>1. SUFFICES ASSUME ExpInv, NEW k \in corruption_keys,
                        NEW p \in Range(PROTOCOLS), NEW s \in rep_sizes
        PROVE  0 \in Curve(p, s)
    BY DEF CurvesFromZero
  <2>0. /\ done \in Nat /\ done <= Len(Matrix)
        /\ DOMAIN averaged = {Key(Matrix[i]) : i \in 1 .. done}
    <3>1. done \in Nat /\ done <= Len(Matrix)
      BY <2>1, MatrixLength DEF ExpInv, ExpTypeOK
    <3>2. DOMAIN averaged = {Key(Matrix[i]) : i \in 1 .. done}
      BY <2>1, RowsOfKey
    <3>. QED BY <3>1, <3>2
  <2>2. /\ IsList(LossTrials)
        /\ Range(LossTrials) = TrialsOf(Range(LOSS_RATES) \X {0})
    <3>1. Range(WithLoss) \subseteq Range(LOSS_RATES) \X {0}
      BY ConditionsList
    <3>. QED BY <3>1, ConditionsList, LoopsList DEF LossTrials
  <2>3. /\ Len(LossTrials) \in Nat
        /\ \A i \in 1 .. Len(LossTrials) :
             Matrix[i] = LossTrials[i] /\ Matrix[i] \in Range(LossTrials)
        /\ \A x \in Range(LossTrials) : \E i \in 1 .. Len(LossTrials) : Matrix[i] = x
    <3>1. /\ Len(LossTrials) \in Nat
          /\ \A i \in 1 .. Len(LossTrials) : LossTrials[i] \in Range(LossTrials)
          /\ \A x \in Range(LossTrials) :
               \E i \in 1 .. Len(LossTrials) : LossTrials[i] = x
      BY <2>2, ListElements
    <3>2. \A i \in 1 .. Len(LossTrials) : Matrix[i] = LossTrials[i]
      BY MatrixElements
    <3>. QED BY <3>1, <3>2
  <2>4. PICK n \in 1 .. done : Key(Matrix[n])[4] > 0
    BY <2>0 DEF corruption_keys
  <2>5. n \notin 1 .. Len(LossTrials)
    <3>1. \A x \in Range(LossTrials) : Key(x)[4] = 0
      BY <2>2 DEF TrialsOf, Trial, Key
    <3>. QED BY <2>3, <2>4, <3>1
  <2>6. Len(LossTrials) < done
    BY <2>0, <2>3, <2>4, <2>5
  <2>7. s \in Range(FILE_SIZES)
    <3>. DEFINE sizes == {q[2] : q \in {q \in DOMAIN averaged : q[3] = 0}}
    <3>1. ASSUME NEW i \in 1 .. done PROVE Key(Matrix[i])[2] \in Range(FILE_SIZES)
      BY <2>0, MatrixLength, MatrixTrials DEF Key
    <3>2. sizes \subseteq Range(FILE_SIZES)
      BY <2>0, <3>1
    <3>. HIDE DEF sizes
    <3>3. FirstThree(sizes) \subseteq Range(FILE_SIZES)
      BY DEF FirstThree, Range
    <3>4. s \in sizes \/ s \in FirstThree(sizes)
      BY DEF rep_sizes, sizes
    <3>. QED BY <3>2, <3>3, <3>4
  <2>8. <<p, s, 0, 0>> \in DOMAIN averaged
    <3>1. TRIALS \in Nat \ {0} /\ 0 \in Range(LOSS_RATES)
      BY TrialsAssumption, RatesAssumption
    <3>2. Trial(p, s, 0, 0, 1) \in Range(LossTrials)
      <4>1. <<0, 0>> \in Range(LOSS_RATES) \X {0} /\ 1 \in 1 .. TRIALS
        BY <3>1
      <4>2. Trial(p, s, <<0, 0>>[1], <<0, 0>>[2], 1)
              \in TrialsOf(Range(LOSS_RATES) \X {0})
        BY <2>7, <4>1 DEF TrialsOf
      <4>. QED BY <2>2, <4>2
    <3>3. PICK i \in 1 .. Len(LossTrials) : Matrix[i] = Trial(p, s, 0, 0, 1)
      BY <2>3, <3>2
    <3>4. Key(Matrix[i]) = <<p, s, 0, 0>>
      BY <3>3 DEF Key, Trial
    <3>5. i \in 1 .. done
      BY <2>0, <2>3, <2>6
    <3>. QED BY <2>0, <3>4, <3>5
  <2>. QED BY <2>8 DEF Curve, corruption_rates
<1>. QED BY <1>1, ExpInductive, PTL
=============================================================================
