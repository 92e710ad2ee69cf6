------------------------------- MODULE Charts -------------------------------
(***************************************************************************)
(* visualize.py on the results.csv of an experiment, which may have ended  *)
(* early: the averages of each configuration, and the points that the      *)
(* tables and the chart of corruption rates make of them.  An average is   *)
(* abstracted to the trials it is taken over.                              *)
(***************************************************************************)
EXTENDS Experiments

CONSTANT
  REPRESENTATIVE_SIZES  \* the sizes that are drawn, unless none was measured

ASSUME RatesAssumption ==
  /\ Range(LOSS_RATES) \subseteq Nat /\ Range(CORRUPTION_RATES_BONUS) \subseteq Nat
  /\ 0 \in Range(LOSS_RATES)

\* Mutant: the corruption rate is not part of the key.
BugKey(config) == <<config.protocol, config.size, config.loss_rate, 0>>

Key(config) ==
  <<config.protocol, config.size, config.loss_rate, config.corruption_rate>>

\* The rows by configuration.
groups ==
  [k \in {Key(rows[i].config) : i \in DOMAIN rows} |->
     {i \in DOMAIN rows : Key(rows[i].config) = k}]

\* The averages, by the number of trials they are over.
averaged == [k \in DOMAIN groups |-> [n_trials |-> Cardinality(groups[k])]]

\* The trials behind a cell of the tables, none if it is N/A.
Cell(k) == IF k \in DOMAIN averaged THEN averaged[k].n_trials ELSE 0

corruption_keys == {k \in DOMAIN averaged : k[4] > 0}

corruption_rates == {0} \cup {k[4] : k \in corruption_keys}

\* The first three of the sizes, which are measured in ascending order.
FirstThree(sizes) ==
  {FILE_SIZES[i] : i \in {i \in DOMAIN FILE_SIZES :
     /\ FILE_SIZES[i] \in sizes
     /\ Cardinality({j \in 1 .. i : FILE_SIZES[j] \in sizes}) <= 3}}

rep_sizes ==
  LET sizes == {k[2] : k \in {k \in DOMAIN averaged : k[3] = 0}}
      drawn == REPRESENTATIVE_SIZES \cap sizes
  IN  IF drawn # {} THEN drawn ELSE FirstThree(sizes)

\* The rates at which a curve of plot_corruption has a point.
Curve(p, s) == {c \in corruption_rates : <<p, s, 0, c>> \in DOMAIN averaged}

-----------------------------------------------------------------------------
\* The conditions <<loss_rate, corruption_rate>> of the bonus matrix.
Bonus == IF skip_bonus THEN << >> ELSE WithCorruption

\* The trials of each protocol and size that a matrix has under condition d.
Promised(conditions, d) == IF d \in Range(conditions) THEN TRIALS ELSE 0

Rates == Range(LOSS_RATES) \cup Range(CORRUPTION_RATES_BONUS)

(* After an experiment that was not aborted, each rate of each matrix has  *)
(* its TRIALS trials ("5 trials each", run_experiments.py:8), whatever     *)
(* became of the transfers, and an average is over those of its own        *)
(* condition, all of them and no others.  Rates that both lists have make  *)
(* two conditions, but for rate 0: without loss or corruption the average  *)
(* is over the trials of both matrices (run_experiments.py:236-257,        *)
(* visualize.py:86-107).                                                   *)
TrialsEach ==
  pc = "finished" =>
    \A p \in Range(PROTOCOLS), s \in Range(FILE_SIZES), l \in Rates, c \in Rates :
      Cell(<<p, s, l, c>>) =
        Promised(WithLoss, <<l, c>>) + Promised(Bonus, <<l, c>>)

(* All averages of an experiment that was not aborted are over the same    *)
(* number of trials, as one who compares them may expect; they are not     *)
(* when a condition is in both matrices (run_experiments.py:243-257).      *)
SameTrialsEach ==
  pc = "finished" => \A k \in DOMAIN averaged : averaged[k].n_trials = TRIALS

(* Whatever an experiment leaves in results.csv, by an exception in the    *)
(* middle too, a chart of corruption rates that is drawn has the point     *)
(* without corruption in every curve, to compare the others with           *)
(* (run_experiments.py:238-257, visualize.py:208-232).                     *)
CurvesFromZero ==
  corruption_keys # {} =>
    \A p \in Range(PROTOCOLS), s \in rep_sizes : 0 \in Curve(p, s)
=============================================================================
