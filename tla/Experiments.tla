---------------------------- MODULE Experiments ----------------------------
(***************************************************************************)
(* run_experiments.py: one trial after the other, each with a receiver     *)
(* process that is started and stopped for it and a sender process that    *)
(* is killed when it takes too long, and a row per trial in results.csv.   *)
(* Times are not modelled, except that a time limit may be reached.        *)
(***************************************************************************)
EXTENDS Integers, Sequences, FiniteSets, Functions

CONSTANTS
  PROTOCOLS, FILE_SIZES,    \* sequences, as the loops run through them
  LOSS_RATES, CORRUPTION_RATES_BONUS,   \* sequences of rates, in percent
  TRIALS,
  skip_bonus,
  PortTaken     \* whether a program that is not of the harness may hold a port

ASSUME TrialsAssumption == TRIALS \in Nat \ {0} /\ skip_bonus \in BOOLEAN

\* A list without repetitions.
IsList(list) == list \in Seq(Range(list)) /\ IsInjective(list)

ASSUME ListsAssumption ==
  /\ IsList(PROTOCOLS) /\ IsList(FILE_SIZES)
  /\ IsList(LOSS_RATES) /\ IsList(CORRUPTION_RATES_BONUS)

Trial(p, s, l, c, t) ==
  [protocol |-> p, size |-> s, loss_rate |-> l, corruption_rate |-> c, trial |-> t]

Numbers == [t \in 1 .. TRIALS |-> t]

\* The order of two nested loops, the second inside the first.
Nested(a, b) ==
  [n \in 1 .. Len(a) * Len(b) |->
    <<a[((n - 1) \div Len(b)) + 1], b[((n - 1) % Len(b)) + 1]>>]

\* The four loops of a matrix, over conditions <<loss_rate, corruption_rate>>.
Loops(conditions) ==
  LET order == Nested(PROTOCOLS, Nested(FILE_SIZES, Nested(conditions, Numbers)))
      RunTrial(p, s, c, t) == Trial(p, s, c[1], c[2], t)
  IN  [n \in DOMAIN order |->
        RunTrial(order[n][1], order[n][2][1], order[n][2][2][1], order[n][2][2][2])]

WithLoss == [k \in DOMAIN LOSS_RATES |-> <<LOSS_RATES[k], 0>>]
WithCorruption ==
  [k \in DOMAIN CORRUPTION_RATES_BONUS |-> <<0, CORRUPTION_RATES_BONUS[k]>>]

\* Mutant: the bonus matrix comes first.
BugMatrix ==
  (IF skip_bonus THEN << >> ELSE Loops(WithCorruption)) \o Loops(WithLoss)

\* The trials in the order of main.
Matrix ==
  Loops(WithLoss) \o
  (IF skip_bonus THEN << >> ELSE Loops(WithCorruption))

\* Each protocol has a port of its own, and a trial uses that of its protocol.
PortOf(n) == Matrix[n].protocol

\* Who is bound to a port, unless it is the receiver of a trial.
Nobody == 0
Foreign == -1

VARIABLES
  pc,           \* where main is, in the trial or at its end
  done,         \* trials recorded: the next is Matrix[done + 1]
  receivers,    \* the trials whose receiver process runs, by number
  port,         \* of each protocol: the trial whose receiver is bound, or
                \* Nobody, or Foreign, a receiver run by hand, say
  sender,       \* state of the sender process, "none" outside run_sender
  server,       \* history: who was bound when the transfer completed
  failed,       \* whether an exception is on its way out of run_sender
  rows          \* results.csv

vars == <<pc, done, receivers, port, sender, server, failed, rows>>

this == done + 1

Init ==
  /\ pc = "trial" /\ done = 0
  /\ receivers = {} /\ port = [p \in Range(PROTOCOLS) |-> Nobody]
  /\ sender = "none" /\ server = Nobody
  /\ failed = FALSE /\ rows = << >>

-----------------------------------------------------------------------------
(* The ports, and the receiver processes.                                  *)

ForeignBinds(p) ==
  /\ PortTaken /\ port[p] = Nobody
  /\ port' = [port EXCEPT ![p] = Foreign]
  /\ UNCHANGED <<pc, done, receivers, sender, server, failed, rows>>

ForeignLeaves(p) ==
  /\ port[p] = Foreign
  /\ port' = [port EXCEPT ![p] = Nobody]
  /\ UNCHANGED <<pc, done, receivers, sender, server, failed, rows>>

\* setup_socket succeeds, sooner or later than the harness expects.
Bind(n) ==
  /\ n \in receivers /\ port[PortOf(n)] = Nobody
  /\ port' = [port EXCEPT ![PortOf(n)] = n]
  /\ UNCHANGED <<pc, done, receivers, sender, server, failed, rows>>

\* setup_socket fails, and with it the process: the port belongs to another
\* receiver or program.
BindFails(n) ==
  /\ n \in receivers /\ port[PortOf(n)] \notin {n, Nobody}
  /\ receivers' = receivers \ {n}
  /\ UNCHANGED <<pc, done, port, sender, server, failed, rows>>

\* A receiver that was told to end, does.
Dies(n) ==
  /\ n \in receivers /\ (n # this \/ pc = "stopping")
  /\ receivers' = receivers \ {n}
  /\ port' = [p \in Range(PROTOCOLS) |-> IF port[p] = n THEN Nobody ELSE port[p]]
  /\ UNCHANGED <<pc, done, sender, server, failed, rows>>

-----------------------------------------------------------------------------
(* run_trial.                                                              *)

\* Mutant: the loops run once too often.
BugMoreTrials == done <= Len(Matrix)

MoreTrials == done < Len(Matrix)

\* start_receiver up to the sleep of BIND_WAIT.
StartReceiver ==
  /\ pc = "trial" /\ MoreTrials
  /\ receivers' = receivers \cup {this}
  /\ pc' = "binding"
  /\ UNCHANGED <<done, port, sender, server, failed, rows>>

\* proc.poll() after the sleep: a receiver that has exited ends main, and any
\* other, bound or not, will do.
Poll ==
  /\ pc = "binding"
  /\ IF this \in receivers
     THEN pc' = "sending" /\ sender' = "running"
     ELSE pc' = "aborted" /\ UNCHANGED sender
  /\ server' = Nobody
  /\ UNCHANGED <<done, receivers, port, failed, rows>>

\* The sender reports completion: whoever has the port served it, also when the
\* receiver of the trial has failed to bind after Poll.
Completes ==
  /\ pc = "sending" /\ sender = "running" /\ port[PortOf(this)] # Nobody
  /\ sender' = "complete" /\ server' = port[PortOf(this)]
  /\ UNCHANGED <<pc, done, receivers, port, failed, rows>>

\* The Stop-and-Wait sender runs out of retries; with END unanswered it still
\* prints its retransmissions.
GivesUp ==
  /\ pc = "sending" /\ sender = "running"
  /\ Matrix[this].protocol = "stopwait"
  /\ \E s \in {"failed", "unnotified"} : sender' = s
  /\ UNCHANGED <<pc, done, receivers, port, server, failed, rows>>

\* A sender whose receiver is gone sends again and again.
Repeats ==
  /\ pc = "sending" /\ sender = "running" /\ UNCHANGED vars

\* Mutant: subprocess.run has no timeout.
BugLimit == FALSE

\* subprocess.run: the timeout of the trial may be reached before the sender
\* has ended.
Limit == TRUE

\* TimeoutExpired: the sender is killed.  What it had printed, if anything (its
\* prompt, at least), comes as bytes, in which RETRANS_RE, a pattern of text,
\* does not search: re raises a TypeError.
TimesOut ==
  /\ pc = "sending" /\ Limit
  /\ sender' = "killed" /\ server' = Nobody
  /\ failed' \in BOOLEAN
  /\ pc' = "stopping"
  /\ UNCHANGED <<done, receivers, port, rows>>

\* The sender has ended by itself.
SenderEnded ==
  /\ pc = "sending" /\ sender \in {"complete", "failed", "unnotified"}
  /\ pc' = "stopping"
  /\ UNCHANGED <<done, receivers, port, sender, server, failed, rows>>

\* Mutant: the receiver is told to end, but not waited for.
BugStopped == TRUE

\* Mutant: the receiver is not stopped when an exception is raised.
BugStoppedUnless == failed \/ this \notin receivers

\* stop_receiver, in a finally clause: the process is waited for, and killed
\* if it does not end.
Stopped == this \notin receivers

\* The exception passes through main, or the trial goes on to its row.
StopReceiver ==
  /\ pc = "stopping" /\ Stopped
  /\ pc' = IF failed THEN "aborted" ELSE "recording"
  /\ UNCHANGED <<done, receivers, port, sender, server, failed, rows>>

\* Mutant: a transfer that failed is not recorded.
BugRecorded == sender = "complete"

Recorded == TRUE

\* retransmissions is None when the sender did not print its count.
Row ==
  [config |-> Matrix[this], complete |-> sender = "complete",
   blank |-> sender \notin {"complete", "unnotified"}, server |-> server]

\* writerow and flush.
WriteRow ==
  /\ pc = "recording"
  /\ rows' = IF Recorded THEN Append(rows, Row) ELSE rows
  /\ done' = this
  /\ sender' = "none"
  /\ pc' = "trial"
  /\ UNCHANGED <<receivers, port, server, failed>>

Finish ==
  /\ pc = "trial" /\ done = Len(Matrix)
  /\ pc' = "finished"
  /\ UNCHANGED <<done, receivers, port, sender, server, failed, rows>>

Ended == pc \in {"finished", "aborted"} /\ UNCHANGED vars

Main ==
  \/ StartReceiver \/ Poll \/ TimesOut \/ SenderEnded \/ StopReceiver
  \/ WriteRow \/ Finish

Next ==
  \/ Main \/ Completes \/ GivesUp \/ Repeats \/ Ended
  \/ \E n \in 1 .. Len(Matrix) : Bind(n) \/ BindFails(n) \/ Dies(n)
  \/ \E p \in Range(PROTOCOLS) : ForeignBinds(p) \/ ForeignLeaves(p)

Spec == Init /\ [][Next]_vars

\* main runs on, and processes that are told to end do; a sender need not.
FairSpec ==
  Spec /\ WF_vars(Main) /\ \A n \in 1 .. Len(Matrix) : WF_vars(Dies(n))

-----------------------------------------------------------------------------
(* Properties.                                                             *)

\* Every variable keeps its type: in particular a trial number is never one
\* past the matrix while a trial runs, and rows have no more than one row per
\* trial.
ExpTypeOK ==
  /\ pc \in {"trial", "binding", "sending", "stopping", "recording",
             "finished", "aborted"}
  /\ done \in 0 .. Len(Matrix)
  /\ pc \notin {"trial", "finished"} => this <= Len(Matrix)
  /\ receivers \subseteq 1 .. Len(Matrix)
  /\ port \in [Range(PROTOCOLS) -> receivers \cup {Nobody, Foreign}]
  /\ sender \in {"none", "running", "complete", "failed", "unnotified", "killed"}
  /\ server \in (1 .. Len(Matrix)) \cup {Nobody, Foreign}
  /\ failed \in BOOLEAN
  /\ Len(rows) <= done

\* A transfer that is recorded as complete was never served by the receiver of
\* another trial, with other rates, however slowly that one ends or this one
\* starts: start_receiver only looks whether its process still runs, bound or
\* not, so this rests on stop_receiver of the trial before (lines 129-141).
NoOtherTrial ==
  \A i \in DOMAIN rows :
    rows[i].complete => rows[i].server \in {i, Foreign}

\* It was served by the receiver that run_trial started for it, with its rates.
\* That start_receiver raises when the process has "exited immediately" (lines
\* 129-131) is not enough for this when a program that is not of the harness has
\* the port, since the process may come to its bind after the poll.
OwnReceiver ==
  \A i \in DOMAIN rows :
    rows[i].complete => rows[i].server = i

\* When main ends, by an exception of run_sender or start_receiver too, no
\* receiver process is left behind (the finally clause of run_trial).
NoOrphan == pc \in {"finished", "aborted"} => receivers = {}

\* main ends, though a sender or a receiver may hang: the timeout of each trial
\* is its kill switch.
HarnessEnds == <>(pc \in {"finished", "aborted"})
=============================================================================
