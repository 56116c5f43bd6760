---------------------------- MODULE SinkContract ----------------------------
(***************************************************************************)
(* What a sink promises to the code that submits documents to it: a lossy  *)
(* log.  It takes documents in order while it is open; each document taken *)
(* is at some point either written, after every document written before it *)
(* and at most once, or written off as lost; once it has been told to stop *)
(* it takes nothing more.  A sink that runs out of time while it stops may *)
(* have written off documents that still reach the log.                    *)
(***************************************************************************)
EXTENDS Integers, Sequences

CONSTANT Documents

VARIABLES
  taken,    \* documents the sink has taken, in order
  written,  \* documents in the log, in order
  lost,     \* documents written off
  open,     \* the sink still takes documents
  hurried   \* it was stopped before it had settled them all

vars == <<taken, written, lost, open, hurried>>

Elements(s) == {s[i] : i \in DOMAIN s}

Init == taken = <<>> /\ written = <<>> /\ lost = {} /\ open = TRUE /\ hurried = FALSE

Take(d) ==
  /\ open /\ d \notin Elements(taken)
  /\ taken' = Append(taken, d)
  /\ UNCHANGED <<written, lost, open, hurried>>

\* w keeps the order of taken, without repetition.
Ordered(w) ==
  \A i, j \in DOMAIN w : i < j =>
    \E m, n \in DOMAIN taken : m < n /\ taken[m] = w[i] /\ taken[n] = w[j]

\* w is the log with more at its end.
Extends(w) == Len(w) > Len(written) /\ \A i \in DOMAIN written : w[i] = written[i]

\* Unless hurried, it adds no document that was written off.
Write ==
  /\ Extends(written') /\ Ordered(written') /\ Elements(written') \subseteq Elements(taken)
  /\ hurried \/ \A i \in DOMAIN written' : written'[i] \in lost => i \in DOMAIN written
  /\ UNCHANGED <<taken, lost, open, hurried>>

Lose ==
  \E D \in SUBSET (Elements(taken) \ Elements(written)) :
    /\ lost' = lost \cup D
    /\ UNCHANGED <<taken, written, open, hurried>>

\* Stopping in a hurry may write off what it interrupts, written or not.
GiveUp ==
  /\ ~open /\ hurried' = TRUE
  /\ \E D \in SUBSET Elements(taken) : lost' = lost \cup D
  /\ UNCHANGED <<taken, written, open>>

Stop == open /\ open' = FALSE /\ UNCHANGED <<taken, written, lost, hurried>>

Next == (\E d \in Documents : Take(d)) \/ Write \/ Lose \/ GiveUp \/ Stop

Spec == Init /\ [][Next]_vars
=============================================================================
