------------------------------ MODULE TaskLife ------------------------------
(***************************************************************************)
(* What the scheduler promises to a task, with no queue, mutex or thread   *)
(* in sight: a task that arrived is given to at most one CPU at a time,    *)
(* each turn uses some of its length but never more than a quantum, a task *)
(* is finished exactly when nothing of its length is left at the end of a  *)
(* turn, and a finished task never runs again and is accounted for once.   *)
(* MLFQ implements it (MLFQProps!LifeSpec).                                *)
(***************************************************************************)
EXTENDS Integers

CONSTANTS
  CPU, Task,
  Lengths,  \* of the tasks that arrive; one below 1 leaves nothing to do
  Quantum,  \* positive
  Idle      \* not a task

VARIABLES
  arrived,   \* the tasks that exist
  left,      \* units of work a task still needs
  runs,      \* the task each CPU is running, or Idle
  finished,  \* the tasks that have had their last turn
  accounted  \* the tasks that entered the final report

vars == <<arrived, left, runs, finished, accounted>>

Work(n) == IF n > 0 THEN n ELSE 0

TypeOK ==
  /\ arrived \subseteq Task
  /\ left \in [Task -> Nat]
  /\ runs \in [CPU -> Task \cup {Idle}]
  /\ accounted \subseteq finished /\ finished \subseteq arrived

Init ==
  /\ arrived = {} /\ finished = {} /\ accounted = {}
  /\ left = [t \in Task |-> 0]
  /\ runs = [c \in CPU |-> Idle]

Arrive(t, n) ==
  /\ t \notin arrived
  /\ arrived' = arrived \cup {t}
  /\ left' = [left EXCEPT ![t] = Work(n)]
  /\ UNCHANGED <<runs, finished, accounted>>

\* The choice of the task is the scheduler's; that it is nobody else's is not.
Dispatch(c, t) ==
  /\ runs[c] = Idle
  /\ t \in arrived \ finished
  /\ \A d \in CPU : runs[d] # t
  /\ runs' = [runs EXCEPT ![c] = t]
  /\ UNCHANGED <<arrived, left, finished, accounted>>

\* The end of a turn of n units, empty only if there was nothing to do; the
\* task is finished if nothing is left.
Turn(c, n) ==
  /\ runs[c] # Idle
  /\ n <= left[runs[c]]
  /\ n = 0 => left[runs[c]] = 0
  /\ left' = [left EXCEPT ![runs[c]] = @ - n]
  /\ runs' = [runs EXCEPT ![c] = Idle]
  /\ finished' = IF left[runs[c]] = n THEN finished \cup {runs[c]} ELSE finished
  /\ UNCHANGED <<arrived, accounted>>

Account(t) ==
  /\ t \in finished \ accounted
  /\ accounted' = accounted \cup {t}
  /\ UNCHANGED <<arrived, left, runs, finished>>

Next ==
  \/ \E t \in Task, n \in Lengths : Arrive(t, n)
  \/ \E c \in CPU, t \in Task : Dispatch(c, t)
  \/ \E c \in CPU, n \in 0 .. Quantum : Turn(c, n)
  \/ \E t \in Task : Account(t)

Spec == Init /\ [][Next]_vars
=============================================================================
