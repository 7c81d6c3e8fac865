------------------------------ MODULE TaskFifo ------------------------------
(***************************************************************************)
(* What a ready queue promises its threads: a first-in first-out sequence  *)
(* of tasks, whose operations, the unlocked test for emptiness included,   *)
(* happen at one instant each.                                             *)
(***************************************************************************)
EXTENDS Sequences

CONSTANTS Thread, Node, Null

VARIABLES
  items,  \* the tasks in the queue, the next one to leave first
  hold,   \* the task each thread holds, or Null
  seen    \* the answer of each thread's last test for emptiness

vars == <<items, hold, seen>>

Init ==
  /\ items = <<>>
  /\ hold \in [Thread -> Node \cup {Null}]
  /\ \A s, t \in Thread : hold[s] = hold[t] => s = t \/ hold[s] = Null
  /\ seen = [t \in Thread |-> TRUE]

Test(t) ==
  /\ seen' = [seen EXCEPT ![t] = (items = <<>>)]
  /\ UNCHANGED <<items, hold>>

Enter(t) ==
  /\ hold[t] # Null
  /\ items' = Append(items, hold[t])
  /\ hold' = [hold EXCEPT ![t] = Null]
  /\ UNCHANGED seen

Leave(t) ==
  /\ hold[t] = Null
  /\ items # <<>>
  /\ hold' = [hold EXCEPT ![t] = Head(items)]
  /\ items' = Tail(items)
  /\ UNCHANGED seen

Next == \E t \in Thread : Test(t) \/ Enter(t) \/ Leave(t)

Spec == Init /\ [][Next]_vars
=============================================================================
