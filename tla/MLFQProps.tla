----------------------------- MODULE MLFQProps -----------------------------
(***************************************************************************)
(* What must hold of the MLFQ simulator, whatever the interleaving of its  *)
(* threads.                                                                *)
(***************************************************************************)
EXTENDS MLFQ

(***************************************************************************)
(* Every loaded task is in exactly one place: one position of one queue,   *)
(* the hands of one thread, or reported by main.  No dequeue, boost or     *)
(* hand-over between the threads loses a task or schedules it twice        *)
(* (deMLFQ, enMLFQ, resetMLFQ, enterDone, the drain of main).              *)
(***************************************************************************)
InMain(t) == t = createTask /\ mainPc \in {"enq", "put"}

Positions(t) ==
  {p \in Queue \X Task : p[2] <= Len(q[p[1]]) /\ q[p[1]][p[2]] = t}

Places(t) ==
  Cardinality(Positions(t)) + Cardinality({c \in CPU : hand[c] = t})
    + (IF rhand = t THEN 1 ELSE 0) + (IF InMain(t) THEN 1 ELSE 0)
    + (IF t \in reported THEN 1 ELSE 0)

OnePlace == \A t \in Task : Places(t) = IF t <= createTask THEN 1 ELSE 0

(***************************************************************************)
(* A task that waits in level i has priority i and unless it is at the     *)
(* last level has not used up its allotment: priority and timeSpend are    *)
(* written by the CPU that holds the task and by the boost thread.  It has *)
(* work left, unless its line gave it none (line 204) and it waits for its *)
(* first turn: a task that has run is never put back with nothing to do,   *)
(* so that rand() % t->length (line 475) divides by zero on the first turn *)
(* of such a task or never.                                                *)
(***************************************************************************)
Untouched(t) == priority[t] = 0 /\ timeSpend[t] = 0 /\ response[t] # "first"

ReadyHasWork ==
  \A i \in Level : \A k \in DOMAIN q[i] :
    LET t == q[i][k] IN
    /\ priority[t] = i
    /\ length[t] > 0 \/ Untouched(t)
    /\ i < 3 => timeSpend[t] <= Allot

(***************************************************************************)
(* A queue is changed under its own mutex, and the mutex that is released  *)
(* is the one that was taken: the level of the task a thread puts back is  *)
(* read before the lock is taken and nobody changes it meanwhile (enMLFQ), *)
(* the boost thread keeps the level it empties while it holds Alock, and   *)
(* doneTask is counted under Donelock.                                     *)
(***************************************************************************)
OwnsLocks ==
  /\ mainPc = "put" => lock[0] = "main"
  /\ mainPc = "take" => lock[Done] = "main"
  /\ \A c \in CPU :
       /\ pc[c] = "take" => lock[lv[c]] = c
       /\ pc[c] = "put" => lock[priority[hand[c]]] = c
       /\ pc[c] \in {"putdone", "count"} => lock[Done] = c
  /\ rpc \in {"drain", "move", "put"} => lock[rlv] = "reset"
  /\ rpc = "put" => lock[priority[rhand]] = "reset"

(***************************************************************************)
(* When main computes the averages every task that was read is counted,    *)
(* none is still waiting or in the hands of a thread: doneTask, read       *)
(* without Donelock in the dispatch loop (line 620), never runs ahead of   *)
(* the queue Done.                                                         *)
(***************************************************************************)
AllReported ==
  mainPc \in {"report", "trapped", "destroy", "free", "return", "halted"} =>
    /\ reported = 1 .. createTask
    /\ \A i \in Queue : emptyQueue(i)
    /\ \A c \in CPU : hand[c] = NoTask
    /\ rhand = NoTask

(***************************************************************************)
(* cpuLock is held from the return of one pthread_cond_wait to the next    *)
(* call, over the whole turn of a task: CPU threads run one at a time,     *)
(* whatever cpu_num is, and each first wait that released the lock of      *)
(* another thread (line 425) lets at most one more in.                     *)
(***************************************************************************)
Permits == Cardinality(inside) + IF cpuLock = NoThread THEN 1 ELSE 0

PermitBound == ~ Destroyed /\ Alive => Permits <= 1 + leaks

(***************************************************************************)
(* deMLFQ reads each queue without its mutex and locks afterwards.  As     *)
(* long as one CPU thread runs at a time, a scan that found A non-empty    *)
(* takes a task from it, and the levels B..D a scan has passed over are    *)
(* still empty: the task it takes is of the highest priority, but for what *)
(* main and the boost thread have put into A meanwhile.                    *)
(***************************************************************************)
ScanStable ==
  leaks = 0 =>
    \A c \in CPU :
      /\ pc[c] \in {"lock", "take"} /\ lv[c] = 0 => ~ emptyQueue(0)
      /\ pc[c] \in {"peek", "lock", "take"} =>
           \A k \in 1 .. lv[c] - 1 : emptyQueue(k)

(***************************************************************************)
(* The scheduler keeps the promise of TaskLife: a task is run by one CPU   *)
(* at a time, for a quantum at most, is done when its length is spent and  *)
(* is then reported once.                                                  *)
(***************************************************************************)
Work(n) == IF n > 0 THEN n ELSE 0

AtEnd == {q[Done][k] : k \in 1 .. Len(q[Done])} \cup reported
           \cup {hand[c] : c \in {d \in CPU : pc[d] \in {"done", "putdone"}}}

Life == INSTANCE TaskLife WITH
  Idle    <- NoTask,
  arrived <- 1 .. createTask,
  left    <- [t \in Task |-> Work(length[t])],
  runs    <- [c \in CPU |-> IF pc[c] \in {"run", "trap"} THEN hand[c] ELSE NoTask],
  finished <- AtEnd,
  accounted <- reported

LifeSpec == Life!Spec

(***************************************************************************)
(* A boost pass ends: the boost thread keeps the mutex of the level it     *)
(* empties, so that no CPU refills it, and takes Alock under it (358, 369, *)
(* 380) without anybody waiting the other way round.                       *)
(***************************************************************************)
BoostEnds == rpc = "lock" /\ rlv = 1 ~> rpc \in {"top", "exit"} \/ ~ Alive

(***************************************************************************)
(* The simulation ends: once the file is read the signals of the dispatch  *)
(* loop and the CPU threads finish every task.                             *)
(***************************************************************************)
DispatchEnds == mainPc = "dispatch" ~> mainPc = "term" \/ ~ Alive

(***************************************************************************)
(* "get response time for every first-encounter task" (MLFQ.c:434): the    *)
(* response time of a reported task was stamped when it was first run.     *)
(***************************************************************************)
ResponseStamped == \A t \in reported : response[t] = "first"

(***************************************************************************)
(* "Thread-safe implementation with mutex protection" (README.md:59): no   *)
(* thread uses a queue main has freed.                                     *)
(***************************************************************************)
NoUseAfterFree == mainPc # "crashed"
=============================================================================
