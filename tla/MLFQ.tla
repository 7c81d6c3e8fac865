-------------------------------- MODULE MLFQ --------------------------------
(***************************************************************************)
(* The multi-level feedback queue simulator of MLFQ/MLFQ.c: the main       *)
(* thread that reads the task file, dispatches and reports, the CPU        *)
(* threads (cpuThread) and the priority boost thread (resetThread), with   *)
(* the four ready queues A..D, the Done queue and their mutexes.           *)
(*                                                                         *)
(* A step is one call of the pthread library, one unlocked read of shared  *)
(* state or one critical section.  A queue operation is atomic because     *)
(* every writer holds the mutex of its queue.                              *)
(***************************************************************************)
EXTENDS Integers, Sequences, FiniteSets

CONSTANTS
  CPU,        \* the cpu_num threads that run cpuThread
  MaxTasks,   \* bound on the number of task lines of the file
  Lengths,    \* the lengths a task line may carry, as atoi reads them
  Quantum,    \* quantum, 50 in the code
  Allot,      \* a task is demoted when its timeSpend exceeds this, 200 in the code
  HeapNsec,   \* what malloc may leave in response.tv_nsec: "zero" or "junk"
  Types,      \* the task types of the report, 0..3 in the code
  TypeOf,     \* the type of each task
  Spurious    \* may pthread_cond_wait return without a signal (POSIX: yes)

Task  == 1 .. MaxTasks
Level == 0 .. 3            \* A, B, C, D: the ids of queueCreate
Done  == 4                 \* the id of the queue Done
Queue == 0 .. 4

NoThread == "none"
Thread   == CPU \cup {"main", "reset"}
NoTask   == 0              \* the NULL task pointer

ASSUME MLFQAssumption ==
  /\ IsFiniteSet(CPU)
  /\ CPU \cap {"main", "reset", "none"} = {}
  /\ MaxTasks \in Nat
  /\ Lengths \subseteq Int
  /\ Quantum \in Nat \ {0}
  /\ Allot \in Nat
  /\ HeapNsec \subseteq {"zero", "junk"}
  /\ TypeOf \in [Task -> Types]
  /\ Spurious \in BOOLEAN

VARIABLES
  mainPc,      \* where main is
  createTask,  \* tasks read so far; task t exists iff t <= createTask
  doneTask,    \* tasks that entered Done
  Terminate,   \* the flag that ends the threads
  reported,    \* tasks main has taken from Done, accounted and freed
  q,           \* the contents of the five queues, head first
  lock,        \* owner of Alock, Block, Clock, Dlock, Donelock
  priority, length, timeSpend, response,  \* the fields of each task
  pc,          \* where each CPU thread is
  lv,          \* the level deMLFQ is looking at, for each CPU thread
  hand,        \* the task each CPU thread holds, or NoTask
  cpuLock,     \* owner of cpuLock
  inside,      \* CPU threads that returned from a wait and have not waited since
  leaks,       \* history: first waits that released a cpuLock held by another
  rpc, rlv, rhand  \* the boost thread: where it is, its level and its task

mainData  == <<createTask, doneTask, Terminate, reported>>
mainVars  == <<mainPc, mainData>>
queueVars == <<q, lock>>
taskVars  == <<priority, length, timeSpend, response>>
cpuLockVars == <<cpuLock, inside, leaks>>
cpuData   == <<lv, hand, cpuLockVars>>
cpuVars   == <<pc, cpuData>>
resetVars == <<rpc, rlv, rhand>>
vars == <<mainVars, queueVars, taskVars, cpuVars, resetVars>>

Alive == /\ mainPc \notin {"halted", "exited", "trapped", "crashed"}
         /\ \A c \in CPU : pc[c] # "trap"
Destroyed == mainPc \in {"free", "return"}   \* pthread_mutex_destroy was called
Freed     == mainPc = "return"               \* free(A) .. free(Done) were called

MainTypes ==
  /\ mainPc \in {"load", "enq", "put", "dispatch", "term", "drain", "take",
                 "report", "destroy", "free", "return",
                 "halted", "exited", "trapped", "crashed"}
  /\ createTask \in 0 .. MaxTasks
  /\ doneTask \in Nat
  /\ Terminate \in BOOLEAN
  /\ reported \subseteq Task

QueueTypes ==
  /\ q \in [Queue -> Seq(Task)]
  /\ lock \in [Queue -> Thread \cup {NoThread}]

TaskTypes ==
  /\ priority \in [Task -> Level]
  /\ length \in [Task -> Int]
  /\ timeSpend \in [Task -> Nat]
  /\ response \in [Task -> {"zero", "junk", "first"}]

CpuPc == {"top", "wait", "sleep", "woken", "peek", "lock", "take", "run",
          "enq", "put", "done", "putdone", "count", "trap", "exit"}

CpuTypes ==
  /\ pc \in [CPU -> CpuPc]
  /\ lv \in [CPU -> Level]
  /\ hand \in [CPU -> Task \cup {NoTask}]
  /\ cpuLock \in CPU \cup {NoThread}
  /\ inside \subseteq CPU
  /\ leaks \in Nat

ResetTypes ==
  /\ rpc \in {"off", "top", "asleep", "lock", "drain", "move", "put", "exit"}
  /\ rlv \in 1 .. 3
  /\ rhand \in Task \cup {NoTask}

TypeOK == MainTypes /\ QueueTypes /\ TaskTypes /\ CpuTypes /\ ResetTypes

Init ==
  /\ mainPc = "load"
  /\ createTask = 0 /\ doneTask = 0
  /\ Terminate = FALSE
  /\ reported = {}
  /\ q = [i \in Queue |-> <<>>]
  /\ lock = [i \in Queue |-> NoThread]
  /\ priority = [t \in Task |-> 0]
  /\ length = [t \in Task |-> 0]
  /\ timeSpend = [t \in Task |-> 0]
  /\ response = [t \in Task |-> "zero"]
  /\ pc = [c \in CPU |-> "top"]
  /\ lv = [c \in CPU |-> 0]
  /\ hand = [c \in CPU |-> NoTask]
  /\ cpuLock = NoThread
  /\ inside = {}
  /\ leaks = 0
  /\ rpc = "off" /\ rlv = 1 /\ rhand = NoTask

-----------------------------------------------------------------------------
(* The mutexes and the queues.                                             *)

Acquire(i, th) ==
  /\ lock[i] = NoThread
  /\ lock' = [lock EXCEPT ![i] = th]

Release(i) == lock' = [lock EXCEPT ![i] = NoThread]

emptyQueue(i) == q[i] = <<>>

enqueue(i, t) == q' = [q EXCEPT ![i] = Append(@, t)]

\* Mutant: the rest of the list is dropped with the head.
dequeueDropsRest(i) == q' = [q EXCEPT ![i] = <<>>]

\* The caller looks at Head(q[i]) first; on an empty queue nothing changes.
dequeue(i) == q' = [q EXCEPT ![i] = IF @ = <<>> THEN @ ELSE Tail(@)]

\* pthread_cond_signal(&canRun): wakes one waiter, or is lost.
Signal ==
  \/ \E c \in CPU : /\ pc[c] = "sleep"
                    /\ pc' = [pc EXCEPT ![c] = "woken"]
  \/ /\ \A c \in CPU : pc[c] # "sleep"
     /\ UNCHANGED pc

-----------------------------------------------------------------------------
(* main: reading the task file.                                            *)

\* A step of main that moves on and touches nothing.
MainGoto(from, to) ==
  /\ mainPc = from
  /\ mainPc' = to
  /\ UNCHANGED <<mainData, queueVars, taskVars, cpuVars, resetVars>>

\* readTask: a line that describes a task.  malloc leaves response as it is,
\* and nothing checks the length that atoi makes of the field.
LoadTask ==
  /\ mainPc = "load" /\ createTask < MaxTasks
  /\ createTask' = createTask + 1
  /\ \E n \in Lengths : length' = [length EXCEPT ![createTask + 1] = n]
  /\ \E g \in HeapNsec : response' = [response EXCEPT ![createTask + 1] = g]
  /\ priority' = [priority EXCEPT ![createTask + 1] = 0]
  /\ timeSpend' = [timeSpend EXCEPT ![createTask + 1] = 0]
  /\ mainPc' = "enq"
  /\ UNCHANGED <<doneTask, Terminate, reported, queueVars, cpuVars, resetVars>>

\* enMLFQ on the new task, whose priority is 0: lock Alock ...
LoadLock ==
  /\ mainPc = "enq"
  /\ Acquire(0, "main")
  /\ mainPc' = "put"
  /\ UNCHANGED <<mainData, q, taskVars, cpuVars, resetVars>>

\* ... then enqueue and unlock.
LoadPut ==
  /\ mainPc = "put"
  /\ enqueue(0, createTask)
  /\ Release(0)
  /\ mainPc' = "load"
  /\ UNCHANGED <<mainData, taskVars, cpuVars, resetVars>>

\* The first DELAY line creates the boost thread and signals once; a later
\* one only sleeps.
LoadDelay ==
  /\ mainPc = "load"
  /\ rpc = "off"
  /\ rpc' = "top"
  /\ Signal
  /\ UNCHANGED <<mainVars, queueVars, taskVars, cpuData, rlv, rhand>>

\* readTask returns NULL on a line with too few fields: exit(0).
LoadBadLine == MainGoto("load", "exited")

\* fgets returns NULL, or the file could not be opened.
LoadEnd == MainGoto("load", "dispatch")

-----------------------------------------------------------------------------
(* main: dispatching, draining Done, reporting, tearing down.              *)

DispatchSignal ==
  /\ mainPc = "dispatch" /\ createTask > doneTask
  /\ Signal
  /\ UNCHANGED <<mainVars, queueVars, taskVars, cpuData, resetVars>>

\* Mutant: the loop ends one task early.
DispatchEndEarly == createTask <= doneTask + 1 /\ MainGoto("dispatch", "term")

\* doneTask is read without Donelock.
DispatchEnd == createTask <= doneTask /\ MainGoto("dispatch", "term")

SetTerminate ==
  /\ mainPc = "term"
  /\ Terminate' = TRUE
  /\ mainPc' = "drain"
  /\ UNCHANGED <<createTask, doneTask, reported, queueVars, taskVars, cpuVars,
                 resetVars>>

DrainLock ==
  /\ mainPc = "drain" /\ ~ emptyQueue(Done)
  /\ Acquire(Done, "main")
  /\ mainPc' = "take"
  /\ UNCHANGED <<mainData, q, taskVars, cpuVars, resetVars>>

DrainTake ==
  /\ mainPc = "take"
  /\ dequeue(Done)
  /\ Release(Done)
  /\ reported' = reported \cup {q[Done][1]}
  /\ mainPc' = "drain"
  /\ UNCHANGED <<createTask, doneTask, Terminate, taskVars, cpuVars, resetVars>>

DrainEnd == emptyQueue(Done) /\ MainGoto("drain", "report")

\* The averages divide by amount_type[i]: with no task of some type the
\* division by zero traps, or yields some value, as the processor has it.
Report ==
  \/ MainGoto("report", "destroy")
  \/ /\ \E ty \in Types : \A t \in reported : TypeOf[t] # ty
     /\ MainGoto("report", "trapped")

DestroyMutexes == MainGoto("destroy", "free")

\* sleep(1) bounds nothing: no thread is joined before the queues are freed.
FreeQueues == MainGoto("free", "return")

Return == MainGoto("return", "halted")

MainLoad == LoadTask \/ LoadLock \/ LoadPut \/ LoadDelay \/ LoadBadLine \/ LoadEnd
MainEnd  == DispatchSignal \/ DispatchEnd \/ SetTerminate \/ DrainLock
              \/ DrainTake \/ DrainEnd \/ Report \/ DestroyMutexes
              \/ FreeQueues \/ Return
Main == MainLoad \/ MainEnd

-----------------------------------------------------------------------------
(* cpuThread.                                                              *)

CpuTop(c) ==
  /\ pc[c] = "top"
  /\ pc' = [pc EXCEPT ![c] = IF Terminate THEN "exit" ELSE "wait"]
  /\ UNCHANGED <<mainVars, queueVars, taskVars, cpuData, resetVars>>

\* pthread_cond_wait(&canRun, &cpuLock) releases cpuLock, which the thread
\* owns on no first call.  Releasing a mutex of another thread is undefined:
\* the library frees it or leaves it as it is.
CpuWait(c) ==
  /\ pc[c] = "wait"
  /\ pc' = [pc EXCEPT ![c] = "sleep"]
  /\ cpuLock' \in IF cpuLock = c THEN {NoThread} ELSE {NoThread, cpuLock}
  /\ inside' = inside \ {c}
  /\ leaks' = IF c \notin inside /\ cpuLock # NoThread /\ cpuLock' = NoThread
              THEN leaks + 1 ELSE leaks
  /\ UNCHANGED <<mainVars, queueVars, taskVars, lv, hand, resetVars>>

\* A wakeup without a signal; on a destroyed mutex the wait fails at once.
CpuSpurious(c) ==
  /\ Spurious \/ Destroyed
  /\ pc[c] = "sleep"
  /\ pc' = [pc EXCEPT ![c] = "woken"]
  /\ UNCHANGED <<mainVars, queueVars, taskVars, cpuData, resetVars>>

\* Mutant: the wait returns without cpuLock.
CpuWokenUnlocked(c) ==
  /\ pc[c] = "woken"
  /\ pc' = [pc EXCEPT ![c] = "peek"]
  /\ inside' = inside \cup {c}
  /\ UNCHANGED <<mainVars, queueVars, taskVars, lv, hand, cpuLock, leaks,
                 resetVars>>

\* The wait returns when the thread has cpuLock again; once the mutex is
\* destroyed it may return without it.
CpuWoken(c) ==
  /\ pc[c] = "woken"
  /\ \/ /\ cpuLock = NoThread
        /\ cpuLock' = c
     \/ /\ Destroyed
        /\ UNCHANGED cpuLock
  /\ pc' = [pc EXCEPT ![c] = "peek"]
  /\ inside' = inside \cup {c}
  /\ UNCHANGED <<mainVars, queueVars, taskVars, lv, hand, leaks, resetVars>>

\* deMLFQ: emptyQueue is read without the lock of the queue.
CpuPeek(c) ==
  /\ pc[c] = "peek"
  /\ \/ /\ ~ emptyQueue(lv[c])
        /\ pc' = [pc EXCEPT ![c] = "lock"]
        /\ UNCHANGED lv
     \/ /\ emptyQueue(lv[c]) /\ lv[c] < 3
        /\ lv' = [lv EXCEPT ![c] = @ + 1]
        /\ UNCHANGED pc
     \/ /\ emptyQueue(lv[c]) /\ lv[c] = 3
        /\ lv' = [lv EXCEPT ![c] = 0]
        /\ pc' = [pc EXCEPT ![c] = "top"]
  /\ UNCHANGED <<mainVars, queueVars, taskVars, hand, cpuLockVars, resetVars>>

CpuLock(c) ==
  /\ pc[c] = "lock"
  /\ Acquire(lv[c], c)
  /\ pc' = [pc EXCEPT ![c] = "take"]
  /\ UNCHANGED <<mainVars, q, taskVars, cpuData, resetVars>>

\* dequeue returns NULL when another thread emptied the queue after the read.
CpuTake(c) ==
  /\ pc[c] = "take"
  /\ dequeue(lv[c])
  /\ Release(lv[c])
  /\ lv' = [lv EXCEPT ![c] = 0]
  /\ \/ /\ emptyQueue(lv[c])
        /\ pc' = [pc EXCEPT ![c] = "top"]
        /\ UNCHANGED hand
     \/ /\ ~ emptyQueue(lv[c])
        /\ pc' = [pc EXCEPT ![c] = "run"]
        /\ hand' = [hand EXCEPT ![c] = Head(q[lv[c]])]
  /\ UNCHANGED <<mainVars, taskVars, cpuLockVars, resetVars>>

\* The response time is stamped when the field still looks unset.
Stamp(t) ==
  response' = [response EXCEPT ![t] = IF @ = "zero" THEN "first" ELSE @]

\* Mutant: a demoted task keeps the time it spent.
ChargeKeepsTime(t, n) ==
  /\ length' = [length EXCEPT ![t] = @ - n]
  /\ timeSpend' = [timeSpend EXCEPT ![t] = @ + n]
  /\ priority' = [priority EXCEPT ![t] =
                    IF @ < 3 /\ timeSpend[t] + n > Allot THEN @ + 1 ELSE @]

\* The task used n units and is not finished by that alone: demotion.
Charge(t, n) ==
  LET spent == timeSpend[t] + n
      demote == priority[t] < 3 /\ spent > Allot
  IN  /\ length' = [length EXCEPT ![t] = @ - n]
      /\ priority' = [priority EXCEPT ![t] = IF demote THEN @ + 1 ELSE @]
      /\ timeSpend' = [timeSpend EXCEPT ![t] = IF demote THEN 0 ELSE spent]

\* What (rand() % Min(len, Quantum)) + 1 may be: the remainder by a negative
\* length is that by its absolute value, and where the division by zero does
\* not trap it may yield anything.
Turns(len) ==
  CASE len >= Quantum -> 1 .. Quantum
    [] len > 0 /\ len < Quantum -> 1 .. len
    [] len = 0 -> 1 .. Quantum
    [] len < 0 -> 1 .. -len

\* Mutant: a task that ends within the quantum keeps its length.
CpuRunKeepsLength(c) ==
  LET t == hand[c] IN
  /\ pc[c] = "run" /\ length[t] <= Quantum
  /\ Stamp(t)
  /\ pc' = [pc EXCEPT ![c] = "done"]
  /\ UNCHANGED <<mainVars, queueVars, cpuData, resetVars, length, priority,
                 timeSpend>>

\* No I/O: the task runs for a quantum, or to its end.
CpuRun(c) ==
  LET t == hand[c] IN
  /\ pc[c] = "run"
  /\ Stamp(t)
  /\ \/ /\ length[t] <= Quantum
        /\ length' = [length EXCEPT ![t] = 0]
        /\ pc' = [pc EXCEPT ![c] = "done"]
        /\ UNCHANGED <<priority, timeSpend>>
     \/ /\ length[t] > Quantum
        /\ Charge(t, Quantum)
        /\ pc' = [pc EXCEPT ![c] = "enq"]
  /\ UNCHANGED <<mainVars, queueVars, cpuData, resetVars>>

\* I/O: the task runs for (rand() % Min(length, quantum)) + 1.
CpuRunIO(c) ==
  LET t == hand[c] IN
  /\ pc[c] = "run"
  /\ Stamp(t)
  /\ \E n \in Turns(length[t]) :
       /\ Charge(t, n)
       /\ pc' = [pc EXCEPT ![c] = IF length[t] - n > 0 THEN "enq" ELSE "done"]
  /\ UNCHANGED <<mainVars, queueVars, cpuData, resetVars>>

\* rand() % 0 with I/O on a task without work: the signal ends the process.
CpuTrap(c) ==
  /\ pc[c] = "run" /\ length[hand[c]] = 0
  /\ Stamp(hand[c])
  /\ pc' = [pc EXCEPT ![c] = "trap"]
  /\ UNCHANGED <<mainVars, queueVars, priority, length, timeSpend, cpuData,
                 resetVars>>

\* Mutant: every task is put back under Alock.
CpuEnqLockFirst(c) ==
  /\ pc[c] = "enq"
  /\ Acquire(0, c)
  /\ pc' = [pc EXCEPT ![c] = "put"]
  /\ UNCHANGED <<mainVars, q, taskVars, cpuData, resetVars>>

\* enMLFQ: the queue of the task's priority.
CpuEnqLock(c) ==
  /\ pc[c] = "enq"
  /\ Acquire(priority[hand[c]], c)
  /\ pc' = [pc EXCEPT ![c] = "put"]
  /\ UNCHANGED <<mainVars, q, taskVars, cpuData, resetVars>>

CpuEnqPut(c) ==
  /\ pc[c] = "put"
  /\ enqueue(priority[hand[c]], hand[c])
  /\ Release(priority[hand[c]])
  /\ hand' = [hand EXCEPT ![c] = NoTask]
  /\ pc' = [pc EXCEPT ![c] = "top"]
  /\ UNCHANGED <<mainVars, taskVars, lv, cpuLockVars, resetVars>>

\* enterDone.
CpuDoneLock(c) ==
  /\ pc[c] = "done"
  /\ Acquire(Done, c)
  /\ pc' = [pc EXCEPT ![c] = "putdone"]
  /\ UNCHANGED <<mainVars, q, taskVars, cpuData, resetVars>>

CpuDonePut(c) ==
  /\ pc[c] = "putdone"
  /\ enqueue(Done, hand[c])
  /\ hand' = [hand EXCEPT ![c] = NoTask]
  /\ pc' = [pc EXCEPT ![c] = "count"]
  /\ UNCHANGED <<mainVars, lock, taskVars, lv, cpuLockVars, resetVars>>

CpuCount(c) ==
  /\ pc[c] = "count"
  /\ doneTask' = doneTask + 1
  /\ Release(Done)
  /\ pc' = [pc EXCEPT ![c] = "top"]
  /\ UNCHANGED <<mainPc, createTask, Terminate, reported, q, taskVars, lv,
                 hand, cpuLockVars, resetVars>>

CpuDispatch(c) == CpuTop(c) \/ CpuWait(c) \/ CpuSpurious(c) \/ CpuWoken(c)
                    \/ CpuPeek(c) \/ CpuLock(c) \/ CpuTake(c)
CpuExecute(c)  == CpuRun(c) \/ CpuRunIO(c) \/ CpuTrap(c) \/ CpuEnqLock(c) \/ CpuEnqPut(c)
                    \/ CpuDoneLock(c) \/ CpuDonePut(c) \/ CpuCount(c)
Cpu(c) == CpuDispatch(c) \/ CpuExecute(c)

-----------------------------------------------------------------------------
(* resetThread and resetMLFQ.                                              *)

ResetTop ==
  /\ rpc = "top"
  /\ rpc' = IF Terminate THEN "exit" ELSE "asleep"
  /\ UNCHANGED <<mainVars, queueVars, taskVars, cpuVars, rlv, rhand>>

ResetWake ==
  /\ rpc = "asleep"
  /\ rpc' = "lock"
  /\ rlv' = 1
  /\ UNCHANGED <<mainVars, queueVars, taskVars, cpuVars, rhand>>

ResetLock ==
  /\ rpc = "lock"
  /\ Acquire(rlv, "reset")
  /\ rpc' = "drain"
  /\ UNCHANGED <<mainVars, q, taskVars, cpuVars, rlv, rhand>>

\* Mutant: the priority is left as it was.
ResetTakeKeepsPriority ==
  /\ rpc = "drain" /\ ~ emptyQueue(rlv)
  /\ dequeue(rlv)
  /\ rhand' = Head(q[rlv])
  /\ timeSpend' = [timeSpend EXCEPT ![Head(q[rlv])] = 0]
  /\ rpc' = "move"
  /\ UNCHANGED <<mainVars, lock, priority, length, response, cpuVars, rlv>>

ResetTake ==
  /\ rpc = "drain" /\ ~ emptyQueue(rlv)
  /\ dequeue(rlv)
  /\ rhand' = Head(q[rlv])
  /\ priority' = [priority EXCEPT ![Head(q[rlv])] = 0]
  /\ timeSpend' = [timeSpend EXCEPT ![Head(q[rlv])] = 0]
  /\ rpc' = "move"
  /\ UNCHANGED <<mainVars, lock, length, response, cpuVars, rlv>>

\* enMLFQ from within the drain: the lock of the queue of the task's priority,
\* which is now 0, is taken while the level's lock is held.
ResetMove ==
  /\ rpc = "move"
  /\ Acquire(priority[rhand], "reset")
  /\ rpc' = "put"
  /\ UNCHANGED <<mainVars, q, taskVars, cpuVars, rlv, rhand>>

ResetPut ==
  /\ rpc = "put"
  /\ enqueue(priority[rhand], rhand)
  /\ Release(priority[rhand])
  /\ rhand' = NoTask
  /\ rpc' = "drain"
  /\ UNCHANGED <<mainVars, taskVars, cpuVars, rlv>>

\* Mutant: the locks of the middle levels are kept.
ResetNextKeepsLock ==
  /\ rpc = "drain" /\ emptyQueue(rlv)
  /\ IF rlv < 3 THEN rpc' = "lock" /\ rlv' = rlv + 1 /\ UNCHANGED lock
                ELSE rpc' = "top"  /\ rlv' = 1 /\ Release(rlv)
  /\ UNCHANGED <<mainVars, q, taskVars, cpuVars, rhand>>

\* Mutant: the boost goes on to the queue after D, which is Done.
ResetNextDone ==
  /\ rpc = "drain" /\ emptyQueue(rlv)
  /\ Release(rlv)
  /\ IF rlv <= 3 THEN rpc' = "lock" /\ rlv' = rlv + 1
                 ELSE rpc' = "top"  /\ rlv' = 1
  /\ UNCHANGED <<mainVars, q, taskVars, cpuVars, rhand>>

ResetNext ==
  /\ rpc = "drain" /\ emptyQueue(rlv)
  /\ Release(rlv)
  /\ IF rlv < 3 THEN rpc' = "lock" /\ rlv' = rlv + 1
                ELSE rpc' = "top"  /\ rlv' = 1
  /\ UNCHANGED <<mainVars, q, taskVars, cpuVars, rhand>>

Reset == ResetTop \/ ResetWake \/ ResetLock \/ ResetTake \/ ResetMove
           \/ ResetPut \/ ResetNext

-----------------------------------------------------------------------------
(* After the queues are freed a thread that looks at one reads freed       *)
(* memory: it may find the queue empty as it was, or bring the process     *)
(* down.                                                                   *)
UseAfterFree ==
  /\ Freed
  /\ rpc = "drain" \/ \E c \in CPU : pc[c] \in {"peek", "take"}
  /\ mainPc' = "crashed"
  /\ UNCHANGED <<mainData, queueVars, taskVars, cpuVars, resetVars>>

\* The end of the process ends every thread.
Ended == ~ Alive /\ UNCHANGED vars

Next ==
  \/ Alive /\ (Main \/ Reset \/ UseAfterFree \/ \E c \in CPU : Cpu(c))
  \/ Ended

Spec == Init /\ [][Next]_vars

(***************************************************************************)
(* Every thread keeps running, and a thread blocked on a mutex that is     *)
(* released again and again gets it in the end: the boost thread, the only *)
(* one that keeps a level locked, sleeps between two passes.  Nothing      *)
(* forces a wakeup that no signal asked for.                               *)
(***************************************************************************)
Fairness ==
  /\ SF_vars(Alive /\ Main)
  /\ SF_vars(Alive /\ Reset)
  /\ \A c \in CPU : SF_vars(Alive /\ (pc[c] # "sleep" /\ Cpu(c)))

FairSpec == Spec /\ Fairness
=============================================================================
