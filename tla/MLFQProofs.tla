----------------------------- MODULE MLFQProofs -----------------------------
(***************************************************************************)
(* Proofs about the MLFQ simulator, for any number of CPU threads and      *)
(* tasks, any lengths, quantum and allotment.                              *)
(***************************************************************************)
EXTENDS MLFQProps, TLAPS, FiniteSetTheorems, SequenceTheorems

USE DEF Level, Queue, Done

(***************************************************************************)
(* A thread about to use the task it holds holds one, and main finds Done  *)
(* non-empty under Donelock, being the only thread that takes from it.     *)
(***************************************************************************)
MainHolds ==
  /\ mainPc \in {"enq", "put"} => createTask \in Task
  /\ mainPc = "take" => q[Done] # <<>>

CpuHolds ==
  \A c \in CPU :
    pc[c] \in {"run", "trap", "enq", "put", "done", "putdone"} => hand[c] \in Task

ResetHolds == rpc \in {"move", "put"} => rhand \in Task

TypeInv == TypeOK /\ MainHolds /\ CpuHolds /\ ResetHolds

-----------------------------------------------------------------------------
(* Lemmas about the operators of the model.                                *)

LEMMA AppendFacts ==
  ASSUME NEW S, NEW s \in Seq(S), NEW e \in S
  PROVE  Append(s, e) \in Seq(S) /\ Append(s, e) # <<>>
  BY AppendProperties

LEMMA HeadFacts ==
  ASSUME NEW S, NEW s \in Seq(S), s # <<>>
  PROVE  Head(s) \in S /\ Head(s) = s[1] /\ Tail(s) \in Seq(S)
  BY HeadTailProperties

\* enqueue keeps the queues well-typed and changes one of them.
LEMMA EnqueueFacts ==
  ASSUME QueueTypes, NEW i \in Queue, NEW t \in Task, enqueue(i, t)
  PROVE  /\ q' \in [Queue -> Seq(Task)]
         /\ q'[i] # <<>>
         /\ \A j \in Queue : j # i => q'[j] = q[j]
<1>1. q \in [Queue -> Seq(Task)] /\ q[i] \in Seq(Task)
  BY DEF QueueTypes
<1>2. Append(q[i], t) \in Seq(Task) /\ Append(q[i], t) # <<>>
  BY <1>1, AppendFacts
<1> QED
  BY <1>1, <1>2 DEF enqueue

\* So does dequeue, and the head of a non-empty queue is a task.
LEMMA DequeueFacts ==
  ASSUME QueueTypes, NEW i \in Queue, dequeue(i)
  PROVE  /\ q' \in [Queue -> Seq(Task)]
         /\ q[i] # <<>> => Head(q[i]) \in Task /\ q[i][1] = Head(q[i])
         /\ \A j \in Queue : j # i => q'[j] = q[j]
<1>1. q \in [Queue -> Seq(Task)] /\ q[i] \in Seq(Task)
  BY DEF QueueTypes
<1>2. q[i] # <<>> => /\ Head(q[i]) \in Task /\ q[i][1] = Head(q[i])
                     /\ Tail(q[i]) \in Seq(Task)
  BY <1>1, HeadFacts
<1> QED
  BY <1>1, <1>2 DEF dequeue

\* Locking and unlocking keep the owners well-typed.
LEMMA LockFacts ==
  ASSUME QueueTypes, NEW i \in Queue, NEW th \in Thread, Acquire(i, th) \/ Release(i)
  PROVE  lock' \in [Queue -> Thread \cup {NoThread}]
  BY DEF QueueTypes, Acquire, Release

\* A signal moves at most one CPU thread, from "sleep" to "woken".
LEMMA SignalFacts ==
  ASSUME CpuTypes, CpuHolds, Signal, UNCHANGED cpuData
  PROVE  CpuTypes' /\ CpuHolds'
<1> USE DEF cpuData, cpuLockVars, CpuTypes, CpuHolds
<1>1. CASE UNCHANGED pc
  BY <1>1
<1>2. ASSUME NEW c \in CPU, pc[c] = "sleep", pc' = [pc EXCEPT ![c] = "woken"]
      PROVE  CpuTypes' /\ CpuHolds'
  BY <1>2 DEF CpuPc
<1> QED
  BY <1>1, <1>2 DEF Signal

\* What a step leaves alone stays well-typed.
LEMMA Frame ==
  /\ MainTypes /\ UNCHANGED mainVars => MainTypes'
  /\ QueueTypes /\ UNCHANGED queueVars => QueueTypes'
  /\ TaskTypes /\ UNCHANGED taskVars => TaskTypes'
  /\ CpuTypes /\ CpuHolds /\ UNCHANGED cpuVars => CpuTypes' /\ CpuHolds'
  /\ ResetTypes /\ ResetHolds /\ UNCHANGED resetVars => ResetTypes' /\ ResetHolds'
  /\ MainHolds /\ UNCHANGED <<mainVars, queueVars>> => MainHolds'
  BY DEF MainTypes, QueueTypes, TaskTypes, CpuTypes, ResetTypes, MainHolds,
         CpuHolds, ResetHolds, mainVars, mainData, queueVars, taskVars, cpuVars,
         cpuData, cpuLockVars, resetVars

\* A turn with I/O uses at least a unit, whatever the length, and no more than
\* a quantum and than is left of a task with work.
LEMMA TurnRange ==
  ASSUME NEW len \in Int, NEW n \in Turns(len)
  PROVE  /\ n \in Nat \ {0}
         /\ len > 0 => n <= Quantum /\ n <= len
<1>1. Quantum \in Nat \ {0}
  BY MLFQAssumption DEF MLFQAssumption
<1>2. CASE len >= Quantum
  BY <1>1, <1>2 DEF Turns
<1>3. CASE len > 0 /\ len < Quantum
  BY <1>1, <1>3 DEF Turns
<1>4. CASE len = 0
  BY <1>1, <1>4 DEF Turns
<1>5. CASE len < 0
  BY <1>1, <1>5 DEF Turns
<1> QED
  BY <1>1, <1>2, <1>3, <1>4, <1>5

\* One CPU thread moves and keeps what it holds.
LEMMA CpuMove ==
  ASSUME CpuTypes, CpuHolds, NEW c \in CPU, NEW x \in CpuPc,
         pc' = [pc EXCEPT ![c] = x],
         UNCHANGED cpuData,
         x \in {"run", "trap", "enq", "put", "done", "putdone"} => hand[c] \in Task
  PROVE  CpuTypes' /\ CpuHolds'
  BY DEF CpuTypes, CpuHolds, cpuData, cpuLockVars

-----------------------------------------------------------------------------
LEMMA TypeInit == Init => TypeInv
<1> SUFFICES ASSUME Init PROVE TypeInv
  OBVIOUS
<1> USE DEF Init
<1>1. MainTypes /\ MainHolds
  <2>1. /\ mainPc = "load" /\ createTask = 0 /\ doneTask = 0
        /\ Terminate = FALSE /\ reported = {}
    OBVIOUS
  <2>2. createTask \in 0 .. MaxTasks
    BY <2>1, MLFQAssumption DEF MLFQAssumption
  <2> HIDE DEF Init
  <2> QED
    BY <2>1, <2>2 DEF MainTypes, MainHolds
<1>2. QueueTypes
  <2>1. q \in [Queue -> Seq(Task)]
    OBVIOUS
  <2>2. lock \in [Queue -> Thread \cup {NoThread}]
    OBVIOUS
  <2> QED
    BY <2>1, <2>2 DEF QueueTypes
<1>3. TaskTypes
  BY DEF TaskTypes
<1>4. CpuTypes /\ CpuHolds
  <2>1. /\ pc \in [CPU -> CpuPc] /\ lv \in [CPU -> Level]
        /\ \A c \in CPU : pc[c] = "top"
    BY DEF CpuPc
  <2>2. hand \in [CPU -> Task \cup {NoTask}]
    OBVIOUS
  <2> QED
    BY <2>1, <2>2 DEF CpuTypes, CpuHolds
<1>5. ResetTypes /\ ResetHolds
  BY DEF ResetTypes, ResetHolds
<1> QED
  BY <1>1, <1>2, <1>3, <1>4, <1>5 DEF TypeInv, TypeOK

LEMMA MainType == TypeInv /\ Main => TypeInv'
<1> SUFFICES ASSUME TypeInv, Main PROVE TypeInv'
  OBVIOUS
<1>0. /\ MainTypes /\ QueueTypes /\ TaskTypes /\ CpuTypes /\ ResetTypes
      /\ MainHolds /\ CpuHolds /\ ResetHolds
  BY DEF TypeInv, TypeOK
<1>a. ASSUME MainTypes', QueueTypes', TaskTypes', CpuTypes', ResetTypes',
             MainHolds', CpuHolds', ResetHolds'
      PROVE  TypeInv'
  BY <1>a DEF TypeInv, TypeOK
<1>b. ASSUME NEW from, NEW to, MainGoto(from, to),
             to \in {"dispatch", "term", "report", "destroy", "free", "return",
                     "halted", "exited", "trapped"}
      PROVE  TypeInv'
  <2>1. QueueTypes' /\ TaskTypes' /\ CpuTypes' /\ CpuHolds' /\ ResetTypes'
          /\ ResetHolds'
    BY <1>0, <1>b, Frame DEF MainGoto
  <2>2. MainTypes' /\ MainHolds'
    BY <1>0, <1>b DEF MainGoto, MainTypes, MainHolds, mainData, queueVars
  <2> QED
    BY <1>a, <2>1, <2>2
<1>1. CASE LoadTask
  <2>1. QueueTypes' /\ CpuTypes' /\ CpuHolds' /\ ResetTypes' /\ ResetHolds'
    BY <1>0, <1>1, Frame DEF LoadTask
  <2>2. createTask + 1 \in Task
    BY <1>0, <1>1, MLFQAssumption DEF LoadTask, MainTypes, Task, MLFQAssumption
  <2>3. MainTypes' /\ MainHolds'
    BY <1>0, <1>1, <2>2 DEF LoadTask, MainTypes, MainHolds, Task
  <2>4. length' \in [Task -> Int] /\ response' \in [Task -> {"zero", "junk", "first"}]
    BY <1>0, <1>1, <2>2, MLFQAssumption DEF LoadTask, TaskTypes, MLFQAssumption
  <2>5. priority' \in [Task -> Level] /\ timeSpend' \in [Task -> Nat]
    BY <1>0, <1>1, <2>2 DEF LoadTask, TaskTypes
  <2> QED
    BY <1>a, <2>1, <2>3, <2>4, <2>5 DEF TaskTypes
<1>2. CASE LoadLock
  <2>1. TaskTypes' /\ CpuTypes' /\ CpuHolds' /\ ResetTypes' /\ ResetHolds'
    BY <1>0, <1>2, Frame DEF LoadLock
  <2>2. MainTypes' /\ MainHolds'
    BY <1>0, <1>2 DEF LoadLock, MainTypes, MainHolds, mainData
  <2>3. lock' \in [Queue -> Thread \cup {NoThread}]
    BY <1>0, <1>2, LockFacts DEF LoadLock, Thread
  <2> QED
    BY <1>0, <1>2, <1>a, <2>1, <2>2, <2>3 DEF LoadLock, QueueTypes
<1>3. CASE LoadPut
  <2>1. TaskTypes' /\ CpuTypes' /\ CpuHolds' /\ ResetTypes' /\ ResetHolds'
    BY <1>0, <1>3, Frame DEF LoadPut
  <2>2. MainTypes' /\ MainHolds'
    BY <1>0, <1>3 DEF LoadPut, MainTypes, MainHolds, mainData
  <2>3. q' \in [Queue -> Seq(Task)]
    BY <1>0, <1>3, EnqueueFacts DEF LoadPut, MainHolds
  <2>4. lock' \in [Queue -> Thread \cup {NoThread}]
    BY <1>0, <1>3 DEF LoadPut, Release, QueueTypes
  <2> QED
    BY <1>a, <2>1, <2>2, <2>3, <2>4 DEF QueueTypes
<1>4. CASE LoadDelay
  <2>1. MainTypes' /\ QueueTypes' /\ TaskTypes' /\ MainHolds'
    BY <1>0, <1>4, Frame DEF LoadDelay
  <2>2. CpuTypes' /\ CpuHolds'
    BY <1>0, <1>4, SignalFacts DEF LoadDelay
  <2>3. ResetTypes' /\ ResetHolds'
    BY <1>0, <1>4 DEF LoadDelay, ResetTypes, ResetHolds
  <2> QED
    BY <1>a, <2>1, <2>2, <2>3
<1>5. CASE LoadBadLine \/ LoadEnd
  BY <1>5, <1>b DEF LoadBadLine, LoadEnd
<1>6. CASE DispatchSignal
  <2>1. MainTypes' /\ QueueTypes' /\ TaskTypes' /\ MainHolds' /\ ResetTypes'
          /\ ResetHolds'
    BY <1>0, <1>6, Frame DEF DispatchSignal
  <2>2. CpuTypes' /\ CpuHolds'
    BY <1>0, <1>6, SignalFacts DEF DispatchSignal
  <2> QED
    BY <1>a, <2>1, <2>2
<1>7. CASE DispatchEnd
  BY <1>7, <1>b DEF DispatchEnd
<1>8. CASE SetTerminate
  <2>1. QueueTypes' /\ TaskTypes' /\ CpuTypes' /\ CpuHolds' /\ ResetTypes'
          /\ ResetHolds'
    BY <1>0, <1>8, Frame DEF SetTerminate
  <2>2. MainTypes' /\ MainHolds'
    BY <1>0, <1>8 DEF SetTerminate, MainTypes, MainHolds
  <2> QED
    BY <1>a, <2>1, <2>2
<1>9. CASE DrainLock
  <2>1. TaskTypes' /\ CpuTypes' /\ CpuHolds' /\ ResetTypes' /\ ResetHolds'
    BY <1>0, <1>9, Frame DEF DrainLock
  <2>2. MainTypes' /\ MainHolds'
    BY <1>0, <1>9 DEF DrainLock, MainTypes, MainHolds, mainData, emptyQueue
  <2>3. lock' \in [Queue -> Thread \cup {NoThread}]
    BY <1>0, <1>9, LockFacts DEF DrainLock, Thread
  <2> QED
    BY <1>0, <1>9, <1>a, <2>1, <2>2, <2>3 DEF DrainLock, QueueTypes
<1>10. CASE DrainTake
  <2>1. TaskTypes' /\ CpuTypes' /\ CpuHolds' /\ ResetTypes' /\ ResetHolds'
    BY <1>0, <1>10, Frame DEF DrainTake
  <2>2. q' \in [Queue -> Seq(Task)] /\ q[Done][1] \in Task
    BY <1>0, <1>10, DequeueFacts DEF DrainTake, MainHolds
  <2>3. MainTypes' /\ MainHolds'
    BY <1>0, <1>10, <2>2 DEF DrainTake, MainTypes, MainHolds
  <2>4. lock' \in [Queue -> Thread \cup {NoThread}]
    BY <1>0, <1>10 DEF DrainTake, Release, QueueTypes
  <2> QED
    BY <1>a, <2>1, <2>2, <2>3, <2>4 DEF QueueTypes
<1>11. CASE DrainEnd \/ Report
  BY <1>11, <1>b DEF DrainEnd, Report
<1>12. CASE DestroyMutexes \/ FreeQueues \/ Return
  BY <1>12, <1>b DEF DestroyMutexes, FreeQueues, Return
<1> QED
  BY <1>1, <1>2, <1>3, <1>4, <1>5, <1>6, <1>7, <1>8, <1>9, <1>10, <1>11, <1>12
     DEF Main, MainLoad, MainEnd

LEMMA CpuType == ASSUME NEW c \in CPU PROVE TypeInv /\ Cpu(c) => TypeInv'
<1> SUFFICES ASSUME TypeInv, Cpu(c) PROVE TypeInv'
  OBVIOUS
<1>0. /\ MainTypes /\ QueueTypes /\ TaskTypes /\ CpuTypes /\ ResetTypes
      /\ MainHolds /\ CpuHolds /\ ResetHolds
  BY DEF TypeInv, TypeOK
<1>a. ASSUME MainTypes', QueueTypes', TaskTypes', CpuTypes', ResetTypes',
             MainHolds', CpuHolds', ResetHolds'
      PROVE  TypeInv'
  BY <1>a DEF TypeInv, TypeOK
<1>b. ASSUME UNCHANGED <<mainVars, queueVars, taskVars, resetVars>>,
             CpuTypes', CpuHolds'
      PROVE  TypeInv'
  BY <1>0, <1>a, <1>b, Frame
<1> USE DEF CpuPc
<1>1. CASE CpuTop(c)
  BY <1>0, <1>1, <1>b, CpuMove DEF CpuTop
<1>2. CASE CpuWait(c)
  <2>1. CpuTypes' /\ CpuHolds'
    BY <1>0, <1>2 DEF CpuWait, CpuTypes, CpuHolds
  <2> QED
    BY <1>2, <1>b, <2>1 DEF CpuWait
<1>3. CASE CpuSpurious(c)
  BY <1>0, <1>3, <1>b, CpuMove DEF CpuSpurious
<1>4. CASE CpuWoken(c)
  <2>1. CpuTypes' /\ CpuHolds'
    BY <1>0, <1>4 DEF CpuWoken, CpuTypes, CpuHolds
  <2> QED
    BY <1>4, <1>b, <2>1 DEF CpuWoken
<1>5. CASE CpuPeek(c)
  <2>1. CpuTypes' /\ CpuHolds'
    BY <1>0, <1>5 DEF CpuPeek, CpuTypes, CpuHolds, cpuLockVars
  <2> QED
    BY <1>5, <1>b, <2>1 DEF CpuPeek
<1>6. CASE CpuLock(c)
  <2>1. MainTypes' /\ TaskTypes' /\ ResetTypes' /\ ResetHolds'
    BY <1>0, <1>6, Frame DEF CpuLock
  <2>2. lock' \in [Queue -> Thread \cup {NoThread}]
    BY <1>0, <1>6, LockFacts DEF CpuLock, Thread, CpuTypes
  <2>3. CpuTypes' /\ CpuHolds'
    BY <1>0, <1>6, CpuMove DEF CpuLock
  <2>4. MainHolds'
    BY <1>0, <1>6 DEF CpuLock, MainHolds, mainVars, mainData
  <2> QED
    BY <1>0, <1>6, <1>a, <2>1, <2>2, <2>3, <2>4 DEF CpuLock, QueueTypes
<1>7. CASE CpuTake(c)
  <2>1. MainTypes' /\ TaskTypes' /\ ResetTypes' /\ ResetHolds'
    BY <1>0, <1>7, Frame DEF CpuTake
  <2>2. lv[c] \in Queue \ {Done}
    BY <1>0 DEF CpuTypes
  <2>3. /\ q' \in [Queue -> Seq(Task)] /\ q'[Done] = q[Done]
        /\ ~ emptyQueue(lv[c]) => Head(q[lv[c]]) \in Task
    BY <1>0, <1>7, <2>2, DequeueFacts DEF CpuTake, emptyQueue
  <2>4. lock' \in [Queue -> Thread \cup {NoThread}]
    BY <1>0, <1>7 DEF CpuTake, Release, QueueTypes
  <2>5. CpuTypes' /\ CpuHolds'
    <3>1. CASE emptyQueue(lv[c])
      BY <1>0, <1>7, <3>1 DEF CpuTake, CpuTypes, CpuHolds, cpuLockVars
    <3>2. CASE ~ emptyQueue(lv[c])
      <4>1. hand' = [hand EXCEPT ![c] = Head(q[lv[c]])] /\ pc' = [pc EXCEPT ![c] = "run"]
        BY <1>7, <3>2 DEF CpuTake
      <4>2. hand' \in [CPU -> Task \cup {NoTask}]
        BY <1>0, <2>3, <3>2, <4>1 DEF CpuTypes
      <4>3. CpuTypes'
        BY <1>0, <1>7, <4>1, <4>2 DEF CpuTake, CpuTypes, cpuLockVars
      <4> QED
        BY <1>0, <2>3, <3>2, <4>1, <4>3 DEF CpuTypes, CpuHolds
    <3> QED
      BY <3>1, <3>2
  <2>6. MainHolds'
    BY <1>0, <1>7, <2>3 DEF CpuTake, MainHolds, mainVars, mainData
  <2> QED
    BY <1>a, <2>1, <2>3, <2>4, <2>5, <2>6 DEF QueueTypes
<1>8. CASE CpuRun(c) \/ CpuRunIO(c)
  <2>1. MainTypes' /\ QueueTypes' /\ ResetTypes' /\ ResetHolds' /\ MainHolds'
    BY <1>0, <1>8, Frame DEF CpuRun, CpuRunIO
  <2>2. hand[c] \in Task
    BY <1>0, <1>8 DEF CpuRun, CpuRunIO, CpuTrap, CpuHolds
  <2>3. CpuTypes' /\ CpuHolds'
    BY <1>0, <1>8, <2>2, CpuMove DEF CpuRun, CpuRunIO
  <2>4. response' \in [Task -> {"zero", "junk", "first"}]
    BY <1>0, <1>8, <2>2 DEF CpuRun, CpuRunIO, CpuTrap, Stamp, TaskTypes
  <2>5. ASSUME NEW n \in Nat, Charge(hand[c], n)
        PROVE  /\ priority' \in [Task -> Level] /\ length' \in [Task -> Int]
               /\ timeSpend' \in [Task -> Nat]
    BY <1>0, <2>2, <2>5 DEF Charge, TaskTypes
  <2>6. /\ priority' \in [Task -> Level] /\ length' \in [Task -> Int]
        /\ timeSpend' \in [Task -> Nat]
    <3>1. CASE CpuRun(c)
      BY <1>0, <2>2, <2>5, <3>1, MLFQAssumption
      DEF CpuRun, TaskTypes, MLFQAssumption
    <3>2. CASE CpuRunIO(c)
      <4>1. PICK n \in Turns(length[hand[c]]) : Charge(hand[c], n)
        BY <3>2 DEF CpuRunIO
      <4> QED
        BY <1>0, <2>2, <2>5, <4>1, TurnRange DEF TaskTypes
    <3> QED
      BY <1>8, <3>1, <3>2
  <2> QED
    BY <1>a, <2>1, <2>3, <2>4, <2>6 DEF TaskTypes
<1>12. CASE CpuTrap(c)
  <2>1. MainTypes' /\ QueueTypes' /\ ResetTypes' /\ ResetHolds' /\ MainHolds'
    BY <1>0, <1>12, Frame DEF CpuTrap
  <2>2. hand[c] \in Task
    BY <1>0, <1>12 DEF CpuTrap, CpuHolds
  <2>3. CpuTypes' /\ CpuHolds'
    BY <1>0, <1>12, <2>2, CpuMove DEF CpuTrap
  <2>4. TaskTypes'
    BY <1>0, <1>12, <2>2 DEF CpuTrap, Stamp, TaskTypes
  <2> QED
    BY <1>a, <2>1, <2>3, <2>4
<1>9. CASE CpuEnqLock(c) \/ CpuDoneLock(c)
  <2>1. MainTypes' /\ TaskTypes' /\ ResetTypes' /\ ResetHolds'
    BY <1>0, <1>9, Frame DEF CpuEnqLock, CpuDoneLock
  <2>2. hand[c] \in Task
    BY <1>0, <1>9 DEF CpuEnqLock, CpuDoneLock, CpuHolds
  <2>3. lock' \in [Queue -> Thread \cup {NoThread}]
    BY <1>0, <1>9, <2>2, LockFacts DEF CpuEnqLock, CpuDoneLock, Thread, TaskTypes
  <2>4. CpuTypes' /\ CpuHolds'
    BY <1>0, <1>9, <2>2, CpuMove DEF CpuEnqLock, CpuDoneLock
  <2>5. MainHolds' /\ q' = q
    BY <1>0, <1>9 DEF CpuEnqLock, CpuDoneLock, MainHolds, mainVars, mainData
  <2> QED
    BY <1>0, <1>a, <2>1, <2>3, <2>4, <2>5 DEF QueueTypes
<1>10. CASE CpuEnqPut(c) \/ CpuDonePut(c)
  <2>1. MainTypes' /\ TaskTypes' /\ ResetTypes' /\ ResetHolds'
    BY <1>0, <1>10, Frame DEF CpuEnqPut, CpuDonePut
  <2>2. hand[c] \in Task /\ priority[hand[c]] \in Queue \ {Done}
    BY <1>0, <1>10 DEF CpuEnqPut, CpuDonePut, CpuHolds, TaskTypes
  <2>3. /\ q' \in [Queue -> Seq(Task)]
        /\ q[Done] # <<>> => q'[Done] # <<>>
    BY <1>0, <1>10, <2>2, EnqueueFacts DEF CpuEnqPut, CpuDonePut
  <2>4. lock' \in [Queue -> Thread \cup {NoThread}]
    BY <1>0, <1>10 DEF CpuEnqPut, CpuDonePut, Release, QueueTypes
  <2>5. CpuTypes' /\ CpuHolds'
    BY <1>0, <1>10 DEF CpuEnqPut, CpuDonePut, CpuTypes, CpuHolds, cpuLockVars
  <2>6. MainHolds'
    BY <1>0, <1>10, <2>3 DEF CpuEnqPut, CpuDonePut, MainHolds, mainVars, mainData
  <2> QED
    BY <1>a, <2>1, <2>3, <2>4, <2>5, <2>6 DEF QueueTypes
<1>11. CASE CpuCount(c)
  <2>1. TaskTypes' /\ ResetTypes' /\ ResetHolds'
    BY <1>0, <1>11, Frame DEF CpuCount
  <2>2. MainTypes' /\ MainHolds'
    BY <1>0, <1>11 DEF CpuCount, MainTypes, MainHolds
  <2>3. QueueTypes'
    BY <1>0, <1>11 DEF CpuCount, Release, QueueTypes
  <2>4. CpuTypes' /\ CpuHolds'
    BY <1>0, <1>11, CpuMove DEF CpuCount, cpuData
  <2> QED
    BY <1>a, <2>1, <2>2, <2>3, <2>4
<1> QED
  BY <1>1, <1>2, <1>3, <1>4, <1>5, <1>6, <1>7, <1>8, <1>9, <1>10, <1>11, <1>12
     DEF Cpu, CpuDispatch, CpuExecute

LEMMA ResetType == TypeInv /\ Reset => TypeInv'
<1> SUFFICES ASSUME TypeInv, Reset PROVE TypeInv'
  OBVIOUS
<1>0. /\ MainTypes /\ QueueTypes /\ TaskTypes /\ CpuTypes /\ ResetTypes
      /\ MainHolds /\ CpuHolds /\ ResetHolds
  BY DEF TypeInv, TypeOK
<1>a. ASSUME MainTypes', QueueTypes', TaskTypes', CpuTypes', ResetTypes',
             MainHolds', CpuHolds', ResetHolds'
      PROVE  TypeInv'
  BY <1>a DEF TypeInv, TypeOK
<1>1. CASE ResetTop \/ ResetWake
  <2>1. MainTypes' /\ MainHolds' /\ QueueTypes' /\ TaskTypes' /\ CpuTypes' /\ CpuHolds'
    BY <1>0, <1>1, Frame DEF ResetTop, ResetWake
  <2>2. ResetTypes' /\ ResetHolds'
    BY <1>0, <1>1 DEF ResetTop, ResetWake, ResetTypes, ResetHolds
  <2> QED
    BY <1>a, <2>1, <2>2
<1>2. CASE ResetLock \/ ResetMove \/ ResetNext
  <2> USE DEF ResetLock, ResetMove, ResetNext
  <2>1. MainTypes' /\ TaskTypes' /\ CpuTypes' /\ CpuHolds' /\ q' = q
    BY <1>0, <1>2, Frame
  <2>2. MainHolds'
    BY <1>0, <1>2 DEF MainHolds, mainVars, mainData
  <2>3. rlv \in Queue /\ "reset" \in Thread
    BY <1>0 DEF ResetTypes, Thread
  <2>4. ResetMove => priority[rhand] \in Queue
    BY <1>0 DEF ResetHolds, TaskTypes
  <2>5. lock' \in [Queue -> Thread \cup {NoThread}]
    BY <1>0, <1>2, <2>3, <2>4, LockFacts
  <2>6. ResetTypes' /\ ResetHolds'
    BY <1>0, <1>2 DEF ResetTypes, ResetHolds
  <2> QED
    BY <1>0, <1>a, <2>1, <2>2, <2>5, <2>6 DEF QueueTypes
<1>3. CASE ResetTake
  <2> USE <1>3 DEF ResetTake
  <2>1. MainTypes' /\ CpuTypes' /\ CpuHolds'
    BY <1>0, Frame
  <2>2. rlv \in Queue \ {Done}
    BY <1>0 DEF ResetTypes
  <2>3. q' \in [Queue -> Seq(Task)] /\ q'[Done] = q[Done] /\ Head(q[rlv]) \in Task
    BY <1>0, <2>2, DequeueFacts DEF emptyQueue
  <2>4. MainHolds'
    BY <1>0, <2>3 DEF MainHolds, mainVars, mainData
  <2>5. QueueTypes'
    BY <1>0, <2>3 DEF QueueTypes
  <2>6. TaskTypes'
    <3>1. /\ priority' = [priority EXCEPT ![Head(q[rlv])] = 0]
          /\ timeSpend' = [timeSpend EXCEPT ![Head(q[rlv])] = 0]
          /\ UNCHANGED <<length, response>>
      OBVIOUS
    <3>2. \A h : /\ [priority EXCEPT ![h] = 0] \in [Task -> Level]
                 /\ [timeSpend EXCEPT ![h] = 0] \in [Task -> Nat]
      <4>1. priority \in [Task -> Level] /\ timeSpend \in [Task -> Nat] /\ 0 \in Level
        BY <1>0 DEF TaskTypes
      <4> QED
        BY ONLY <4>1
    <3> QED
      BY <1>0, <3>1, <3>2 DEF TaskTypes
  <2>7. ResetTypes' /\ ResetHolds'
    BY <1>0, <2>3 DEF ResetTypes, ResetHolds
  <2> QED
    BY <1>a, <2>1, <2>4, <2>5, <2>6, <2>7
<1>4. CASE ResetPut
  <2> USE <1>4 DEF ResetPut
  <2>1. MainTypes' /\ TaskTypes' /\ CpuTypes' /\ CpuHolds'
    BY <1>0, Frame
  <2>2. rhand \in Task /\ priority[rhand] \in Queue \ {Done}
    BY <1>0 DEF ResetHolds, TaskTypes
  <2>3. q' \in [Queue -> Seq(Task)] /\ q'[Done] = q[Done]
    BY <1>0, <2>2, EnqueueFacts
  <2>4. MainHolds'
    BY <1>0, <2>3 DEF MainHolds, mainVars, mainData
  <2>5. QueueTypes'
    BY <1>0, <2>3 DEF QueueTypes, Release
  <2>6. ResetTypes' /\ ResetHolds'
    BY <1>0 DEF ResetTypes, ResetHolds
  <2> QED
    BY <1>a, <2>1, <2>4, <2>5, <2>6
<1> QED
  BY <1>1, <1>2, <1>3, <1>4 DEF Reset

LEMMA TypeNext == TypeInv /\ [Next]_vars => TypeInv'
<1> SUFFICES ASSUME TypeInv, [Next]_vars PROVE TypeInv'
  OBVIOUS
<1>1. CASE Main \/ Reset \/ \E c \in CPU : Cpu(c)
  BY <1>1, MainType, CpuType, ResetType
<1>2. CASE UseAfterFree
  <2>1. QueueTypes' /\ TaskTypes' /\ CpuTypes' /\ CpuHolds' /\ ResetTypes'
          /\ ResetHolds'
    BY <1>2, Frame DEF UseAfterFree, TypeInv, TypeOK
  <2>2. MainTypes' /\ MainHolds'
    BY <1>2 DEF UseAfterFree, TypeInv, TypeOK, MainTypes, MainHolds, mainData
  <2> QED
    BY <2>1, <2>2 DEF TypeInv, TypeOK
<1>3. CASE UNCHANGED vars
  BY <1>3, Frame DEF TypeInv, TypeOK, vars
<1> QED
  BY <1>1, <1>2, <1>3 DEF Next, Ended

(***************************************************************************)
(* TypeOK is an invariant: no step of main, a CPU thread or the boost      *)
(* thread uses a task it does not hold, takes one from an empty queue or   *)
(* demotes one below the last level.                                       *)
(***************************************************************************)
THEOREM TypeCorrect == Spec => []TypeOK
<1>1. Spec => []TypeInv
  BY TypeInit, TypeNext, PTL DEF Spec
<1>2. TypeInv => TypeOK
  BY DEF TypeInv
<1> QED
  BY <1>1, <1>2, PTL

-----------------------------------------------------------------------------
(***************************************************************************)
(* PermitBound needs only that inside stays finite; main never comes back  *)
(* from Destroyed, so the bound may lapse there for good.                  *)
(***************************************************************************)
PermitInv == TypeInv /\ PermitBound

LEMMA InsideFinite ==
  ASSUME inside \subseteq CPU, NEW c \in CPU
  PROVE  /\ IsFiniteSet(inside) /\ Cardinality(inside) \in Nat
         /\ Cardinality(inside \cup {c}) =
              IF c \in inside THEN Cardinality(inside) ELSE Cardinality(inside) + 1
         /\ Cardinality(inside \ {c}) =
              IF c \in inside THEN Cardinality(inside) - 1 ELSE Cardinality(inside)
<1>1. IsFiniteSet(inside)
  BY MLFQAssumption, FS_Subset DEF MLFQAssumption
<1> QED
  BY <1>1, FS_CardinalityType, FS_AddElement, FS_RemoveElement

LEMMA PermitInit == Init => PermitBound
<1>1. Cardinality({}) = 0
  BY FS_EmptySet
<1> QED
  BY <1>1 DEF Init, PermitBound, Permits

\* Once main destroyed the mutexes it never returns to where the bound counts.
LEMMA PermitFrame ==
  ASSUME PermitBound, Next, UNCHANGED cpuLockVars
  PROVE  PermitBound'
<1>1. (~ Destroyed /\ Alive)' => ~ Destroyed /\ Alive
  BY DEF Next, Ended, vars, mainVars, Destroyed, Alive, Main, MainLoad, MainEnd,
     LoadTask, LoadLock, LoadPut, LoadDelay, LoadBadLine, LoadEnd, MainGoto,
     DispatchSignal, DispatchEnd, SetTerminate, DrainLock, DrainTake, DrainEnd,
     Report, DestroyMutexes, FreeQueues, Return, UseAfterFree, Reset, ResetTop,
     ResetWake, ResetLock, ResetTake, ResetMove, ResetPut, ResetNext, Cpu,
     CpuDispatch, CpuExecute, CpuTop, CpuWait, CpuSpurious, CpuWoken, CpuPeek,
     CpuLock, CpuTake, CpuRun, CpuRunIO, CpuTrap, CpuEnqLock, CpuEnqPut, CpuDoneLock,
     CpuDonePut, CpuCount, cpuVars
<1> QED
  BY <1>1 DEF PermitBound, Permits, cpuLockVars

\* A step that adds at most d permits and records d releases keeps the bound.
LEMMA PermitStep ==
  ASSUME PermitBound, NEW d \in {0, 1}, NEW p \in Int, NEW p1 \in Int,
         leaks \in Nat, Permits = p, Permits' = p1, p1 <= p + d,
         leaks' = leaks + d, UNCHANGED mainPc, Alive
  PROVE  PermitBound'
<1>1. ASSUME NEW l \in Nat, p <= 1 + l PROVE p1 <= 1 + (l + d)
  BY <1>1
<1>2. p <= 1 + leaks => p1 <= 1 + (leaks + d)
  BY <1>1
<1> QED
  BY <1>2 DEF PermitBound, Destroyed, Alive

LEMMA PermitNext == PermitInv /\ [Next]_vars => PermitBound'
<1> SUFFICES ASSUME PermitInv, [Next]_vars PROVE PermitBound'
  OBVIOUS
<1>0. inside \subseteq CPU /\ cpuLock \in CPU \cup {NoThread} /\ leaks \in Nat
  BY DEF PermitInv, TypeInv, TypeOK, CpuTypes
<1>1. ASSUME NEW c \in CPU, Alive, CpuWait(c) PROVE PermitBound'
  <2> DEFINE n == Cardinality(inside)
             m == Cardinality(inside \ {c})
             p == n + IF cpuLock = NoThread THEN 1 ELSE 0
  <2>1. n \in Nat /\ m \in Nat /\ m = IF c \in inside THEN n - 1 ELSE n
    <3>1. IsFiniteSet(inside \ {c})
      BY <1>0, MLFQAssumption, FS_Subset DEF MLFQAssumption
    <3>2. m \in Nat
      BY <3>1, FS_CardinalityType
    <3> QED
      BY <1>0, <3>2, InsideFinite
  <2>2. /\ UNCHANGED mainPc /\ Permits = p
        /\ Permits' = m + IF cpuLock' = NoThread THEN 1 ELSE 0
    <3>1. UNCHANGED mainPc /\ inside' = inside \ {c}
      BY <1>1 DEF CpuWait, mainVars
    <3>2. Permits' = Cardinality(inside') + IF cpuLock' = NoThread THEN 1 ELSE 0
      BY DEF Permits
    <3>3. Permits = p
      BY DEF Permits
    <3> QED
      BY <3>1, <3>2, <3>3
  <2>3. PermitBound
    BY DEF PermitInv
  <2> HIDE DEF n, m
  <2>4. p \in Int /\ m \in Int /\ m + 1 \in Int /\ 0 \in {0, 1} /\ 1 \in {0, 1}
    BY <2>1
  <2>5. CASE cpuLock' = cpuLock /\ leaks' = leaks
    <3>1. Permits' = m + (IF cpuLock = NoThread THEN 1 ELSE 0) /\ leaks' = leaks + 0
      BY <1>0, <2>2, <2>5
    <3>2. m + (IF cpuLock = NoThread THEN 1 ELSE 0) <= p + 0
      BY <2>1
    <3>3. m + (IF cpuLock = NoThread THEN 1 ELSE 0) \in Int
      BY <2>1
    <3> QED
      BY <1>0, <2>2, <2>3, <2>4, <3>1, <3>2, <3>3, PermitStep, <1>1
  <2>6. CASE cpuLock' = NoThread /\ c \in inside /\ leaks' = leaks
    <3>1. Permits' = m + 1 /\ m + 1 <= p + 0 /\ leaks' = leaks + 0
      BY <1>0, <2>1, <2>2, <2>6
    <3> QED
      BY <1>0, <2>2, <2>3, <2>4, <3>1, PermitStep, <1>1
  <2>7. CASE cpuLock' = NoThread /\ leaks' = leaks + 1
    <3>1. Permits' = m + 1 /\ m + 1 <= p + 1
      BY <2>1, <2>2, <2>7
    <3> QED
      BY <1>0, <2>2, <2>3, <2>4, <2>7, <3>1, PermitStep, <1>1
  <2> QED
    BY <1>0, <1>1, <2>5, <2>6, <2>7 DEF CpuWait
<1>2. ASSUME NEW c \in CPU, Alive, CpuWoken(c) PROVE PermitBound'
  <2> DEFINE n == Cardinality(inside)
             m == Cardinality(inside \cup {c})
  <2>1. n \in Nat /\ m = IF c \in inside THEN n ELSE n + 1
    BY <1>0, InsideFinite
  <2>2. UNCHANGED mainPc /\ leaks' = leaks /\ c # NoThread /\ PermitBound
    BY <1>2, MLFQAssumption
    DEF CpuWoken, mainVars, MLFQAssumption, NoThread, PermitInv
  <2>3. CASE Destroyed
    BY <2>2, <2>3 DEF PermitBound, Destroyed
  <2>4. CASE cpuLock = NoThread /\ cpuLock' = c
    <3>1. Permits = n + 1 /\ Permits' = m + 0
      BY <1>2, <2>2, <2>4 DEF CpuWoken, Permits
    <3> HIDE DEF n, m
    <3>2. n + 1 \in Int /\ m + 0 \in Int /\ m + 0 <= (n + 1) + 0 /\ 0 \in {0, 1}
      BY <2>1
    <3>3. leaks' = leaks + 0
      BY <1>0, <2>2
    <3> QED
      BY <1>0, <2>2, <3>1, <3>2, <3>3, PermitStep, <1>2
  <2> QED
    BY <1>2, <2>3, <2>4 DEF CpuWoken
<1>3. CASE Next /\ UNCHANGED cpuLockVars
  BY <1>3, PermitFrame DEF PermitInv
<1>4. CASE UNCHANGED vars
  BY <1>4 DEF PermitInv, PermitBound, Permits, Destroyed, Alive, vars, mainVars,
     cpuVars, cpuData, cpuLockVars
<1>5. Main \/ Reset \/ UseAfterFree => UNCHANGED cpuLockVars
  BY DEF Main, MainLoad, MainEnd, LoadTask, LoadLock, LoadPut, LoadDelay,
     LoadBadLine, LoadEnd, MainGoto, DispatchSignal, DispatchEnd, SetTerminate,
     DrainLock, DrainTake, DrainEnd, Report, DestroyMutexes, FreeQueues, Return,
     UseAfterFree, Reset, ResetTop, ResetWake, ResetLock, ResetTake, ResetMove,
     ResetPut, ResetNext, cpuVars, cpuData
<1>6. ASSUME NEW c \in CPU, Cpu(c), ~ CpuWait(c), ~ CpuWoken(c)
      PROVE  UNCHANGED cpuLockVars
  BY <1>6 DEF Cpu, CpuDispatch, CpuExecute, CpuTop, CpuSpurious, CpuPeek, CpuLock,
     CpuTake, CpuRun, CpuRunIO, CpuTrap, CpuEnqLock, CpuEnqPut, CpuDoneLock, CpuDonePut,
     CpuCount, cpuVars, cpuData
<1> QED
  BY <1>1, <1>2, <1>3, <1>4, <1>5, <1>6 DEF Next, Ended

(***************************************************************************)
(* The number of CPU threads between two waits is bounded by one and the   *)
(* first waits that released another thread's cpuLock: without such a      *)
(* release the simulator runs one task at a time whatever cpu_num is.      *)
(***************************************************************************)
THEOREM Serialised == Spec => []PermitBound
<1>1. Init => PermitInv
  BY TypeInit, PermitInit DEF PermitInv
<1>2. PermitInv /\ [Next]_vars => PermitInv'
  BY TypeNext, PermitNext DEF PermitInv
<1>3. PermitInv => PermitBound
  BY DEF PermitInv
<1> QED
  BY <1>1, <1>2, <1>3, PTL DEF Spec

HIDE DEF Level, Queue, Done

-----------------------------------------------------------------------------
(***************************************************************************)
(* The tasks of the MLFQ simulator: where each of them is, and that a      *)
(* waiting task fits its level.                                            *)
(***************************************************************************)

Listed(i) == {q[i][k] : k \in 1 .. Len(q[i])}

Injective(s) == \A k, l \in 1 .. Len(s) : s[k] = s[l] => k = l

Distinct == \A i \in Queue : Injective(q[i])

\* A task that is somewhere exists and is nowhere else.
QueuedApart ==
  \A i \in Queue : \A t \in Listed(i) :
    /\ t <= createTask /\ ~ InMain(t) /\ t \notin reported /\ rhand # t
    /\ \A c \in CPU : hand[c] # t
    /\ \A j \in Queue : t \in Listed(j) => j = i

HandsApart ==
  \A c \in CPU : hand[c] # NoTask =>
    /\ hand[c] <= createTask /\ ~ InMain(hand[c]) /\ hand[c] \notin reported
    /\ rhand # hand[c]
    /\ \A d \in CPU : hand[d] = hand[c] => d = c

ResetApart ==
  rhand # NoTask =>
    rhand <= createTask /\ ~ InMain(rhand) /\ rhand \notin reported

ReportedApart == \A t \in reported : t <= createTask /\ ~ InMain(t)

Apart == Distinct /\ QueuedApart /\ HandsApart /\ ResetApart /\ ReportedApart

\* A task that was read is somewhere.
Somewhere ==
  \A t \in 1 .. createTask :
    \/ \E i \in Queue : t \in Listed(i)
    \/ \E c \in CPU : hand[c] = t
    \/ rhand = t \/ InMain(t) \/ t \in reported

\* A thread that is not about to use a task holds none.
EmptyHands ==
  /\ \A c \in CPU :
       pc[c] \notin {"run", "trap", "enq", "put", "done", "putdone"} => hand[c] = NoTask
  /\ rpc \notin {"move", "put"} => rhand = NoTask

PlaceInv == TypeInv /\ Apart /\ Somewhere /\ EmptyHands

-----------------------------------------------------------------------------
(* Lemmas about lists and moves.                                           *)

LEMMA AppendElements ==
  ASSUME NEW S, NEW s \in Seq(S), NEW e \in S, Injective(s),
         e \notin {s[k] : k \in 1 .. Len(s)}
  PROVE  LET a == Append(s, e) IN
         /\ Injective(a)
         /\ {a[k] : k \in 1 .. Len(a)} = {s[k] : k \in 1 .. Len(s)} \cup {e}
<1> DEFINE a == Append(s, e)
<1>1. /\ Len(s) \in Nat /\ Len(a) = Len(s) + 1
      /\ \A k \in 1 .. Len(s) : a[k] = s[k]
      /\ a[Len(s) + 1] = e
  BY AppendProperties, LenProperties
<1> HIDE DEF a
<1>2. Injective(a)
  BY <1>1 DEF Injective
<1>3. {a[k] : k \in 1 .. Len(a)} = {s[k] : k \in 1 .. Len(s)} \cup {e}
  <2>1. 1 .. Len(a) = 1 .. Len(s) \cup {Len(s) + 1}
    BY <1>1
  <2> QED
    BY <1>1, <2>1
<1> QED
  BY <1>2, <1>3 DEF a

LEMMA TailElements ==
  ASSUME NEW S, NEW s \in Seq(S), s # <<>>, Injective(s)
  PROVE  /\ Injective(Tail(s))
         /\ Head(s) \in {s[k] : k \in 1 .. Len(s)}
         /\ {Tail(s)[k] : k \in 1 .. Len(Tail(s))} =
              {s[k] : k \in 1 .. Len(s)} \ {Head(s)}
<1> DEFINE a == Tail(s)
<1>1. /\ Len(s) \in Nat \ {0} /\ Len(a) = Len(s) - 1
      /\ \A k \in 1 .. Len(a) : a[k] = s[k + 1]
      /\ Head(s) = s[1]
  BY HeadTailProperties, LenProperties, EmptySeq
<1> HIDE DEF a
<1>2. Injective(a)
  BY <1>1 DEF Injective
<1>3. {a[k] : k \in 1 .. Len(a)} = {s[k] : k \in 1 .. Len(s)} \ {s[1]}
  <2>1. ASSUME NEW k \in 1 .. Len(a)
        PROVE  a[k] \in {s[l] : l \in 1 .. Len(s)} \ {s[1]}
    <3>1. k + 1 \in 1 .. Len(s) /\ k + 1 # 1 /\ 1 \in 1 .. Len(s)
      BY <1>1
    <3>2. s[k + 1] # s[1]
      BY <3>1 DEF Injective
    <3> QED
      BY <1>1, <3>1, <3>2
  <2>2. ASSUME NEW l \in 1 .. Len(s), s[l] # s[1]
        PROVE  s[l] \in {a[k] : k \in 1 .. Len(a)}
    <3>1. l - 1 \in 1 .. Len(a) /\ (l - 1) + 1 = l
      BY <1>1, <2>2
    <3>2. a[l - 1] = s[l]
      BY <1>1, <3>1
    <3> QED
      BY <3>1, <3>2
  <2> QED
    BY <2>1, <2>2
<1>4. s[1] \in {s[k] : k \in 1 .. Len(s)}
  BY <1>1
<1> QED
  BY <1>1, <1>2, <1>3, <1>4 DEF a

\* What enqueue and dequeue do to the contents of the queues.
LEMMA EnqueueMoves ==
  ASSUME QueueTypes, Distinct, NEW i \in Queue, NEW t \in Task,
         t \notin Listed(i), enqueue(i, t)
  PROVE  /\ Distinct'
         /\ Listed(i)' = Listed(i) \cup {t}
         /\ \A j \in Queue \ {i} : Listed(j)' = Listed(j)
<1>1. q \in [Queue -> Seq(Task)] /\ q[i] \in Seq(Task)
  BY DEF QueueTypes
<1>2. q'[i] = Append(q[i], t) /\ \A j \in Queue \ {i} : q'[j] = q[j]
  BY <1>1 DEF enqueue
<1>3. Injective(q[i])
  BY DEF Distinct
<1>4. /\ Injective(Append(q[i], t))
      /\ {Append(q[i], t)[k] : k \in 1 .. Len(Append(q[i], t))} = Listed(i) \cup {t}
  BY <1>1, <1>3, AppendElements DEF Listed
<1>5. \A j \in Queue \ {i} : Injective(q'[j]) /\ Listed(j)' = Listed(j)
  BY <1>2 DEF Distinct, Listed
<1>6. Listed(i)' = Listed(i) \cup {t} /\ Injective(q'[i])
  BY <1>2, <1>4 DEF Listed
<1>7. Distinct'
  BY <1>5, <1>6 DEF Distinct
<1> QED
  BY <1>5, <1>6, <1>7

LEMMA DequeueMoves ==
  ASSUME QueueTypes, Distinct, NEW i \in Queue, q[i] # <<>>, dequeue(i)
  PROVE  /\ Distinct'
         /\ Head(q[i]) \in Listed(i) /\ Head(q[i]) \in Task
         /\ q[i][1] = Head(q[i])
         /\ Listed(i)' = Listed(i) \ {Head(q[i])}
         /\ \A j \in Queue \ {i} : Listed(j)' = Listed(j)
<1>1. q \in [Queue -> Seq(Task)] /\ q[i] \in Seq(Task)
  BY DEF QueueTypes
<1>2. q'[i] = Tail(q[i]) /\ \A j \in Queue \ {i} : q'[j] = q[j]
  BY <1>1 DEF dequeue
<1>3. Injective(q[i])
  BY DEF Distinct
<1>4. /\ Injective(Tail(q[i])) /\ Head(q[i]) \in Listed(i)
      /\ {Tail(q[i])[k] : k \in 1 .. Len(Tail(q[i]))} = Listed(i) \ {Head(q[i])}
  BY <1>1, <1>3, TailElements DEF Listed
<1>5. \A j \in Queue \ {i} : Injective(q'[j]) /\ Listed(j)' = Listed(j)
  BY <1>2 DEF Distinct, Listed
<1>6. Listed(i)' = Listed(i) \ {Head(q[i])} /\ Injective(q'[i])
  BY <1>2, <1>4 DEF Listed
<1>7. Distinct'
  BY <1>5, <1>6 DEF Distinct
<1>8. Head(q[i]) \in Task /\ q[i][1] = Head(q[i])
  BY <1>1, HeadFacts
<1> QED
  BY <1>4, <1>5, <1>6, <1>7, <1>8

LEMMA ListedTasks ==
  ASSUME QueueTypes, NEW i \in Queue
  PROVE  Listed(i) \subseteq Task /\ (Listed(i) = {} <=> q[i] = <<>>)
<1>1. q[i] \in Seq(Task)
  BY DEF QueueTypes
<1>2. Len(q[i]) \in Nat /\ \A k \in 1 .. Len(q[i]) : q[i][k] \in Task
  BY <1>1, LenProperties, ElementOfSeq
<1>3. q[i] # <<>> => 1 \in 1 .. Len(q[i])
  BY <1>1, <1>2, EmptySeq
<1>4. q[i] = <<>> => 1 .. Len(q[i]) = {}
  BY <1>2, EmptySeq
<1> QED
  BY <1>2, <1>3, <1>4 DEF Listed

-----------------------------------------------------------------------------
(* No step loses a task or puts it into two places.                        *)

Placed == Apart /\ Somewhere

\* A step that moves no task.
LEMMA PlaceFrame ==
  ASSUME Placed, UNCHANGED <<q, hand, rhand, reported, createTask>>,
         \A t : InMain(t)' <=> InMain(t)
  PROVE  Placed'
<1>1. \A i : Listed(i)' = Listed(i)
  BY DEF Listed
<1>2. Apart'
  BY <1>1 DEF Placed, Apart, Distinct, QueuedApart, HandsApart, ResetApart,
              ReportedApart
<1>3. Somewhere'
  BY <1>1 DEF Placed, Somewhere
<1> QED
  BY <1>2, <1>3 DEF Placed

LEMMA PlaceLoadTask == TypeInv /\ Placed /\ LoadTask => Placed'
<1> SUFFICES ASSUME TypeInv, Placed, LoadTask PROVE Placed'
  OBVIOUS
<1>0. /\ createTask \in Nat /\ createTask' = createTask + 1
      /\ UNCHANGED <<q, hand, rhand, reported>>
      /\ \A t : ~ InMain(t)
      /\ \A t : InMain(t)' <=> t = createTask + 1
  BY DEF LoadTask, TypeInv, TypeOK, MainTypes, InMain, queueVars, cpuVars, cpuData,
         resetVars
<1>1. /\ QueueTypes /\ hand \in [CPU -> Task \cup {NoTask}]
      /\ rhand \in Task \cup {NoTask} /\ reported \subseteq Task
  BY DEF TypeInv, TypeOK, CpuTypes, ResetTypes, MainTypes
<1>2. \A i : Listed(i)' = Listed(i)
  BY <1>0 DEF Listed
<1>3. \A i \in Queue : Listed(i) \subseteq Task
  BY <1>1, ListedTasks
<1>4. Task \subseteq Nat /\ NoTask \in Nat
  BY DEF Task, NoTask
<1>5. QueuedApart' /\ HandsApart' /\ ResetApart' /\ ReportedApart' /\ Distinct'
  <2>0. ASSUME NEW t \in Task, t <= createTask
        PROVE  t <= createTask' /\ ~ InMain(t)'
    BY <1>0, <1>4, <2>0
  <2>1. QueuedApart'
    <3>1. ASSUME NEW i \in Queue, NEW t \in Listed(i)
          PROVE  /\ t \in Task /\ t <= createTask /\ t \notin reported /\ rhand # t
                 /\ \A c \in CPU : hand[c] # t
                 /\ \A j \in Queue : t \in Listed(j) => j = i
      BY <1>3, <3>1 DEF Placed, Apart, QueuedApart
    <3> QED
      BY <1>0, <1>2, <2>0, <3>1 DEF QueuedApart
  <2>2. HandsApart'
    <3>1. ASSUME NEW c \in CPU, hand[c] # NoTask
          PROVE  /\ hand[c] \in Task /\ hand[c] <= createTask /\ hand[c] \notin reported
                 /\ rhand # hand[c]
                 /\ \A d \in CPU : hand[d] = hand[c] => d = c
      BY <1>1, <3>1 DEF Placed, Apart, HandsApart
    <3> QED
      BY <1>0, <2>0, <3>1 DEF HandsApart
  <2>3. ResetApart' /\ ReportedApart' /\ Distinct'
    BY <1>0, <1>1, <1>4 DEF Placed, Apart, ResetApart, ReportedApart, Distinct
  <2> QED
    BY <2>1, <2>2, <2>3
<1>6. Somewhere'
  BY <1>0, <1>2 DEF Placed, Somewhere
<1> QED
  BY <1>5, <1>6 DEF Placed, Apart

LEMMA PlaceLoadPut == TypeInv /\ Placed /\ LoadPut => Placed'
<1> SUFFICES ASSUME TypeInv, Placed, LoadPut PROVE Placed'
  OBVIOUS
<1> USE DEF Placed, Apart
<1>0. /\ createTask \in Task /\ enqueue(0, createTask)
      /\ UNCHANGED <<hand, rhand, reported, createTask>>
      /\ InMain(createTask) /\ \A t : ~ InMain(t)'
      /\ \A t : InMain(t) => t = createTask
      /\ 0 \in Queue
  BY DEF LoadPut, TypeInv, MainHolds, mainData, InMain, cpuVars, cpuData,
         resetVars, Queue
<1>1. /\ QueueTypes /\ hand \in [CPU -> Task \cup {NoTask}]
  BY DEF TypeInv, TypeOK, CpuTypes
<1>2. createTask \notin Listed(0) /\ createTask <= createTask
  BY <1>0 DEF QueuedApart, Task
<1>3. /\ Distinct' /\ Listed(0)' = Listed(0) \cup {createTask}
      /\ \A j \in Queue \ {0} : Listed(j)' = Listed(j)
  BY <1>0, <1>1, <1>2, EnqueueMoves
<1>4. QueuedApart'
  BY <1>0, <1>2, <1>3 DEF QueuedApart, HandsApart, ResetApart, ReportedApart,
     Task, NoTask
<1>5. HandsApart' /\ ResetApart' /\ ReportedApart'
  BY <1>0 DEF HandsApart, ResetApart, ReportedApart
<1>6. Somewhere'
  BY <1>0, <1>3 DEF Somewhere
<1> QED
  BY <1>3, <1>4, <1>5, <1>6

LEMMA PlaceDrainTake == TypeInv /\ Placed /\ DrainTake => Placed'
<1> SUFFICES ASSUME TypeInv, Placed, DrainTake PROVE Placed'
  OBVIOUS
<1> USE DEF Placed, Apart
<1>0. /\ dequeue(Done) /\ q[Done] # <<>> /\ Done \in Queue
      /\ UNCHANGED <<hand, rhand, createTask>>
      /\ reported' = reported \cup {q[Done][1]}
      /\ \A t : ~ InMain(t) /\ ~ InMain(t)'
  BY DEF DrainTake, TypeInv, MainHolds, InMain, cpuVars, cpuData, resetVars,
         Queue, Done
<1>1. QueueTypes
  BY DEF TypeInv, TypeOK
<1> DEFINE h == Head(q[Done])
<1>2. /\ Distinct' /\ h \in Listed(Done) /\ h \in Task /\ q[Done][1] = h
      /\ Listed(Done)' = Listed(Done) \ {h}
      /\ \A j \in Queue \ {Done} : Listed(j)' = Listed(j)
  BY <1>0, <1>1, DequeueMoves
<1> HIDE DEF h
<1>3. QueuedApart'
  BY <1>0, <1>2 DEF QueuedApart
<1>4. HandsApart' /\ ResetApart' /\ ReportedApart'
  BY <1>0, <1>2 DEF QueuedApart, HandsApart, ResetApart, ReportedApart
<1>5. Somewhere'
  BY <1>0, <1>2 DEF Somewhere
<1> QED
  BY <1>2, <1>3, <1>4, <1>5

LEMMA PlaceCpuTake ==
  ASSUME NEW c \in CPU, TypeInv, Placed, EmptyHands, CpuTake(c)
  PROVE  Placed'
<1> USE DEF Placed, Apart
<1>0. /\ dequeue(lv[c]) /\ lv[c] \in Queue /\ hand[c] = NoTask
      /\ UNCHANGED <<rhand, reported, createTask>>
      /\ \A t : InMain(t)' <=> InMain(t)
  BY DEF CpuTake, TypeInv, TypeOK, CpuTypes, InMain, mainVars, mainData, resetVars,
         Queue, Level, EmptyHands
<1>1. QueueTypes /\ hand \in [CPU -> Task \cup {NoTask}]
  BY DEF TypeInv, TypeOK, CpuTypes
<1>2. CASE emptyQueue(lv[c])
  BY <1>0, <1>1, <1>2, PlaceFrame DEF CpuTake, emptyQueue, dequeue, QueueTypes
<1>3. CASE ~ emptyQueue(lv[c])
  <2>0. PICK i \in Queue : i = lv[c]
    BY <1>0
  <2> DEFINE h == Head(q[i])
  <2>1. hand' = [hand EXCEPT ![c] = h] /\ q[i] # <<>> /\ dequeue(i)
    BY <1>0, <1>3, <2>0 DEF CpuTake, emptyQueue
  <2>2. /\ Distinct' /\ h \in Listed(i) /\ h \in Task
        /\ Listed(i)' = Listed(i) \ {h}
        /\ \A j \in Queue \ {i} : Listed(j)' = Listed(j)
    BY <1>1, <2>1, DequeueMoves
  <2> HIDE DEF h
  <2>3. h # NoTask
    BY <2>2 DEF Task, NoTask
  <2>4. QueuedApart'
    BY <1>0, <1>1, <2>1, <2>2 DEF QueuedApart
  <2>5. HandsApart' /\ ResetApart' /\ ReportedApart'
    BY <1>0, <1>1, <2>1, <2>2 DEF QueuedApart, HandsApart, ResetApart, ReportedApart
  <2>6. Somewhere'
    <3> SUFFICES ASSUME NEW t \in 1 .. createTask, t # h
                 PROVE  \/ \E j \in Queue : t \in Listed(j)'
                        \/ \E d \in CPU : hand'[d] = t
                        \/ rhand = t \/ InMain(t) \/ t \in reported
      BY <1>0, <1>1, <2>1 DEF Somewhere
    <3>1. t # NoTask
      BY DEF NoTask
    <3>2. \A d \in CPU : hand[d] = t => hand'[d] = t
      BY <1>0, <1>1, <2>1, <3>1
    <3>3. \A j \in Queue : t \in Listed(j) => t \in Listed(j)'
      BY <2>2
    <3> QED
      BY <3>2, <3>3 DEF Somewhere
  <2> QED
    BY <2>2, <2>4, <2>5, <2>6
<1> QED
  BY <1>2, <1>3

\* Both puts of a CPU thread: back into a level, and into Done.
LEMMA PlaceCpuPut ==
  ASSUME NEW c \in CPU, TypeInv, Placed, CpuEnqPut(c) \/ CpuDonePut(c)
  PROVE  Placed'
<1> USE DEF Placed, Apart
<1>0. /\ hand[c] \in Task /\ hand' = [hand EXCEPT ![c] = NoTask]
      /\ UNCHANGED <<rhand, reported, createTask>>
      /\ \A t : InMain(t)' <=> InMain(t)
  BY DEF CpuEnqPut, CpuDonePut, TypeInv, CpuHolds, InMain, mainVars, mainData,
         resetVars
<1>1. QueueTypes /\ hand \in [CPU -> Task \cup {NoTask}]
  BY DEF TypeInv, TypeOK, CpuTypes
<1>2. PICK i \in Queue : enqueue(i, hand[c])
  BY <1>0 DEF CpuEnqPut, CpuDonePut, TypeInv, TypeOK, TaskTypes, Queue, Level, Done
<1>3. hand[c] # NoTask
  BY <1>0 DEF Task, NoTask
<1>4. hand[c] \notin Listed(i)
  BY DEF QueuedApart
<1>5. /\ Distinct' /\ Listed(i)' = Listed(i) \cup {hand[c]}
      /\ \A j \in Queue \ {i} : Listed(j)' = Listed(j)
  BY <1>0, <1>1, <1>2, <1>4, EnqueueMoves
<1>6. QueuedApart'
  <2>1. \A d \in CPU : hand'[d] # hand[c]
    BY <1>0, <1>1, <1>3 DEF HandsApart
  <2>2. \A t \in Task, d \in CPU : hand[d] # t => hand'[d] # t
    BY <1>0, <1>1 DEF Task, NoTask
  <2>3. \A j \in Queue : Listed(j) \subseteq Task
    BY <1>1, ListedTasks
  <2> QED
    BY <1>0, <1>1, <1>3, <1>5, <2>1, <2>2, <2>3 DEF QueuedApart, HandsApart
<1>7. HandsApart' /\ ResetApart' /\ ReportedApart'
  BY <1>0, <1>1 DEF HandsApart, ResetApart, ReportedApart
<1>8. Somewhere'
  BY <1>0, <1>1, <1>2, <1>5 DEF Somewhere
<1> QED
  BY <1>5, <1>6, <1>7, <1>8

LEMMA PlaceResetTake ==
  ASSUME TypeInv, Placed, EmptyHands, ResetTake
  PROVE  Placed'
<1> USE DEF Placed, Apart
<1>0. /\ dequeue(rlv) /\ rlv \in Queue /\ q[rlv] # <<>> /\ rhand = NoTask
      /\ rhand' = Head(q[rlv])
      /\ UNCHANGED <<hand, reported, createTask>>
      /\ \A t : InMain(t)' <=> InMain(t)
  BY DEF ResetTake, TypeInv, TypeOK, ResetTypes, InMain, mainVars, mainData, cpuVars,
         cpuData, Queue, EmptyHands, emptyQueue
<1>1. QueueTypes
  BY DEF TypeInv, TypeOK
<1>i. PICK i \in Queue : i = rlv /\ dequeue(i)
  BY <1>0
<1> DEFINE h == Head(q[i])
<1>2. /\ Distinct' /\ h \in Listed(i) /\ h \in Task
      /\ Listed(i)' = Listed(i) \ {h}
      /\ \A j \in Queue \ {i} : Listed(j)' = Listed(j)
  BY <1>0, <1>1, <1>i, DequeueMoves
<1>3. rhand' = h /\ h # NoTask
  BY <1>0, <1>2, <1>i DEF Task, NoTask
<1> HIDE DEF h
<1>4. QueuedApart'
  BY <1>0, <1>2, <1>3 DEF QueuedApart
<1>5. HandsApart' /\ ResetApart' /\ ReportedApart'
  BY <1>0, <1>2, <1>3 DEF QueuedApart, HandsApart, ResetApart, ReportedApart
<1>6. Somewhere'
  <2> SUFFICES ASSUME NEW t \in 1 .. createTask, t # h
               PROVE  \/ \E j \in Queue : t \in Listed(j)'
                      \/ \E d \in CPU : hand[d] = t
                      \/ InMain(t) \/ t \in reported
    BY <1>0, <1>3 DEF Somewhere
  <2>1. \A j \in Queue : t \in Listed(j) => t \in Listed(j)'
    BY <1>2
  <2>2. rhand # t
    BY <1>0 DEF NoTask
  <2> QED
    BY <2>1, <2>2 DEF Somewhere
<1> QED
  BY <1>2, <1>4, <1>5, <1>6

LEMMA PlaceResetPut ==
  ASSUME TypeInv, Placed, ResetPut
  PROVE  Placed'
<1> USE DEF Placed, Apart
<1>0. /\ rhand \in Task /\ rhand' = NoTask
      /\ enqueue(priority[rhand], rhand) /\ priority[rhand] \in Queue
      /\ UNCHANGED <<hand, reported, createTask>>
      /\ \A t : InMain(t)' <=> InMain(t)
  BY DEF ResetPut, TypeInv, TypeOK, TaskTypes, ResetHolds, InMain, mainVars, mainData,
         cpuVars, cpuData, Queue, Level
<1>1. QueueTypes /\ \A j \in Queue : Listed(j) \subseteq Task
  BY ListedTasks DEF TypeInv, TypeOK
<1>i. PICK i \in Queue : enqueue(i, rhand)
  BY <1>0
<1>2. rhand \notin Listed(i) /\ rhand # NoTask
  BY <1>0 DEF QueuedApart, Task, NoTask
<1>3. /\ Distinct' /\ Listed(i)' = Listed(i) \cup {rhand}
      /\ \A j \in Queue \ {i} : Listed(j)' = Listed(j)
  BY <1>0, <1>1, <1>2, <1>i, EnqueueMoves
<1>5. QueuedApart'
  BY <1>0, <1>1, <1>2, <1>3 DEF QueuedApart, HandsApart, ResetApart, Task, NoTask
<1>6. HandsApart' /\ ResetApart' /\ ReportedApart'
  BY <1>0, <1>2 DEF HandsApart, ResetApart, ReportedApart
<1>7. Somewhere'
  BY <1>0, <1>3 DEF Somewhere
<1> QED
  BY <1>3, <1>5, <1>6, <1>7

LEMMA PlaceMain == TypeInv /\ Placed /\ Main => Placed'
<1> SUFFICES ASSUME TypeInv, Placed, Main PROVE Placed'
  OBVIOUS
<1> USE DEF mainVars, mainData, queueVars, cpuVars, cpuData, resetVars, InMain
<1>1. CASE LoadTask \/ LoadPut \/ DrainTake
  BY <1>1, PlaceLoadTask, PlaceLoadPut, PlaceDrainTake
<1>2. CASE LoadLock \/ LoadDelay \/ LoadBadLine \/ LoadEnd
  BY <1>2, PlaceFrame DEF LoadLock, LoadDelay, LoadBadLine, LoadEnd, MainGoto
<1>3. CASE DispatchSignal \/ DispatchEnd \/ SetTerminate \/ DrainLock
  BY <1>3, PlaceFrame
     DEF DispatchSignal, DispatchEnd, SetTerminate, DrainLock, MainGoto
<1>4. CASE DrainEnd \/ Report \/ DestroyMutexes \/ FreeQueues \/ Return
  BY <1>4, PlaceFrame
     DEF DrainEnd, Report, DestroyMutexes, FreeQueues, Return, MainGoto
<1> QED
  BY <1>1, <1>2, <1>3, <1>4 DEF Main, MainLoad, MainEnd

LEMMA PlaceCpu ==
  ASSUME NEW c \in CPU, TypeInv, Placed, EmptyHands, Cpu(c)
  PROVE  Placed'
<1> USE DEF mainVars, mainData, queueVars, cpuData, cpuLockVars, resetVars, InMain
<1>1. CASE CpuTake(c) \/ CpuEnqPut(c) \/ CpuDonePut(c)
  BY <1>1, PlaceCpuTake, PlaceCpuPut
<1>2. CASE CpuTop(c) \/ CpuWait(c) \/ CpuSpurious(c) \/ CpuWoken(c) \/ CpuPeek(c)
             \/ CpuLock(c)
  BY <1>2, PlaceFrame DEF CpuTop, CpuWait, CpuSpurious, CpuWoken, CpuPeek, CpuLock
<1>3. CASE CpuRun(c) \/ CpuRunIO(c) \/ CpuTrap(c) \/ CpuEnqLock(c) \/ CpuDoneLock(c) \/ CpuCount(c)
  BY <1>3, PlaceFrame DEF CpuRun, CpuRunIO, CpuTrap, CpuEnqLock, CpuDoneLock, CpuCount
<1> QED
  BY <1>1, <1>2, <1>3 DEF Cpu, CpuDispatch, CpuExecute

LEMMA PlaceReset ==
  ASSUME TypeInv, Placed, EmptyHands, Reset
  PROVE  Placed'
<1> USE DEF mainVars, mainData, queueVars, cpuVars, cpuData, InMain
<1>1. CASE ResetTake \/ ResetPut
  BY <1>1, PlaceResetTake, PlaceResetPut
<1>2. CASE ResetTop \/ ResetWake \/ ResetLock \/ ResetMove \/ ResetNext
  BY <1>2, PlaceFrame DEF ResetTop, ResetWake, ResetLock, ResetMove, ResetNext
<1> QED
  BY <1>1, <1>2 DEF Reset

\* A CPU thread drops its task when it has put it back, and takes none before.
LEMMA EmptyHandsCpu ==
  ASSUME NEW c \in CPU, TypeInv, EmptyHands, Cpu(c)
  PROVE  EmptyHands'
<1>0. CpuTypes
  BY DEF TypeInv, TypeOK
<1> USE <1>0 DEF EmptyHands, CpuTypes, resetVars, cpuData, cpuLockVars
<1>1. CASE CpuTop(c) \/ CpuWait(c) \/ CpuSpurious(c) \/ CpuWoken(c) \/ CpuPeek(c)
             \/ CpuLock(c)
  BY <1>1 DEF CpuTop, CpuWait, CpuSpurious, CpuWoken, CpuPeek, CpuLock
<1>2. CASE CpuTake(c)
  BY <1>2 DEF CpuTake
<1>3. CASE CpuRun(c) \/ CpuRunIO(c) \/ CpuTrap(c) \/ CpuEnqLock(c) \/ CpuDoneLock(c) \/ CpuCount(c)
  BY <1>3 DEF CpuRun, CpuRunIO, CpuTrap, CpuEnqLock, CpuDoneLock, CpuCount
<1>4. CASE CpuEnqPut(c) \/ CpuDonePut(c)
  BY <1>4 DEF CpuEnqPut, CpuDonePut
<1> QED
  BY <1>1, <1>2, <1>3, <1>4 DEF Cpu, CpuDispatch, CpuExecute

LEMMA EmptyHandsMain == TypeInv /\ EmptyHands /\ Main => EmptyHands'
<1> SUFFICES ASSUME TypeInv, EmptyHands, Main PROVE EmptyHands'
  OBVIOUS
<1>0. CpuTypes
  BY DEF TypeInv, TypeOK
<1> USE <1>0 DEF EmptyHands, CpuTypes, cpuVars, cpuData, resetVars
<1>1. CASE LoadTask \/ LoadLock \/ LoadPut \/ LoadBadLine \/ LoadEnd
  BY <1>1 DEF LoadTask, LoadLock, LoadPut, LoadBadLine, LoadEnd, MainGoto
<1>2. CASE LoadDelay \/ DispatchSignal
  BY <1>2 DEF LoadDelay, DispatchSignal, Signal
<1>3. CASE DispatchEnd \/ SetTerminate \/ DrainLock \/ DrainTake \/ DrainEnd
  BY <1>3 DEF DispatchEnd, SetTerminate, DrainLock, DrainTake, DrainEnd, MainGoto
<1>4. CASE Report \/ DestroyMutexes \/ FreeQueues \/ Return
  BY <1>4 DEF Report, DestroyMutexes, FreeQueues, Return, MainGoto
<1> QED
  BY <1>1, <1>2, <1>3, <1>4 DEF Main, MainLoad, MainEnd

LEMMA EmptyHandsReset == EmptyHands /\ Reset => EmptyHands'
  BY DEF EmptyHands, Reset, ResetTop, ResetWake, ResetLock, ResetTake, ResetMove,
         ResetPut, ResetNext, cpuVars, cpuData

LEMMA PlaceInit == Init => PlaceInv
<1> SUFFICES ASSUME Init PROVE PlaceInv
  OBVIOUS
<1>1. TypeInv
  BY TypeInit
<1>2. \A i \in Queue : Listed(i) = {} /\ Injective(q[i])
  BY DEF Init, Listed, Injective
<1>3. /\ reported = {} /\ rhand = NoTask /\ createTask = 0 /\ mainPc = "load"
      /\ \A c \in CPU : hand[c] = NoTask
  BY DEF Init
<1>4. Apart /\ EmptyHands
  BY <1>2, <1>3 DEF Apart, Distinct, QueuedApart, HandsApart, ResetApart,
     ReportedApart, EmptyHands
<1>5. Somewhere
  BY <1>3 DEF Somewhere
<1> QED
  BY <1>1, <1>4, <1>5 DEF PlaceInv

LEMMA PlaceNext == PlaceInv /\ [Next]_vars => PlaceInv'
<1> SUFFICES ASSUME PlaceInv, [Next]_vars PROVE PlaceInv'
  OBVIOUS
<1>0. TypeInv /\ Placed /\ EmptyHands /\ TypeInv'
  BY TypeNext DEF PlaceInv, Placed
<1>1. CASE Main
  BY <1>0, <1>1, PlaceMain, EmptyHandsMain DEF PlaceInv, Placed
<1>2. CASE Reset
  BY <1>0, <1>2, PlaceReset, EmptyHandsReset DEF PlaceInv, Placed
<1>3. ASSUME NEW c \in CPU, Cpu(c) PROVE PlaceInv'
  BY <1>0, <1>3, PlaceCpu, EmptyHandsCpu DEF PlaceInv, Placed
<1>4. CASE UseAfterFree \/ UNCHANGED vars
  <2>1. Placed'
    BY <1>0, <1>4, PlaceFrame DEF UseAfterFree, vars, mainVars, mainData, queueVars,
       cpuVars, cpuData, resetVars, InMain, Freed
  <2>2. EmptyHands'
    BY <1>0, <1>4 DEF UseAfterFree, vars, cpuVars, cpuData, resetVars, EmptyHands
  <2> QED
    BY <1>0, <2>1, <2>2 DEF PlaceInv, Placed
<1> QED
  BY <1>1, <1>2, <1>3, <1>4 DEF Next, Ended

-----------------------------------------------------------------------------
(* Counting the places of a task.                                          *)

\* A list without repetitions is no longer than there are tasks.
LEMMA ListFits ==
  ASSUME NEW s \in Seq(Task), Injective(s)
  PROVE  Len(s) <= MaxTasks
<1>1. /\ IsFiniteSet(Task) /\ Cardinality(Task) = MaxTasks
      /\ Len(s) \in Nat /\ s \in [1 .. Len(s) -> Task]
  <2>1. MaxTasks \in Int /\ MaxTasks >= 0
    BY MLFQAssumption DEF MLFQAssumption
  <2>2. IsFiniteSet(1 .. MaxTasks)
    BY <2>1, FS_Interval
  <2>3. Cardinality(1 .. MaxTasks) = IF 1 > MaxTasks THEN 0 ELSE MaxTasks - 1 + 1
    BY <2>1, FS_Interval
  <2> QED
    BY <2>1, <2>2, <2>3, LenProperties DEF Task
<1>2. s \in Injection(1 .. Len(s), Task)
  BY <1>1 DEF Injection, IsInjective, Injective
<1>3. Cardinality(1 .. Len(s)) = Len(s) /\ Cardinality(1 .. Len(s)) <= Cardinality(Task)
  BY <1>1, <1>2, FS_Injection, FS_Interval
<1> QED
  BY <1>1, <1>3

LEMMA PositionCount ==
  ASSUME QueueTypes, Distinct, NEW t \in Task,
         \A i, j \in Queue : t \in Listed(i) /\ t \in Listed(j) => i = j
  PROVE  Cardinality(Positions(t)) =
           IF \E i \in Queue : t \in Listed(i) THEN 1 ELSE 0
<1>1. CASE \A i \in Queue : t \notin Listed(i)
  <2>1. Positions(t) = {}
    <3>1. ASSUME NEW i \in Queue, NEW k \in Task, k <= Len(q[i]), q[i][k] = t
          PROVE  FALSE
      <4>1. Len(q[i]) \in Nat
        BY LenProperties DEF QueueTypes
      <4>2. k \in 1 .. Len(q[i])
        BY <3>1, <4>1 DEF Task
      <4> QED
        BY <1>1, <3>1, <4>2 DEF Listed
    <3> QED
      BY <3>1 DEF Positions
  <2> QED
    BY <1>1, <2>1, FS_EmptySet
<1>2. ASSUME NEW i \in Queue, t \in Listed(i)
      PROVE  Cardinality(Positions(t)) = 1
  <2>1. PICK k \in 1 .. Len(q[i]) : q[i][k] = t
    BY <1>2 DEF Listed
  <2>2. \A j \in Queue : Len(q[j]) \in Nat /\ Len(q[j]) <= MaxTasks
    BY ListFits, LenProperties DEF QueueTypes, Distinct
  <2>3. k \in Task /\ k <= Len(q[i])
    BY <2>1, <2>2, MLFQAssumption DEF Task, MLFQAssumption
  <2>4. ASSUME NEW j \in Queue, NEW l \in Task, l <= Len(q[j]), q[j][l] = t
        PROVE  j = i /\ l = k
    <3>1. l \in 1 .. Len(q[j])
      BY <2>2, <2>4 DEF Task
    <3>2. j = i
      BY <1>2, <2>4, <3>1 DEF Listed
    <3> QED
      BY <2>1, <2>4, <3>1, <3>2 DEF Distinct, Injective
  <2>5. Positions(t) = {<<i, k>>}
    <3>1. <<i, k>> \in Positions(t)
      BY <2>1, <2>3 DEF Positions
    <3>2. ASSUME NEW p \in Positions(t) PROVE p = <<i, k>>
      <4>1. /\ p = <<p[1], p[2]>> /\ p[1] \in Queue /\ p[2] \in Task
            /\ p[2] <= Len(q[p[1]]) /\ q[p[1]][p[2]] = t
        BY DEF Positions
      <4> QED
        BY <2>4, <4>1
    <3> QED
      BY <3>1, <3>2
  <2> QED
    BY <2>5, FS_Singleton
<1> QED
  BY <1>1, <1>2

LEMMA HandCount ==
  ASSUME HandsApart, NEW t \in Task
  PROVE  Cardinality({c \in CPU : hand[c] = t}) =
           IF \E c \in CPU : hand[c] = t THEN 1 ELSE 0
<1>1. CASE \A c \in CPU : hand[c] # t
  <2>1. {c \in CPU : hand[c] = t} = {}
    BY <1>1
  <2> QED
    BY <1>1, <2>1, FS_EmptySet
<1>2. ASSUME NEW c \in CPU, hand[c] = t
      PROVE  Cardinality({d \in CPU : hand[d] = t}) = 1
  <2>1. {d \in CPU : hand[d] = t} = {c}
    BY <1>2 DEF HandsApart, Task, NoTask
  <2> QED
    BY <2>1, FS_Singleton
<1> QED
  BY <1>1, <1>2

LEMMA PlaceCount == PlaceInv => OnePlace
<1> SUFFICES ASSUME PlaceInv, NEW t \in Task
             PROVE  Places(t) = IF t <= createTask THEN 1 ELSE 0
  BY DEF OnePlace
<1> DEFINE inQ == \E i \in Queue : t \in Listed(i)
           inC == \E c \in CPU : hand[c] = t
<1>1. Places(t) = (IF inQ THEN 1 ELSE 0) + (IF inC THEN 1 ELSE 0)
                    + (IF rhand = t THEN 1 ELSE 0) + (IF InMain(t) THEN 1 ELSE 0)
                    + (IF t \in reported THEN 1 ELSE 0)
  <2>1. Cardinality(Positions(t)) = IF inQ THEN 1 ELSE 0
    BY PositionCount DEF PlaceInv, TypeInv, TypeOK, Apart, QueuedApart
  <2>2. Cardinality({c \in CPU : hand[c] = t}) = IF inC THEN 1 ELSE 0
    BY HandCount DEF PlaceInv, Apart
  <2> HIDE DEF inQ, inC
  <2> QED
    BY <2>1, <2>2 DEF Places
<1>2. /\ inQ => t <= createTask /\ ~ inC /\ rhand # t /\ ~ InMain(t) /\ t \notin reported
      /\ inC => t <= createTask /\ rhand # t /\ ~ InMain(t) /\ t \notin reported
      /\ rhand = t => t <= createTask /\ ~ InMain(t) /\ t \notin reported
      /\ t \in reported => t <= createTask /\ ~ InMain(t)
  <2>1. t # NoTask
    BY DEF Task, NoTask
  <2> QED
    BY <2>1 DEF PlaceInv, Apart, QueuedApart, HandsApart, ResetApart, ReportedApart
<1>3. t <= createTask => inQ \/ inC \/ rhand = t \/ InMain(t) \/ t \in reported
  <2>1. t <= createTask => t \in 1 .. createTask
    BY DEF PlaceInv, TypeInv, TypeOK, MainTypes, Task
  <2> QED
    BY <2>1 DEF PlaceInv, Somewhere
<1>4. InMain(t) => t <= createTask
  BY DEF InMain, Task
<1> HIDE DEF inQ, inC
<1> QED
  BY <1>1, <1>2, <1>3, <1>4

LEMMA PlacesAlways == Spec => []PlaceInv
  BY PlaceInit, PlaceNext, PTL DEF Spec

(***************************************************************************)
(* No step of any thread loses a task, schedules it twice or reports it    *)
(* while it is still somewhere else, for any number of CPU threads and     *)
(* tasks: OnePlace is an invariant.                                        *)
(***************************************************************************)
THEOREM TasksKept == Spec => []OnePlace
  BY PlacesAlways, PlaceCount, PTL

-----------------------------------------------------------------------------
(* A waiting task fits its level.                                          *)

\* What is true of task t when it waits in level i.
Fit(t, i) ==
  /\ priority[t] = i
  /\ length[t] > 0 \/ Untouched(t)
  /\ i < 3 => timeSpend[t] <= Allot

QueuedFit == \A i \in Level : \A t \in Listed(i) : Fit(t, i)

\* What a thread is about to put into a level fits it.
HandsFit ==
  \A c \in CPU : pc[c] \in {"enq", "put"} => Fit(hand[c], priority[hand[c]])

ResetFit == rpc \in {"move", "put"} => Fit(rhand, 0)

MainFit == mainPc \in {"enq", "put"} => Fit(createTask, 0)

Fits == QueuedFit /\ HandsFit /\ ResetFit /\ MainFit

WorkInv == PlaceInv /\ Fits

LEMMA LevelQueues == Level \subseteq Queue /\ Done \notin Level /\ Done \in Queue
  BY DEF Level, Queue, Done

\* A step that changes no task and puts none into a level.
LEMMA FitFrame ==
  ASSUME Fits, UNCHANGED <<taskVars, createTask>>,
         \A i \in Level : Listed(i)' \subseteq Listed(i),
         \A c \in CPU : hand'[c] = hand[c] \/ pc'[c] \notin {"enq", "put"},
         \A c \in CPU : \/ pc'[c] = pc[c] \/ pc'[c] \notin {"enq", "put"}
                        \/ pc[c] = "enq" /\ pc'[c] = "put",
         rpc' \in {"move", "put"} => rpc \in {"move", "put"} /\ UNCHANGED rhand,
         mainPc' \in {"enq", "put"} => mainPc \in {"enq", "put"}
  PROVE  Fits'
<1>1. \A t, i : Fit(t, i) => Fit(t, i)'
  BY DEF Fit, Untouched, taskVars
<1>2. QueuedFit'
  BY <1>1 DEF Fits, QueuedFit
<1>3. HandsFit'
  BY <1>1 DEF Fits, HandsFit, taskVars, Fit, Untouched
<1>4. ResetFit' /\ MainFit'
  BY <1>1 DEF Fits, ResetFit, MainFit
<1> QED
  BY <1>2, <1>3, <1>4 DEF Fits

LEMMA FitMain == WorkInv /\ Main => Fits'
<1> SUFFICES ASSUME WorkInv, Main PROVE Fits'
  OBVIOUS
<1>0. /\ TypeInv /\ Apart /\ EmptyHands /\ Fits
      /\ TaskTypes /\ QueueTypes /\ CpuTypes /\ MainTypes /\ ResetTypes
  BY DEF WorkInv, PlaceInv, TypeInv, TypeOK
<1> USE DEF mainVars, mainData, queueVars, cpuVars, cpuData, resetVars
<1>1. CASE LoadTask
  <2>1. /\ createTask + 1 \in Task /\ createTask' = createTask + 1 /\ mainPc' = "enq"
        /\ UNCHANGED <<q, pc, hand, rpc, rhand>>
        /\ priority'[createTask + 1] = 0 /\ timeSpend'[createTask + 1] = 0
        /\ response'[createTask + 1] # "first"
    BY <1>0, <1>1, MLFQAssumption
    DEF LoadTask, MainTypes, TaskTypes, Task, MLFQAssumption
  <2>2. \A t \in Task : t # createTask + 1 =>
          /\ priority'[t] = priority[t] /\ length'[t] = length[t]
          /\ timeSpend'[t] = timeSpend[t] /\ response'[t] = response[t]
    BY <1>0, <1>1 DEF LoadTask, TaskTypes
  <2>3. \A t \in Task : t <= createTask => t # createTask + 1
    BY <1>0 DEF MainTypes, Task
  <2>4. QueuedFit'
    <3>1. \A i \in Level : \A t \in Listed(i) : t \in Task /\ t <= createTask
      BY <1>0, LevelQueues, ListedTasks DEF Apart, QueuedApart
    <3> QED
      BY <1>0, <2>1, <2>2, <2>3, <3>1 DEF Fits, QueuedFit, Fit, Untouched, Listed
  <2>5. HandsFit'
    <3>1. \A c \in CPU : pc[c] \in {"enq", "put"} =>
            hand[c] \in Task /\ hand[c] <= createTask
      BY <1>0 DEF TypeInv, CpuHolds, Apart, HandsApart, Task, NoTask
    <3> QED
      BY <1>0, <2>1, <2>2, <2>3, <3>1 DEF Fits, HandsFit, Fit, Untouched
  <2>6. ResetFit'
    <3>1. rpc \in {"move", "put"} => rhand \in Task /\ rhand <= createTask
      BY <1>0 DEF TypeInv, ResetHolds, Apart, ResetApart, Task, NoTask
    <3> QED
      BY <1>0, <2>1, <2>2, <2>3, <3>1 DEF Fits, ResetFit, Fit, Untouched
  <2>7. MainFit'
    BY <2>1, MLFQAssumption DEF MainFit, Fit, Untouched, MLFQAssumption
  <2> QED
    BY <2>4, <2>5, <2>6, <2>7 DEF Fits
<1>2. CASE LoadPut
  <2>0. 0 \in Queue /\ InMain(createTask) /\ createTask \in Task
    BY <1>0, <1>2 DEF LoadPut, TypeInv, MainHolds, InMain, Queue
  <2>1. /\ enqueue(0, createTask) /\ createTask \in Task /\ 0 \in Queue
        /\ createTask \notin Listed(0) /\ Fit(createTask, 0)
        /\ UNCHANGED <<taskVars, createTask, pc, hand, rpc, rhand>> /\ mainPc' = "load"
    <3>1. createTask \notin Listed(0)
      BY <1>0, <2>0 DEF Apart, QueuedApart
    <3> QED
      BY <1>0, <1>2, <2>0, <3>1 DEF LoadPut, Fits, MainFit
  <2>2. /\ Listed(0)' = Listed(0) \cup {createTask}
        /\ \A j \in Queue \ {0} : Listed(j)' = Listed(j)
    BY <1>0, <2>1, EnqueueMoves DEF Apart
  <2>3. \A t, i : Fit(t, i) => Fit(t, i)'
    BY <2>1 DEF Fit, Untouched, taskVars
  <2>4. QueuedFit'
    <3> SUFFICES ASSUME NEW i \in Level, NEW t \in Listed(i)' PROVE Fit(t, i)'
      BY DEF QueuedFit
    <3>1. t \in Listed(i) \/ (i = 0 /\ t = createTask)
      BY <2>2, LevelQueues
    <3> QED
      BY <1>0, <2>1, <2>3, <3>1 DEF Fits, QueuedFit
  <2>5. HandsFit' /\ ResetFit' /\ MainFit'
    BY <1>0, <2>1, <2>3 DEF Fits, HandsFit, ResetFit, MainFit, taskVars
  <2> QED
    BY <2>4, <2>5 DEF Fits
<1>3. CASE DrainTake
  <2>1. \A j \in Level : Listed(j)' = Listed(j)
    BY <1>0, <1>3, LevelQueues DEF DrainTake, dequeue, QueueTypes, Listed
  <2> QED
    BY <1>0, <1>3, <2>1, FitFrame DEF DrainTake
<1>4. CASE LoadLock \/ LoadBadLine \/ LoadEnd
  BY <1>0, <1>4, FitFrame DEF Listed, LoadLock, LoadBadLine, LoadEnd, MainGoto
<1>5. CASE LoadDelay \/ DispatchSignal
  <2>1. \A c \in CPU : pc'[c] = pc[c] \/ pc'[c] = "woken"
    BY <1>0, <1>5 DEF LoadDelay, DispatchSignal, Signal, CpuTypes
  <2> QED
    BY <1>0, <1>5, <2>1, FitFrame DEF Listed, LoadDelay, DispatchSignal
<1>6. CASE DispatchEnd \/ SetTerminate \/ DrainLock \/ DrainEnd
  BY <1>0, <1>6, FitFrame DEF Listed, DispatchEnd, SetTerminate, DrainLock, DrainEnd, MainGoto
<1>7. CASE Report \/ DestroyMutexes \/ FreeQueues \/ Return
  BY <1>0, <1>7, FitFrame DEF Listed, Report, DestroyMutexes, FreeQueues, Return, MainGoto
<1> QED
  BY <1>1, <1>2, <1>3, <1>4, <1>5, <1>6, <1>7 DEF Main, MainLoad, MainEnd

\* A turn changes the task in hand alone, uses some of its work unless there is
\* none, and a task that goes back fits.
LEMMA TurnFacts ==
  ASSUME NEW c \in CPU, TaskTypes, hand[c] \in Task, CpuRun(c) \/ CpuRunIO(c)
  PROVE  /\ \A t \in Task : t # hand[c] => /\ priority'[t] = priority[t]
                                           /\ length'[t] = length[t]
                                           /\ timeSpend'[t] = timeSpend[t]
                                           /\ response'[t] = response[t]
         /\ \E n \in 0 .. Quantum :
              /\ n <= Work(length[hand[c]])
              /\ n = 0 => Work(length[hand[c]]) = 0
              /\ Work(length'[hand[c]]) = Work(length[hand[c]]) - n
         /\ \/ pc' = [pc EXCEPT ![c] = "done"] /\ Work(length'[hand[c]]) = 0
            \/ /\ pc' = [pc EXCEPT ![c] = "enq"]
               /\ length'[hand[c]] > 0
               /\ priority'[hand[c]] < 3 => timeSpend'[hand[c]] <= Allot
<1> DEFINE t == hand[c]
<1> USE DEF TaskTypes, Level
<1>0. /\ Quantum \in Nat \ {0} /\ Allot \in Nat
      /\ length[t] \in Int /\ timeSpend[t] \in Nat /\ priority[t] \in 0 .. 3
  BY MLFQAssumption DEF MLFQAssumption
<1>r. \A u \in Task : u # t => response'[u] = response[u]
  BY DEF CpuRun, CpuRunIO, Stamp
<1>1. ASSUME NEW n \in Nat \ {0}, length[t] > 0 => n <= Quantum /\ n <= length[t],
             Charge(t, n)
      PROVE  /\ \A u \in Task : u # t => /\ priority'[u] = priority[u]
                                         /\ length'[u] = length[u]
                                         /\ timeSpend'[u] = timeSpend[u]
             /\ length'[t] = length[t] - n
             /\ priority'[t] < 3 => timeSpend'[t] <= Allot
             /\ \E m \in 0 .. Quantum :
                  /\ m <= Work(length[t])
                  /\ m = 0 => Work(length[t]) = 0
                  /\ Work(length'[t]) = Work(length[t]) - m
  <2>1. /\ length'[t] = length[t] - n
        /\ \A u \in Task : u # t => /\ priority'[u] = priority[u]
                                    /\ length'[u] = length[u]
                                    /\ timeSpend'[u] = timeSpend[u]
    BY <1>1 DEF Charge
  <2>2. priority'[t] < 3 => timeSpend'[t] <= Allot
    <3>1. CASE priority[t] < 3 /\ timeSpend[t] + n > Allot
      <4>1. timeSpend'[t] = 0
        BY <1>1, <3>1 DEF Charge
      <4> QED
        BY <1>0, <4>1
    <3>2. CASE ~ (priority[t] < 3 /\ timeSpend[t] + n > Allot)
      <4>1. timeSpend'[t] = timeSpend[t] + n /\ priority'[t] = priority[t]
        BY <1>1, <3>2 DEF Charge
      <4> QED
        BY <1>0, <3>2, <4>1
    <3> QED
      BY <3>1, <3>2
  <2>3. CASE length[t] > 0
    <3>1. /\ n \in 0 .. Quantum /\ n <= Work(length[t]) /\ n # 0
          /\ Work(length'[t]) = Work(length[t]) - n
      BY <1>0, <1>1, <2>1, <2>3 DEF Work
    <3> QED
      BY <2>1, <2>2, <3>1
  <2>4. CASE length[t] <= 0
    <3>1. /\ 0 \in 0 .. Quantum /\ 0 <= Work(length[t]) /\ Work(length[t]) = 0
          /\ Work(length'[t]) = Work(length[t]) - 0
      BY <1>0, <1>1, <2>1, <2>4 DEF Work
    <3> QED
      BY <2>1, <2>2, <3>1
  <2> QED
    BY <1>0, <2>3, <2>4
<1>2. CASE CpuRun(c)
  <2>1. CASE length[t] <= Quantum /\ length' = [length EXCEPT ![t] = 0]
               /\ pc' = [pc EXCEPT ![c] = "done"] /\ UNCHANGED <<priority, timeSpend>>
    <3>1. /\ length'[t] = 0 /\ Work(length'[t]) = 0 /\ Work(length[t]) \in 0 .. Quantum
          /\ Work(length'[t]) = Work(length[t]) - Work(length[t])
          /\ Work(length[t]) <= Work(length[t])
      BY <1>0, <2>1 DEF Work
    <3> QED
      BY <1>r, <2>1, <3>1
  <2>2. CASE length[t] > Quantum /\ Charge(t, Quantum) /\ pc' = [pc EXCEPT ![c] = "enq"]
    <3>1. Quantum <= Quantum /\ Quantum <= length[t] /\ length[t] - Quantum > 0
      BY <1>0, <2>2
    <3> HIDE DEF t
    <3>2. /\ \A u \in Task : u # t => /\ priority'[u] = priority[u]
                                      /\ length'[u] = length[u]
                                      /\ timeSpend'[u] = timeSpend[u]
          /\ length'[t] = length[t] - Quantum
          /\ priority'[t] < 3 => timeSpend'[t] <= Allot
          /\ \E m \in 0 .. Quantum :
               /\ m <= Work(length[t])
               /\ m = 0 => Work(length[t]) = 0
               /\ Work(length'[t]) = Work(length[t]) - m
      BY <1>0, <1>1, <2>2, <3>1
    <3> QED
      BY <1>r, <2>2, <3>1, <3>2 DEF t
  <2> QED
    BY <1>2, <2>1, <2>2 DEF CpuRun
<1>3. CASE CpuRunIO(c)
  <2>1. PICK n \in Turns(length[t]) :
          /\ Charge(t, n)
          /\ pc' = [pc EXCEPT ![c] = IF length[t] - n > 0 THEN "enq" ELSE "done"]
    BY <1>3 DEF CpuRunIO
  <2>2. n \in Nat \ {0} /\ (length[t] > 0 => n <= Quantum /\ n <= length[t])
    BY <1>0, <2>1, TurnRange
  <2> HIDE DEF t
  <2>3. /\ \A u \in Task : u # t => /\ priority'[u] = priority[u]
                                    /\ length'[u] = length[u]
                                    /\ timeSpend'[u] = timeSpend[u]
        /\ length'[t] = length[t] - n
        /\ priority'[t] < 3 => timeSpend'[t] <= Allot
        /\ \E m \in 0 .. Quantum :
             /\ m <= Work(length[t])
             /\ m = 0 => Work(length[t]) = 0
             /\ Work(length'[t]) = Work(length[t]) - m
    BY <1>1, <2>1, <2>2
  <2>4. length[t] - n > 0 \/ Work(length'[t]) = 0
    BY <2>3 DEF Work
  <2> QED
    BY <1>r, <2>1, <2>2, <2>3, <2>4 DEF t
<1> QED
  BY <1>2, <1>3

LEMMA FitCpu == ASSUME NEW c \in CPU PROVE WorkInv /\ Cpu(c) => Fits'
<1> SUFFICES ASSUME WorkInv, Cpu(c) PROVE Fits'
  OBVIOUS
<1>0. /\ TypeInv /\ Apart /\ EmptyHands /\ Fits
      /\ TaskTypes /\ QueueTypes /\ CpuTypes /\ MainTypes /\ ResetTypes
  BY DEF WorkInv, PlaceInv, TypeInv, TypeOK
<1> USE DEF mainVars, mainData, queueVars, cpuData, cpuLockVars, resetVars
<1>1. CASE CpuTop(c) \/ CpuWait(c) \/ CpuSpurious(c) \/ CpuWoken(c) \/ CpuPeek(c)
             \/ CpuLock(c)
  <2>1. \A d \in CPU : pc'[d] = pc[d] \/ pc'[d] \notin {"enq", "put"}
    BY <1>0, <1>1
    DEF CpuTop, CpuWait, CpuSpurious, CpuWoken, CpuPeek, CpuLock, CpuTypes
  <2>2. /\ UNCHANGED <<taskVars, createTask, q, hand, rpc, rhand, mainPc>>
    BY <1>1 DEF CpuTop, CpuWait, CpuSpurious, CpuWoken, CpuPeek, CpuLock
  <2> QED
    BY <1>0, <2>1, <2>2, FitFrame DEF Listed
<1>2. CASE CpuTake(c)
  <2>0. PICK i \in Level : i = lv[c] /\ dequeue(i)
    BY <1>0, <1>2 DEF CpuTake, CpuTypes
  <2>1. i \in Queue /\ UNCHANGED <<taskVars, createTask, rpc, rhand, mainPc>>
    BY <1>2, LevelQueues DEF CpuTake
  <2>2. CASE q[i] = <<>>
    <3>1. UNCHANGED <<q, hand>> /\ pc' = [pc EXCEPT ![c] = "top"]
      BY <1>0, <1>2, <2>0, <2>1, <2>2
      DEF CpuTake, emptyQueue, dequeue, QueueTypes
    <3> QED
      BY <1>0, <2>1, <3>1, FitFrame DEF Listed, CpuTypes
  <2>3. CASE q[i] # <<>>
    <3> DEFINE h == Head(q[i])
    <3>1. hand' = [hand EXCEPT ![c] = h] /\ pc' = [pc EXCEPT ![c] = "run"]
      BY <1>2, <2>0, <2>3 DEF CpuTake, emptyQueue
    <3>2. /\ h \in Listed(i) /\ Listed(i)' = Listed(i) \ {h}
          /\ \A j \in Queue \ {i} : Listed(j)' = Listed(j)
      BY <1>0, <2>0, <2>1, <2>3, DequeueMoves DEF Apart
    <3> HIDE DEF h
    <3>3. \A t, j : Fit(t, j) => Fit(t, j)'
      BY <2>1 DEF Fit, Untouched, taskVars
    <3>4. QueuedFit'
      BY <1>0, <3>2, <3>3, LevelQueues DEF Fits, QueuedFit
    <3>5. HandsFit'
      BY <1>0, <2>1, <3>1, <3>3 DEF Fits, HandsFit, taskVars, CpuTypes
    <3>6. ResetFit' /\ MainFit'
      BY <1>0, <2>1, <3>3 DEF Fits, ResetFit, MainFit
    <3> QED
      BY <3>4, <3>5, <3>6 DEF Fits
  <2> QED
    BY <2>2, <2>3
<1>3. CASE CpuRun(c) \/ CpuRunIO(c)
  <2>1. /\ pc[c] = "run" /\ UNCHANGED <<q, hand, createTask, rpc, rhand, mainPc>>
        /\ hand[c] \in Task
    BY <1>0, <1>3 DEF CpuRun, CpuRunIO, TypeInv, CpuHolds
  <2>2. /\ \A t \in Task : t # hand[c] => /\ priority'[t] = priority[t]
                                          /\ length'[t] = length[t]
                                          /\ timeSpend'[t] = timeSpend[t]
                                          /\ response'[t] = response[t]
        /\ \/ pc' = [pc EXCEPT ![c] = "done"]
           \/ /\ pc' = [pc EXCEPT ![c] = "enq"]
              /\ length'[hand[c]] > 0
              /\ priority'[hand[c]] < 3 => timeSpend'[hand[c]] <= Allot
    BY <1>0, <1>3, <2>1, TurnFacts
  <2>3. \A t \in Task : t # hand[c] => \A i : Fit(t, i) => Fit(t, i)'
    BY <2>2 DEF Fit, Untouched
  <2>4. QueuedFit'
    <3>1. \A i \in Level : \A t \in Listed(i) : t \in Task /\ t # hand[c]
      BY <1>0, LevelQueues, ListedTasks DEF Apart, QueuedApart
    <3>2. \A i \in Level : Listed(i)' = Listed(i)
      BY <2>1 DEF Listed
    <3> QED
      BY <1>0, <2>3, <3>1, <3>2 DEF Fits, QueuedFit
  <2>5. HandsFit'
    <3>1. \A d \in CPU : d # c /\ pc[d] \in {"enq", "put"} =>
            hand[d] \in Task /\ hand[d] # hand[c]
      BY <1>0 DEF TypeInv, CpuHolds, Apart, HandsApart, Task, NoTask
    <3>2. ASSUME NEW d \in CPU, d # c
          PROVE  pc'[d] \in {"enq", "put"} => Fit(hand[d], priority[hand[d]])'
      <4>1. pc'[d] = pc[d] /\ hand'[d] = hand[d]
        BY <1>0, <2>1, <2>2, <3>2 DEF CpuTypes
      <4>2. pc[d] \in {"enq", "put"} => Fit(hand[d], priority[hand[d]])
        BY <1>0 DEF Fits, HandsFit
      <4>3. pc[d] \in {"enq", "put"} =>
              /\ priority'[hand[d]] = priority[hand[d]]
              /\ length'[hand[d]] = length[hand[d]]
              /\ timeSpend'[hand[d]] = timeSpend[hand[d]]
              /\ response'[hand[d]] = response[hand[d]]
        BY <2>2, <3>1, <3>2
      <4> QED
        BY <4>1, <4>2, <4>3 DEF Fit, Untouched
    <3>3. pc'[c] \in {"enq", "put"} => Fit(hand[c], priority[hand[c]])'
      BY <1>0, <2>1, <2>2 DEF Fit, CpuTypes
    <3> QED
      BY <3>2, <3>3 DEF HandsFit
  <2>6. ResetFit'
    <3>1. rpc \in {"move", "put"} => rhand \in Task /\ rhand # hand[c]
      BY <1>0, <2>1 DEF TypeInv, ResetHolds, Apart, HandsApart, Task, NoTask
    <3> QED
      BY <1>0, <2>1, <2>3, <3>1 DEF Fits, ResetFit
  <2>7. MainFit'
    <3>1. mainPc \in {"enq", "put"} => createTask \in Task /\ createTask # hand[c]
      BY <1>0, <2>1 DEF TypeInv, MainHolds, Apart, HandsApart, Task, NoTask, InMain
    <3> QED
      BY <1>0, <2>1, <2>3, <3>1 DEF Fits, MainFit
  <2> QED
    BY <2>4, <2>5, <2>6, <2>7 DEF Fits
<1>4. CASE CpuEnqLock(c) \/ CpuDoneLock(c) \/ CpuCount(c)
  <2>1. \A d \in CPU : \/ pc'[d] = pc[d] \/ pc'[d] \notin {"enq", "put"}
                       \/ pc[d] = "enq" /\ pc'[d] = "put"
    BY <1>0, <1>4 DEF CpuEnqLock, CpuDoneLock, CpuCount, CpuTypes
  <2>2. UNCHANGED <<taskVars, createTask, q, hand, rpc, rhand, mainPc>>
    BY <1>4 DEF CpuEnqLock, CpuDoneLock, CpuCount
  <2> QED
    BY <1>0, <2>1, <2>2, FitFrame DEF Listed
<1>5. CASE CpuEnqPut(c)
  <2>0. PICK i \in Level : i = priority[hand[c]] /\ enqueue(i, hand[c])
    BY <1>0, <1>5 DEF CpuEnqPut, TypeInv, CpuHolds, TaskTypes
  <2>1. /\ pc[c] = "put" /\ hand[c] \in Task /\ hand' = [hand EXCEPT ![c] = NoTask]
        /\ pc' = [pc EXCEPT ![c] = "top"]
        /\ UNCHANGED <<taskVars, createTask, rpc, rhand, mainPc>>
    BY <1>0, <1>5 DEF CpuEnqPut, TypeInv, CpuHolds
  <2>2. hand[c] \notin Listed(i) /\ i \in Queue
    BY <1>0, LevelQueues DEF Apart, QueuedApart
  <2>3. /\ Listed(i)' = Listed(i) \cup {hand[c]}
        /\ \A j \in Queue \ {i} : Listed(j)' = Listed(j)
    BY <1>0, <2>0, <2>1, <2>2, EnqueueMoves DEF Apart
  <2>4. \A t, j : Fit(t, j) => Fit(t, j)'
    BY <2>1 DEF Fit, Untouched, taskVars
  <2>5. QueuedFit'
    <3> SUFFICES ASSUME NEW j \in Level, NEW t \in Listed(j)' PROVE Fit(t, j)'
      BY DEF QueuedFit
    <3>1. t \in Listed(j) \/ (j = i /\ t = hand[c])
      BY <2>3, LevelQueues
    <3> QED
      BY <1>0, <2>0, <2>1, <2>4, <3>1 DEF Fits, QueuedFit, HandsFit
  <2>6. HandsFit' /\ ResetFit' /\ MainFit'
    BY <1>0, <2>1, <2>4 DEF Fits, HandsFit, ResetFit, MainFit, taskVars, CpuTypes, Fit, Untouched
  <2> QED
    BY <2>5, <2>6 DEF Fits
<1>6. CASE CpuDonePut(c)
  <2>1. /\ hand' = [hand EXCEPT ![c] = NoTask] /\ pc' = [pc EXCEPT ![c] = "count"]
        /\ UNCHANGED <<taskVars, createTask, rpc, rhand, mainPc>>
        /\ \A j \in Level : Listed(j)' = Listed(j)
    BY <1>0, <1>6, LevelQueues DEF CpuDonePut, enqueue, QueueTypes, Listed
  <2> QED
    BY <1>0, <2>1, FitFrame DEF CpuTypes
<1>7. CASE CpuTrap(c)
  <2>1. /\ hand[c] \in Task /\ pc' = [pc EXCEPT ![c] = "trap"]
        /\ UNCHANGED <<q, hand, createTask, rpc, rhand, mainPc, priority, length,
                       timeSpend>>
        /\ \A t \in Task : t # hand[c] => response'[t] = response[t]
    BY <1>0, <1>7 DEF CpuTrap, Stamp, TypeInv, CpuHolds, TaskTypes
  <2>2. \A t \in Task : t # hand[c] => \A i : Fit(t, i) => Fit(t, i)'
    BY <2>1 DEF Fit, Untouched
  <2>3. QueuedFit'
    <3>1. \A i \in Level : \A t \in Listed(i) : t \in Task /\ t # hand[c]
      BY <1>0, LevelQueues, ListedTasks DEF Apart, QueuedApart
    <3>2. \A i \in Level : Listed(i)' = Listed(i)
      BY <2>1 DEF Listed
    <3> QED
      BY <1>0, <2>2, <3>1, <3>2 DEF Fits, QueuedFit
  <2>4. HandsFit'
    <3>1. \A d \in CPU : d # c /\ pc[d] \in {"enq", "put"} =>
            hand[d] \in Task /\ hand[d] # hand[c]
      BY <1>0 DEF TypeInv, CpuHolds, Apart, HandsApart, Task, NoTask
    <3> QED
      BY <1>0, <2>1, <2>2, <3>1 DEF Fits, HandsFit, CpuTypes
  <2>5. ResetFit'
    <3>1. rpc \in {"move", "put"} => rhand \in Task /\ rhand # hand[c]
      BY <1>0, <2>1 DEF TypeInv, ResetHolds, Apart, HandsApart, Task, NoTask
    <3> QED
      BY <1>0, <2>1, <2>2, <3>1 DEF Fits, ResetFit
  <2>6. MainFit'
    <3>1. mainPc \in {"enq", "put"} => createTask \in Task /\ createTask # hand[c]
      BY <1>0, <2>1 DEF TypeInv, MainHolds, Apart, HandsApart, Task, NoTask, InMain
    <3> QED
      BY <1>0, <2>1, <2>2, <3>1 DEF Fits, MainFit
  <2> QED
    BY <2>3, <2>4, <2>5, <2>6 DEF Fits
<1> QED
  BY <1>1, <1>2, <1>3, <1>4, <1>5, <1>6, <1>7 DEF Cpu, CpuDispatch, CpuExecute

LEMMA FitReset == WorkInv /\ Reset => Fits'
<1> SUFFICES ASSUME WorkInv, Reset PROVE Fits'
  OBVIOUS
<1>0. /\ TypeInv /\ Apart /\ EmptyHands /\ Fits
      /\ TaskTypes /\ QueueTypes /\ CpuTypes /\ MainTypes /\ ResetTypes
  BY DEF WorkInv, PlaceInv, TypeInv, TypeOK
<1> USE DEF mainVars, mainData, queueVars, cpuVars, cpuData, resetVars
<1>1. CASE ResetTop \/ ResetWake \/ ResetLock \/ ResetMove \/ ResetNext
  BY <1>0, <1>1, FitFrame
  DEF ResetTop, ResetWake, ResetLock, ResetMove, ResetNext, Listed
<1>2. CASE ResetTake
  <2>0. PICK i \in Level : i = rlv /\ dequeue(i) /\ q[i] # <<>>
    BY <1>0, <1>2 DEF ResetTake, ResetTypes, emptyQueue, Level
  <2> DEFINE h == Head(q[i])
  <2>1. /\ h \in Listed(i) /\ h \in Task /\ Listed(i)' = Listed(i) \ {h}
        /\ \A j \in Queue \ {i} : Listed(j)' = Listed(j)
    BY <1>0, <2>0, LevelQueues, DequeueMoves DEF Apart
  <2>2. /\ rhand' = h /\ rpc' = "move"
        /\ priority' = [priority EXCEPT ![h] = 0]
        /\ timeSpend' = [timeSpend EXCEPT ![h] = 0]
        /\ UNCHANGED <<length, response, pc, hand, createTask, mainPc>>
    BY <1>2, <2>0 DEF ResetTake
  <2> HIDE DEF h
  <2>3. \A t \in Task : t # h => \A j : Fit(t, j) => Fit(t, j)'
    BY <1>0, <2>2 DEF Fit, Untouched, TaskTypes
  <2>4. QueuedFit'
    <3> SUFFICES ASSUME NEW j \in Level, NEW t \in Listed(j)' PROVE Fit(t, j)'
      BY DEF QueuedFit
    <3>1. t \in Listed(j) /\ t \in Task
      BY <1>0, <2>1, LevelQueues, ListedTasks
    <3>2. t # h
      BY <1>0, <2>0, <2>1, <3>1, LevelQueues DEF Apart, QueuedApart
    <3> QED
      BY <1>0, <2>3, <3>1, <3>2 DEF Fits, QueuedFit
  <2>5. HandsFit'
    <3>1. \A d \in CPU : pc[d] \in {"enq", "put"} => hand[d] \in Task /\ hand[d] # h
      BY <1>0, <2>1, LevelQueues DEF TypeInv, CpuHolds, Apart, QueuedApart
    <3>2. \A t \in Task : t # h => priority'[t] = priority[t]
      BY <1>0, <2>2 DEF TaskTypes
    <3> QED
      BY <1>0, <2>2, <2>3, <3>1, <3>2 DEF Fits, HandsFit
  <2>6. ResetFit'
    <3>1. Fit(h, i)
      BY <1>0, <2>1 DEF Fits, QueuedFit
    <3>2. /\ priority'[h] = 0 /\ timeSpend'[h] = 0 /\ 0 <= Allot
          /\ length[h] > 0 \/ response[h] # "first"
      BY <1>0, <2>1, <2>2, <3>1, MLFQAssumption
      DEF Fit, Untouched, TaskTypes, MLFQAssumption
    <3> QED
      BY <2>2, <3>2 DEF ResetFit, Fit, Untouched
  <2>7. MainFit'
    <3>1. mainPc \in {"enq", "put"} => createTask \in Task /\ createTask # h
      BY <1>0, <2>1, LevelQueues DEF TypeInv, MainHolds, Apart, QueuedApart, InMain
    <3> QED
      BY <1>0, <2>2, <2>3, <3>1 DEF Fits, MainFit
  <2> QED
    BY <2>4, <2>5, <2>6, <2>7 DEF Fits
<1>3. CASE ResetPut
  <2>1. /\ rhand \in Task /\ Fit(rhand, 0) /\ enqueue(0, rhand) /\ rpc' = "drain"
        /\ UNCHANGED <<taskVars, pc, hand, createTask, mainPc>>
    BY <1>0, <1>3 DEF ResetPut, TypeInv, ResetHolds, Fits, ResetFit, Fit
  <2>2. rhand \notin Listed(0) /\ 0 \in Queue /\ 0 \in Level
    BY <1>0 DEF Apart, QueuedApart, Queue, Level
  <2>3. /\ Listed(0)' = Listed(0) \cup {rhand}
        /\ \A j \in Queue \ {0} : Listed(j)' = Listed(j)
    BY <1>0, <2>1, <2>2, EnqueueMoves DEF Apart
  <2>4. \A t, j : Fit(t, j) => Fit(t, j)'
    BY <2>1 DEF Fit, Untouched, taskVars
  <2>5. QueuedFit'
    <3> SUFFICES ASSUME NEW j \in Level, NEW t \in Listed(j)' PROVE Fit(t, j)'
      BY DEF QueuedFit
    <3>1. t \in Listed(j) \/ (j = 0 /\ t = rhand)
      BY <2>3, LevelQueues
    <3> QED
      BY <1>0, <2>1, <2>4, <3>1 DEF Fits, QueuedFit
  <2>6. HandsFit' /\ ResetFit' /\ MainFit'
    BY <1>0, <2>1, <2>4 DEF Fits, HandsFit, ResetFit, MainFit, taskVars
  <2> QED
    BY <2>5, <2>6 DEF Fits
<1> QED
  BY <1>1, <1>2, <1>3 DEF Reset

LEMMA WorkInit == Init => WorkInv
<1> SUFFICES ASSUME Init PROVE Fits
  BY PlaceInit DEF WorkInv
<1>1. \A i \in Queue : Listed(i) = {}
  BY DEF Init, Listed
<1>2. QueuedFit
  BY <1>1, LevelQueues DEF QueuedFit
<1>3. HandsFit /\ ResetFit /\ MainFit
  BY DEF Init, HandsFit, ResetFit, MainFit
<1> QED
  BY <1>2, <1>3 DEF Fits

LEMMA WorkNext == WorkInv /\ [Next]_vars => WorkInv'
<1> SUFFICES ASSUME WorkInv, [Next]_vars PROVE Fits'
  BY PlaceNext DEF WorkInv
<1>1. CASE Main \/ Reset \/ \E c \in CPU : Cpu(c)
  BY <1>1, FitMain, FitReset, FitCpu
<1>2. CASE UseAfterFree \/ UNCHANGED vars
  BY <1>2, FitFrame DEF WorkInv, UseAfterFree, vars, mainVars, mainData, queueVars,
     cpuVars, cpuData, resetVars, Listed, Freed
<1> QED
  BY <1>1, <1>2 DEF Next, Ended

LEMMA WorkAlways == Spec => []WorkInv
  BY WorkInit, WorkNext, PTL DEF Spec

(***************************************************************************)
(* A waiting task has the priority of its level, work left unless it came  *)
(* with none and has not run yet and, above the last level, an allotment   *)
(* it has not used up, whichever of the CPU threads and the boost thread   *)
(* wrote its fields last.                                                  *)
(***************************************************************************)
THEOREM WaitingFits == Spec => []ReadyHasWork
<1>1. WorkInv => ReadyHasWork
  <2> SUFFICES ASSUME WorkInv, NEW i \in Level, NEW k \in DOMAIN q[i]
               PROVE  Fit(q[i][k], i)
    BY DEF ReadyHasWork, Fit
  <2>1. q[i] \in Seq(Task)
    BY LevelQueues DEF WorkInv, PlaceInv, TypeInv, TypeOK, QueueTypes
  <2>2. k \in 1 .. Len(q[i])
    BY <2>1, LenProperties
  <2>3. q[i][k] \in Listed(i)
    BY <2>2 DEF Listed
  <2> QED
    BY <2>3 DEF WorkInv, Fits, QueuedFit
<1> QED
  BY <1>1, WorkAlways, PTL

-----------------------------------------------------------------------------
(* The simulator implements TaskLife: reading a line is Arrive, the        *)
(* dequeue of deMLFQ is Dispatch, a turn is Turn, main's dequeue from Done *)
(* is Account, all else stutters.                                          *)

Runs == [c \in CPU |-> IF pc[c] \in {"run", "trap"} THEN hand[c] ELSE NoTask]

Left == [t \in Task |-> Work(length[t])]

Ending == {d \in CPU : pc[d] \in {"done", "putdone"}}

LifeStays == UNCHANGED <<createTask, Left, Runs, AtEnd, reported>>

\* A step that reads no line, neither starts nor ends a turn, reports nothing.
LEMMA LifeStutter ==
  ASSUME LifeStays
  PROVE  UNCHANGED Life!vars
  BY DEF LifeStays, Runs, Left, Life!vars

\* The tasks at their end: in Done, reported, or on their way into Done.
LEMMA AtEndParts == AtEnd = Listed(Done) \cup reported \cup {hand[c] : c \in Ending}
  BY DEF AtEnd, Listed, Ending

LEMMA AtEndFrame ==
  ASSUME Listed(Done)' = Listed(Done), UNCHANGED reported,
         \A c \in CPU : c \in Ending' <=> c \in Ending,
         \A c \in Ending : hand'[c] = hand[c]
  PROVE  AtEnd' = AtEnd
  BY DEF AtEnd, Listed, Ending

LEMMA LifeMain ==
  ASSUME WorkInv, Main
  PROVE  Life!Next \/ UNCHANGED Life!vars
<1>0. /\ MainTypes /\ TaskTypes /\ CpuTypes /\ QueueTypes /\ Apart
      /\ MainHolds /\ Done \in Queue
  BY LevelQueues DEF WorkInv, PlaceInv, TypeInv, TypeOK
<1> USE DEF mainVars, mainData, cpuVars, cpuData, taskVars, queueVars
<1>1. CASE LoadTask
  <2>1. /\ createTask + 1 \in Task /\ createTask' = createTask + 1
        /\ UNCHANGED <<pc, hand, q, reported>>
    BY <1>0, <1>1, MLFQAssumption DEF LoadTask, MainTypes, Task, MLFQAssumption
  <2>2. PICK n \in Lengths : length' = [length EXCEPT ![createTask + 1] = n]
    BY <1>1 DEF LoadTask
  <2>3. /\ createTask + 1 \notin 1 .. createTask
        /\ (1 .. createTask)' = 1 .. createTask \cup {createTask + 1}
    BY <1>0, <2>1 DEF MainTypes
  <2>4. Left' = [Left EXCEPT ![createTask + 1] = Work(n)]
    BY <1>0, <2>1, <2>2 DEF Left, TaskTypes
  <2>5. AtEnd' = AtEnd
    BY <2>1 DEF AtEnd
  <2>6. Life!Arrive(createTask + 1, n)
    BY <2>1, <2>3, <2>4, <2>5 DEF Life!Arrive, Life!Work, Work, Left
  <2> QED
    BY <2>1, <2>6 DEF Life!Next
<1>2. CASE LoadDelay \/ DispatchSignal
  <2>1. \A c \in CPU : pc'[c] = pc[c] \/ (pc[c] = "sleep" /\ pc'[c] = "woken")
    BY <1>0, <1>2 DEF LoadDelay, DispatchSignal, Signal, CpuTypes
  <2>2. UNCHANGED <<createTask, length, hand, q, reported>>
    BY <1>2 DEF LoadDelay, DispatchSignal
  <2>3. UNCHANGED <<Runs, Left, AtEnd>>
    BY <2>1, <2>2 DEF Runs, Left, AtEnd
  <2> QED
    BY <2>2, <2>3, LifeStutter DEF LifeStays
<1>3. CASE LoadLock \/ LoadBadLine \/ LoadEnd \/ DispatchEnd
  BY <1>3, LifeStutter
     DEF LoadLock, LoadBadLine, LoadEnd, DispatchEnd, MainGoto, LifeStays, Runs,
         Left, AtEnd
<1>4. CASE SetTerminate \/ DrainLock \/ DrainEnd
  BY <1>4, LifeStutter
     DEF SetTerminate, DrainLock, DrainEnd, MainGoto, LifeStays, Runs, Left, AtEnd
<1>5. CASE Report \/ DestroyMutexes \/ FreeQueues \/ Return
  BY <1>5, LifeStutter
     DEF Report, DestroyMutexes, FreeQueues, Return, MainGoto, LifeStays, Runs, Left,
         AtEnd
<1>6. CASE LoadPut
  <2>1. q'[Done] = q[Done] /\ UNCHANGED <<createTask, length, pc, hand, reported>>
    BY <1>0, <1>6, LevelQueues DEF LoadPut, enqueue, QueueTypes, Done, Queue
  <2> QED
    BY <2>1, LifeStutter DEF LifeStays, Runs, Left, AtEnd
<1>7. CASE DrainTake
  <2>1. /\ q[Done] # <<>> /\ dequeue(Done) /\ reported' = reported \cup {q[Done][1]}
        /\ UNCHANGED <<createTask, length, pc, hand>>
    BY <1>0, <1>7 DEF DrainTake, MainHolds
  <2>2. PICK h \in Task : /\ h = q[Done][1] /\ h \in Listed(Done)
                          /\ Listed(Done)' = Listed(Done) \ {h}
    BY <1>0, <2>1, DequeueMoves DEF Apart
  <2>3. h \in AtEnd /\ h \notin reported
    BY <1>0, <2>2, AtEndParts DEF Apart, QueuedApart
  <2>4. AtEnd' = AtEnd
    <3>1. AtEnd' = Listed(Done)' \cup reported' \cup {hand'[c] : c \in Ending'}
      BY DEF AtEnd, Listed, Ending
    <3>2. {hand'[c] : c \in Ending'} = {hand[c] : c \in Ending}
      BY <2>1 DEF Ending
    <3> QED
      BY <2>1, <2>2, <3>1, <3>2, AtEndParts
  <2>5. Life!Account(h)
    BY <2>1, <2>2, <2>3, <2>4 DEF Life!Account
  <2> QED
    BY <2>5 DEF Life!Next
<1> QED
  BY <1>1, <1>2, <1>3, <1>4, <1>5, <1>6, <1>7 DEF Main, MainLoad, MainEnd

LEMMA LifeCpu ==
  ASSUME NEW c \in CPU, WorkInv, Cpu(c)
  PROVE  Life!Next \/ UNCHANGED Life!vars
<1>0. /\ TypeInv /\ Apart /\ EmptyHands /\ Fits
      /\ MainTypes /\ QueueTypes /\ TaskTypes /\ CpuTypes /\ Done \in Queue
  BY LevelQueues DEF WorkInv, PlaceInv, TypeInv, TypeOK
<1> USE DEF mainVars, mainData, cpuData, taskVars, queueVars
<1>1. CASE CpuTake(c) /\ ~ emptyQueue(lv[c])
  <2>0. PICK i \in Level : i = lv[c] /\ dequeue(i) /\ q[i] # <<>>
    BY <1>0, <1>1 DEF CpuTake, CpuTypes, emptyQueue
  <2>h. PICK h \in Task : h = Head(q[i])
    BY <1>0, <2>0, LevelQueues, DequeueMoves DEF Apart
  <2>1. /\ h \in Listed(i) /\ i # Done /\ i \in Queue
        /\ Listed(Done)' = Listed(Done)
    BY <1>0, <2>0, <2>h, LevelQueues, DequeueMoves DEF Apart
  <2>2. /\ pc[c] = "take" /\ pc' = [pc EXCEPT ![c] = "run"]
        /\ hand' = [hand EXCEPT ![c] = h] /\ UNCHANGED <<createTask, length, reported>>
    BY <1>1, <2>0, <2>h DEF CpuTake
  <2>3. /\ h \in 1 .. createTask /\ h # NoTask
        /\ \A d \in CPU : hand[d] # h
    BY <1>0, <2>1 DEF Apart, QueuedApart, Task, NoTask, MainTypes
  <2>4. Runs' = [Runs EXCEPT ![c] = h]
    BY <1>0, <2>2 DEF Runs, CpuTypes
  <2>5. Runs[c] = NoTask /\ \A d \in CPU : Runs[d] # h
    BY <2>2, <2>3 DEF Runs
  <2>6. h \notin AtEnd
    <3>1. h \notin Listed(Done) /\ h \notin reported
      BY <1>0, <2>1 DEF Apart, QueuedApart
    <3>2. h \notin {hand[d] : d \in Ending}
      BY <2>3 DEF Ending
    <3> QED
      BY <3>1, <3>2, AtEndParts
  <2>7. AtEnd' = AtEnd
    BY <1>0, <2>1, <2>2, AtEndFrame DEF Ending, CpuTypes
  <2>8. Left' = Left
    BY <2>2 DEF Left
  <2>9. Life!Dispatch(c, h)
    BY <2>2, <2>3, <2>4, <2>5, <2>6, <2>7, <2>8 DEF Life!Dispatch, Runs, Left
  <2> QED
    BY <2>9 DEF Life!Next
<1>2. CASE CpuRun(c) \/ CpuRunIO(c)
  <2>1. /\ pc[c] = "run" /\ hand[c] \in Task
        /\ UNCHANGED <<hand, createTask, q, reported>>
    BY <1>0, <1>2 DEF CpuRun, CpuRunIO, TypeInv, CpuHolds
  <2> DEFINE h == hand[c]
  <2>2. PICK n \in 0 .. Quantum : /\ n <= Work(length[h])
                                  /\ n = 0 => Work(length[h]) = 0
                                  /\ Work(length'[h]) = Work(length[h]) - n
    BY <1>0, <1>2, <2>1, TurnFacts
  <2>3. /\ \/ pc' = [pc EXCEPT ![c] = "done"] /\ Work(length'[h]) = 0
           \/ pc' = [pc EXCEPT ![c] = "enq"] /\ length'[h] > 0
        /\ \A t \in Task : t # h => length'[t] = length[t]
    BY <1>0, <1>2, <2>1, TurnFacts
  <2>4. Runs[c] = h /\ Runs' = [Runs EXCEPT ![c] = NoTask] /\ h # NoTask
    <3>1. h # NoTask
      BY <2>1 DEF Task, NoTask
    <3>2. /\ pc'[c] \notin {"run", "trap"} /\ hand' = hand
          /\ \A d \in CPU \ {c} : pc'[d] = pc[d]
      BY <1>0, <2>1, <2>3 DEF CpuTypes
    <3>3. Runs[c] = h /\ Runs' = [Runs EXCEPT ![c] = NoTask]
      BY <2>1, <3>2 DEF Runs
    <3> QED
      BY <3>1, <3>3
  <2>5. Left[h] = Work(length[h]) /\ Left' = [Left EXCEPT ![h] = @ - n]
    BY <2>1, <2>2, <2>3 DEF Left
  <2>6. AtEnd' = IF Left[h] = n THEN AtEnd \cup {h} ELSE AtEnd
    <3>1. Left[h] \in Int /\ n \in Int
      BY <1>0, <2>1, <2>5 DEF Work, TaskTypes
    <3>2. /\ c \notin Ending /\ \A d \in CPU \ {c} : d \in Ending' <=> d \in Ending
          /\ c \in Ending' <=> pc'[c] = "done"
      BY <1>0, <2>1, <2>3 DEF Ending, CpuTypes
    <3>3. AtEnd' = Listed(Done) \cup reported \cup {hand[d] : d \in Ending'}
      BY <2>1 DEF AtEnd, Listed, Ending
    <3>4. CASE pc' = [pc EXCEPT ![c] = "done"] /\ Work(length'[h]) = 0
      <4>1. Left[h] = n
        BY <2>2, <2>5, <3>1, <3>4
      <4>2. Ending' = Ending \cup {c}
        BY <1>0, <3>2, <3>4 DEF Ending, CpuTypes
      <4>3. {hand[d] : d \in Ending'} = {hand[d] : d \in Ending} \cup {h}
        BY <4>2
      <4> QED
        BY <3>3, <4>1, <4>3, AtEndParts
    <3>5. CASE pc' = [pc EXCEPT ![c] = "enq"] /\ length'[h] > 0
      <4>1. Left[h] # n
        BY <2>2, <2>5, <3>1, <3>5 DEF Work
      <4>2. Ending' = Ending
        BY <1>0, <3>2, <3>5 DEF Ending, CpuTypes
      <4> QED
        BY <3>3, <4>1, <4>2, AtEndParts
    <3> QED
      BY <2>3, <3>4, <3>5
  <2>7. Life!Turn(c, n)
    BY <2>1, <2>2, <2>4, <2>5, <2>6 DEF Life!Turn, Runs, Left
  <2> QED
    BY <2>7 DEF Life!Next
\* A step of this thread alone that keeps its task, unless it runs or ends it.
<1>a. ASSUME UNCHANGED <<createTask, length, reported>>,
             Listed(Done)' = Listed(Done),
             \A d \in CPU \ {c} : pc'[d] = pc[d] /\ hand'[d] = hand[d],
             pc[c] \in {"run", "trap"} <=> pc'[c] \in {"run", "trap"},
             pc[c] \in {"run", "trap", "done", "putdone"} => hand'[c] = hand[c],
             pc[c] \in {"done", "putdone"} <=> pc'[c] \in {"done", "putdone"}
      PROVE  UNCHANGED Life!vars
  <2>1. UNCHANGED Runs
    BY <1>a DEF Runs
  <2>2. UNCHANGED Left
    BY <1>a DEF Left
  <2>3. UNCHANGED AtEnd
    BY <1>a, AtEndFrame DEF Ending
  <2> QED
    BY <1>a, <2>1, <2>2, <2>3, LifeStutter DEF LifeStays
<1>3. CASE CpuTop(c) \/ CpuWait(c) \/ CpuSpurious(c) \/ CpuWoken(c) \/ CpuPeek(c)
             \/ CpuLock(c)
  <2>1. /\ \A d \in CPU \ {c} : pc'[d] = pc[d]
        /\ pc[c] \notin {"run", "trap", "done", "putdone"}
        /\ pc'[c] \notin {"run", "trap", "done", "putdone"}
    BY <1>0, <1>3
    DEF CpuTop, CpuWait, CpuSpurious, CpuWoken, CpuPeek, CpuLock, CpuTypes
  <2>2. UNCHANGED <<hand, createTask, length, q, reported>>
    BY <1>3 DEF CpuTop, CpuWait, CpuSpurious, CpuWoken, CpuPeek, CpuLock
  <2> QED
    BY <1>a, <2>1, <2>2 DEF Listed
<1>4. CASE CpuTake(c) /\ emptyQueue(lv[c])
  <2>1. /\ pc[c] = "take" /\ pc' = [pc EXCEPT ![c] = "top"]
        /\ UNCHANGED <<hand, createTask, length, q, reported>>
    BY <1>0, <1>4 DEF CpuTake, dequeue, emptyQueue, QueueTypes, CpuTypes
  <2> QED
    BY <1>0, <1>a, <2>1 DEF Listed, CpuTypes
<1>5. CASE CpuEnqLock(c) \/ CpuDoneLock(c) \/ CpuCount(c) \/ CpuTrap(c)
  <2>1. /\ \A d \in CPU \ {c} : pc'[d] = pc[d]
        /\ pc[c] \in {"run", "trap"} <=> pc'[c] \in {"run", "trap"}
        /\ pc[c] \in {"done", "putdone"} <=> pc'[c] \in {"done", "putdone"}
    BY <1>0, <1>5 DEF CpuEnqLock, CpuDoneLock, CpuCount, CpuTrap, CpuTypes
  <2>2. UNCHANGED <<hand, createTask, length, q, reported>>
    BY <1>5 DEF CpuEnqLock, CpuDoneLock, CpuCount, CpuTrap
  <2> QED
    BY <1>a, <2>1, <2>2 DEF Listed
<1>6. CASE CpuEnqPut(c)
  <2>1. PICK i \in Level : i = priority[hand[c]] /\ enqueue(i, hand[c])
    BY <1>0, <1>6 DEF CpuEnqPut, TypeInv, CpuHolds, TaskTypes
  <2>2. Listed(Done)' = Listed(Done)
    BY <1>0, <2>1, LevelQueues DEF enqueue, QueueTypes, Listed
  <2>3. /\ \A d \in CPU \ {c} : pc'[d] = pc[d] /\ hand'[d] = hand[d]
        /\ pc[c] = "put" /\ pc'[c] = "top" /\ UNCHANGED <<createTask, length, reported>>
    BY <1>0, <1>6 DEF CpuEnqPut, CpuTypes
  <2> QED
    BY <1>a, <2>2, <2>3
<1>7. CASE CpuDonePut(c)
  <2>1. /\ pc[c] = "putdone" /\ hand[c] \in Task /\ enqueue(Done, hand[c])
        /\ pc' = [pc EXCEPT ![c] = "count"] /\ hand' = [hand EXCEPT ![c] = NoTask]
        /\ UNCHANGED <<createTask, length, reported>>
    BY <1>0, <1>7 DEF CpuDonePut, TypeInv, CpuHolds
  <2>2. Listed(Done)' = Listed(Done) \cup {hand[c]}
    <3>1. hand[c] \notin Listed(Done)
      BY <1>0, <2>1 DEF Apart, QueuedApart
    <3> QED
      BY <1>0, <2>1, <3>1, EnqueueMoves DEF Apart
  <2>3. c \in Ending /\ Ending' = Ending \ {c} /\ \A d \in Ending' : hand'[d] = hand[d]
    BY <1>0, <2>1 DEF Ending, CpuTypes
  <2>4. AtEnd' = AtEnd
    <3>1. AtEnd' = Listed(Done)' \cup reported' \cup {hand'[d] : d \in Ending'}
      BY DEF AtEnd, Listed, Ending
    <3>2. {hand[d] : d \in Ending} = {hand'[d] : d \in Ending'} \cup {hand[c]}
      BY <2>3
    <3> QED
      BY <2>1, <2>2, <3>1, <3>2, AtEndParts
  <2>5. UNCHANGED <<Runs, Left>>
    BY <1>0, <2>1 DEF Runs, Left, CpuTypes
  <2> QED
    BY <2>1, <2>4, <2>5, LifeStutter DEF LifeStays
<1> QED
  BY <1>1, <1>2, <1>3, <1>4, <1>5, <1>6, <1>7 DEF Cpu, CpuDispatch, CpuExecute

LEMMA LifeOther ==
  ASSUME WorkInv, Reset \/ UseAfterFree \/ UNCHANGED vars
  PROVE  UNCHANGED Life!vars
<1>0. QueueTypes /\ TaskTypes /\ ResetTypes /\ TypeInv /\ Fits
  BY DEF WorkInv, PlaceInv, TypeInv, TypeOK
<1> USE DEF mainVars, mainData, cpuVars, cpuData, taskVars, queueVars
<1>1. CASE UseAfterFree \/ UNCHANGED vars
  BY <1>1, LifeStutter DEF UseAfterFree, vars, LifeStays, Runs, Left, AtEnd
<1>2. CASE Reset
  <2>1. UNCHANGED <<createTask, length, reported, pc, hand>>
    BY <1>2 DEF Reset, ResetTop, ResetWake, ResetLock, ResetTake, ResetMove,
       ResetPut, ResetNext
  <2>2. q'[Done] = q[Done]
    <3>1. UNCHANGED q \/ \E i \in 0 .. 3 : dequeue(i) \/ enqueue(i, rhand)
      BY <1>0, <1>2 DEF Reset, ResetTop, ResetWake, ResetLock, ResetTake, ResetMove,
         ResetPut, ResetNext, ResetTypes, Fits, ResetFit, Fit
    <3> QED
      BY <1>0, <3>1 DEF dequeue, enqueue, QueueTypes, Queue, Done
  <2> QED
    BY <2>1, <2>2, LifeStutter DEF LifeStays, Runs, Left, AtEnd
<1> QED
  BY <1>1, <1>2

(***************************************************************************)
(* MLFQ implements TaskLife: each task is run by one CPU at a time, for a  *)
(* quantum at most and for no more than it has left, is finished when      *)
(* nothing of its length is left, does not run again and is accounted for  *)
(* once by main, with any lengths in the task file.                        *)
(***************************************************************************)
THEOREM SchedulerKeepsPromise == Spec => LifeSpec
<1>1. Init => Life!Init
  <2> SUFFICES ASSUME Init PROVE Life!Init
    OBVIOUS
  <2>1. createTask = 0 /\ 1 .. createTask = {}
    BY DEF Init
  <2>2. AtEnd = {}
    BY LevelQueues DEF Init, AtEnd
  <2> QED
    BY <2>1, <2>2 DEF Init, Life!Init, Work
<1>2. WorkInv /\ [Next]_vars => [Life!Next]_(Life!vars)
  BY LifeMain, LifeCpu, LifeOther DEF Next, Ended
<1> QED
  BY <1>1, <1>2, WorkAlways, PTL DEF Spec, LifeSpec, Life!Spec


-----------------------------------------------------------------------------
(***************************************************************************)
(* What the mutexes of the MLFQ simulator protect: every queue is changed  *)
(* by the owner of its mutex, doneTask never runs ahead of Done, and a scan*)
(* of the levels stays true while its thread is alone.                     *)
(***************************************************************************)

LockInv == WorkInv /\ OwnsLocks

MainOwns ==
  /\ mainPc = "put" => lock[0] = "main"
  /\ mainPc = "take" => lock[Done] = "main"

CpuOwns(c) ==
  /\ pc[c] = "take" => lock[lv[c]] = c
  /\ pc[c] = "put" => lock[priority[hand[c]]] = c
  /\ pc[c] \in {"putdone", "count"} => lock[Done] = c

ResetOwns ==
  /\ rpc \in {"drain", "move", "put"} => lock[rlv] = "reset"
  /\ rpc = "put" => lock[priority[rhand]] = "reset"

LEMMA OwnsParts == OwnsLocks <=> MainOwns /\ (\A c \in CPU : CpuOwns(c)) /\ ResetOwns
  BY DEF OwnsLocks, MainOwns, CpuOwns, ResetOwns

LEMMA ThreadNames ==
  /\ \A c \in CPU : c # "main" /\ c # "reset" /\ c # NoThread /\ c \in Thread
  /\ "main" \in Thread /\ "reset" \in Thread
  /\ "main" # NoThread /\ "reset" # NoThread
  BY MLFQAssumption DEF MLFQAssumption, Thread, NoThread

\* Taking and giving back a mutex leaves the other owners as they are.
LEMMA AcquireKeeps ==
  ASSUME QueueTypes, NEW i \in Queue, NEW th \in Thread, Acquire(i, th)
  PROVE  /\ lock'[i] = th
         /\ \A j \in Queue, o \in Thread : lock[j] = o => lock'[j] = o
<1>1. \A o \in Thread : o # NoThread
  BY ThreadNames DEF Thread
<1> QED
  BY <1>1 DEF QueueTypes, Acquire

LEMMA ReleaseKeeps ==
  ASSUME QueueTypes, NEW i \in Queue, NEW th \in Thread, lock[i] = th, Release(i)
  PROVE  /\ \A j \in Queue : j # i => lock'[j] = lock[j]
         /\ \A j \in Queue, o \in Thread : lock[j] = o /\ o # th => lock'[j] = o
  BY DEF QueueTypes, Release

\* A thread that stays where it is keeps what it owns.
LEMMA MainFrame ==
  ASSUME MainOwns, mainPc' = mainPc \/ mainPc' \notin {"put", "take"},
         \A j \in Queue : lock[j] = "main" => lock'[j] = "main"
  PROVE  MainOwns'
  BY LevelQueues DEF MainOwns, Queue, Done

LEMMA CpuFrame ==
  ASSUME NEW c \in CPU, TypeInv, CpuOwns(c), lv'[c] = lv[c], hand'[c] = hand[c],
         pc'[c] = pc[c] \/ pc'[c] \notin {"take", "put", "putdone", "count"},
         pc[c] = "put" => priority'[hand[c]] = priority[hand[c]],
         \A j \in Queue : lock[j] = c => lock'[j] = c
  PROVE  CpuOwns(c)'
<1>1. /\ lv[c] \in Queue /\ Done \in Queue
      /\ pc[c] = "put" => priority[hand[c]] \in Queue
  BY LevelQueues DEF TypeInv, TypeOK, CpuTypes, CpuHolds, TaskTypes
<1> QED
  BY <1>1 DEF CpuOwns

LEMMA ResetFrame ==
  ASSUME TypeInv, ResetOwns, UNCHANGED <<rpc, rlv, rhand>>,
         rpc = "put" => priority'[rhand] = priority[rhand],
         \A j \in Queue : lock[j] = "reset" => lock'[j] = "reset"
  PROVE  ResetOwns'
<1>1. /\ rlv \in Queue
      /\ rpc = "put" => priority[rhand] \in Queue
  BY LevelQueues DEF TypeInv, TypeOK, ResetTypes, ResetHolds, TaskTypes, Level
<1> QED
  BY <1>1 DEF ResetOwns

LEMMA OwnsMain == LockInv /\ Main => OwnsLocks'
<1> SUFFICES ASSUME LockInv, Main PROVE OwnsLocks'
  OBVIOUS
<1>0. /\ TypeInv /\ Apart /\ CpuTypes /\ QueueTypes /\ TaskTypes /\ MainTypes
      /\ MainOwns /\ (\A c \in CPU : CpuOwns(c)) /\ ResetOwns
      /\ 0 \in Queue /\ Done \in Queue
  BY OwnsParts DEF LockInv, WorkInv, PlaceInv, TypeInv, TypeOK, Queue, Done
<1> USE DEF mainVars, mainData, queueVars, cpuVars, cpuData, resetVars, taskVars
<1>a. ASSUME \A j \in Queue, o \in CPU \cup {"reset"} : lock[j] = o => lock'[j] = o,
             UNCHANGED <<lv, hand, rlv, rhand>>, rpc' \in {rpc, "top"},
             \A c \in CPU : pc'[c] = pc[c] \/ pc'[c] = "woken",
             \A t \in Task : t <= createTask => priority'[t] = priority[t],
             MainOwns'
      PROVE  OwnsLocks'
  <2>1. \A c \in CPU : pc[c] = "put" => priority'[hand[c]] = priority[hand[c]]
    BY <1>0, <1>a DEF TypeInv, CpuHolds, Apart, HandsApart, Task, NoTask
  <2>2. ASSUME NEW c \in CPU PROVE CpuOwns(c)'
    BY <1>0, <1>a, <2>1, CpuFrame
  <2>3. ResetOwns'
    <3>1. rpc = "put" => priority'[rhand] = priority[rhand]
      BY <1>0, <1>a DEF TypeInv, ResetHolds, Apart, ResetApart, Task, NoTask
    <3>2. CASE rpc' = rpc
      BY <1>0, <1>a, <3>1, <3>2, ResetFrame
    <3>3. CASE rpc' = "top"
      BY <3>3 DEF ResetOwns
    <3> QED
      BY <1>a, <3>2, <3>3
  <2> QED
    BY <1>a, <2>2, <2>3 DEF OwnsLocks, MainOwns, CpuOwns, ResetOwns
<1>1. CASE LoadTask
  <2>1. \A t \in Task : t <= createTask => priority'[t] = priority[t]
    BY <1>0, <1>1 DEF LoadTask, TaskTypes, MainTypes, Task
  <2>2. MainOwns'
    BY <1>1 DEF LoadTask, MainOwns
  <2> QED
    BY <1>1, <1>a, <2>1, <2>2 DEF LoadTask
<1>2. CASE LoadLock
  <2>1. lock'[0] = "main" /\ \A j \in Queue, o \in Thread : lock[j] = o => lock'[j] = o
    BY <1>0, <1>2, AcquireKeeps, ThreadNames DEF LoadLock
  <2>2. MainOwns'
    BY <1>2, <2>1 DEF LoadLock, MainOwns
  <2> QED
    BY <1>2, <1>a, <2>1, <2>2, ThreadNames DEF LoadLock
<1>3. CASE LoadPut \/ DrainTake
  <2>1. PICK i \in Queue : lock[i] = "main" /\ Release(i)
    BY <1>0, <1>3 DEF LoadPut, DrainTake, MainOwns
  <2>2. \A j \in Queue, o \in CPU \cup {"reset"} : lock[j] = o => lock'[j] = o
    BY <1>0, <2>1, ReleaseKeeps, ThreadNames
  <2>3. MainOwns'
    BY <1>3 DEF LoadPut, DrainTake, MainOwns
  <2> QED
    BY <1>3, <1>a, <2>2, <2>3 DEF LoadPut, DrainTake
<1>4. CASE DrainLock
  <2>1. lock'[Done] = "main" /\ \A j \in Queue, o \in Thread : lock[j] = o => lock'[j] = o
    BY <1>0, <1>4, AcquireKeeps, ThreadNames DEF DrainLock
  <2>2. MainOwns'
    BY <1>4, <2>1 DEF DrainLock, MainOwns
  <2> QED
    BY <1>4, <1>a, <2>1, <2>2, ThreadNames DEF DrainLock
<1>5. CASE LoadDelay \/ DispatchSignal
  <2>1. \A c \in CPU : pc'[c] = pc[c] \/ pc'[c] = "woken"
    BY <1>0, <1>5 DEF LoadDelay, DispatchSignal, Signal, CpuTypes
  <2>2. MainOwns'
    BY <1>0, <1>5 DEF LoadDelay, DispatchSignal, MainOwns
  <2> QED
    BY <1>5, <1>a, <2>1, <2>2 DEF LoadDelay, DispatchSignal
<1>6. CASE LoadBadLine \/ LoadEnd \/ DispatchEnd \/ SetTerminate \/ DrainEnd
  <2>1. MainOwns'
    BY <1>6 DEF LoadBadLine, LoadEnd, DispatchEnd, SetTerminate, DrainEnd, MainGoto,
       MainOwns
  <2> QED
    BY <1>6, <1>a, <2>1
    DEF LoadBadLine, LoadEnd, DispatchEnd, SetTerminate, DrainEnd, MainGoto
<1>7. CASE Report \/ DestroyMutexes \/ FreeQueues \/ Return
  <2>1. MainOwns'
    BY <1>7 DEF Report, DestroyMutexes, FreeQueues, Return, MainGoto, MainOwns
  <2> QED
    BY <1>7, <1>a, <2>1 DEF Report, DestroyMutexes, FreeQueues, Return, MainGoto
<1> QED
  BY <1>1, <1>2, <1>3, <1>4, <1>5, <1>6, <1>7 DEF Main, MainLoad, MainEnd

LEMMA OwnsCpu == ASSUME NEW c \in CPU PROVE LockInv /\ Cpu(c) => OwnsLocks'
<1> SUFFICES ASSUME LockInv, Cpu(c) PROVE OwnsLocks'
  OBVIOUS
<1>0. /\ TypeInv /\ Apart /\ EmptyHands /\ Fits
      /\ CpuTypes /\ QueueTypes /\ TaskTypes /\ MainTypes
      /\ MainOwns /\ (\A d \in CPU : CpuOwns(d)) /\ ResetOwns /\ Done \in Queue
  BY OwnsParts DEF LockInv, WorkInv, PlaceInv, TypeInv, TypeOK, Queue, Done
<1> USE DEF mainVars, mainData, queueVars, cpuData, cpuLockVars, resetVars, taskVars
<1>a. ASSUME \A j \in Queue, o \in Thread \ {c} : lock[j] = o => lock'[j] = o,
             UNCHANGED <<mainPc, rpc, rlv, rhand>>,
             \A d \in CPU \ {c} : pc'[d] = pc[d] /\ lv'[d] = lv[d] /\ hand'[d] = hand[d],
             \A t \in Task : t # hand[c] => priority'[t] = priority[t],
             CpuOwns(c)'
      PROVE  OwnsLocks'
  <2>1. ASSUME NEW d \in CPU, d # c PROVE CpuOwns(d)'
    <3>1. pc[d] = "put" => priority'[hand[d]] = priority[hand[d]]
      BY <1>0, <1>a, <2>1 DEF TypeInv, CpuHolds, Apart, HandsApart, Task, NoTask
    <3>2. \A j \in Queue : lock[j] = d => lock'[j] = d
      BY <1>a, <2>1, ThreadNames
    <3> QED
      BY <1>0, <1>a, <2>1, <3>1, <3>2, CpuFrame
  <2>2. ResetOwns'
    <3>1. rpc = "put" => priority'[rhand] = priority[rhand]
      <4>1. rpc = "put" => rhand \in Task /\ rhand # hand[c]
        BY <1>0 DEF TypeInv, ResetHolds, Apart, HandsApart, Task, NoTask
      <4> QED
        BY <1>a, <4>1
    <3>2. \A j \in Queue : lock[j] = "reset" => lock'[j] = "reset"
      BY <1>a, ThreadNames
    <3> QED
      BY <1>0, <1>a, <3>1, <3>2, ResetFrame
  <2>3. MainOwns'
    BY <1>0, <1>a, MainFrame, ThreadNames
  <2> QED
    BY <1>a, <2>1, <2>2, <2>3 DEF OwnsLocks, MainOwns, CpuOwns, ResetOwns
<1>1. CASE CpuTop(c) \/ CpuWait(c) \/ CpuSpurious(c) \/ CpuWoken(c) \/ CpuPeek(c)
  <2>1. CpuOwns(c)'
    BY <1>0, <1>1
    DEF CpuTop, CpuWait, CpuSpurious, CpuWoken, CpuPeek, CpuOwns, CpuTypes
  <2> QED
    BY <1>0, <1>1, <1>a, <2>1
    DEF CpuTop, CpuWait, CpuSpurious, CpuWoken, CpuPeek, CpuTypes
<1>2. CASE CpuLock(c) \/ CpuEnqLock(c) \/ CpuDoneLock(c)
  <2>1. PICK i \in Queue : /\ Acquire(i, c)
                           /\ CpuLock(c) => i = lv[c]
                           /\ CpuEnqLock(c) => i = priority[hand[c]]
                           /\ CpuDoneLock(c) => i = Done
    BY <1>0, <1>2, LevelQueues
    DEF CpuLock, CpuEnqLock, CpuDoneLock, TypeInv, CpuHolds, CpuTypes, TaskTypes
  <2>2. lock'[i] = c /\ \A j \in Queue, o \in Thread : lock[j] = o => lock'[j] = o
    BY <1>0, <2>1, AcquireKeeps, ThreadNames
  <2>3. CpuOwns(c)'
    BY <1>0, <1>2, <2>1, <2>2 DEF CpuLock, CpuEnqLock, CpuDoneLock, CpuOwns, CpuTypes
  <2> QED
    BY <1>0, <1>2, <1>a, <2>2, <2>3 DEF CpuLock, CpuEnqLock, CpuDoneLock, CpuTypes
<1>3. CASE CpuTake(c) \/ CpuEnqPut(c) \/ CpuCount(c)
  <2>1. PICK i \in Queue : lock[i] = c /\ Release(i)
    BY <1>0, <1>3, LevelQueues
    DEF CpuTake, CpuEnqPut, CpuCount, CpuOwns, TypeInv, CpuHolds, CpuTypes, TaskTypes
  <2>2. \A j \in Queue, o \in Thread \ {c} : lock[j] = o => lock'[j] = o
    BY <1>0, <2>1, ReleaseKeeps, ThreadNames
  <2>3. CpuOwns(c)'
    BY <1>0, <1>3 DEF CpuTake, CpuEnqPut, CpuCount, CpuOwns, CpuTypes
  <2> QED
    BY <1>0, <1>3, <1>a, <2>2, <2>3 DEF CpuTake, CpuEnqPut, CpuCount, CpuTypes
<1>4. CASE CpuDonePut(c)
  <2>1. CpuOwns(c)'
    BY <1>0, <1>4 DEF CpuDonePut, CpuOwns, CpuTypes
  <2> QED
    BY <1>0, <1>4, <1>a, <2>1 DEF CpuDonePut, CpuTypes
<1>5. CASE CpuRun(c) \/ CpuRunIO(c)
  <2>1. pc[c] = "run" /\ hand[c] \in Task
    BY <1>0, <1>5 DEF CpuRun, CpuRunIO, TypeInv, CpuHolds
  <2>2. /\ \A t \in Task : t # hand[c] => priority'[t] = priority[t]
        /\ pc' = [pc EXCEPT ![c] = "done"] \/ pc' = [pc EXCEPT ![c] = "enq"]
    BY <1>0, <1>5, <2>1, TurnFacts
  <2>3. CpuOwns(c)'
    BY <1>0, <2>2 DEF CpuOwns, CpuTypes
  <2>4. UNCHANGED <<lock, mainPc, lv, hand, rpc, rlv, rhand>>
    BY <1>5 DEF CpuRun, CpuRunIO
  <2> QED
    BY <1>0, <1>a, <2>2, <2>3, <2>4 DEF CpuTypes
<1>6. CASE CpuTrap(c)
  <2>1. CpuOwns(c)'
    BY <1>0, <1>6 DEF CpuTrap, CpuOwns, CpuTypes
  <2> QED
    BY <1>0, <1>6, <1>a, <2>1 DEF CpuTrap, CpuTypes
<1> QED
  BY <1>1, <1>2, <1>3, <1>4, <1>5, <1>6 DEF Cpu, CpuDispatch, CpuExecute

LEMMA OwnsReset == LockInv /\ Reset => OwnsLocks'
<1> SUFFICES ASSUME LockInv, Reset PROVE OwnsLocks'
  OBVIOUS
<1>0. /\ TypeInv /\ Apart /\ EmptyHands /\ Fits
      /\ CpuTypes /\ QueueTypes /\ TaskTypes /\ ResetTypes
      /\ MainOwns /\ (\A d \in CPU : CpuOwns(d)) /\ ResetOwns
      /\ rlv \in Queue /\ rlv # 0 /\ 0 \in Queue
  BY OwnsParts DEF LockInv, WorkInv, PlaceInv, TypeInv, TypeOK, Queue, ResetTypes
<1> USE DEF mainVars, mainData, queueVars, cpuVars, cpuData, resetVars, taskVars
<1>a. ASSUME \A j \in Queue, o \in Thread \ {"reset"} : lock[j] = o => lock'[j] = o,
             UNCHANGED <<mainPc, pc, lv, hand>>,
             \A c \in CPU : pc[c] = "put" => priority'[hand[c]] = priority[hand[c]],
             ResetOwns'
      PROVE  OwnsLocks'
  <2>1. ASSUME NEW d \in CPU PROVE CpuOwns(d)'
    <3>1. \A j \in Queue : lock[j] = d => lock'[j] = d
      BY <1>a, ThreadNames
    <3> QED
      BY <1>0, <1>a, <3>1, CpuFrame
  <2>2. MainOwns'
    BY <1>0, <1>a, MainFrame, ThreadNames
  <2> QED
    BY <1>a, <2>1, <2>2 DEF OwnsLocks, MainOwns, CpuOwns, ResetOwns
<1>1. CASE ResetTop \/ ResetWake
  <2>1. ResetOwns'
    BY <1>1 DEF ResetTop, ResetWake, ResetOwns
  <2> QED
    BY <1>1, <1>a, <2>1 DEF ResetTop, ResetWake
<1>2. CASE ResetLock
  <2>1. PICK i \in Queue : i = rlv /\ Acquire(i, "reset")
    BY <1>0, <1>2 DEF ResetLock
  <2>2. lock'[i] = "reset" /\ \A j \in Queue, o \in Thread : lock[j] = o => lock'[j] = o
    BY <1>0, <2>1, AcquireKeeps, ThreadNames
  <2>3. ResetOwns'
    BY <1>2, <2>1, <2>2 DEF ResetLock, ResetOwns
  <2> QED
    BY <1>2, <1>a, <2>2, <2>3 DEF ResetLock
<1>3. CASE ResetMove
  <2>1. priority[rhand] = 0 /\ lock[rlv] = "reset" /\ Acquire(0, "reset")
    BY <1>0, <1>3 DEF ResetMove, Fits, ResetFit, Fit, ResetOwns
  <2>2. lock'[0] = "reset" /\ \A j \in Queue, o \in Thread : lock[j] = o => lock'[j] = o
    BY <1>0, <2>1, AcquireKeeps, ThreadNames
  <2>3. ResetOwns'
    BY <1>0, <1>3, <2>1, <2>2, ThreadNames DEF ResetMove, ResetOwns
  <2> QED
    BY <1>3, <1>a, <2>2, <2>3 DEF ResetMove
<1>4. CASE ResetPut
  <2>1. priority[rhand] = 0 /\ lock[0] = "reset" /\ lock[rlv] = "reset" /\ Release(0)
    BY <1>0, <1>4 DEF ResetPut, Fits, ResetFit, Fit, ResetOwns
  <2>2. /\ \A j \in Queue : j # 0 => lock'[j] = lock[j]
        /\ \A j \in Queue, o \in Thread : lock[j] = o /\ o # "reset" => lock'[j] = o
    BY <1>0, <2>1, ReleaseKeeps, ThreadNames
  <2>3. ResetOwns'
    BY <1>0, <1>4, <2>1, <2>2 DEF ResetPut, ResetOwns
  <2> QED
    BY <1>4, <1>a, <2>2, <2>3 DEF ResetPut
<1>5. CASE ResetNext
  <2>1. PICK i \in Queue : lock[i] = "reset" /\ Release(i)
    BY <1>0, <1>5 DEF ResetNext, ResetOwns
  <2>2. \A j \in Queue, o \in Thread : lock[j] = o /\ o # "reset" => lock'[j] = o
    BY <1>0, <2>1, ReleaseKeeps, ThreadNames
  <2>3. ResetOwns'
    BY <1>5 DEF ResetNext, ResetOwns
  <2> QED
    BY <1>5, <1>a, <2>2, <2>3 DEF ResetNext
<1>6. CASE ResetTake
  <2>1. Head(q[rlv]) \in Listed(rlv)
    <3>1. PICK i \in Queue : i = rlv /\ dequeue(i) /\ q[i] # <<>>
      BY <1>0, <1>6 DEF ResetTake, emptyQueue
    <3>2. Head(q[i]) \in Listed(i)
      BY <1>0, <3>1, DequeueMoves DEF Apart
    <3> QED
      BY <3>1, <3>2
  <2>2. \A c \in CPU : pc[c] = "put" => priority'[hand[c]] = priority[hand[c]]
    <3>1. \A c \in CPU : hand[c] # Head(q[rlv])
      BY <1>0, <2>1 DEF Apart, QueuedApart
    <3>2. \A c \in CPU : pc[c] = "put" => hand[c] \in Task
      BY <1>0 DEF TypeInv, CpuHolds
    <3> QED
      BY <1>0, <1>6, <3>1, <3>2 DEF ResetTake, TaskTypes
  <2>3. ResetOwns'
    BY <1>0, <1>6 DEF ResetTake, ResetOwns
  <2> QED
    BY <1>6, <1>a, <2>2, <2>3 DEF ResetTake
<1> QED
  BY <1>1, <1>2, <1>3, <1>4, <1>5, <1>6 DEF Reset

LEMMA OwnsNext == LockInv /\ [Next]_vars => LockInv'
<1> SUFFICES ASSUME LockInv, [Next]_vars PROVE OwnsLocks'
  BY WorkNext DEF LockInv
<1>1. CASE Main \/ Reset \/ \E c \in CPU : Cpu(c)
  BY <1>1, OwnsMain, OwnsReset, OwnsCpu
<1>2. CASE UseAfterFree \/ UNCHANGED vars
  BY <1>2 DEF LockInv, OwnsLocks, UseAfterFree, vars, mainVars, queueVars, taskVars,
     cpuVars, cpuData, resetVars, Freed
<1> QED
  BY <1>1, <1>2 DEF Next, Ended

LEMMA OwnsAlways == Spec => []LockInv
<1>1. Init => LockInv
  BY WorkInit DEF LockInv, Init, OwnsLocks
<1> QED
  BY <1>1, OwnsNext, PTL DEF Spec

(***************************************************************************)
(* Whoever changes a queue or counts in doneTask owns the mutex of that    *)
(* queue at that moment, and releases the one it took.                     *)
(***************************************************************************)
THEOREM QueuesGuarded == Spec => []OwnsLocks
<1>1. LockInv => OwnsLocks
  BY DEF LockInv
<1> QED
  BY <1>1, OwnsAlways, PTL

-----------------------------------------------------------------------------
(* doneTask never runs ahead of the queue Done.                            *)

Finished == Listed(Done) \cup reported

AtCount == \E c \in CPU : pc[c] = "count"

\* The thread between enterDone's enqueue and its count, if there is one, is
\* the owner of Donelock, hence alone.
Counted == doneTask + (IF AtCount THEN 1 ELSE 0) <= Cardinality(Finished)

Loads == {"load", "enq", "put"}

\* Main has left the dispatch loop only with everything counted.
Dispatched == mainPc \notin Loads \cup {"dispatch", "exited"} => createTask <= doneTask

Drained == {"report", "trapped", "destroy", "free", "return", "halted", "crashed"}

AllTaken == mainPc \in Drained => reported = 1 .. createTask

CountInv == LockInv /\ Counted /\ Dispatched /\ AllTaken

LEMMA FinishedFacts ==
  ASSUME LockInv
  PROVE  /\ Finished \subseteq 1 .. createTask /\ IsFiniteSet(Finished)
         /\ Cardinality(Finished) \in Nat /\ Cardinality(Finished) <= createTask
         /\ doneTask \in Nat /\ createTask \in Nat
         /\ \A c \in CPU : hand[c] \in Task => hand[c] \notin Finished
<1>0. /\ TypeInv /\ Apart /\ MainTypes /\ QueueTypes
  BY DEF LockInv, WorkInv, PlaceInv, TypeInv, TypeOK
<1>1. createTask \in Nat /\ doneTask \in Nat
  BY <1>0 DEF MainTypes
<1>2. Finished \subseteq 1 .. createTask
  <2>1. \A t \in Finished : t \in Task
    BY <1>0, LevelQueues, ListedTasks DEF Finished, MainTypes
  <2>2. \A t \in Finished : t <= createTask
    BY <1>0, LevelQueues DEF Finished, Apart, QueuedApart, ReportedApart
  <2> QED
    BY <1>1, <2>1, <2>2 DEF Task
<1>3. IsFiniteSet(1 .. createTask) /\ Cardinality(1 .. createTask) <= createTask
  <2>1. /\ IsFiniteSet(1 .. createTask)
        /\ Cardinality(1 .. createTask) =
             IF 1 > createTask THEN 0 ELSE createTask - 1 + 1
    BY <1>1, FS_Interval
  <2> QED
    BY <1>1, <2>1
<1>4. /\ IsFiniteSet(Finished)
      /\ Cardinality(Finished) <= Cardinality(1 .. createTask)
  BY <1>2, <1>3, FS_Subset
<1>5. Cardinality(Finished) \in Nat /\ Cardinality(1 .. createTask) \in Nat
  BY <1>3, <1>4, FS_CardinalityType
<1>6. \A c \in CPU : hand[c] \in Task => hand[c] \notin Finished
  BY <1>0, LevelQueues DEF Finished, Apart, QueuedApart, HandsApart, Task, NoTask
<1> QED
  BY <1>1, <1>2, <1>3, <1>4, <1>5, <1>6

\* A step that counts nothing.
LEMMA CountFrame ==
  ASSUME Counted, UNCHANGED doneTask, Finished' = Finished, AtCount' => AtCount,
         LockInv
  PROVE  Counted'
<1>1. doneTask \in Nat /\ Cardinality(Finished) \in Nat
  BY FinishedFacts
<1> QED
  BY <1>1 DEF Counted

LEMMA CountMain == CountInv /\ Main => Counted' /\ Dispatched' /\ AllTaken'
<1> SUFFICES ASSUME CountInv, Main PROVE Counted' /\ Dispatched' /\ AllTaken'
  OBVIOUS
<1>0. /\ TypeInv /\ Apart /\ LockInv /\ Counted /\ Dispatched /\ AllTaken
      /\ CpuTypes /\ QueueTypes /\ MainTypes /\ Done \in Queue
  BY LevelQueues DEF CountInv, LockInv, WorkInv, PlaceInv, TypeInv, TypeOK
<1> USE DEF mainVars, mainData, queueVars, cpuVars, cpuData, Loads, Drained
<1>1. CASE LoadTask \/ LoadLock \/ LoadBadLine \/ LoadEnd
  <2>1. Counted'
    BY <1>0, <1>1, CountFrame
    DEF LoadTask, LoadLock, LoadBadLine, LoadEnd, MainGoto, Finished, Listed, AtCount
  <2>2. Dispatched' /\ AllTaken'
    BY <1>0, <1>1
    DEF LoadTask, LoadLock, LoadBadLine, LoadEnd, MainGoto, Dispatched, AllTaken
  <2> QED
    BY <2>1, <2>2
<1>2. CASE LoadPut
  <2>1. Listed(Done)' = Listed(Done)
    BY <1>0, <1>2 DEF LoadPut, enqueue, Listed, QueueTypes, Done
  <2>2. Counted'
    BY <1>0, <1>2, <2>1, CountFrame DEF LoadPut, Finished, AtCount
  <2>3. Dispatched' /\ AllTaken'
    BY <1>0, <1>2 DEF LoadPut, Dispatched, AllTaken
  <2> QED
    BY <2>2, <2>3
<1>3. CASE LoadDelay \/ DispatchSignal
  <2>1. \A c \in CPU : pc'[c] = pc[c] \/ pc'[c] = "woken"
    BY <1>0, <1>3 DEF LoadDelay, DispatchSignal, Signal, CpuTypes
  <2>2. Counted'
    BY <1>0, <1>3, <2>1, CountFrame DEF LoadDelay, DispatchSignal, Finished, Listed, AtCount
  <2>3. Dispatched' /\ AllTaken'
    BY <1>0, <1>3 DEF LoadDelay, DispatchSignal, Dispatched, AllTaken
  <2> QED
    BY <2>2, <2>3
<1>4. CASE DispatchEnd \/ SetTerminate \/ DrainLock
  <2>1. Counted'
    BY <1>0, <1>4, CountFrame
    DEF DispatchEnd, SetTerminate, DrainLock, MainGoto, Finished, Listed, AtCount
  <2>2. Dispatched' /\ AllTaken'
    BY <1>0, <1>4
    DEF DispatchEnd, SetTerminate, DrainLock, MainGoto, Dispatched, AllTaken
  <2> QED
    BY <2>1, <2>2
<1>5. CASE DrainTake
  <2>1. q[Done] # <<>> /\ dequeue(Done) /\ reported' = reported \cup {q[Done][1]}
    BY <1>0, <1>5 DEF DrainTake, TypeInv, MainHolds
  <2>2. /\ Listed(Done)' = Listed(Done) \ {q[Done][1]} /\ q[Done][1] \in Listed(Done)
    BY <1>0, <2>1, DequeueMoves DEF Apart, Done
  <2>3. Finished' = Finished
    BY <2>1, <2>2 DEF Finished
  <2>4. Counted'
    BY <1>0, <1>5, <2>3, CountFrame DEF DrainTake, AtCount
  <2>5. Dispatched' /\ AllTaken'
    BY <1>0, <1>5 DEF DrainTake, Dispatched, AllTaken
  <2> QED
    BY <2>4, <2>5
<1>6. CASE DrainEnd
  <2>1. Counted'
    BY <1>0, <1>6, CountFrame DEF DrainEnd, MainGoto, Finished, Listed, AtCount
  <2>2. reported = 1 .. createTask
    <3>1. Listed(Done) = {} /\ Finished = reported
      BY <1>0, <1>6, ListedTasks DEF DrainEnd, emptyQueue, Finished
    <3>2. createTask <= doneTask
      BY <1>0, <1>6 DEF DrainEnd, MainGoto, Dispatched
    <3>3. Cardinality(Finished) = createTask
      BY <1>0, <3>2, FinishedFacts DEF Counted
    <3>4. /\ IsFiniteSet(1 .. createTask)
          /\ Cardinality(1 .. createTask) =
               IF 1 > createTask THEN 0 ELSE createTask - 1 + 1
      <4>1. createTask \in Int /\ 1 \in Int
        BY <1>0, FinishedFacts
      <4> QED
        BY <4>1, FS_Interval
    <3>5. Cardinality(1 .. createTask) = Cardinality(Finished)
      BY <1>0, <3>3, <3>4, FinishedFacts
    <3>6. Finished = 1 .. createTask
      BY <1>0, <3>4, <3>5, FinishedFacts, FS_Subset
    <3> QED
      BY <3>1, <3>6
  <2>3. Dispatched' /\ AllTaken'
    BY <1>0, <1>6, <2>2 DEF DrainEnd, MainGoto, Dispatched, AllTaken
  <2> QED
    BY <2>1, <2>3
<1>7. CASE Report \/ DestroyMutexes \/ FreeQueues \/ Return
  <2>1. Counted'
    BY <1>0, <1>7, CountFrame
    DEF Report, DestroyMutexes, FreeQueues, Return, MainGoto, Finished, Listed, AtCount
  <2>2. Dispatched' /\ AllTaken'
    BY <1>0, <1>7
    DEF Report, DestroyMutexes, FreeQueues, Return, MainGoto, Dispatched, AllTaken
  <2> QED
    BY <2>1, <2>2
<1> QED
  BY <1>1, <1>2, <1>3, <1>4, <1>5, <1>6, <1>7 DEF Main, MainLoad, MainEnd

LEMMA CountCpu ==
  ASSUME NEW c \in CPU, CountInv, Cpu(c)
  PROVE  Counted' /\ Dispatched' /\ AllTaken'
<1>0. /\ TypeInv /\ Apart /\ LockInv /\ OwnsLocks /\ Counted /\ Dispatched /\ AllTaken
      /\ CpuTypes /\ QueueTypes /\ TaskTypes /\ MainTypes /\ Done \in Queue
  BY LevelQueues DEF CountInv, LockInv, WorkInv, PlaceInv, TypeInv, TypeOK
<1> USE DEF mainVars, mainData, queueVars, cpuData, cpuLockVars, taskVars
<1>1. CASE CpuCount(c)
  <2>1. /\ pc[c] = "count" /\ doneTask' = doneTask + 1
        /\ UNCHANGED <<q, reported, createTask, mainPc>>
    BY <1>1 DEF CpuCount
  <2>2. \A d \in CPU : pc'[d] # "count"
    BY <1>0, <1>1 DEF CpuCount, OwnsLocks, CpuTypes
  <2>3. Finished' = Finished /\ AtCount /\ ~ AtCount'
    BY <2>1, <2>2 DEF Finished, Listed, AtCount
  <2>4. doneTask \in Nat /\ Cardinality(Finished) \in Nat /\ createTask \in Nat
    BY <1>0, FinishedFacts
  <2>5. Counted' /\ Dispatched' /\ AllTaken'
    BY <1>0, <2>1, <2>3, <2>4 DEF Counted, Dispatched, AllTaken
  <2> QED
    BY <2>5
<1>2. CASE CpuDonePut(c)
  <2>1. /\ pc[c] = "putdone" /\ hand[c] \in Task /\ enqueue(Done, hand[c])
        /\ UNCHANGED <<reported, createTask, mainPc, doneTask>>
    BY <1>0, <1>2 DEF CpuDonePut, TypeInv, CpuHolds
  <2>2. ~ AtCount
    BY <1>0, <2>1 DEF OwnsLocks, AtCount
  <2>3. hand[c] \notin Finished
    BY <1>0, <2>1, FinishedFacts
  <2>4. Listed(Done)' = Listed(Done) \cup {hand[c]}
    BY <1>0, <2>1, <2>3, EnqueueMoves DEF Apart, Finished, Done
  <2>5. Finished' = Finished \cup {hand[c]}
    BY <2>1, <2>4 DEF Finished
  <2>6. Cardinality(Finished') = Cardinality(Finished) + 1
    BY <1>0, <2>3, <2>5, FinishedFacts, FS_AddElement
  <2>7. Counted'
    BY <1>0, <2>1, <2>2, <2>6, FinishedFacts DEF Counted
  <2>8. Dispatched' /\ AllTaken'
    BY <1>0, <2>1 DEF Dispatched, AllTaken
  <2> QED
    BY <2>7, <2>8
<1>3. ASSUME UNCHANGED <<mainPc, createTask, doneTask, reported>>,
             Listed(Done)' = Listed(Done),
             \A d \in CPU : pc'[d] = pc[d] \/ pc'[d] # "count"
      PROVE  Counted' /\ Dispatched' /\ AllTaken'
  <2>1. Counted'
    BY <1>0, <1>3, CountFrame DEF Finished, AtCount
  <2>2. Dispatched' /\ AllTaken'
    BY <1>0, <1>3 DEF Dispatched, AllTaken
  <2> QED
    BY <2>1, <2>2
<1>4. CASE CpuTop(c) \/ CpuWait(c) \/ CpuSpurious(c) \/ CpuWoken(c) \/ CpuPeek(c)
             \/ CpuLock(c)
  BY <1>0, <1>3, <1>4 DEF CpuTop, CpuWait, CpuSpurious, CpuWoken, CpuPeek, CpuLock,
     Listed, CpuTypes
<1>5. CASE CpuTake(c) \/ CpuEnqPut(c)
  <2>1. Listed(Done)' = Listed(Done)
    <3>1. PICK i \in Level : dequeue(i) \/ enqueue(i, hand[c])
      BY <1>0, <1>5 DEF CpuTake, CpuEnqPut, CpuTypes, TaskTypes, TypeInv, CpuHolds
    <3>2. q'[Done] = q[Done]
      BY <1>0, <3>1, LevelQueues DEF dequeue, enqueue, QueueTypes
    <3> QED
      BY <3>2 DEF Listed, Done
  <2>2. \A d \in CPU : pc'[d] = pc[d] \/ pc'[d] # "count"
    BY <1>0, <1>5 DEF CpuTake, CpuEnqPut, CpuTypes
  <2> QED
    BY <1>3, <1>5, <2>1, <2>2 DEF CpuTake, CpuEnqPut
<1>6. CASE CpuRun(c) \/ CpuRunIO(c) \/ CpuTrap(c) \/ CpuEnqLock(c) \/ CpuDoneLock(c)
  BY <1>0, <1>3, <1>6 DEF CpuRun, CpuRunIO, CpuTrap, CpuEnqLock, CpuDoneLock, Listed, CpuTypes
<1> QED
  BY <1>1, <1>2, <1>4, <1>5, <1>6 DEF Cpu, CpuDispatch, CpuExecute

LEMMA CountReset == CountInv /\ Reset => Counted' /\ Dispatched' /\ AllTaken'
<1> SUFFICES ASSUME CountInv, Reset PROVE Counted' /\ Dispatched' /\ AllTaken'
  OBVIOUS
<1>0. /\ TypeInv /\ LockInv /\ Counted /\ Dispatched /\ AllTaken
      /\ QueueTypes /\ TaskTypes /\ ResetTypes
  BY DEF CountInv, LockInv, WorkInv, PlaceInv, TypeInv, TypeOK
<1> USE DEF mainVars, mainData, queueVars, cpuVars
<1>1. UNCHANGED <<mainPc, createTask, doneTask, reported, pc>>
  BY DEF Reset, ResetTop, ResetWake, ResetLock, ResetTake, ResetMove, ResetPut,
     ResetNext
<1>2. Listed(Done)' = Listed(Done)
  <2>1. CASE ResetTake \/ ResetPut
    <3>1. PICK i \in Level : dequeue(i) \/ enqueue(i, rhand)
      BY <1>0, <2>1 DEF ResetTake, ResetPut, ResetTypes, TaskTypes, TypeInv, ResetHolds,
         Level
    <3>2. q'[Done] = q[Done]
      BY <1>0, <3>1, LevelQueues DEF dequeue, enqueue, QueueTypes
    <3> QED
      BY <3>2 DEF Listed, Done
  <2>2. CASE ResetTop \/ ResetWake \/ ResetLock \/ ResetMove \/ ResetNext
    BY <2>2 DEF ResetTop, ResetWake, ResetLock, ResetMove, ResetNext, Listed
  <2> QED
    BY <2>1, <2>2 DEF Reset
<1>3. Counted'
  BY <1>0, <1>1, <1>2, CountFrame DEF Finished, AtCount
<1>4. Dispatched' /\ AllTaken'
  BY <1>0, <1>1 DEF Dispatched, AllTaken
<1> QED
  BY <1>3, <1>4

LEMMA CountNext == CountInv /\ [Next]_vars => CountInv'
<1> SUFFICES ASSUME CountInv, [Next]_vars PROVE Counted' /\ Dispatched' /\ AllTaken'
  BY OwnsNext DEF CountInv
<1>1. CASE Main \/ Reset \/ \E c \in CPU : Cpu(c)
  BY <1>1, CountMain, CountReset, CountCpu
<1>2. CASE UseAfterFree \/ UNCHANGED vars
  <2>0. LockInv /\ Counted /\ Dispatched /\ AllTaken
    BY DEF CountInv
  <2>1. UNCHANGED <<createTask, doneTask, reported, q, pc>>
    BY <1>2 DEF UseAfterFree, vars, mainVars, mainData, queueVars, cpuVars
  <2>2. Counted'
    BY <2>0, <2>1, CountFrame DEF Finished, Listed, AtCount
  <2>3. Dispatched' /\ AllTaken'
    BY <1>2, <2>0, <2>1 DEF UseAfterFree, vars, mainVars, Freed, Dispatched, AllTaken,
       Loads, Drained
  <2> QED
    BY <2>2, <2>3
<1> QED
  BY <1>1, <1>2 DEF Next, Ended

LEMMA CountInit == Init => CountInv
<1> SUFFICES ASSUME Init PROVE CountInv
  OBVIOUS
<1>1. LockInv
  BY WorkInit DEF LockInv, Init, OwnsLocks
<1>2. doneTask = 0 /\ ~ AtCount /\ mainPc = "load"
  BY DEF Init, AtCount
<1>3. Counted
  BY <1>1, <1>2, FinishedFacts DEF Counted
<1>4. Dispatched /\ AllTaken
  BY <1>2 DEF Dispatched, AllTaken, Loads, Drained
<1> QED
  BY <1>1, <1>3, <1>4 DEF CountInv

LEMMA CountAlways == Spec => []CountInv
  BY CountInit, CountNext, PTL DEF Spec

\* Once all are reported no queue and no thread has a task left.
LEMMA NothingLeft ==
  ASSUME CountInv, mainPc \in Drained
  PROVE  /\ \A i \in Queue : emptyQueue(i)
         /\ \A c \in CPU : hand[c] = NoTask
         /\ rhand = NoTask
<1>0. /\ TypeInv /\ Apart /\ QueueTypes /\ CpuTypes /\ ResetTypes /\ MainTypes
      /\ reported = 1 .. createTask
  BY DEF CountInv, AllTaken, LockInv, WorkInv, PlaceInv, TypeInv, TypeOK
<1>1. ASSUME NEW t \in Task, t <= createTask PROVE t \in reported
  BY <1>0, <1>1 DEF MainTypes, Task
<1>2. ASSUME NEW i \in Queue PROVE emptyQueue(i)
  <2>1. \A t \in Listed(i) : t \in Task /\ t <= createTask /\ t \notin reported
    BY <1>0, ListedTasks DEF Apart, QueuedApart
  <2>2. Listed(i) = {}
    BY <1>1, <2>1
  <2> QED
    BY <1>0, <2>2, ListedTasks DEF emptyQueue
<1>3. \A c \in CPU : hand[c] = NoTask
  BY <1>0, <1>1 DEF CpuTypes, Apart, HandsApart
<1>4. rhand = NoTask
  BY <1>0, <1>1 DEF ResetTypes, Apart, ResetApart
<1> QED
  BY <1>2, <1>3, <1>4

(***************************************************************************)
(* The report counts every task that was read, and nothing is left in a    *)
(* queue or in the hands of a thread, although the dispatch loop reads     *)
(* doneTask without Donelock.                                              *)
(***************************************************************************)
THEOREM ReportComplete == Spec => []AllReported
<1>1. CountInv => AllReported
  BY NothingLeft DEF AllReported, CountInv, AllTaken, Drained
<1> QED
  BY <1>1, CountAlways, PTL

-----------------------------------------------------------------------------
(* What a scan of deMLFQ has seen stays true while its thread is alone.    *)

Scanning == {"peek", "lock", "take"}

InsideScan ==
  \A c \in CPU : pc[c] \notin {"top", "wait", "sleep", "woken", "exit"} => c \in inside

\* A scan starts at A.
ScanStart == \A c \in CPU : pc[c] \notin Scanning => lv[c] = 0

ScanOf(c) ==
  /\ pc[c] \in {"lock", "take"} /\ lv[c] = 0 => ~ emptyQueue(0)
  /\ pc[c] \in Scanning => \A k \in 1 .. lv[c] - 1 : emptyQueue(k)

ScanInv == CountInv /\ PermitBound /\ InsideScan /\ ScanStart /\ ScanStable

LEMMA ScanParts == ScanStable <=> (leaks = 0 => \A c \in CPU : ScanOf(c))
  BY DEF ScanStable, ScanOf, Scanning

\* Without an undefined unlock a thread that runs a turn runs it alone.
LEMMA Alone ==
  ASSUME ScanInv, Alive, leaks = 0, mainPc \notin Drained, NEW c \in CPU, c \in inside
  PROVE  inside = {c}
<1>1. inside \subseteq CPU
  BY DEF ScanInv, CountInv, LockInv, WorkInv, PlaceInv, TypeInv, TypeOK, CpuTypes
<1>2. Permits <= 1
  BY DEF ScanInv, PermitBound, Destroyed, Drained
<1>3. /\ IsFiniteSet(inside) /\ Cardinality(inside) \in Nat
      /\ Cardinality(inside \ {c}) = Cardinality(inside) - 1
  BY <1>1, InsideFinite
<1>4. Cardinality(inside) <= 1
  BY <1>2, <1>3 DEF Permits
<1>5. IsFiniteSet(inside \ {c}) /\ Cardinality(inside \ {c}) \in Nat
  BY <1>3, FS_RemoveElement, FS_CardinalityType
<1>6. Cardinality(inside \ {c}) = 0
  BY <1>3, <1>4, <1>5
<1>7. inside \ {c} = {}
  BY <1>5, <1>6, FS_EmptySet
<1> QED
  BY <1>7

\* A step that keeps the empty levels empty and A from being emptied.
LEMMA ScanFrame ==
  ASSUME NEW c \in CPU, ScanOf(c), lv[c] \in Level,
         pc'[c] = pc[c] \/ pc'[c] \notin Scanning, lv'[c] = lv[c],
         ~ emptyQueue(0) => ~ emptyQueue(0)',
         \A k \in 1 .. 3 : emptyQueue(k) => emptyQueue(k)'
  PROVE  ScanOf(c)'
<1>1. 1 .. lv[c] - 1 \subseteq 1 .. 3
  BY DEF Level
<1> QED
  BY <1>1 DEF ScanOf, Scanning

LEMMA AppendNonempty ==
  ASSUME QueueTypes, NEW i \in Queue, NEW t \in Task, enqueue(i, t)
  PROVE  /\ q'[i] # <<>>
         /\ \A j \in Queue : j # i => q'[j] = q[j]
  BY EnqueueFacts

LEMMA ScanMain == ScanInv /\ Main => ScanStable'
<1> SUFFICES ASSUME ScanInv, Main, leaks' = 0, NEW c \in CPU PROVE ScanOf(c)'
  BY DEF ScanStable, ScanOf, Scanning
<1>0. /\ TypeInv /\ CpuTypes /\ QueueTypes /\ lv[c] \in Level
  BY DEF ScanInv, CountInv, LockInv, WorkInv, PlaceInv, TypeInv, TypeOK, CpuTypes
<1> USE DEF queueVars, cpuVars, cpuData, cpuLockVars
<1>1. /\ UNCHANGED <<lv, leaks>>
      /\ pc'[c] = pc[c] \/ pc'[c] = "woken"
  BY <1>0 DEF Main, MainLoad, MainEnd, LoadTask, LoadLock, LoadPut, LoadDelay,
     LoadBadLine, LoadEnd, MainGoto, DispatchSignal, DispatchEnd, SetTerminate,
     DrainLock, DrainTake, DrainEnd, Report, DestroyMutexes, FreeQueues, Return,
     Signal, CpuTypes
<1>2. /\ ~ emptyQueue(0) => ~ emptyQueue(0)'
      /\ \A k \in 1 .. 3 : emptyQueue(k) => emptyQueue(k)'
  <2>1. CASE LoadPut
    BY <1>0, <2>1, AppendNonempty
    DEF LoadPut, TypeInv, MainHolds, emptyQueue, Queue
  <2>2. CASE DrainTake
    BY <1>0, <2>2 DEF DrainTake, dequeue, emptyQueue, QueueTypes, Queue, Done
  <2>3. CASE ~ LoadPut /\ ~ DrainTake
    <3>1. UNCHANGED q
      BY <2>3 DEF Main, MainLoad, MainEnd, LoadTask, LoadLock, LoadDelay, LoadBadLine,
         LoadEnd, MainGoto, DispatchSignal, DispatchEnd, SetTerminate, DrainLock,
         DrainEnd, Report, DestroyMutexes, FreeQueues, Return
    <3> QED
      BY <3>1 DEF emptyQueue
  <2> QED
    BY <2>1, <2>2, <2>3
<1>3. ScanOf(c)
  BY <1>1, ScanParts DEF ScanInv
<1> QED
  BY <1>0, <1>1, <1>2, <1>3, ScanFrame DEF Scanning

LEMMA ScanReset == ScanInv /\ Reset => ScanStable'
<1> SUFFICES ASSUME ScanInv, Reset, leaks' = 0, NEW c \in CPU PROVE ScanOf(c)'
  BY DEF ScanStable, ScanOf, Scanning
<1>0. /\ TypeInv /\ CpuTypes /\ QueueTypes /\ ResetTypes /\ Fits /\ lv[c] \in Level
  BY DEF ScanInv, CountInv, LockInv, WorkInv, PlaceInv, TypeInv, TypeOK, CpuTypes
<1> USE DEF queueVars, cpuVars, cpuData, cpuLockVars
<1>1. UNCHANGED <<lv, leaks, pc>>
  BY DEF Reset, ResetTop, ResetWake, ResetLock, ResetTake, ResetMove, ResetPut,
     ResetNext
<1>2. /\ ~ emptyQueue(0) => ~ emptyQueue(0)'
      /\ \A k \in 1 .. 3 : emptyQueue(k) => emptyQueue(k)'
  <2>1. CASE ResetTake
    <3>1. PICK i \in 1 .. 3 : i = rlv /\ dequeue(i) /\ q[i] # <<>>
      BY <1>0, <2>1 DEF ResetTake, ResetTypes, emptyQueue
    <3>2. \A j \in Queue : j # i => q'[j] = q[j]
      BY <1>0, <3>1 DEF dequeue, QueueTypes
    <3>3. 0 \in Queue /\ 1 .. 3 \subseteq Queue
      BY DEF Queue
    <3> QED
      BY <3>1, <3>2, <3>3 DEF emptyQueue
  <2>2. CASE ResetPut
    <3>1. enqueue(0, rhand) /\ rhand \in Task
      BY <1>0, <2>2 DEF ResetPut, Fits, ResetFit, Fit, TypeInv, ResetHolds
    <3>2. q'[0] # <<>> /\ \A j \in Queue : j # 0 => q'[j] = q[j]
      BY <1>0, <3>1, AppendNonempty DEF Queue
    <3> QED
      BY <3>2 DEF emptyQueue, Queue
  <2>3. CASE ~ ResetTake /\ ~ ResetPut
    <3>1. UNCHANGED q
      BY <2>3 DEF Reset, ResetTop, ResetWake, ResetLock, ResetMove, ResetNext
    <3> QED
      BY <3>1 DEF emptyQueue
  <2> QED
    BY <2>1, <2>2, <2>3
<1>3. ScanOf(c)
  BY <1>1, ScanParts DEF ScanInv
<1> QED
  BY <1>0, <1>1, <1>2, <1>3, ScanFrame

LEMMA ScanCpu == ASSUME NEW c \in CPU, ScanInv, Alive, Cpu(c) PROVE ScanStable'
<1> SUFFICES ASSUME leaks' = 0, NEW d \in CPU PROVE ScanOf(d)'
  BY DEF ScanStable, ScanOf, Scanning
<1>0. /\ TypeInv /\ CpuTypes /\ QueueTypes /\ TaskTypes /\ CountInv
      /\ lv[d] \in Level /\ lv[c] \in Level /\ leaks \in Nat
  BY DEF ScanInv, CountInv, LockInv, WorkInv, PlaceInv, TypeInv, TypeOK, CpuTypes
<1> USE DEF queueVars, cpuData, cpuLockVars
<1>1. leaks = 0 /\ ScanOf(d) /\ ScanOf(c)
  <2>1. leaks' = leaks \/ leaks' = leaks + 1
    BY DEF Cpu, CpuDispatch, CpuExecute, CpuTop, CpuWait, CpuSpurious, CpuWoken,
       CpuPeek, CpuLock, CpuTake, CpuRun, CpuRunIO, CpuTrap, CpuEnqLock, CpuEnqPut,
       CpuDoneLock, CpuDonePut, CpuCount
  <2>2. leaks = 0
    BY <1>0, <2>1
  <2> QED
    BY <2>2, ScanParts DEF ScanInv
\* A step that leaves the queues alone.
<1>2. ASSUME UNCHANGED q, lv'[c] = lv[c] \/ lv'[c] = 0,
             ScanOf(c)',
             d # c => pc'[d] = pc[d] /\ lv'[d] = lv[d]
      PROVE  ScanOf(d)'
  <2>1. CASE d = c
    BY <1>2, <2>1
  <2>2. CASE d # c
    BY <1>0, <1>1, <1>2, <2>2, ScanFrame DEF emptyQueue
  <2> QED
    BY <2>1, <2>2
<1>3. CASE CpuTop(c) \/ CpuWait(c) \/ CpuSpurious(c)
  <2>1. ScanOf(c)'
    BY <1>0, <1>3 DEF CpuTop, CpuWait, CpuSpurious, CpuTypes, ScanOf, Scanning
  <2> QED
    BY <1>0, <1>2, <1>3, <2>1 DEF CpuTop, CpuWait, CpuSpurious, CpuTypes
<1>4. CASE CpuWoken(c)
  <2>1. pc'[c] = "peek" /\ lv'[c] = 0
    BY <1>0, <1>4 DEF CpuWoken, CpuTypes, ScanInv, ScanStart, Scanning
  <2>2. ScanOf(c)'
    BY <2>1 DEF ScanOf
  <2> QED
    BY <1>0, <1>2, <1>4, <2>1, <2>2 DEF CpuWoken, CpuTypes
<1>5. CASE CpuPeek(c)
  <2>1. UNCHANGED q /\ (d # c => pc'[d] = pc[d] /\ lv'[d] = lv[d])
    BY <1>5, <1>0 DEF CpuPeek, CpuTypes
  <2>2. ScanOf(c)'
    <3>1. CASE ~ emptyQueue(lv[c]) /\ pc' = [pc EXCEPT ![c] = "lock"] /\ UNCHANGED lv
      BY <1>0, <1>1, <1>5, <2>1, <3>1 DEF CpuPeek, CpuTypes, ScanOf, Scanning, emptyQueue
    <3>2. CASE emptyQueue(lv[c]) /\ lv' = [lv EXCEPT ![c] = @ + 1] /\ UNCHANGED pc
      <4>1. /\ pc[c] = "peek" /\ pc'[c] = "peek" /\ lv'[c] = lv[c] + 1
            /\ \A k \in 1 .. lv[c] - 1 : emptyQueue(k)
        BY <1>0, <1>1, <1>5, <3>2 DEF CpuPeek, CpuTypes, ScanOf, Scanning
      <4>2. \A k \in 1 .. lv[c] : k \in 1 .. lv[c] - 1 \/ k = lv[c]
        BY <1>0 DEF Level
      <4>3. \A k \in 1 .. lv[c] : emptyQueue(k)
        BY <3>2, <4>1, <4>2
      <4>4. lv'[c] - 1 = lv[c]
        BY <1>0, <4>1 DEF Level
      <4> QED
        BY <2>1, <4>1, <4>3, <4>4 DEF ScanOf, emptyQueue
    <3>3. CASE pc' = [pc EXCEPT ![c] = "top"]
      BY <1>0, <3>3 DEF CpuTypes, ScanOf, Scanning
    <3> QED
      BY <1>5, <3>1, <3>2, <3>3 DEF CpuPeek
  <2> QED
    BY <1>0, <1>1, <2>1, <2>2, ScanFrame DEF emptyQueue
<1>6. CASE CpuLock(c)
  <2>1. /\ pc[c] = "lock" /\ pc'[c] = "take" /\ UNCHANGED <<q, lv>>
        /\ d # c => pc'[d] = pc[d]
    BY <1>0, <1>6 DEF CpuLock, CpuTypes
  <2>2. ScanOf(c)'
    BY <1>1, <2>1 DEF ScanOf, Scanning, emptyQueue
  <2> QED
    BY <1>2, <2>1, <2>2
<1>7. CASE CpuTake(c) /\ emptyQueue(lv[c])
  <2>1. /\ UNCHANGED q /\ pc' = [pc EXCEPT ![c] = "top"] /\ lv' = [lv EXCEPT ![c] = 0]
    BY <1>0, <1>7 DEF CpuTake, dequeue, emptyQueue, QueueTypes
  <2>2. ScanOf(c)'
    BY <1>0, <2>1 DEF CpuTypes, ScanOf, Scanning
  <2> QED
    BY <1>0, <1>2, <2>1, <2>2 DEF CpuTypes
\* The steps that change a level are those of the only thread inside.
<1>8. ASSUME mainPc \notin Drained, pc[c] \in {"take", "put"}, pc'[c] \notin Scanning,
             \A b \in CPU \ {c} : pc'[b] = pc[b]
      PROVE  ScanOf(d)'
  <2>1. inside = {c}
    BY <1>1, <1>8, Alone DEF ScanInv, InsideScan
  <2>2. pc'[d] \notin Scanning
    BY <1>8, <2>1 DEF ScanInv, InsideScan, Scanning
  <2> QED
    BY <2>2 DEF ScanOf, Scanning
<1>9. CASE CpuTake(c) /\ ~ emptyQueue(lv[c])
  <2>1. mainPc \notin Drained
    BY <1>0, <1>9, NothingLeft, LevelQueues
  <2> QED
    BY <1>0, <1>8, <1>9, <2>1 DEF CpuTake, CpuTypes, Scanning
<1>10. CASE CpuEnqPut(c)
  <2>1. hand[c] \in Task
    BY <1>0, <1>10 DEF CpuEnqPut, TypeInv, CpuHolds
  <2>2. mainPc \notin Drained
    BY <1>0, <2>1, NothingLeft DEF Task, NoTask
  <2> QED
    BY <1>0, <1>8, <1>10, <2>2 DEF CpuEnqPut, CpuTypes, Scanning
<1>11. CASE CpuRun(c) \/ CpuRunIO(c) \/ CpuTrap(c) \/ CpuEnqLock(c) \/ CpuDoneLock(c) \/ CpuCount(c)
  <2>1. ScanOf(c)'
    BY <1>0, <1>11
    DEF CpuRun, CpuRunIO, CpuTrap, CpuEnqLock, CpuDoneLock, CpuCount, CpuTypes, ScanOf, Scanning
  <2> QED
    BY <1>0, <1>2, <1>11, <2>1
    DEF CpuRun, CpuRunIO, CpuTrap, CpuEnqLock, CpuDoneLock, CpuCount, CpuTypes
<1>12. CASE CpuDonePut(c)
  <2>1. \A j \in Queue : j # Done => q'[j] = q[j]
    BY <1>0, <1>12 DEF CpuDonePut, enqueue, QueueTypes
  <2>2. \A j \in 0 .. 3 : j \in Queue /\ j # Done
    BY DEF Queue, Done
  <2>3. pc'[d] = pc[d] \/ pc'[d] \notin Scanning
    BY <1>0, <1>12 DEF CpuDonePut, CpuTypes, Scanning
  <2> QED
    BY <1>0, <1>1, <1>12, <2>1, <2>2, <2>3, ScanFrame DEF CpuDonePut, emptyQueue
<1> QED
  BY <1>3, <1>4, <1>5, <1>6, <1>7, <1>9, <1>10, <1>11, <1>12
     DEF Cpu, CpuDispatch, CpuExecute

\* Only a thread that returned from its wait runs, and it scans from A.
LEMMA ScanShape == ScanInv /\ [Next]_vars => InsideScan' /\ ScanStart'
<1> SUFFICES ASSUME ScanInv, [Next]_vars PROVE InsideScan' /\ ScanStart'
  OBVIOUS
<1>0. CpuTypes /\ InsideScan /\ ScanStart
  BY DEF ScanInv, CountInv, LockInv, WorkInv, PlaceInv, TypeInv, TypeOK
<1> USE <1>0 DEF CpuTypes, InsideScan, ScanStart, Scanning, cpuVars, cpuData, cpuLockVars
<1>1. CASE Reset \/ UseAfterFree \/ UNCHANGED vars
  BY <1>1 DEF Reset, ResetTop, ResetWake, ResetLock, ResetTake, ResetMove, ResetPut,
     ResetNext, UseAfterFree, vars
<1>2. CASE Main
  <2>1. /\ UNCHANGED <<lv, inside>>
        /\ \A c \in CPU : pc'[c] = pc[c] \/ (pc[c] = "sleep" /\ pc'[c] = "woken")
    BY <1>2 DEF Main, MainLoad, MainEnd, LoadTask, LoadLock, LoadPut, LoadDelay,
       LoadBadLine, LoadEnd, MainGoto, DispatchSignal, DispatchEnd, SetTerminate,
       DrainLock, DrainTake, DrainEnd, Report, DestroyMutexes, FreeQueues, Return,
       Signal
  <2> QED
    BY <2>1
<1>3. ASSUME NEW c \in CPU, CpuDispatch(c) PROVE InsideScan' /\ ScanStart'
  BY <1>3 DEF CpuDispatch, CpuTop, CpuWait, CpuSpurious, CpuWoken, CpuPeek, CpuLock,
     CpuTake
<1>4. ASSUME NEW c \in CPU, CpuExecute(c) PROVE InsideScan' /\ ScanStart'
  BY <1>4 DEF CpuExecute, CpuRun, CpuRunIO, CpuTrap, CpuEnqLock, CpuEnqPut, CpuDoneLock,
     CpuDonePut, CpuCount
<1> QED
  BY <1>1, <1>2, <1>3, <1>4 DEF Next, Ended, Cpu

LEMMA ScanNext == ScanInv /\ [Next]_vars => ScanInv'
<1> SUFFICES ASSUME ScanInv, [Next]_vars PROVE ScanInv'
  OBVIOUS
<1>1. CountInv' /\ InsideScan' /\ ScanStart'
  BY CountNext, ScanShape DEF ScanInv
<1>2. PermitBound'
  BY PermitNext DEF ScanInv, PermitInv, CountInv, LockInv, WorkInv, PlaceInv
<1>3. ScanStable'
  <2>1. CASE Alive /\ (Main \/ Reset \/ \E c \in CPU : Cpu(c))
    BY <2>1, ScanMain, ScanReset, ScanCpu
  <2>2. CASE UseAfterFree \/ UNCHANGED vars
    BY <2>2 DEF ScanInv, ScanStable, UseAfterFree, vars, queueVars, cpuVars, cpuData,
       cpuLockVars, emptyQueue
  <2> QED
    BY <2>1, <2>2 DEF Next, Ended
<1> QED
  BY <1>1, <1>2, <1>3 DEF ScanInv

(***************************************************************************)
(* As long as no first wait has freed another thread's cpuLock, a scan     *)
(* that found A non-empty takes a task from it, and the levels below A it  *)
(* has passed over are still empty, although each was read unlocked.       *)
(***************************************************************************)
THEOREM ScansStay == Spec => []ScanStable
<1>1. Init => ScanInv
  <2> SUFFICES ASSUME Init PROVE ScanInv
    OBVIOUS
  <2>1. InsideScan /\ ScanStart /\ ScanStable
    BY DEF Init, InsideScan, ScanStart, Scanning, ScanStable
  <2> QED
    BY <2>1, CountInit, PermitInit DEF ScanInv
<1>2. ScanInv => ScanStable
  BY DEF ScanInv
<1> QED
  BY <1>1, <1>2, ScanNext, PTL DEF Spec
=============================================================================
