------------------------------ MODULE TaskQueue -----------------------------
(***************************************************************************)
(* One ready queue of MLFQ/MLFQ.c as the linked list it is: head, tail and *)
(* the next field of the tasks, written one word at a time under the mutex *)
(* of the queue while other threads read head without it (deMLFQ, lines    *)
(* 306-330).  It implements TaskFifo, which is how module MLFQ uses a      *)
(* queue: one atomic step for every operation.                             *)
(***************************************************************************)
EXTENDS Naturals, Sequences, FiniteSets

CONSTANTS Thread, Node, Null

ASSUME TaskQueueAssumption == IsFiniteSet(Node) /\ Null \notin Node \cup Thread

VARIABLES
  head, tail, next,  \* the queue and the next field of every task
  owner,             \* the thread that has the mutex, or Null
  pc,                \* where each thread is
  t,                 \* the task each thread has at hand: t in the code
  seen               \* the answer of its last emptyQueue outside the mutex

vars == <<head, tail, next, owner, pc, t, seen>>

Ptr == Node \cup {Null}

\* The types, and no pointer the code follows is NULL.
TypeOK ==
  /\ head \in Ptr /\ tail \in Ptr
  /\ next \in [Node -> Ptr]
  /\ owner \in Thread \cup {Null}
  /\ pc \in [Thread -> {"idle", "link", "tail", "unlock", "lock", "deq",
                        "next", "empty", "last"}]
  /\ t \in [Thread -> Ptr]
  /\ seen \in [Thread -> BOOLEAN]
  /\ \A p \in Thread :
       /\ pc[p] \in {"link", "tail", "next", "empty", "last"} => t[p] # Null
       /\ pc[p] = "link" /\ head # Null => tail # Null

\* Threads that hold no task take one; main gives the tasks out.
Init ==
  /\ head = Null /\ tail = Null
  /\ next = [n \in Node |-> Null]
  /\ owner = Null
  /\ pc = [p \in Thread |-> "idle"]
  /\ t \in [Thread -> Ptr]
  /\ \A p, r \in Thread : t[p] = t[r] => p = r \/ t[p] = Null
  /\ seen = [p \in Thread |-> TRUE]

Go(p, label) == pc' = [pc EXCEPT ![p] = label]

-----------------------------------------------------------------------------
(* enqueue, called between pthread_mutex_lock and pthread_mutex_unlock.    *)

\* lock; t->next = NULL
EnqLock(p) ==
  /\ pc[p] = "idle" /\ t[p] # Null
  /\ owner = Null /\ owner' = p
  /\ next' = [next EXCEPT ![t[p]] = Null]
  /\ Go(p, "link")
  /\ UNCHANGED <<head, tail, t, seen>>

\* Mutant: tail is moved before the last task is linked to the new one.
EnqLinkTailFirst(p) ==
  /\ pc[p] = "link"
  /\ IF head = Null THEN head' = t[p] /\ UNCHANGED next
                    ELSE next' = [next EXCEPT ![t[p]] = t[p]] /\ UNCHANGED head
  /\ Go(p, "tail")
  /\ UNCHANGED <<tail, owner, t, seen>>

\* head = t on an empty queue, tail->next = t otherwise
EnqLink(p) ==
  /\ pc[p] = "link"
  /\ \/ /\ head = Null
        /\ head' = t[p]
        /\ UNCHANGED next
     \/ /\ head # Null
        /\ next' = [next EXCEPT ![tail] = t[p]]
        /\ UNCHANGED head
  /\ Go(p, "tail")
  /\ UNCHANGED <<tail, owner, t, seen>>

\* tail = t, after which the caller forgets the task
EnqTail(p) ==
  /\ pc[p] = "tail"
  /\ tail' = t[p]
  /\ t' = [t EXCEPT ![p] = Null]
  /\ Go(p, "unlock")
  /\ UNCHANGED <<head, next, owner, seen>>

Unlock(p) ==
  /\ pc[p] = "unlock"
  /\ owner' = Null
  /\ Go(p, "idle")
  /\ UNCHANGED <<head, tail, next, t, seen>>

-----------------------------------------------------------------------------
(* deMLFQ on one queue: emptyQueue without the mutex, then dequeue.        *)

Peek(p) ==
  /\ pc[p] = "idle" /\ t[p] = Null
  /\ seen' = [seen EXCEPT ![p] = (head = Null)]
  /\ Go(p, IF head = Null THEN "idle" ELSE "lock")
  /\ UNCHANGED <<head, tail, next, owner, t>>

DeqLock(p) ==
  /\ pc[p] = "lock"
  /\ owner = Null /\ owner' = p
  /\ Go(p, "deq")
  /\ UNCHANGED <<head, tail, next, t, seen>>

\* Mutant: head is cleared, and set to the next task later.
DeqHeadClears(p) ==
  /\ pc[p] = "deq" /\ head # Null
  /\ t' = [t EXCEPT ![p] = head]
  /\ head' = Null
  /\ Go(p, "next")
  /\ UNCHANGED <<tail, next, owner, seen>>

\* t = head; head = t->next.  Another thread may have emptied the queue
\* since Peek: dequeue then returns NULL.
DeqHead(p) ==
  /\ pc[p] = "deq"
  /\ \/ /\ head = Null
        /\ Go(p, "unlock")
        /\ UNCHANGED <<head, t>>
     \/ /\ head # Null
        /\ t' = [t EXCEPT ![p] = head]
        /\ head' = next[head]
        /\ Go(p, IF next[head] = Null THEN "empty" ELSE "next")
  /\ UNCHANGED <<tail, next, owner, seen>>

\* t->next = NULL in the branch of a longer queue
DeqNext(p) ==
  /\ pc[p] = "next"
  /\ next' = [next EXCEPT ![t[p]] = Null]
  /\ Go(p, "empty")
  /\ UNCHANGED <<head, tail, owner, t, seen>>

\* Mutant: tail is cleared whatever is left of the queue.
DeqEmptyAlways(p) ==
  /\ pc[p] = "empty"
  /\ tail' = Null
  /\ Go(p, "last")
  /\ UNCHANGED <<head, next, owner, t, seen>>

\* tail = NULL if the queue is now empty
DeqEmpty(p) ==
  /\ pc[p] = "empty"
  /\ tail' = IF head = Null THEN Null ELSE tail
  /\ Go(p, "last")
  /\ UNCHANGED <<head, next, owner, t, seen>>

\* t->next = NULL
DeqLast(p) ==
  /\ pc[p] = "last"
  /\ next' = [next EXCEPT ![t[p]] = Null]
  /\ Go(p, "unlock")
  /\ UNCHANGED <<head, tail, owner, t, seen>>

Next == \E p \in Thread :
  \/ EnqLock(p) \/ EnqLink(p) \/ EnqTail(p) \/ Unlock(p)
  \/ Peek(p) \/ DeqLock(p) \/ DeqHead(p) \/ DeqNext(p) \/ DeqEmpty(p)
  \/ DeqLast(p)

Spec == Init /\ [][Next]_vars

-----------------------------------------------------------------------------
\* The tasks reachable from head, in order; at most Cardinality(Node) of them.
Reach == LET r[k \in 0 .. Cardinality(Node)] ==
               IF k = 0 THEN head
               ELSE IF r[k - 1] = Null THEN Null ELSE next[r[k - 1]]
         IN  r

Chain == LET n == Cardinality({k \in 0 .. Cardinality(Node) : Reach[k] # Null})
         IN  [k \in 1 .. n |-> Reach[k - 1]]

(***************************************************************************)
(* The list implements the queue: an operation takes effect when the task  *)
(* is linked or unlinked, and emptyQueue may be asked at any moment of     *)
(* another thread's operation (lines 80-146, 306-330).                     *)
(***************************************************************************)
Fifo == INSTANCE TaskFifo WITH
  items <- Chain,
  hold  <- [p \in Thread |-> IF pc[p] = "tail" THEN Null ELSE t[p]]

FifoSpec == Fifo!Spec

(***************************************************************************)
(* Whenever the mutex is free tail is the last task of the list, so that   *)
(* the next enqueue appends there, the list ends, and the task a thread    *)
(* holds is neither in the list nor linked to another task.                *)
(***************************************************************************)
ListSound ==
  owner = Null =>
    /\ tail = IF Chain = <<>> THEN Null ELSE Chain[Len(Chain)]
    /\ Cardinality({Chain[k] : k \in DOMAIN Chain}) = Len(Chain)
    /\ \A p \in Thread, k \in DOMAIN Chain : t[p] # Chain[k]
    /\ \A p \in Thread : t[p] # Null => next[t[p]] = Null
=============================================================================
