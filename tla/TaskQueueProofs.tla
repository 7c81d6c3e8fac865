--------------------------- MODULE TaskQueueProofs --------------------------
(***************************************************************************)
(* Proofs about the linked list of a ready queue: for any number of        *)
(* threads and tasks the list is sound whenever its mutex is free, and     *)
(* every word it writes is a step of an atomic queue or no step at all.    *)
(***************************************************************************)
EXTENDS TaskQueue, Integers, FiniteSetTheorems, WellFoundedInduction, TLAPS

\* The tasks of L, in that order, are what the pointers make up.
IsList(L, first, link) ==
  /\ L \in Seq(Node)
  /\ \A k, l \in 1 .. Len(L) : L[k] = L[l] => k = l
  /\ first = IF L = <<>> THEN Null ELSE L[1]
  /\ \A k \in 1 .. Len(L) :
       link[L[k]] = IF k = Len(L) THEN Null ELSE L[k + 1]

-----------------------------------------------------------------------------
(* What Chain computes.                                                    *)

\* A counterexample in the natural numbers has a least one.
LEMMA LeastNumber ==
  ASSUME NEW T, T \subseteq Nat, T # {}
  PROVE  \E x \in T : \A y \in T : x <= y
<1> DEFINE Less == {p \in Nat \X Nat : p[1] < p[2]}
<1>1. IsWellFoundedOn(Less, Nat)
  BY NatLessThanWellFounded DEF OpToRel
<1>2. PICK x \in T : \A y \in T : ~ (<<y, x>> \in Less)
  BY <1>1, WFMin
<1>3. \A y \in T : ~ (y < x)
  BY <1>2
<1>4. QED
  BY <1>3

LEMMA ListFits ==
  ASSUME NEW L \in Seq(Node), \A k, l \in 1 .. Len(L) : L[k] = L[l] => k = l
  PROVE  /\ Cardinality(Node) \in Nat /\ Len(L) <= Cardinality(Node)
         /\ Cardinality({L[k] : k \in 1 .. Len(L)}) = Len(L)
<1> DEFINE S == 1 .. Len(L)
           E == {L[k] : k \in S}
<1>0. Len(L) \in Nat /\ L \in [S -> Node]
  OBVIOUS
<1>1. /\ IsFiniteSet(S) /\ Cardinality(S) = Len(L)
  BY <1>0, FS_Interval
<1>2. L \in Injection(S, Node)
  BY <1>0 DEF Injection, IsInjective
<1>3. L \in Surjection(S, E)
  BY <1>0 DEF Surjection
<1>4. L \in Injection(S, E)
  BY <1>0, <1>2 DEF Injection, IsInjective
<1>5. IsFiniteSet(Node) /\ Cardinality(Node) \in Nat
  BY TaskQueueAssumption, FS_CardinalityType DEF TaskQueueAssumption
<1>6. Cardinality(S) <= Cardinality(Node)
  BY <1>2, <1>5, FS_Injection
<1>7. Cardinality(E) = Cardinality(S)
  BY <1>1, <1>3, <1>4, FS_Surjection
<1>8. QED
  BY <1>1, <1>5, <1>6, <1>7

\* One step along the list.
Follow(r, k) ==
  IF k = 0 THEN head ELSE IF r[k - 1] = Null THEN Null ELSE next[r[k - 1]]

LEMMA ReachList ==
  ASSUME NEW L, IsList(L, head, next)
  PROVE  Reach = [k \in 0 .. Cardinality(Node) |->
                    IF k < Len(L) THEN L[k + 1] ELSE Null]
<1> DEFINE N == Cardinality(Node)
           W == [k \in 0 .. N |-> IF k < Len(L) THEN L[k + 1] ELSE Null]
           Walk(r) == r = [k \in 0 .. N |-> Follow(r, k)]
<1>0. L \in Seq(Node) /\ \A k, l \in 1 .. Len(L) : L[k] = L[l] => k = l
  BY DEF IsList
<1>1. /\ L \in Seq(Node) /\ Len(L) \in Nat /\ N \in Nat /\ Len(L) <= N
      /\ Null \notin Node
  <2>1. Cardinality(Node) \in Nat /\ Len(L) <= Cardinality(Node)
    BY <1>0, ListFits, Zenon
  <2>2. QED
    BY <1>0, <2>1, TaskQueueAssumption DEF TaskQueueAssumption
<1>2. \A k \in 0 .. N : W[k] = Follow(W, k)
  <2>1. SUFFICES ASSUME NEW k \in 0 .. N PROVE W[k] = Follow(W, k)
    OBVIOUS
  <2>2. CASE k = 0
    <3>1. W[0] = IF 0 < Len(L) THEN L[1] ELSE Null
      BY <1>1
    <3>2. L = <<>> <=> ~ (0 < Len(L))
      BY <1>1
    <3>3. QED
      BY <2>2, <3>1, <3>2 DEF Follow, IsList
  <2>3. CASE k # 0
    <3>1. k - 1 \in 0 .. N /\ k \in Nat
      BY <1>1, <2>3
    <3>2. CASE k - 1 < Len(L)
      <4>1. k \in 1 .. Len(L) /\ W[k - 1] = L[k] /\ L[k] \in Node
        BY <1>1, <3>1, <3>2, <2>3
      <4>2. next[L[k]] = IF k = Len(L) THEN Null ELSE L[k + 1]
        BY <4>1 DEF IsList
      <4>3. W[k] = IF k = Len(L) THEN Null ELSE L[k + 1]
        BY <1>1, <4>1
      <4>4. QED
        BY <1>1, <2>3, <4>1, <4>2, <4>3 DEF Follow
    <3>3. CASE ~ (k - 1 < Len(L))
      <4>1. W[k - 1] = Null /\ W[k] = Null
        BY <1>1, <3>1, <3>3
      <4>2. QED
        BY <2>3, <4>1 DEF Follow
    <3>4. QED
      BY <3>2, <3>3
  <2>4. QED
    BY <2>2, <2>3
<1>3. Walk(W)
  BY <1>2
<1>4. Reach = CHOOSE r : Walk(r)
  BY DEF Reach, Follow
<1>5. Walk(Reach)
  <2> HIDE DEF Walk
  <2> QED BY <1>3, <1>4
<1>6. Reach = W
  <2> DEFINE Wrong == {k \in 0 .. N : Reach[k] # W[k]}
  <2>1. CASE Wrong = {}
    BY <2>1, <1>5
  <2>2. CASE Wrong # {}
    <3>0. Wrong \subseteq Nat
      BY <1>1
    <3>1. PICK k \in Wrong : \A j \in Wrong : k <= j
      <4> HIDE DEF Wrong
      <4> QED BY <2>2, <3>0, LeastNumber
    <3>2. k \in 0 .. N /\ Reach[k] # W[k] /\ Reach[k] = Follow(Reach, k)
      BY <3>1, <1>5
    <3>3. CASE k = 0
      BY <1>2, <3>2, <3>3 DEF Follow
    <3>4. CASE k # 0
      <4>1. k - 1 \in 0 .. N /\ k - 1 \notin Wrong
        BY <3>1, <3>2, <3>4, <1>1
      <4>2. Reach[k - 1] = W[k - 1]
        BY <4>1
      <4>3. Follow(Reach, k) = Follow(W, k)
        BY <4>2, <3>4 DEF Follow
      <4>4. QED
        BY <1>2, <3>2, <4>3
    <3>5. QED
      BY <3>3, <3>4
  <2>3. QED
    BY <2>1, <2>2
<1>7. QED
  BY <1>6

LEMMA ListIsChain == \A L : IsList(L, head, next) => Chain = L
<1>1. SUFFICES ASSUME NEW L, IsList(L, head, next) PROVE Chain = L
  OBVIOUS
<1> DEFINE N == Cardinality(Node)
<1>2. L \in Seq(Node) /\ \A k, l \in 1 .. Len(L) : L[k] = L[l] => k = l
  BY <1>1 DEF IsList
<1>3. /\ L \in Seq(Node) /\ Len(L) \in Nat /\ N \in Nat /\ Len(L) <= N
      /\ Null \notin Node
  <2>1. Cardinality(Node) \in Nat /\ Len(L) <= Cardinality(Node)
    BY <1>2, ListFits, Zenon
  <2>2. QED
    BY <1>2, <2>1, TaskQueueAssumption DEF TaskQueueAssumption
<1>4. Reach = [k \in 0 .. N |-> IF k < Len(L) THEN L[k + 1] ELSE Null]
  BY <1>1, ReachList
<1>5. {k \in 0 .. N : Reach[k] # Null} = 0 .. Len(L) - 1
  BY <1>3, <1>4
<1>6. Cardinality(0 .. Len(L) - 1) = Len(L)
  <2>1. 0 \in Int /\ Len(L) - 1 \in Int
    BY <1>3
  <2>2. Cardinality(0 .. Len(L) - 1)
          = IF 0 > Len(L) - 1 THEN 0 ELSE (Len(L) - 1) - 0 + 1
    BY <2>1, FS_Interval
  <2>3. QED
    BY <1>3, <2>2
<1>7. Cardinality({k \in 0 .. N : Reach[k] # Null}) = Len(L)
  BY <1>5, <1>6
<1>8. Chain = [k \in 1 .. Len(L) |-> Reach[k - 1]]
  BY <1>7 DEF Chain
<1>9. \A k \in 1 .. Len(L) : Reach[k - 1] = L[k]
  BY <1>3, <1>4
<1>10. QED
  BY <1>3, <1>8, <1>9
-----------------------------------------------------------------------------
(* The inductive invariant.                                                *)

Types ==
  /\ head \in Ptr /\ tail \in Ptr
  /\ next \in [Node -> Ptr]
  /\ owner \in Thread \cup {Null}
  /\ pc \in [Thread -> {"idle", "link", "tail", "unlock", "lock", "deq",
                        "next", "empty", "last"}]
  /\ t \in [Thread -> Ptr]
  /\ seen \in [Thread -> BOOLEAN]

Critical == {"link", "tail", "unlock", "deq", "next", "empty", "last"}

Guarded == \A p \in Thread : pc[p] \in Critical => owner = p

Hands ==
  \A p \in Thread :
    /\ pc[p] \in {"lock", "deq"} => t[p] = Null
    /\ pc[p] \in {"link", "tail", "next", "empty", "last"} => t[p] # Null

Control == Types /\ Guarded /\ Hands

Elements == {Chain[k] : k \in 1 .. Len(Chain)}

Last == Chain[Len(Chain)]

\* tail lags behind only between the two writes of an operation.
TailRight ==
  IF Chain = <<>> THEN (\A p \in Thread : pc[p] # "empty") => tail = Null
                  ELSE (\A p \in Thread : pc[p] # "tail") => tail = Last

\* The task a thread holds is its own; it is in the list only between being
\* linked and being made the tail, and linked to nothing once taken out.
Loose ==
  \A p \in Thread : t[p] # Null =>
    /\ \A r \in Thread : t[r] = t[p] => r = p
    /\ pc[p] = "tail" => Chain # <<>> /\ t[p] = Last
    /\ pc[p] # "tail" => t[p] \notin Elements
    /\ pc[p] \notin {"tail", "next"} => next[t[p]] = Null

ListInv == IsList(Chain, head, next) /\ TailRight /\ Loose

QueueInv == Control /\ ListInv

LEMMA NullApart == Null \notin Node /\ Null \notin Thread
  BY TaskQueueAssumption DEF TaskQueueAssumption

LEMMA ControlInit == Init => Control
  BY NullApart DEF Init, Control, Types, Guarded, Hands, Critical, Ptr

LEMMA ControlNext ==
  ASSUME Control, Next
  PROVE  Control'
<1>1. PICK p \in Thread :
        \/ EnqLock(p) \/ EnqLink(p) \/ EnqTail(p) \/ Unlock(p)
        \/ Peek(p) \/ DeqLock(p) \/ DeqHead(p) \/ DeqNext(p) \/ DeqEmpty(p)
        \/ DeqLast(p)
  BY DEF Next
<1> USE NullApart DEF Control, Types, Guarded, Hands, Critical, Ptr, Go
<1>2. CASE EnqLock(p)
  BY <1>2 DEF EnqLock
<1>3. CASE EnqLink(p)
  BY <1>3 DEF EnqLink
<1>4. CASE EnqTail(p)
  BY <1>4 DEF EnqTail
<1>5. CASE Unlock(p)
  BY <1>5 DEF Unlock
<1>6. CASE Peek(p)
  BY <1>6 DEF Peek
<1>7. CASE DeqLock(p)
  BY <1>7 DEF DeqLock
<1>8. CASE DeqHead(p)
  BY <1>8 DEF DeqHead
<1>9. CASE DeqNext(p)
  BY <1>9 DEF DeqNext
<1>10. CASE DeqEmpty(p)
  BY <1>10 DEF DeqEmpty
<1>11. CASE DeqLast(p)
  BY <1>11 DEF DeqLast
<1>12. QED
  BY <1>1, <1>2, <1>3, <1>4, <1>5, <1>6, <1>7, <1>8, <1>9, <1>10, <1>11

\* Whatever list the pointers make up after a step is the next Chain.
LEMMA NextChain == \A L : IsList(L, head', next') => Chain' = L
<1>1. (\A L : IsList(L, head, next) => Chain = L)'
  BY ListIsChain, PTL
<1>2. QED
  BY <1>1

LEMMA ListFacts ==
  ASSUME QueueInv
  PROVE  /\ Chain \in Seq(Node) /\ Len(Chain) \in Nat
         /\ Elements \subseteq Node
         /\ head = Null <=> Chain = <<>>
         /\ Chain # <<>> => Last \in Elements /\ Last \in Node /\ Len(Chain) > 0
         /\ \A p \in Thread : pc[p] \in Critical =>
              \A r \in Thread : pc[r] \in Critical => r = p
  BY NullApart
     DEF QueueInv, ListInv, IsList, Elements, Last, Control, Guarded

-----------------------------------------------------------------------------
(* What each step does to the list.                                        *)

Hold == [p \in Thread |-> IF pc[p] = "tail" THEN Null ELSE t[p]]

\* A step that leaves the list as it is.
LEMMA ChainKept ==
  ASSUME QueueInv, head' = head, \A n \in Elements : next'[n] = next[n]
  PROVE  /\ Chain' = Chain /\ Elements' = Elements /\ Last' = Last
         /\ IsList(Chain, head, next)'
<1>1. IsList(Chain, head', next')
  BY DEF QueueInv, ListInv, IsList, Elements
<1>2. Chain' = Chain
  BY <1>1, NextChain
<1>3. QED
  BY <1>1, <1>2 DEF Elements, Last

LEMMA QuietKeeps ==
  ASSUME QueueInv, NEW p \in Thread, Unlock(p) \/ Peek(p) \/ DeqLock(p)
  PROVE  ListInv' /\ Chain' = Chain /\ Hold' = Hold
<1>1. /\ UNCHANGED <<head, tail, next, t>>
      /\ pc[p] \in {"unlock", "idle", "lock"}
      /\ \E l \in {"idle", "lock", "deq"} : pc' = [pc EXCEPT ![p] = l]
  BY DEF Unlock, Peek, DeqLock, Go
<1>2. /\ Chain' = Chain /\ Elements' = Elements /\ Last' = Last
      /\ IsList(Chain, head, next)'
  BY <1>1, ChainKept
<1>3. pc \in [Thread -> {"idle", "link", "tail", "unlock", "lock", "deq",
                         "next", "empty", "last"}]
  BY DEF QueueInv, Control, Types
<1>4. TailRight' /\ Loose'
  BY <1>1, <1>2, <1>3 DEF QueueInv, ListInv, TailRight, Loose
<1>5. QED
  BY <1>1, <1>2, <1>3, <1>4 DEF ListInv, Hold

LEMMA EnqLockKeeps ==
  ASSUME QueueInv, NEW p \in Thread, EnqLock(p)
  PROVE  ListInv' /\ Chain' = Chain /\ Hold' = Hold
<1>1. /\ Types /\ t[p] \in Node /\ next[t[p]] = Null
  BY NullApart DEF QueueInv, Control, ListInv, Types, Loose, EnqLock, Ptr
<1>2. UNCHANGED <<head, tail, next, t>> /\ pc[p] = "idle" /\ pc' = [pc EXCEPT ![p] = "link"]
  BY <1>1 DEF EnqLock, Types, Go
<1>3. /\ Chain' = Chain /\ Elements' = Elements /\ Last' = Last
      /\ IsList(Chain, head, next)'
  BY <1>2, ChainKept
<1>4. TailRight' /\ Loose'
  BY <1>1, <1>2, <1>3 DEF QueueInv, ListInv, TailRight, Loose, Types
<1>5. QED
  BY <1>1, <1>2, <1>3, <1>4 DEF ListInv, Hold, Types

LEMMA EnqLinkAppends ==
  ASSUME QueueInv, NEW p \in Thread, EnqLink(p)
  PROVE  /\ ListInv' /\ Chain' = Append(Chain, t[p])
         /\ Hold[p] = t[p] /\ t[p] # Null /\ Hold' = [Hold EXCEPT ![p] = Null]
<1> DEFINE L == Append(Chain, t[p])
<1>1. /\ Types /\ pc[p] = "link" /\ t[p] \in Node /\ t[p] # Null
      /\ t[p] \notin Elements /\ next[t[p]] = Null
      /\ UNCHANGED <<tail, t>> /\ pc' = [pc EXCEPT ![p] = "tail"]
  BY NullApart DEF QueueInv, Control, Hands, ListInv, Types, Loose, EnqLink, Ptr, Go
<1>2. /\ Chain \in Seq(Node) /\ Len(Chain) \in Nat /\ Elements \subseteq Node
      /\ head = Null <=> Chain = <<>>
      /\ Chain # <<>> => Last \in Elements /\ Last \in Node /\ Len(Chain) > 0
  BY ListFacts
<1>3. \A r \in Thread : pc[r] \in Critical => r = p
  BY <1>1, ListFacts DEF Critical
<1>4. /\ L \in Seq(Node) /\ Len(L) = Len(Chain) + 1 /\ L[Len(L)] = t[p]
      /\ \A k \in 1 .. Len(Chain) : L[k] = Chain[k]
  BY <1>1, <1>2
<1>5. \A k \in 1 .. Len(Chain) : Chain[k] \in Elements
  BY DEF Elements
<1>6. \A k, l \in 1 .. Len(L) : L[k] = L[l] => k = l
  <2>1. \A k, l \in 1 .. Len(Chain) : Chain[k] = Chain[l] => k = l
    BY DEF QueueInv, ListInv, IsList
  <2>2. \A k \in 1 .. Len(L) : k \in 1 .. Len(Chain) \/ k = Len(L)
    BY <1>2, <1>4
  <2>3. \A k \in 1 .. Len(Chain) : L[k] # L[Len(L)]
    BY <1>1, <1>4, <1>5
  <2>4. QED
    BY <1>4, <2>1, <2>2, <2>3
<1>7. /\ head' = IF L = <<>> THEN Null ELSE L[1]
      /\ \A k \in 1 .. Len(L) :
           next'[L[k]] = IF k = Len(L) THEN Null ELSE L[k + 1]
      /\ \A n \in Node : n \notin Elements => next'[n] = next[n]
  <2>1. CASE head = Null
    <3>1. Chain = <<>> /\ head' = t[p] /\ next' = next /\ Len(Chain) = 0
      BY <1>2, <2>1 DEF EnqLink
    <3>2. QED
      BY <1>1, <1>4, <3>1
  <2>2. CASE head # Null
    <3>1. Chain # <<>> /\ head' = head /\ next' = [next EXCEPT ![tail] = t[p]]
      BY <1>2, <2>2 DEF EnqLink
    <3>2. tail = Last
      BY <1>1, <1>3, <3>1 DEF QueueInv, ListInv, TailRight, Critical
    <3>3. head' = L[1] /\ L # <<>>
      BY <1>2, <1>4, <3>1 DEF QueueInv, ListInv, IsList
    <3>4. ASSUME NEW k \in 1 .. Len(L)
          PROVE  next'[L[k]] = IF k = Len(L) THEN Null ELSE L[k + 1]
      <4>1. CASE k = Len(L)
        <5>1. L[k] = t[p] /\ t[p] # tail
          BY <1>1, <1>2, <1>4, <3>1, <3>2, <4>1
        <5>2. QED
          BY <1>1, <3>1, <4>1, <5>1 DEF Types
      <4>2. CASE k = Len(Chain)
        <5>1. L[k] = tail /\ L[k + 1] = t[p] /\ k # Len(L)
          BY <1>2, <1>4, <3>1, <3>2, <4>2 DEF Last
        <5>2. QED
          BY <1>1, <1>2, <3>1, <3>2, <5>1 DEF Types
      <4>3. CASE k # Len(L) /\ k # Len(Chain)
        <5>1. /\ k \in 1 .. Len(Chain) /\ k + 1 \in 1 .. Len(Chain)
              /\ L[k] = Chain[k] /\ L[k + 1] = Chain[k + 1]
          BY <1>2, <1>4, <4>3
        <5>2. next[Chain[k]] = Chain[k + 1] /\ Chain[k] # Last
          BY <1>2, <4>3, <5>1 DEF QueueInv, ListInv, IsList, Last
        <5>3. QED
          BY <1>1, <1>2, <3>1, <3>2, <4>3, <5>1, <5>2 DEF Types
      <4>4. QED
        BY <4>1, <4>2, <4>3
    <3>5. QED
      BY <1>1, <1>2, <3>1, <3>2, <3>3, <3>4 DEF Types
  <2>3. QED
    BY <2>1, <2>2
<1>8. IsList(L, head', next')
  BY <1>4, <1>6, <1>7 DEF IsList
<1>9. Chain' = L
  BY <1>8, NextChain
<1>10. Last' = t[p] /\ Chain' # <<>> /\ \A n : n \in Elements' => n \in Elements \/ n = t[p]
  <2>1. Last' = L[Len(L)] /\ Elements' = {L[k] : k \in 1 .. Len(L)}
    BY <1>9 DEF Last, Elements
  <2>2. \A k \in 1 .. Len(L) : L[k] \in Elements \/ L[k] = t[p]
    BY <1>2, <1>4, <1>5
  <2>3. QED
    BY <1>2, <1>4, <1>9, <2>1, <2>2
<1>11. TailRight'
  BY <1>1, <1>10 DEF TailRight, Types
<1>12. Loose'
  <2>1. SUFFICES ASSUME NEW r \in Thread, t[r] # Null
        PROVE /\ \A x \in Thread : t[x] = t[r] => x = r
              /\ pc'[r] = "tail" => t[r] = t[p]
              /\ pc'[r] # "tail" => t[r] \notin Elements'
              /\ pc'[r] \notin {"tail", "next"} => next'[t[r]] = Null
    BY <1>1, <1>10 DEF Loose
  <2>2. \A x \in Thread : t[x] = t[r] => x = r
    BY <2>1 DEF QueueInv, ListInv, Loose
  <2>3. CASE r = p
    BY <1>1, <2>2, <2>3 DEF Types
  <2>4. CASE r # p
    <3>1. pc'[r] = pc[r] /\ pc[r] # "tail" /\ t[r] # t[p]
      BY <1>1, <1>3, <2>2, <2>4 DEF Types, Critical
    <3>2. /\ t[r] \notin Elements /\ t[r] \in Node
          /\ pc[r] # "next" => next[t[r]] = Null
      BY <1>1, <2>1, <3>1 DEF QueueInv, ListInv, Loose, Types, Ptr
    <3>3. QED
      BY <1>7, <1>10, <2>2, <3>1, <3>2
  <2>5. QED
    BY <2>3, <2>4
<1>13. QED
  BY <1>1, <1>8, <1>9, <1>11, <1>12 DEF ListInv, Hold, Types

LEMMA EnqTailKeeps ==
  ASSUME QueueInv, NEW p \in Thread, EnqTail(p)
  PROVE  ListInv' /\ Chain' = Chain /\ Hold' = Hold
<1>1. /\ Types /\ pc[p] = "tail" /\ t[p] = Last /\ Chain # <<>>
      /\ head' = head /\ next' = next /\ tail' = t[p]
      /\ t' = [t EXCEPT ![p] = Null] /\ pc' = [pc EXCEPT ![p] = "unlock"]
  BY DEF QueueInv, Control, Hands, ListInv, Loose, EnqTail, Go
<1>2. /\ Chain' = Chain /\ Elements' = Elements /\ Last' = Last
      /\ IsList(Chain, head, next)'
  BY <1>1, ChainKept
<1>3. TailRight'
  BY <1>1, <1>2 DEF TailRight
<1>4. Loose'
  BY <1>1, <1>2 DEF QueueInv, ListInv, Loose, Types
<1>5. QED
  BY <1>1, <1>2, <1>3, <1>4 DEF ListInv, Hold, Types

LEMMA DeqHeadTakes ==
  ASSUME QueueInv, NEW p \in Thread, DeqHead(p)
  PROVE  /\ ListInv'
         /\ \/ Chain' = Chain /\ Hold' = Hold
            \/ /\ Chain # <<>> /\ Chain' = Tail(Chain)
               /\ Hold[p] = Null /\ Hold' = [Hold EXCEPT ![p] = Head(Chain)]
<1> DEFINE L == Tail(Chain)
<1>1. /\ Types /\ pc[p] = "deq" /\ t[p] = Null /\ UNCHANGED <<tail, next>>
  BY DEF QueueInv, Control, Hands, DeqHead
<1>2. /\ Chain \in Seq(Node) /\ Len(Chain) \in Nat /\ Elements \subseteq Node
      /\ head = Null <=> Chain = <<>>
      /\ Chain # <<>> => Last \in Elements /\ Last \in Node /\ Len(Chain) > 0
  BY ListFacts
<1>3. \A r \in Thread : pc[r] \in Critical => r = p
  BY <1>1, ListFacts DEF Critical
<1>4. CASE head = Null
  <2>1. UNCHANGED <<head, t>> /\ pc' = [pc EXCEPT ![p] = "unlock"]
    BY <1>4 DEF DeqHead, Go
  <2>2. /\ Chain' = Chain /\ Elements' = Elements /\ Last' = Last
        /\ IsList(Chain, head, next)'
    BY <1>1, <2>1, ChainKept
  <2>3. TailRight' /\ Loose'
    BY <1>1, <2>1, <2>2 DEF QueueInv, ListInv, TailRight, Loose, Types
  <2>4. QED
    BY <1>1, <2>1, <2>2, <2>3 DEF ListInv, Hold, Types
<1>5. CASE head # Null
  <2>1. /\ Chain # <<>> /\ head = Chain[1] /\ head \in Elements /\ head \in Node
        /\ Len(Chain) >= 1 /\ head = Head(Chain)
    BY <1>2, <1>5 DEF QueueInv, ListInv, IsList, Elements
  <2>2. /\ t' = [t EXCEPT ![p] = head] /\ head' = next[head]
        /\ pc' = [pc EXCEPT ![p] = IF next[head] = Null THEN "empty" ELSE "next"]
    BY <1>5 DEF DeqHead, Go
  <2>3. /\ L \in Seq(Node) /\ Len(L) = Len(Chain) - 1
        /\ L = <<>> <=> Len(L) = 0
        /\ \A k \in 1 .. Len(L) : k + 1 \in 1 .. Len(Chain) /\ L[k] = Chain[k + 1]
    <3>1. /\ L \in Seq(Node) /\ Len(L) = Len(Chain) - 1
          /\ \A k \in 1 .. Len(L) : L[k] = Chain[k + 1]
      BY <1>2, <2>1
    <3>2. L = <<>> <=> Len(L) = 0
      <4> HIDE DEF L
      <4> QED BY <3>1
    <3>3. QED
      BY <1>2, <3>1, <3>2
  <2> HIDE DEF L
  <2>4. /\ \A k, l \in 1 .. Len(Chain) : Chain[k] = Chain[l] => k = l
        /\ \A k \in 1 .. Len(Chain) :
             next[Chain[k]] = IF k = Len(Chain) THEN Null ELSE Chain[k + 1]
    BY DEF QueueInv, ListInv, IsList
  <2>5. \A k, l \in 1 .. Len(L) : L[k] = L[l] => k = l
    <3>1. SUFFICES ASSUME NEW k \in 1 .. Len(L), NEW l \in 1 .. Len(L), L[k] = L[l]
          PROVE k = l
      OBVIOUS
    <3>2. Chain[k + 1] = Chain[l + 1]
      BY <2>3, <3>1
    <3>3. k + 1 \in 1 .. Len(Chain) /\ l + 1 \in 1 .. Len(Chain)
      BY <2>3
    <3>4. k + 1 = l + 1
      BY <2>4, <3>2, <3>3
    <3>5. QED
      BY <3>4
  <2>6. head' = IF L = <<>> THEN Null ELSE L[1]
    <3>1. next[head] = IF 1 = Len(Chain) THEN Null ELSE Chain[2]
      <4>1. 1 \in 1 .. Len(Chain) /\ 1 + 1 = 2
        BY <1>2, <2>1
      <4>2. QED
        BY <2>1, <2>4, <4>1
    <3>2. L = <<>> <=> 1 = Len(Chain)
      BY <1>2, <2>1, <2>3
    <3>3. 1 # Len(Chain) => L[1] = Chain[2]
      BY <1>2, <2>1, <2>3
    <3>4. QED
      BY <2>2, <3>1, <3>2, <3>3
  <2>7. \A k \in 1 .. Len(L) : next[L[k]] = IF k = Len(L) THEN Null ELSE L[k + 1]
    <3>1. SUFFICES ASSUME NEW k \in 1 .. Len(L)
          PROVE next[L[k]] = IF k = Len(L) THEN Null ELSE L[k + 1]
      OBVIOUS
    <3>2. L[k] = Chain[k + 1] /\ k + 1 \in 1 .. Len(Chain)
      BY <2>3
    <3>3. next[L[k]] = IF k + 1 = Len(Chain) THEN Null ELSE Chain[(k + 1) + 1]
      BY <2>4, <3>2
    <3>4. k # Len(L) => L[k + 1] = Chain[(k + 1) + 1]
      <4>1. k # Len(L) => k + 1 \in 1 .. Len(L)
        BY <1>2, <2>3
      <4>2. QED
        BY <2>3, <4>1
    <3>5. k = Len(L) <=> k + 1 = Len(Chain)
      BY <1>2, <2>3
    <3>6. QED
      BY <3>3, <3>4, <3>5
  <2>8. IsList(L, head', next')
    BY <1>1, <2>3, <2>5, <2>6, <2>7 DEF IsList
  <2>9. Chain' = L
    BY <2>8, NextChain
  <2>10. /\ \A n : n \in Elements' => n \in Elements /\ n # head
         /\ L # <<>> => Last' = Last
    <3>1. Elements' = {L[k] : k \in 1 .. Len(L)} /\ Last' = L[Len(L)]
      BY <2>9 DEF Elements, Last
    <3>2. \A k \in 1 .. Len(L) : L[k] \in Elements /\ L[k] # head
      <4>1. \A k \in 1 .. Len(L) : Chain[k + 1] \in Elements
        BY <2>3 DEF Elements
      <4>2. \A k \in 1 .. Len(L) : Chain[k + 1] # Chain[1]
        <5>1. \A k \in 1 .. Len(L) : k + 1 \in 1 .. Len(Chain) /\ k + 1 # 1
          BY <2>3
        <5>2. 1 \in 1 .. Len(Chain)
          BY <1>2, <2>1
        <5>3. QED
          BY <2>4, <5>1, <5>2
      <4>3. QED
        BY <2>1, <2>3, <4>1, <4>2
    <3>3. L # <<>> => L[Len(L)] = Chain[Len(Chain)]
      BY <1>2, <2>3
    <3>4. QED
      BY <3>1, <3>2, <3>3 DEF Last
  <2>11. TailRight'
    <3>1. CASE L = <<>>
      BY <1>1, <2>2, <2>6, <2>9, <3>1 DEF TailRight, Types
    <3>2. CASE L # <<>>
      <4>1. tail = Last
        BY <1>1, <1>3, <2>1 DEF QueueInv, ListInv, TailRight, Critical
      <4>2. QED
        BY <1>1, <2>9, <2>10, <3>2, <4>1 DEF TailRight
    <3>3. QED
      BY <3>1, <3>2
  <2>12. \A r \in Thread : r # p => /\ t'[r] = t[r] /\ pc'[r] = pc[r]
                                    /\ pc[r] \notin {"tail", "next"} /\ t[r] # head
    <3>1. SUFFICES ASSUME NEW r \in Thread, r # p
          PROVE  /\ t'[r] = t[r] /\ pc'[r] = pc[r]
                 /\ pc[r] \notin {"tail", "next"} /\ t[r] # head
      OBVIOUS
    <3>2. t'[r] = t[r] /\ pc'[r] = pc[r] /\ pc[r] \notin {"tail", "next"}
      BY <1>1, <1>3, <2>2, <3>1 DEF Types, Critical
    <3>3. t[r] # Null => t[r] \notin Elements
      BY <3>2 DEF QueueInv, ListInv, Loose
    <3>4. QED
      BY <1>5, <2>1, <3>2, <3>3
  <2>13. t'[p] = head /\ pc'[p] = IF next[head] = Null THEN "empty" ELSE "next"
    BY <1>1, <2>2 DEF Types
  <2>14. Loose'
    <3>1. SUFFICES ASSUME NEW r \in Thread, t'[r] # Null
          PROVE /\ \A x \in Thread : t'[x] = t'[r] => x = r
                /\ pc'[r] # "tail" /\ t'[r] \notin Elements'
                /\ pc'[r] \notin {"tail", "next"} => next[t'[r]] = Null
      BY <1>1 DEF Loose
    <3>2. CASE r = p
      BY <2>10, <2>12, <2>13, <3>2
    <3>3. CASE r # p
      <4>1. \A x \in Thread : t[x] = t[r] => x = r
        BY <2>12, <3>1, <3>3 DEF QueueInv, ListInv, Loose
      <4>2. t[r] \notin Elements /\ next[t[r]] = Null
        BY <2>12, <3>1, <3>3 DEF QueueInv, ListInv, Loose
      <4>3. QED
        BY <2>10, <2>12, <2>13, <3>3, <4>1, <4>2
    <3>4. QED
      BY <3>2, <3>3
  <2>15. Hold[p] = Null /\ Hold' = [Hold EXCEPT ![p] = Head(Chain)]
    BY <1>1, <2>1, <2>2 DEF Hold, Types
  <2>16. QED
    BY <2>1, <2>8, <2>9, <2>11, <2>14, <2>15 DEF ListInv, L
<1>6. QED
  BY <1>4, <1>5

LEMMA DeqLinkKeeps ==
  ASSUME QueueInv, NEW p \in Thread, DeqNext(p) \/ DeqLast(p)
  PROVE  ListInv' /\ Chain' = Chain /\ Hold' = Hold
<1>1. /\ Types /\ pc[p] \in {"next", "last"} /\ t[p] \in Node /\ t[p] # Null
      /\ t[p] \notin Elements
      /\ UNCHANGED <<head, tail, t>> /\ next' = [next EXCEPT ![t[p]] = Null]
      /\ pc[p] = "next" => pc' = [pc EXCEPT ![p] = "empty"]
      /\ pc[p] = "last" => pc' = [pc EXCEPT ![p] = "unlock"]
  BY NullApart
     DEF QueueInv, Control, Hands, ListInv, Types, Loose, DeqNext, DeqLast, Ptr, Go
<1>2. \A n \in Node : n # t[p] => next'[n] = next[n]
  BY <1>1 DEF Types
<1>3. /\ Chain' = Chain /\ Elements' = Elements /\ Last' = Last
      /\ IsList(Chain, head, next)'
  BY <1>1, <1>2, ListFacts, ChainKept
<1>4. TailRight'
  BY <1>1, <1>3 DEF QueueInv, ListInv, TailRight, Types
<1>5. Loose'
  <2>1. SUFFICES ASSUME NEW r \in Thread, t[r] # Null
        PROVE /\ \A x \in Thread : t[x] = t[r] => x = r
              /\ pc'[r] = "tail" => Chain # <<>> /\ t[r] = Last
              /\ pc'[r] # "tail" => t[r] \notin Elements
              /\ pc'[r] \notin {"tail", "next"} => next'[t[r]] = Null
    BY <1>1, <1>3 DEF Loose
  <2>2. CASE r = p
    BY <1>1, <2>1, <2>2 DEF QueueInv, ListInv, Loose, Types
  <2>3. CASE r # p
    <3>1. pc'[r] = pc[r] /\ t[r] # t[p] /\ t[r] \in Node
      BY <1>1, <2>1, <2>3 DEF QueueInv, ListInv, Loose, Types, Ptr
    <3>2. QED
      BY <1>2, <2>1, <3>1 DEF QueueInv, ListInv, Loose
  <2>4. QED
    BY <2>2, <2>3
<1>6. QED
  BY <1>1, <1>3, <1>4, <1>5 DEF ListInv, Hold, Types

LEMMA DeqEmptyKeeps ==
  ASSUME QueueInv, NEW p \in Thread, DeqEmpty(p)
  PROVE  ListInv' /\ Chain' = Chain /\ Hold' = Hold
<1>1. /\ Types /\ pc[p] = "empty" /\ UNCHANGED <<head, next, t>>
      /\ tail' = (IF head = Null THEN Null ELSE tail)
      /\ pc' = [pc EXCEPT ![p] = "last"]
  BY DEF QueueInv, Control, DeqEmpty, Go
<1>2. \A r \in Thread : pc[r] # "tail"
  BY <1>1, ListFacts DEF Critical
<1>3. /\ Chain' = Chain /\ Elements' = Elements /\ Last' = Last
      /\ IsList(Chain, head, next)'
  BY <1>1, ChainKept
<1>4. TailRight'
  BY <1>1, <1>2, <1>3, ListFacts DEF QueueInv, ListInv, TailRight
<1>5. Loose'
  BY <1>1, <1>3 DEF QueueInv, ListInv, Loose, Types
<1>6. QED
  BY <1>1, <1>3, <1>4, <1>5 DEF ListInv, Hold, Types

LEMMA QueueInit ==
  ASSUME Init
  PROVE  QueueInv /\ Chain = <<>>
<1>1. Control
  BY ControlInit
<1>2. IsList(<<>>, head, next)
  BY DEF Init, IsList
<1>3. Chain = <<>>
  BY <1>2, ListIsChain
<1>4. Elements = {}
  BY <1>3 DEF Elements
<1>5. TailRight
  BY <1>3 DEF Init, TailRight
<1>6. Loose
  <2>1. t \in [Thread -> Ptr] /\ \A p \in Thread : pc[p] = "idle"
    BY DEF Init
  <2>2. \A p \in Thread : t[p] # Null => next[t[p]] = Null
    BY <2>1 DEF Init, Ptr
  <2>3. QED
    BY <1>4, <2>1, <2>2 DEF Init, Loose
<1>7. QED
  BY <1>1, <1>2, <1>3, <1>5, <1>6 DEF QueueInv, ListInv

\* An operation takes effect in one step, the others change nothing of the
\* queue that is promised.
LEMMA QueueStep ==
  ASSUME QueueInv, Next
  PROVE  QueueInv' /\ [Fifo!Next]_(Fifo!vars)
<1>1. Control'
  BY ControlNext DEF QueueInv
<1>2. PICK p \in Thread :
        \/ EnqLock(p) \/ EnqLink(p) \/ EnqTail(p) \/ Unlock(p)
        \/ Peek(p) \/ DeqLock(p) \/ DeqHead(p) \/ DeqNext(p) \/ DeqEmpty(p)
        \/ DeqLast(p)
  BY DEF Next
<1>3. CASE \/ EnqLock(p) \/ EnqTail(p) \/ Unlock(p) \/ DeqLock(p)
           \/ DeqNext(p) \/ DeqEmpty(p) \/ DeqLast(p)
  <2>1. ListInv' /\ Chain' = Chain /\ Hold' = Hold
    BY <1>3, QuietKeeps, EnqLockKeeps, EnqTailKeeps, DeqLinkKeeps, DeqEmptyKeeps
  <2>2. seen' = seen
    BY <1>3 DEF EnqLock, EnqTail, Unlock, DeqLock, DeqNext, DeqEmpty, DeqLast
  <2>3. QED
    BY <1>1, <2>1, <2>2 DEF QueueInv, Fifo!vars, Hold
<1>4. CASE Peek(p)
  <2>1. ListInv' /\ Chain' = Chain /\ Hold' = Hold
    BY <1>4, QuietKeeps
  <2>2. seen' = [seen EXCEPT ![p] = (Chain = <<>>)]
    BY <1>4, ListFacts DEF Peek
  <2>3. Fifo!Test(p)
    BY <2>1, <2>2 DEF Fifo!Test, Hold
  <2>4. QED
    BY <1>1, <2>1, <2>3 DEF QueueInv, Fifo!Next
<1>5. CASE EnqLink(p)
  <2>1. /\ ListInv' /\ Chain' = Append(Chain, t[p]) /\ Hold[p] = t[p] /\ t[p] # Null
        /\ Hold' = [Hold EXCEPT ![p] = Null] /\ seen' = seen
    BY <1>5, EnqLinkAppends DEF EnqLink
  <2>2. Fifo!Enter(p)
    BY <2>1 DEF Fifo!Enter, Hold
  <2>3. QED
    BY <1>1, <2>1, <2>2 DEF QueueInv, Fifo!Next
<1>6. CASE DeqHead(p)
  <2>1. ListInv' /\ seen' = seen
    BY <1>6, DeqHeadTakes DEF DeqHead
  <2>2. CASE Chain' = Chain /\ Hold' = Hold
    BY <1>1, <2>1, <2>2 DEF QueueInv, Fifo!vars, Hold
  <2>3. CASE /\ Chain # <<>> /\ Chain' = Tail(Chain)
             /\ Hold[p] = Null /\ Hold' = [Hold EXCEPT ![p] = Head(Chain)]
    <3>1. Fifo!Leave(p)
      BY <2>1, <2>3 DEF Fifo!Leave, Hold
    <3>2. QED
      BY <1>1, <2>1, <3>1 DEF QueueInv, Fifo!Next
  <2>4. QED
    BY <1>6, <2>2, <2>3, DeqHeadTakes
<1>7. QED
  BY <1>2, <1>3, <1>4, <1>5, <1>6

LEMMA QueueStutter ==
  ASSUME QueueInv, UNCHANGED vars
  PROVE  QueueInv' /\ UNCHANGED Fifo!vars
<1>1. Control'
  BY DEF QueueInv, Control, Types, Guarded, Hands, vars
<1>2. /\ Chain' = Chain /\ Elements' = Elements /\ Last' = Last
      /\ IsList(Chain, head, next)'
  BY ChainKept DEF vars
<1>3. TailRight' /\ Loose'
  BY <1>2 DEF QueueInv, ListInv, TailRight, Loose, vars
<1>4. QED
  BY <1>1, <1>2, <1>3 DEF QueueInv, ListInv, Fifo!vars, vars

THEOREM QueueInvariant == Spec => []QueueInv
<1>1. Init => QueueInv
  BY QueueInit
<1>2. QueueInv /\ [Next]_vars => QueueInv'
  BY QueueStep, QueueStutter
<1>3. QED
  BY <1>1, <1>2, PTL DEF Spec

(***************************************************************************)
(* No step of enqueue or dequeue follows a NULL pointer, for any number of *)
(* threads and tasks.                                                      *)
(***************************************************************************)
THEOREM PointersCorrect == Spec => []TypeOK
<1>1. QueueInv => TypeOK
  <2>1. ASSUME QueueInv, NEW p \in Thread, pc[p] = "link", head # Null
        PROVE  tail # Null
    <3>1. \A r \in Thread : pc[r] # "tail"
      BY <2>1, ListFacts DEF Critical
    <3>2. Chain # <<>> /\ Last \in Node
      BY <2>1, ListFacts
    <3>3. QED
      BY <2>1, <3>1, <3>2, NullApart DEF QueueInv, ListInv, TailRight
  <2>2. QED
    BY <2>1 DEF QueueInv, Control, Types, Hands, TypeOK
<1>2. QED
  BY <1>1, QueueInvariant, PTL

(***************************************************************************)
(* Whenever the mutex is free the list is as the next operation needs it,  *)
(* for any number of threads and tasks (lines 80-146).                     *)
(***************************************************************************)
THEOREM ListStaysSound == Spec => []ListSound
<1>1. ASSUME QueueInv, owner = Null PROVE
        /\ tail = IF Chain = <<>> THEN Null ELSE Chain[Len(Chain)]
        /\ Cardinality({Chain[k] : k \in DOMAIN Chain}) = Len(Chain)
        /\ \A p \in Thread, k \in DOMAIN Chain : t[p] # Chain[k]
        /\ \A p \in Thread : t[p] # Null => next[t[p]] = Null
  <2>1. \A p \in Thread : pc[p] \notin Critical
    BY <1>1, NullApart DEF QueueInv, Control, Guarded
  <2>2. tail = IF Chain = <<>> THEN Null ELSE Chain[Len(Chain)]
    BY <1>1, <2>1 DEF QueueInv, ListInv, TailRight, Last, Critical
  <2>3. Chain \in Seq(Node) /\ DOMAIN Chain = 1 .. Len(Chain) /\ Null \notin Elements
    BY <1>1, ListFacts, NullApart
  <2>4. \A k, l \in 1 .. Len(Chain) : Chain[k] = Chain[l] => k = l
    BY <1>1 DEF QueueInv, ListInv, IsList
  <2>5. Cardinality({Chain[k] : k \in 1 .. Len(Chain)}) = Len(Chain)
    BY <2>3, <2>4, ListFits, Zenon
  <2>6. \A p \in Thread : t[p] \notin Elements /\ (t[p] # Null => next[t[p]] = Null)
    BY <1>1, <2>1, <2>3 DEF QueueInv, ListInv, Loose, Critical
  <2>7. QED
    BY <2>2, <2>3, <2>5, <2>6 DEF Elements
<1>2. QueueInv => ListSound
  BY <1>1 DEF ListSound
<1>3. QED
  BY <1>2, QueueInvariant, PTL

(***************************************************************************)
(* The linked list implements the atomic queue, for any number of threads  *)
(* and tasks, with the test for emptiness outside the mutex included.      *)
(***************************************************************************)
THEOREM ListIsFifo == Spec => FifoSpec
<1>1. Init => Fifo!Init
  <2>1. ASSUME Init PROVE Fifo!Init
    <3>1. Chain = <<>>
      BY <2>1, QueueInit
    <3>2. Hold = t
      BY <2>1 DEF Init, Hold
    <3>3. QED
      BY <2>1, <3>1, <3>2 DEF Init, Fifo!Init, Hold, Ptr
  <2>2. QED
    BY <2>1
<1>2. QueueInv /\ [Next]_vars => [Fifo!Next]_(Fifo!vars)
  BY QueueStep, QueueStutter
<1>3. QED
  BY <1>1, <1>2, QueueInvariant, PTL DEF Spec, FifoSpec, Fifo!Spec
=============================================================================
