----------------------------- MODULE SpmdProofs -----------------------------
(***************************************************************************)
(* What is true of the memories of the processes can be told call by call, *)
(* as for one process, for any number of processes and of calls, whatever  *)
(* they give, take and compute.                                            *)
(***************************************************************************)
EXTENDS Spmd, TLAPS

CONSTANTS
  Ready(_, _, _, _), \* true of a memory before a call: call, rank, data, memory
  Gave(_, _, _, _)   \* true of what is given for it: call, rank, data, what

GivenOK == given \in [1 .. Stages -> {given[k] : k \in 1 .. Stages}]

Types == StageOK /\ GivenOK

\* Who must have entered a call before process p returns from it.
Enough(k, p, E) ==
  CASE Kind(k) = "scatter" -> 0 \in E
    [] Kind(k) = "gather"  -> p # 0 \/ E = Rank
    [] OTHER               -> E = Rank

\* Each call, made by one process after what was true before it, gives what it
\* should and leaves what is true after it.
Annotated ==
  /\ \A p \in Rank, d \in Input : Ready(1, p, d, <<>>)
  /\ \A k \in 1 .. Stages, p \in Rank, d \in Input : \A m :
       Ready(k, p, d, m) => Gave(k, p, d, Give(k, p, d, m))
  /\ \A k \in 1 .. Stages, p \in Rank, d \in Input : \A m, g :
       /\ Ready(k, p, d, m)
       /\ DOMAIN g \subseteq Rank /\ Enough(k, p, DOMAIN g)
       /\ \A q \in DOMAIN g : Gave(k, q, d, g[q])
       => \A after \in Take(k, p, m, g) : Ready(k + 1, p, d, after)

\* What is true of the memories and of what was given.
DataOK ==
  /\ input \in Input
  /\ mem = [p \in Rank |-> mem[p]]
  /\ \A k \in 1 .. Stages :
       /\ DOMAIN given[k] \subseteq Rank
       /\ \A q \in DOMAIN given[k] : Gave(k, q, input, given[k][q])
  /\ \A p \in Rank : Ready(stage[p], p, input, mem[p])

LEMMA InitTypes ==
  ASSUME Stages \in Nat, Init
  PROVE  Types
<1>1. StageOK
  <2>1. stage \in [Rank -> 1 .. Stages + 1]
    BY DEF Init
  <2>2. inside = [p \in Rank |-> FALSE] /\ aborted \in BOOLEAN
    BY DEF Init
  <2>3. inside \in [Rank -> BOOLEAN] /\ \A p \in Rank : ~ inside[p]
    BY <2>2
  <2> QED BY <2>1, <2>2, <2>3 DEF StageOK
<1>2. GivenOK
  BY DEF Init, GivenOK
<1> QED BY <1>1, <1>2 DEF Types

LEMMA InitData ==
  ASSUME Stages \in Nat, Annotated, Init
  PROVE  DataOK
<1>1. input \in Input /\ mem = [p \in Rank |-> <<>>] /\ stage = [p \in Rank |-> 1]
      /\ given = [k \in 1 .. Stages |-> <<>>]
  BY DEF Init
<1>2. DOMAIN <<>> = {}
  OBVIOUS
<1>3. \A p \in Rank : Ready(1, p, input, <<>>)
  BY <1>1 DEF Annotated
<1> QED BY <1>1, <1>2, <1>3 DEF DataOK

LEMMA EnterTypes ==
  ASSUME Stages \in Nat, Types, NEW p \in Rank, Enter(p)
  PROVE  Types'
<1>1. /\ stage \in [Rank -> 1 .. Stages + 1] /\ inside \in [Rank -> BOOLEAN]
      /\ stage[p] \in 1 .. Stages /\ DOMAIN given = 1 .. Stages
  BY DEF Types, StageOK, GivenOK, Enter
<1>2. stage' = stage /\ inside' = [inside EXCEPT ![p] = TRUE] /\ aborted' = aborted
  BY DEF Enter
<1>3. StageOK'
  BY <1>1, <1>2 DEF Types, StageOK, Done
<1>4. GivenOK'
  BY <1>1 DEF Enter, GivenOK
<1> QED BY <1>3, <1>4 DEF Types

LEMMA ReturnTypes ==
  ASSUME Stages \in Nat, Types, NEW p \in Rank, Return(p)
  PROVE  Types'
<1>1. /\ stage \in [Rank -> 1 .. Stages + 1] /\ inside \in [Rank -> BOOLEAN]
      /\ stage[p] \in 1 .. Stages
  BY DEF Types, StageOK, Return, Done
<1>2. /\ stage' = [stage EXCEPT ![p] = stage[p] + 1]
      /\ inside' = [inside EXCEPT ![p] = FALSE]
      /\ given' = given /\ aborted' \in BOOLEAN
  BY DEF Return
<1>3. /\ stage' \in [Rank -> 1 .. Stages + 1]
      /\ inside' \in [Rank -> BOOLEAN]
      /\ \A q \in Rank : inside'[q] => ~ (stage'[q] > Stages)
  BY <1>1, <1>2 DEF Types, StageOK, Done
<1>4. StageOK' /\ GivenOK'
  BY <1>2, <1>3 DEF Types, StageOK, GivenOK, Done
<1> QED BY <1>4 DEF Types

LEMMA EnterData ==
  ASSUME Stages \in Nat, Annotated, Types, DataOK, NEW p \in Rank, Enter(p)
  PROVE  DataOK'
<1> DEFINE s == stage[p]
           x == Give(s, p, input, mem[p])
<1>1. s \in 1 .. Stages /\ DOMAIN given = 1 .. Stages
  BY DEF Types, StageOK, GivenOK, Enter
<1>2. /\ input' = input /\ stage' = stage /\ mem' = mem
      /\ given' = [given EXCEPT ![s] =
                    [q \in Entered(s) \cup {p} |-> IF q = p THEN x ELSE given[s][q]]]
  BY DEF Enter
<1>3. Gave(s, p, input, x)
  BY <1>1 DEF Annotated, DataOK
<1> HIDE DEF s, x
<1>4. ASSUME NEW k \in 1 .. Stages
      PROVE  /\ DOMAIN given'[k] \subseteq Rank
             /\ \A q \in DOMAIN given'[k] : Gave(k, q, input', given'[k][q])
  <2>1. CASE k = s
    <3>1. given'[k] = [q \in Entered(s) \cup {p} |-> IF q = p THEN x ELSE given[s][q]]
      BY <1>1, <1>2, <2>1
    <3>2. Entered(s) \subseteq Rank /\ Entered(s) \subseteq DOMAIN given[s]
      BY DEF Entered
    <3>3. ASSUME NEW q \in DOMAIN given'[k] PROVE Gave(k, q, input', given'[k][q])
      <4>1. CASE q = p
        BY <1>2, <1>3, <2>1, <3>1, <4>1
      <4>2. CASE q # p
        BY <1>1, <1>2, <2>1, <3>1, <3>2, <4>2 DEF DataOK
      <4> QED BY <4>1, <4>2
    <3> QED BY <3>1, <3>2, <3>3
  <2>2. CASE k # s
    BY <1>1, <1>2, <2>2 DEF DataOK
  <2> QED BY <2>1, <2>2
<1> QED BY <1>2, <1>4 DEF DataOK

LEMMA ReturnData ==
  ASSUME Stages \in Nat, Annotated, Types, DataOK, NEW p \in Rank, Return(p)
  PROVE  DataOK'
<1> DEFINE s == stage[p]
           g == given[s]
<1>1. s \in 1 .. Stages /\ stage \in [Rank -> 1 .. Stages + 1]
  BY DEF Types, StageOK, Return, Done
<1>2. /\ input' = input /\ given' = given
      /\ stage' = [stage EXCEPT ![p] = s + 1]
      /\ Completes(s, p)
  BY DEF Return
<1>3. PICK after \in Take(s, p, mem[p], g) : mem' = [mem EXCEPT ![p] = after]
  BY DEF Return
<1>4. /\ DOMAIN g \subseteq Rank /\ \A q \in DOMAIN g : Gave(s, q, input, g[q])
      /\ Ready(s, p, input, mem[p]) /\ input \in Input
  BY <1>1 DEF DataOK
<1>5. Entered(s) = DOMAIN g
  BY <1>4 DEF Entered
<1> HIDE DEF g
<1>6. Enough(s, p, DOMAIN g)
  BY <1>2, <1>5 DEF Enough, Completes
<1> HIDE DEF s
<1>7. Ready(s + 1, p, input, after)
  BY <1>1, <1>3, <1>4, <1>6 DEF Annotated
<1>8. /\ stage'[p] = s + 1 /\ mem'[p] = after
      /\ mem' = [q \in Rank |-> mem'[q]]
      /\ \A q \in Rank : q # p => stage'[q] = stage[q] /\ mem'[q] = mem[q]
  <2>1. mem = [q \in Rank |-> mem[q]]
    BY DEF DataOK
  <2> QED BY <1>1, <1>2, <1>3, <2>1
<1>9. ASSUME NEW q \in Rank PROVE Ready(stage'[q], q, input', mem'[q])
  <2>1. CASE q = p
    BY <1>2, <1>7, <1>8, <2>1
  <2>2. CASE q # p
    BY <1>2, <1>8, <2>2 DEF DataOK
  <2> QED BY <2>1, <2>2
<1> QED BY <1>2, <1>8, <1>9 DEF DataOK

LEMMA StepData ==
  ASSUME Stages \in Nat, Annotated, Types, DataOK, [Step \/ Over]_spmd
  PROVE  Types' /\ DataOK'
<1>1. ASSUME NEW p \in Rank, Enter(p) PROVE Types' /\ DataOK'
  BY <1>1, EnterTypes, EnterData
<1>2. ASSUME NEW p \in Rank, Return(p) PROVE Types' /\ DataOK'
  BY <1>2, ReturnTypes, ReturnData
<1>3. CASE UNCHANGED spmd
  BY <1>3 DEF spmd, Types, StageOK, GivenOK, Done, DataOK
<1> QED BY <1>1, <1>2, <1>3 DEF Step, Over

(***************************************************************************)
(* Whatever the processes' relative speed, the memory of each is what the  *)
(* annotation of its next call says, if each call taken by itself keeps to *)
(* the annotation.                                                         *)
(***************************************************************************)
THEOREM DataKept ==
  ASSUME Stages \in Nat, Annotated
  PROVE  Spec => []DataOK
<1>1. Init => Types /\ DataOK
  BY InitTypes, InitData
<1>2. Types /\ DataOK /\ [Step \/ Over]_spmd => Types' /\ DataOK'
  BY StepData
<1> QED BY <1>1, <1>2, PTL DEF Spec
=============================================================================
