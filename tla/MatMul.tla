------------------------------- MODULE MatMul -------------------------------
(***************************************************************************)
(* The parallel matrix product, matrix_multiply_omp.c and, with collapse,  *)
(* matrix_multiply_omp_collapse.c.  In each round the threads of a region  *)
(* share the iterations of initialize_matrices, wait for each other at the *)
(* end of that loop, share those of matrix_multiply and wait again.        *)
(***************************************************************************)
EXTENDS Integers, Sequences, FiniteSetsExt

CONSTANTS
  n,
  Teams       \* the number of threads of each round

V      == 0 .. n - 1
Cell   == V \X V
Thread == 0 .. Teams[Len(Teams)] - 1   \* the last round has the most

VARIABLES
  collapse, \* whether all iterations are shared, or those of the outer loop
  round,
  A, B, C,
  phase,   \* of each thread: 1 initialises, 2 multiplies, 3 is done
  pos,     \* its next iteration, of all loops together
  regs     \* the C[i][j] it has loaded, if any

vars == <<collapse, round, A, B, C, phase, pos, regs>>

Size(f) == IF f = 1 THEN n * n ELSE n * n * n

\* schedule(static): the first iterations % team threads have one more.
Boundary(iterations, team, t) ==
  t * (iterations \div team) + Min({t, iterations % team})

\* The first iteration of thread t of a team, and the end of thread t - 1.
Start(team, f, t) ==
  LET shared == IF collapse THEN Size(f) ELSE n
  IN  Boundary(shared, team, t) * (Size(f) \div shared)

First(f, t) == Start(Teams[round], f, t)
Begin(team) == [t \in Thread |-> IF t < team THEN Start(team, 1, t) ELSE 0]
Working(t)  == t < Teams[round]
InLoop(t)   == Working(t) /\ phase[t] # 3 /\ pos[t] < First(phase[t], t + 1)

Init ==
  /\ collapse \in BOOLEAN
  /\ round = 1
  /\ A = [c \in Cell |-> 0] /\ B = [c \in Cell |-> 0] /\ C = [c \in Cell |-> 0]
  /\ phase = [t \in Thread |-> 1]
  /\ pos = Begin(Teams[1])
  /\ regs = [t \in Thread |-> {}]

InitCell(t) ==
  /\ InLoop(t) /\ phase[t] = 1
  /\ LET c == <<pos[t] \div n, pos[t] % n>>
     IN  /\ A' = [A EXCEPT ![c] = 1]
         /\ B' = [B EXCEPT ![c] = 2]
         /\ C' = [C EXCEPT ![c] = 0]
  /\ pos' = [pos EXCEPT ![t] = @ + 1]
  /\ UNCHANGED <<collapse, round, phase, regs>>

I(t) == pos[t] \div (n * n)
J(t) == (pos[t] \div n) % n
K(t) == pos[t] % n

\* C[i][j] += ...: a load and a store.
Load(t) ==
  /\ InLoop(t) /\ phase[t] = 2 /\ regs[t] = {}
  /\ regs' = [regs EXCEPT ![t] = {C[I(t), J(t)]}]
  /\ UNCHANGED <<collapse, round, A, B, C, phase, pos>>

Store(t) ==
  /\ phase[t] = 2
  /\ \E c \in regs[t] :
       C' = [C EXCEPT ![<<I(t), J(t)>>] = c + A[I(t), K(t)] * B[K(t), J(t)]]
  /\ regs' = [regs EXCEPT ![t] = {}]
  /\ pos' = [pos EXCEPT ![t] = @ + 1]
  /\ UNCHANGED <<collapse, round, A, B, phase>>

\* Mutant: no barrier after the loops (nowait).
ArrivedAlone(f, u) == TRUE

\* Thread u has done its share of the loop.
Arrived(f, u) == phase[u] > f \/ (phase[u] = f /\ ~ InLoop(u))

\* The barrier at the end of a loop.
Leave(t) ==
  /\ Working(t) /\ phase[t] # 3 /\ ~ InLoop(t)
  /\ \A u \in Thread : Working(u) => Arrived(phase[t], u)
  /\ phase' = [phase EXCEPT ![t] = @ + 1]
  /\ pos' = [pos EXCEPT ![t] = IF phase[t] = 1 THEN First(2, t) ELSE @]
  /\ UNCHANGED <<collapse, round, A, B, C, regs>>

RoundDone == \A t \in Thread : Working(t) => phase[t] = 3

NextRound ==
  /\ RoundDone /\ round < Len(Teams)
  /\ round' = round + 1
  /\ phase' = [t \in Thread |-> 1]
  /\ pos' = Begin(Teams[round + 1])
  /\ UNCHANGED <<collapse, A, B, C, regs>>

Ended == RoundDone /\ round = Len(Teams)

Step == (\E t \in Thread : InitCell(t) \/ Load(t) \/ Store(t) \/ Leave(t)) \/ NextRound
Over == Ended /\ UNCHANGED vars

Spec == Init /\ [][Step \/ Over]_vars

-----------------------------------------------------------------------------
TypeOK ==
  /\ collapse \in BOOLEAN
  /\ round \in 1 .. Len(Teams)
  /\ A \in [Cell -> {0, 1}] /\ B \in [Cell -> {0, 2}] /\ C \in [Cell -> 0 .. 2 * n]
  /\ phase \in [Thread -> 1 .. 3]
  /\ pos \in [Thread -> 0 .. n * n * n]
  /\ \A t \in Thread : regs[t] \subseteq 0 .. 2 * n /\ Cardinality(regs[t]) <= 1

\* The elements whose sum two threads share.
Shared == {<<b \div (n * n), (b \div n) % n>> :
             b \in {b \in {First(2, t) : t \in 1 .. Teams[round] - 1} : b % n # 0}}

(***************************************************************************)
(* At the end of a round every element is the product of its row and its   *)
(* column, whatever the last round left, except one that two threads share *)
(* (which happens with collapse only, and never with the 100 x 100         *)
(* elements and 2, 4, 8 or 16 threads of the code): of that some additions *)
(* may be lost, never all.                                                 *)
(***************************************************************************)
ProductRight ==
  RoundDone => \A c \in Cell :
    IF c \in Shared THEN C[c] \in {2 * m : m \in 1 .. n} ELSE C[c] = 2 * n
=============================================================================
