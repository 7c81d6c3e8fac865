--------------------------- MODULE FloydWarshall ----------------------------
(***************************************************************************)
(* All-pairs shortest paths: floyd_warshall_omp_dynamic.c,                 *)
(* floyd_warshall_omp_static.c and reference.c.                            *)
(*                                                                         *)
(* The first calls floyd in a parallel region.  The parallel loop inside   *)
(* floyd is nested in it, nested parallelism is off by default, so its     *)
(* team is the thread that meets it: every thread of the region runs the   *)
(* whole algorithm, all on the same matrix and without synchronisation.    *)
(* The loop of the two others is not parallel.                             *)
(*                                                                         *)
(* A step of a thread is one load or store of an element.                  *)
(***************************************************************************)
EXTENDS Integers, Sequences

CONSTANTS
  n,
  Weight,     \* the matrix the program starts with
  Dist,       \* the distances it should end with
  Teams,      \* the number of threads of each round
  Wrap(_)     \* what an int keeps of a number

V == 0 .. n - 1
Thread == 1 .. Teams[Len(Teams)]   \* the last round has the most

VARIABLES
  round,
  A,
  pos,    \* the iteration each thread is at, of all three loops
  regs    \* what it has loaded in this iteration

vars == <<round, A, pos, regs>>

Init ==
  /\ round = 1
  /\ A = Weight
  /\ pos = [t \in Thread |-> 0]
  /\ regs = [t \in Thread |-> <<>>]

Iteration == 0 .. n * n * n - 1

\* Mutant: the intermediate vertex in the innermost loop.
PlaceInner(p) == [i |-> p \div (n * n), j |-> (p \div n) % n, k |-> p % n]

Place(p) == [k |-> p \div (n * n), i |-> (p \div n) % n, j |-> p % n]

\* Mutant: the second edge is taken against its direction.
LoadsBack == [p \in Iteration |->
  LET at == Place(p)
      ik == <<at.i, at.k>>
      kj == <<at.j, at.k>>
  IN  <<<<at.i, at.j>>, ik, kj, ik, kj>>]

\* The elements an iteration reads: A[i][j] > A[i][k] + A[k][j], then the sum.
Loads == [p \in Iteration |->
  LET at == Place(p)
      ik == <<at.i, at.k>>
      kj == <<at.k, at.j>>
  IN  <<<<at.i, at.j>>, ik, kj, ik, kj>>]

Running(t) == t <= Teams[round] /\ pos[t] \in Iteration

\* After the three loads of the test it is over if the sum is not smaller.
Load(t) ==
  /\ Running(t) /\ Len(regs[t]) < 5
  /\ LET r == Append(regs[t], A[Loads[pos[t]][Len(regs[t]) + 1]])
         over == Len(r) = 3 /\ r[1] <= Wrap(r[2] + r[3])
     IN  /\ regs' = [regs EXCEPT ![t] = IF over THEN <<>> ELSE r]
         /\ pos' = [pos EXCEPT ![t] = IF over THEN @ + 1 ELSE @]
  /\ UNCHANGED <<round, A>>

Store(t) ==
  /\ Running(t) /\ Len(regs[t]) = 5
  /\ A' = [A EXCEPT ![Loads[pos[t]][1]] = Wrap(regs[t][4] + regs[t][5])]
  /\ pos' = [pos EXCEPT ![t] = @ + 1]
  /\ regs' = [regs EXCEPT ![t] = <<>>]
  /\ UNCHANGED round

\* The region ends when all its threads have; the matrix is printed.
RoundDone == \A t \in Thread : ~ Running(t)

NextRound ==
  /\ RoundDone /\ round < Len(Teams)
  /\ round' = round + 1
  /\ pos' = [t \in Thread |-> 0]
  /\ UNCHANGED <<A, regs>>

Ended == RoundDone /\ round = Len(Teams)

Step == (\E t \in Thread : Load(t) \/ Store(t)) \/ NextRound
Over == Ended /\ UNCHANGED vars

Spec == Init /\ [][Step \/ Over]_vars

-----------------------------------------------------------------------------
\* Like distances: at most the weights, and no detour is shorter.
Metric(D) ==
  /\ D \in [V \X V -> Int]
  /\ \A e \in V \X V : D[e] <= Weight[e]
  /\ \A i, j, k \in V : D[<<i, j>>] <= D[<<i, k>>] + D[<<k, j>>]

\* No sum of two entries overflows an int.
Fits == \A e, f \in V \X V : Wrap(Weight[e] + Weight[f]) = Weight[e] + Weight[f]

TypeOK ==
  /\ round \in 1 .. Len(Teams)
  /\ A \in [V \X V -> Int]
  /\ pos \in [Thread -> 0 .. n * n * n]
  /\ regs \in [Thread -> Seq(Int)]
  /\ \A t \in Thread : Len(regs[t]) <= 5 /\ (regs[t] # <<>> => Running(t))

(***************************************************************************)
(* However the threads get in each other's way, no entry is ever smaller   *)
(* than the distance: each is the length of a walk.                        *)
(***************************************************************************)
NeverBelow == (\A e \in V \X V : A[e] >= Dist[e]) \/ ~ Fits

(***************************************************************************)
(* A matrix of distances is final: no round that begins with one changes   *)
(* it, not even for a moment (lines 58-66).                                *)
(***************************************************************************)
Settled == A = Weight \/ ~ Metric(Weight) \/ ~ Fits

(***************************************************************************)
(* One thread alone computes the distances if every sum fits into an int   *)
(* (lines 6-22).                                                           *)
(***************************************************************************)
ExactAlone == Ended /\ Thread = {1} /\ Fits => A = Dist

(***************************************************************************)
(* When a round ends the matrix holds the distances (README.md:187).       *)
(***************************************************************************)
ShortestPaths == RoundDone => A = Dist
=============================================================================
