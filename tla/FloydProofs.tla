---------------------------- MODULE FloydProofs -----------------------------
(***************************************************************************)
(* What racing threads cannot do to the matrix of FloydWarshall, and that  *)
(* one thread ends with the distances, for any graph, any number of rounds *)
(* and of threads, and ints that are wide enough.                          *)
(*                                                                         *)
(* The first argument is that every value in the matrix or in a register   *)
(* is at least the distance of its two vertices: a store writes the sum of *)
(* two registers, and no detour is shorter than the distance.              *)
(***************************************************************************)
EXTENDS FloydWarshall, TLAPS

Graph ==
  /\ n \in Nat
  /\ Weight \in [V \X V -> Int]
  /\ Metric(Dist)
  /\ \A x \in Int : Wrap(x) = x

(***************************************************************************)
(* An iteration of the three loops is about three vertices.                *)
(***************************************************************************)
LEMMA PlaceInRange ==
  ASSUME n \in Nat, NEW p \in Iteration
  PROVE  Place(p) \in [k : V, i : V, j : V]
<1> DEFINE m == n * n
<1>0. p \in Nat /\ p < n * n * n
  BY DEF Iteration
<1>1. n > 0
  <2>1. CASE n = 0
    BY <1>0, <2>1
  <2> QED BY <2>1
<1>2. m \in Nat /\ m > 0
  BY <1>1
<1>3. p \div m \in Nat /\ p < n * m
  BY <1>0, <1>2
<1>4. (p \div m) * m <= p
  BY <1>0, <1>2
<1>5. p \div m < n
  <2>1. SUFFICES ASSUME p \div m >= n PROVE FALSE
    BY <1>3
  <2>2. (p \div m) * m >= n * m
    BY <2>1, <1>2, <1>3
  <2> QED BY <2>2, <1>0, <1>2, <1>3, <1>4
<1>6. \A x \in Nat : x % n \in V
  BY <1>1 DEF V
<1>7. p \div n \in Nat
  BY <1>0, <1>1
<1> QED BY <1>0, <1>3, <1>5, <1>6, <1>7 DEF Place, V

(***************************************************************************)
(* What an iteration reads: the element, then twice the two that make up   *)
(* the detour, which is no shorter than the distance of the first.         *)
(***************************************************************************)
LEMMA LoadsInRange ==
  ASSUME n \in Nat, NEW p \in Iteration
  PROVE  \A m \in 1 .. 5 : Loads[p][m] \in V \X V
<1>1. /\ Place(p).i \in V
      /\ Place(p).j \in V
      /\ Place(p).k \in V
  BY PlaceInRange
<1>2. /\ Loads[p][1] = <<Place(p).i, Place(p).j>>
      /\ Loads[p][2] = <<Place(p).i, Place(p).k>>
      /\ Loads[p][3] = <<Place(p).k, Place(p).j>>
      /\ Loads[p][4] = <<Place(p).i, Place(p).k>>
      /\ Loads[p][5] = <<Place(p).k, Place(p).j>>
  BY DEF Loads
<1> QED BY <1>1, <1>2

LEMMA DetourNotShorter ==
  ASSUME Graph, NEW p \in Iteration
  PROVE  /\ \A m \in 1 .. 5 : Loads[p][m] \in V \X V
         /\ Dist[Loads[p][1]] <= Dist[Loads[p][4]] + Dist[Loads[p][5]]
<1>1. /\ Place(p).i \in V
      /\ Place(p).j \in V
      /\ Place(p).k \in V
  BY PlaceInRange DEF Graph
<1>2. /\ Loads[p][1] = <<Place(p).i, Place(p).j>>
      /\ Loads[p][4] = <<Place(p).i, Place(p).k>>
      /\ Loads[p][5] = <<Place(p).k, Place(p).j>>
  BY DEF Loads
<1>3. \A m \in 1 .. 5 : Loads[p][m] \in V \X V
  BY LoadsInRange DEF Graph
<1> QED
  BY <1>1, <1>2, <1>3 DEF Graph, Metric

(***************************************************************************)
(* The types, for any int: whatever it keeps of a sum is a number.         *)
(***************************************************************************)
Rounds == Teams \in Seq(Nat \ {0}) /\ Teams # <<>>

Words ==
  /\ n \in Nat
  /\ Weight \in [V \X V -> Int]
  /\ \A x \in Int : Wrap(x) \in Int

LEMMA InitTypes ==
  ASSUME Words, Rounds, Init
  PROVE  TypeOK
<1>1. n * n * n \in Nat /\ Len(<<>>) = 0
  BY DEF Words
<1>2. Len(Teams) \in Nat /\ Len(Teams) >= 1
  BY DEF Rounds
<1> QED BY <1>1, <1>2 DEF Init, TypeOK, Words

\* What a step leaves of one thread, the others staying as they are.
LEMMA ThreadTypes ==
  ASSUME TypeOK, NEW t \in Thread, NEW p \in 0 .. n * n * n, NEW r \in Seq(Int),
         Len(r) <= 5, r # <<>> => t <= Teams[round] /\ p \in Iteration,
         round' = round, A' \in [V \X V -> Int],
         pos' = [pos EXCEPT ![t] = p], regs' = [regs EXCEPT ![t] = r]
  PROVE  TypeOK'
<1>1. \A u \in Thread : u = t \/ (regs'[u] = regs[u] /\ pos'[u] = pos[u])
  BY DEF TypeOK
<1>2. regs'[t] = r /\ pos'[t] = p
  BY DEF TypeOK
<1>3. ASSUME NEW u \in Thread
      PROVE  Len(regs'[u]) <= 5 /\ (regs'[u] # <<>> => Running(u)')
  <2>1. CASE u = t
    BY <2>1, <1>2 DEF Running
  <2>2. CASE u # t
    <3>1. regs'[u] = regs[u] /\ pos'[u] = pos[u]
      BY <2>2, <1>1
    <3>2. Len(regs[u]) <= 5 /\ (regs[u] # <<>> => Running(u))
      BY DEF TypeOK
    <3> QED BY <3>1, <3>2 DEF Running
  <2> QED BY <2>1, <2>2
<1>4. pos' \in [Thread -> 0 .. n * n * n] /\ regs' \in [Thread -> Seq(Int)]
  BY DEF TypeOK
<1> QED BY <1>3, <1>4 DEF TypeOK

LEMMA LoadTypes ==
  ASSUME Words, TypeOK, NEW t \in Thread, Load(t)
  PROVE  TypeOK'
<1> DEFINE l == Len(regs[t]) + 1
<1> DEFINE x == A[Loads[pos[t]][l]]
<1> DEFINE r == Append(regs[t], x)
<1> DEFINE over == Len(r) = 3 /\ r[1] <= Wrap(r[2] + r[3])
<1>0. pos[t] \in Iteration /\ t <= Teams[round] /\ Len(regs[t]) < 5
  BY DEF Load, Running
<1>1. regs[t] \in Seq(Int) /\ l \in 1 .. 5
  <2>1. regs[t] \in Seq(Int)
    BY DEF TypeOK
  <2>2. Len(regs[t]) \in Nat
    BY <2>1
  <2> QED BY <1>0, <2>1, <2>2
<1>2. Loads[pos[t]][l] \in V \X V
  <2> HIDE DEF l
  <2> QED BY <1>0, <1>1, LoadsInRange DEF Words
<1>3. x \in Int
  BY <1>2 DEF TypeOK
<1>4. /\ regs' = [regs EXCEPT ![t] = IF over THEN <<>> ELSE r]
      /\ pos' = [pos EXCEPT ![t] = IF over THEN pos[t] + 1 ELSE pos[t]]
      /\ A' = A /\ round' = round
  BY DEF Load
<1> HIDE DEF x
<1>5. r \in Seq(Int) /\ Len(r) = l
  BY <1>1, <1>3
<1>6. pos[t] \in 0 .. n * n * n /\ pos[t] + 1 \in 0 .. n * n * n
  <2>1. n * n * n \in Nat
    BY DEF Words
  <2> QED BY <1>0, <2>1 DEF Iteration
<1>7. A' \in [V \X V -> Int]
  BY <1>4 DEF TypeOK
<1> HIDE DEF over, r, l
<1>8. CASE over
  <2>1. regs' = [regs EXCEPT ![t] = <<>>] /\ pos' = [pos EXCEPT ![t] = pos[t] + 1]
    BY <1>4, <1>8
  <2>2. <<>> \in Seq(Int) /\ Len(<<>>) <= 5
    OBVIOUS
  <2> QED BY <2>1, <2>2, <1>4, <1>6, <1>7, ThreadTypes
<1>9. CASE ~ over
  <2>1. regs' = [regs EXCEPT ![t] = r] /\ pos' = [pos EXCEPT ![t] = pos[t]]
    BY <1>4, <1>9
  <2>2. Len(r) <= 5
    BY <1>1, <1>5
  <2> QED BY <2>1, <2>2, <1>0, <1>4, <1>5, <1>6, <1>7, ThreadTypes
<1> QED BY <1>8, <1>9

LEMMA StoreTypes ==
  ASSUME Words, TypeOK, NEW t \in Thread, Store(t)
  PROVE  TypeOK'
<1>1. pos[t] \in Iteration /\ regs[t] \in Seq(Int) /\ Len(regs[t]) = 5
  BY DEF TypeOK, Store, Running
<1>2. Loads[pos[t]][1] \in V \X V
  <2>1. 1 \in 1 .. 5
    OBVIOUS
  <2> QED BY <1>1, <2>1, LoadsInRange DEF Words
<1>3. Wrap(regs[t][4] + regs[t][5]) \in Int
  <2>1. regs[t][4] + regs[t][5] \in Int
    BY <1>1
  <2> QED BY <2>1 DEF Words
<1>4. A' \in [V \X V -> Int]
  BY <1>2, <1>3 DEF TypeOK, Store
<1>5. pos[t] + 1 \in 0 .. n * n * n
  <2>1. n * n * n \in Nat
    BY DEF Words
  <2> QED BY <1>1, <2>1 DEF Iteration
<1>6. <<>> \in Seq(Int) /\ Len(<<>>) <= 5
  OBVIOUS
<1>7. /\ regs' = [regs EXCEPT ![t] = <<>>] /\ pos' = [pos EXCEPT ![t] = pos[t] + 1]
      /\ round' = round
  BY DEF Store
<1> QED BY <1>4, <1>5, <1>6, <1>7, ThreadTypes

LEMMA StepTypes ==
  ASSUME Words, Rounds, TypeOK, [Step \/ Over]_vars
  PROVE  TypeOK'
<1>1. ASSUME NEW t \in Thread, Load(t) PROVE TypeOK'
  BY <1>1, LoadTypes
<1>2. ASSUME NEW t \in Thread, Store(t) PROVE TypeOK'
  BY <1>2, StoreTypes
<1>3. CASE NextRound
  <2>1. \A t \in Thread : regs[t] = <<>>
    BY <1>3 DEF NextRound, RoundDone, TypeOK
  <2>2. Len(Teams) \in Nat
    BY DEF Rounds
  <2>3. round' \in 1 .. Len(Teams)
    BY <1>3, <2>2 DEF NextRound, TypeOK
  <2>4. n * n * n \in Nat
    BY DEF Words
  <2> QED BY <1>3, <2>1, <2>3, <2>4 DEF NextRound, TypeOK
<1>4. CASE UNCHANGED vars
  BY <1>4 DEF vars, TypeOK, Running
<1> QED BY <1>1, <1>2, <1>3, <1>4 DEF Step, Over

-----------------------------------------------------------------------------
(***************************************************************************)
(* The invariant.                                                          *)
(***************************************************************************)
MatrixBounded ==
  /\ A \in [V \X V -> Int]
  /\ \A e \in V \X V : Dist[e] <= A[e]

Position == pos \in [Thread -> Nat]

RegistersBounded ==
  /\ regs \in [Thread -> Seq(Int)]
  /\ \A t \in Thread :
       /\ regs[t] # <<>> => t <= Teams[round] /\ pos[t] \in Iteration
       /\ Len(regs[t]) <= 5
       /\ \A m \in 1 .. Len(regs[t]) : Dist[Loads[pos[t]][m]] <= regs[t][m]

Bounded == MatrixBounded /\ Position /\ RegistersBounded

LEMMA InitBounded ==
  ASSUME Graph, Init
  PROVE  Bounded
  BY DEF Graph, Metric, Init, Bounded, MatrixBounded, Position, RegistersBounded

\* What the invariant says of one thread.
LEMMA ThreadBounded ==
  ASSUME Bounded, NEW t \in Thread
  PROVE  /\ regs[t] \in Seq(Int)
         /\ Len(regs[t]) \in Nat /\ Len(regs[t]) <= 5
         /\ \A m \in 1 .. Len(regs[t]) : Dist[Loads[pos[t]][m]] <= regs[t][m]
<1>1. /\ regs[t] \in Seq(Int)
      /\ Len(regs[t]) <= 5
      /\ \A m \in 1 .. Len(regs[t]) : Dist[Loads[pos[t]][m]] <= regs[t][m]
  BY DEF Bounded, RegistersBounded
<1>2. Len(regs[t]) \in Nat
  BY <1>1
<1> QED BY <1>1, <1>2

\* If one thread is changed only that one is to be looked at.
LEMMA OtherThreads ==
  ASSUME Bounded, NEW t \in Thread, round' = round,
         regs' \in [Thread -> Seq(Int)], pos' \in [Thread -> Nat],
         \A u \in Thread \ {t} : regs'[u] = regs[u] /\ pos'[u] = pos[u],
         regs'[t] # <<>> => t <= Teams[round] /\ pos'[t] \in Iteration,
         Len(regs'[t]) <= 5,
         \A m \in 1 .. Len(regs'[t]) : Dist[Loads[pos'[t]][m]] <= regs'[t][m]
  PROVE  Position' /\ RegistersBounded'
<1>1. ASSUME NEW u \in Thread
      PROVE  /\ regs'[u] # <<>> => u <= Teams[round'] /\ pos'[u] \in Iteration
             /\ Len(regs'[u]) <= 5
             /\ \A m \in 1 .. Len(regs'[u]) : Dist[Loads[pos'[u]][m]] <= regs'[u][m]
  <2>1. CASE u = t
    BY <2>1
  <2>2. CASE u # t
    <3>1. regs'[u] = regs[u] /\ pos'[u] = pos[u]
      BY <2>2
    <3>2. /\ regs[u] # <<>> => u <= Teams[round] /\ pos[u] \in Iteration
          /\ Len(regs[u]) <= 5
          /\ \A m \in 1 .. Len(regs[u]) : Dist[Loads[pos[u]][m]] <= regs[u][m]
      BY DEF Bounded, RegistersBounded
    <3> QED BY <3>1, <3>2
  <2> QED BY <2>1, <2>2
<1> QED BY <1>1 DEF Position, RegistersBounded

\* A thread that ends an iteration has nothing loaded.
LEMMA IterationEnds ==
  ASSUME Bounded, NEW t \in Thread, round' = round,
         regs' = [regs EXCEPT ![t] = <<>>], pos' = [pos EXCEPT ![t] = pos[t] + 1]
  PROVE  Position' /\ RegistersBounded'
<1>1. regs \in [Thread -> Seq(Int)] /\ pos \in [Thread -> Nat]
  BY DEF Bounded, RegistersBounded, Position
<1>2. regs' \in [Thread -> Seq(Int)] /\ pos' \in [Thread -> Nat] /\ regs'[t] = <<>>
  BY <1>1
<1>3. \A u \in Thread \ {t} : regs'[u] = regs[u] /\ pos'[u] = pos[u]
  BY <1>1
<1>4. Len(regs'[t]) = 0
  BY <1>2
<1> QED BY <1>2, <1>3, <1>4, OtherThreads

LEMMA LoadBounded ==
  ASSUME Graph, Bounded, NEW t \in Thread, Load(t)
  PROVE  Bounded'
<1> DEFINE l == Len(regs[t]) + 1
<1> DEFINE x == A[Loads[pos[t]][l]]
<1> DEFINE r == Append(regs[t], x)
<1> DEFINE over == Len(r) = 3 /\ r[1] <= Wrap(r[2] + r[3])
<1>1. pos[t] \in Iteration /\ Len(regs[t]) < 5
  BY DEF Load, Running
<1>2. /\ regs[t] \in Seq(Int)
      /\ Len(regs[t]) \in Nat /\ Len(regs[t]) <= 5
      /\ \A m \in 1 .. Len(regs[t]) : Dist[Loads[pos[t]][m]] <= regs[t][m]
  BY ThreadBounded
<1>3. l \in 1 .. 5
  BY <1>1, <1>2
<1>4. Loads[pos[t]][l] \in V \X V
  BY <1>1, <1>3, DetourNotShorter
<1>5. x \in Int /\ Dist[Loads[pos[t]][l]] <= x
  BY <1>4 DEF Bounded, MatrixBounded
<1>6. /\ regs' = [regs EXCEPT ![t] = IF over THEN <<>> ELSE r]
      /\ pos' = [pos EXCEPT ![t] = IF over THEN pos[t] + 1 ELSE pos[t]]
      /\ A' = A /\ round' = round
  BY DEF Load
<1> HIDE DEF x
<1>7. r \in Seq(Int) /\ Len(r) = l /\ r[l] = x
  BY <1>2, <1>5
<1>8. \A m \in 1 .. Len(r) : Dist[Loads[pos[t]][m]] <= r[m]
  <2>1. ASSUME NEW m \in 1 .. Len(regs[t]) PROVE Dist[Loads[pos[t]][m]] <= r[m]
    <3>1. r[m] = regs[t][m]
      BY <1>2, <1>5
    <3> QED BY <3>1, <1>2
  <2>2. \A m \in 1 .. l : m = l \/ m \in 1 .. Len(regs[t])
    BY <1>2
  <2> QED BY <2>1, <2>2, <1>5, <1>7
<1> HIDE DEF over, r, l
<1>9. MatrixBounded'
  BY <1>6 DEF Bounded, MatrixBounded
<1>10. CASE over
  <2>1. regs' = [regs EXCEPT ![t] = <<>>] /\ pos' = [pos EXCEPT ![t] = pos[t] + 1]
    BY <1>6, <1>10
  <2>2. Position' /\ RegistersBounded'
    BY <2>1, <1>6, IterationEnds
  <2> QED BY <1>9, <2>2 DEF Bounded
<1>11. CASE ~ over
  <2>1. regs' = [regs EXCEPT ![t] = r] /\ pos' = [pos EXCEPT ![t] = pos[t]]
    BY <1>6, <1>11
  <2>2. regs \in [Thread -> Seq(Int)] /\ pos \in [Thread -> Nat]
    BY DEF Bounded, RegistersBounded, Position
  <2>3. /\ regs' \in [Thread -> Seq(Int)] /\ pos' \in [Thread -> Nat]
        /\ regs'[t] = r /\ pos'[t] = pos[t]
    BY <2>1, <2>2, <1>7
  <2>4. \A u \in Thread \ {t} : regs'[u] = regs[u] /\ pos'[u] = pos[u]
    BY <2>1, <2>2
  <2>5. t <= Teams[round] /\ Len(r) <= 5
    BY <1>3, <1>7 DEF Load, Running
  <2>6. Position' /\ RegistersBounded'
    BY <2>3, <2>4, <2>5, <1>1, <1>6, <1>8, OtherThreads
  <2> QED BY <1>9, <2>6 DEF Bounded
<1> QED BY <1>10, <1>11

LEMMA StoreBounded ==
  ASSUME Graph, Bounded, NEW t \in Thread, Store(t)
  PROVE  Bounded'
<1> DEFINE e == Loads[pos[t]][1]
<1> DEFINE sum == regs[t][4] + regs[t][5]
<1>1. pos[t] \in Iteration /\ Len(regs[t]) = 5
  BY DEF Store, Running
<1>2. /\ regs[t] \in Seq(Int)
      /\ \A m \in 1 .. 5 : Dist[Loads[pos[t]][m]] <= regs[t][m]
  BY <1>1, ThreadBounded
<1>3. /\ \A m \in 1 .. 5 : Loads[pos[t]][m] \in V \X V
      /\ Dist[Loads[pos[t]][1]] <= Dist[Loads[pos[t]][4]] + Dist[Loads[pos[t]][5]]
  BY <1>1, DetourNotShorter
<1>4. regs[t][4] \in Int /\ regs[t][5] \in Int
  BY <1>1, <1>2
<1>5. \A f \in V \X V : Dist[f] \in Int
  BY DEF Graph, Metric
<1>6. e \in V \X V /\ Loads[pos[t]][4] \in V \X V /\ Loads[pos[t]][5] \in V \X V
  BY <1>3
<1>7. Dist[Loads[pos[t]][4]] <= regs[t][4] /\ Dist[Loads[pos[t]][5]] <= regs[t][5]
  BY <1>2
<1>8. sum \in Int /\ Dist[e] <= sum
  BY <1>3, <1>4, <1>5, <1>6, <1>7
<1>9. Wrap(sum) = sum
  BY <1>8 DEF Graph
<1>10. A' = [A EXCEPT ![e] = sum]
  BY <1>9 DEF Store
<1> HIDE DEF e, sum
<1>11. MatrixBounded'
  BY <1>6, <1>8, <1>10 DEF Bounded, MatrixBounded
<1>12. /\ pos' = [pos EXCEPT ![t] = pos[t] + 1]
       /\ regs' = [regs EXCEPT ![t] = <<>>]
       /\ round' = round
  BY DEF Store
<1>13. Position' /\ RegistersBounded'
  BY <1>12, IterationEnds
<1> QED BY <1>11, <1>13 DEF Bounded

LEMMA StepBounded ==
  ASSUME Graph, Bounded, [Step \/ Over]_vars
  PROVE  Bounded'
<1>1. ASSUME NEW t \in Thread, Load(t) PROVE Bounded'
  BY <1>1, LoadBounded
<1>2. ASSUME NEW t \in Thread, Store(t) PROVE Bounded'
  BY <1>2, StoreBounded
<1>3. CASE NextRound
  <2>1. \A t \in Thread : regs[t] = <<>>
    BY <1>3 DEF NextRound, RoundDone, Running, Bounded, RegistersBounded
  <2> QED BY <1>3, <2>1 DEF NextRound, Bounded, MatrixBounded, Position, RegistersBounded
<1>4. CASE UNCHANGED vars
  BY <1>4 DEF vars, Bounded, MatrixBounded, Position, RegistersBounded
<1> QED BY <1>1, <1>2, <1>3, <1>4 DEF Step, Over

(***************************************************************************)
(* No entry is ever smaller than the distance of its vertices.             *)
(***************************************************************************)
THEOREM DistancesBound ==
  ASSUME Graph
  PROVE  Spec => []NeverBelow
<1>1. Init => Bounded
  BY InitBounded
<1>2. Bounded /\ [Step \/ Over]_vars => Bounded'
  BY StepBounded
<1>3. Bounded => NeverBelow
  BY DEF Bounded, MatrixBounded, NeverBelow, Graph, Metric
<1> QED BY <1>1, <1>2, <1>3, PTL DEF Spec

-----------------------------------------------------------------------------
(* A matrix that holds distances: every register holds one too, so the     *)
(* sum in the test of an iteration is never smaller, and no iteration gets *)
(* past it.                                                                *)

Final ==
  /\ A = Weight
  /\ \A t \in Thread :
       /\ Len(regs[t]) <= 2
       /\ \A m \in 1 .. Len(regs[t]) : regs[t][m] = Weight[Loads[pos[t]][m]]

\* The test of an iteration, of which the first three loads are the operands.
LEMMA DetourLoads ==
  ASSUME NEW p \in Iteration
  PROVE  Loads[p][2] = Loads[p][4] /\ Loads[p][3] = Loads[p][5]
  BY DEF Loads

LEMMA FinalLoad ==
  ASSUME Graph, Weight = Dist, Bounded, Final, NEW t \in Thread, Load(t)
  PROVE  Final'
<1> DEFINE l == Len(regs[t]) + 1
<1> DEFINE x == A[Loads[pos[t]][l]]
<1> DEFINE r == Append(regs[t], x)
<1> DEFINE over == Len(r) = 3 /\ r[1] <= Wrap(r[2] + r[3])
<1>1. pos[t] \in Iteration
  BY DEF Load, Running
<1>2. /\ regs \in [Thread -> Seq(Int)] /\ pos \in [Thread -> Nat]
      /\ regs[t] \in Seq(Int)
      /\ Len(regs[t]) <= 2
      /\ \A m \in 1 .. Len(regs[t]) : regs[t][m] = Weight[Loads[pos[t]][m]]
  <2>1. regs \in [Thread -> Seq(Int)] /\ pos \in [Thread -> Nat]
    BY DEF Bounded, RegistersBounded, Position
  <2> QED BY <2>1 DEF Final
<1>3. Len(regs[t]) \in Nat
  BY <1>2
<1>4. l \in 1 .. 3
  BY <1>2, <1>3
<1>5. \A m \in 1 .. 5 : Loads[pos[t]][m] \in V \X V
  BY <1>1, DetourNotShorter
<1>6. x = Weight[Loads[pos[t]][l]] /\ x \in Int
  <2>1. Loads[pos[t]][l] \in V \X V
    BY <1>4, <1>5
  <2>2. A = Weight /\ Weight \in [V \X V -> Int]
    BY DEF Final, Graph
  <2> QED BY <2>1, <2>2
<1>7. /\ regs' = [regs EXCEPT ![t] = IF over THEN <<>> ELSE r]
      /\ pos' = [pos EXCEPT ![t] = IF over THEN pos[t] + 1 ELSE pos[t]]
      /\ A' = A
  BY DEF Load
<1> HIDE DEF x
<1>8. r \in Seq(Int) /\ Len(r) = l /\ r[l] = x
  BY <1>2, <1>6
<1>9. \A m \in 1 .. l : r[m] = Weight[Loads[pos[t]][m]]
  <2>1. ASSUME NEW m \in 1 .. Len(regs[t]) PROVE r[m] = Weight[Loads[pos[t]][m]]
    <3>1. r[m] = regs[t][m]
      BY <1>2, <1>6
    <3> QED BY <3>1, <1>2
  <2>2. \A m \in 1 .. l : m = l \/ m \in 1 .. Len(regs[t])
    BY <1>3
  <2> QED BY <2>1, <2>2, <1>6, <1>8
<1> HIDE DEF r, l
<1>10. l = 3 => over
  <2>1. SUFFICES ASSUME l = 3 PROVE r[1] <= Wrap(r[2] + r[3])
    BY <1>8
  <2>2. /\ r[1] = Weight[Loads[pos[t]][1]]
        /\ r[2] = Weight[Loads[pos[t]][4]]
        /\ r[3] = Weight[Loads[pos[t]][5]]
    BY <2>1, <1>1, <1>9, DetourLoads
  <2>3. r[1] <= r[2] + r[3]
    BY <2>2, <1>1, DetourNotShorter
  <2>4. r[2] \in Int /\ r[3] \in Int
    <3>1. Len(r) = 3
      BY <2>1, <1>8
    <3> QED BY <3>1, <1>8
  <2> QED BY <2>3, <2>4 DEF Graph
<1> HIDE DEF over
<1>11. ASSUME NEW u \in Thread
       PROVE  /\ Len(regs'[u]) <= 2
              /\ \A m \in 1 .. Len(regs'[u]) : regs'[u][m] = Weight[Loads[pos'[u]][m]]
  <2>1. CASE u # t
    <3>1. regs'[u] = regs[u] /\ pos'[u] = pos[u]
      BY <1>2, <1>7, <2>1
    <3> QED BY <3>1 DEF Final
  <2>2. CASE u = t /\ over
    <3>1. regs'[u] = <<>>
      BY <1>2, <1>7, <2>2
    <3>2. Len(regs'[u]) = 0
      BY <3>1
    <3> QED BY <3>2
  <2>3. CASE u = t /\ ~ over
    <3>1. regs'[u] = r /\ pos'[u] = pos[t]
      BY <1>2, <1>7, <2>3
    <3>2. Len(r) <= 2
      BY <1>4, <1>8, <1>10, <2>3
    <3> QED BY <3>1, <3>2, <1>8, <1>9
  <2> QED BY <2>1, <2>2, <2>3
<1> QED BY <1>7, <1>11 DEF Final

LEMMA StepFinal ==
  ASSUME Graph, Weight = Dist, Bounded, Final, [Step \/ Over]_vars
  PROVE  Final'
<1>1. ASSUME NEW t \in Thread, Load(t) PROVE Final'
  BY <1>1, FinalLoad
<1>2. ASSUME NEW t \in Thread, Store(t) PROVE FALSE
  <2>1. Len(regs[t]) <= 2
    BY DEF Final
  <2>2. Len(regs[t]) = 5
    BY <1>2 DEF Store
  <2> QED BY <2>1, <2>2
<1>3. CASE NextRound
  <2>1. ASSUME NEW t \in Thread PROVE regs'[t] = <<>>
    BY <1>3 DEF NextRound, RoundDone, Running, Bounded, RegistersBounded
  <2>2. ASSUME NEW t \in Thread PROVE Len(regs'[t]) = 0
    BY <2>1
  <2>3. A' = A
    BY <1>3 DEF NextRound
  <2> QED BY <2>2, <2>3 DEF Final
<1>4. CASE UNCHANGED vars
  BY <1>4 DEF vars, Final
<1> QED BY <1>1, <1>2, <1>3, <1>4 DEF Step, Over

LEMMA InitFinal ==
  ASSUME Graph, Init
  PROVE  Final
  BY DEF Init, Final

(***************************************************************************)
(* A matrix of distances is never changed.                                 *)
(***************************************************************************)
THEOREM DistancesStay ==
  ASSUME Graph, Weight = Dist
  PROVE  Spec => []Settled
<1>1. Init => Bounded /\ Final
  BY InitBounded, InitFinal
<1>2. Bounded /\ Final /\ [Step \/ Over]_vars => Bounded' /\ Final'
  BY StepBounded, StepFinal
<1>3. Final => Settled
  BY DEF Final, Settled
<1> QED BY <1>1, <1>2, <1>3, PTL DEF Spec

-----------------------------------------------------------------------------
(* One thread alone ends with the distances, although it works in place.   *)
(*                                                                         *)
(* In the iterations of k an entry may be ahead of the others: what held   *)
(* of all detours by an m below k fails for one whose part has just become *)
(* smaller by k.  It holds of the smaller of the entry and its detour by   *)
(* k, which the same iterations still store.                               *)

\* Dist are the distances: nothing that is like distances is larger.
Greatest == \A D : Metric(D) => \A e \in V \X V : D[e] <= Dist[e]

Closed(M, k) ==
  \A i, j, m \in V : m < k => M[<<i, j>>] <= M[<<i, m>>] + M[<<m, j>>]

Nearly(M, k) ==
  \A i, j, m \in V : m < k =>
    \/ M[<<i, j>>] <= M[<<i, m>>] + M[<<m, j>>]
    \/ M[<<i, k>>] + M[<<k, j>>] <= M[<<i, m>>] + M[<<m, j>>]

Tested(M, p) == M[Loads[p][1]] <= M[Loads[p][2]] + M[Loads[p][3]]

Passed(M, p) ==
  \A q \in Iteration : q < p /\ Place(q).k = Place(p).k => Tested(M, q)

\* What the matrix is when the thread comes to p.
Reached(M, p) ==
  IF p \in Iteration THEN Nearly(M, Place(p).k) /\ Passed(M, p) ELSE Closed(M, n)

(***************************************************************************)
(* Division, and the iterations in their order.                            *)
(***************************************************************************)
LEMMA TimesMonotone ==
  ASSUME NEW a \in Nat, NEW c \in Nat, NEW b \in Nat, a <= c
  PROVE  a * b <= c * b
<1>1. PICK d \in Nat : c = a + d
  <2>1. c - a \in Nat /\ c = a + (c - a)
    OBVIOUS
  <2> QED BY <2>1
<1>2. c * b = a * b + d * b /\ d * b >= 0
  BY <1>1
<1>3. a * b \in Nat /\ d * b \in Nat
  BY <1>1
<1> QED BY <1>2, <1>3

LEMMA DivBounds ==
  ASSUME NEW a \in Nat, NEW b \in Nat \ {0}
  PROVE  /\ a \div b \in Nat
         /\ (a \div b) * b <= a
         /\ a < (a \div b + 1) * b
  OBVIOUS

LEMMA DivUnique ==
  ASSUME NEW a \in Nat, NEW b \in Nat \ {0}, NEW c \in Nat, c * b <= a, a < (c + 1) * b
  PROVE  a \div b = c
<1> DEFINE d == a \div b
<1>1. d \in Nat /\ d * b <= a /\ a < (d + 1) * b
  BY DivBounds
<1> HIDE DEF d
<1>2. c * b \in Nat /\ d * b \in Nat /\ (c + 1) * b \in Nat /\ (d + 1) * b \in Nat
  BY <1>1
<1>3. ASSUME d < c PROVE FALSE
  <2>1. (d + 1) * b <= c * b
    BY <1>1, <1>3, TimesMonotone
  <2> QED BY <2>1, <1>1, <1>2
<1>4. ASSUME c < d PROVE FALSE
  <2>1. (c + 1) * b <= d * b
    BY <1>1, <1>4, TimesMonotone
  <2> QED BY <2>1, <1>1, <1>2
<1>5. d = c
  BY <1>1, <1>3, <1>4
<1> QED BY <1>5 DEF d

LEMMA DivMonotone ==
  ASSUME NEW a \in Nat, NEW c \in Nat, NEW b \in Nat \ {0}, a <= c
  PROVE  a \div b <= c \div b
<1> DEFINE d == a \div b
<1> DEFINE e == c \div b
<1>1. d \in Nat /\ d * b <= a /\ e \in Nat /\ c < (e + 1) * b
  BY DivBounds
<1> HIDE DEF d, e
<1>2. ASSUME e < d PROVE FALSE
  <2>1. (e + 1) * b <= d * b
    BY <1>1, <1>2, TimesMonotone
  <2>2. (e + 1) * b \in Nat /\ d * b \in Nat
    BY <1>1
  <2> QED BY <2>1, <2>2, <1>1
<1>3. d <= e
  BY <1>1, <1>2
<1> QED BY <1>3 DEF d, e

LEMMA ModUnique ==
  ASSUME NEW b \in Nat \ {0}, NEW c \in Nat, NEW d \in Nat, d < b
  PROVE  (c * b + d) \div b = c /\ (c * b + d) % b = d
<1> DEFINE a == c * b + d
<1>1. c * b \in Nat /\ (c + 1) * b = c * b + b
  OBVIOUS
<1>2. a \in Nat /\ c * b <= a /\ a < (c + 1) * b
  BY <1>1
<1>3. a \div b = c
  BY <1>2, DivUnique
<1>4. a % b = a - (a \div b) * b
  <2>1. a \in Int /\ b \in Int /\ b > 0
    BY <1>2
  <2> HIDE DEF a
  <2>2. a = b * (a \div b) + (a % b)
    BY <2>1
  <2> QED BY <2>1, <2>2
<1> QED BY <1>1, <1>3, <1>4

\* Every element has its iteration among those of k.
LEMMA EveryPair ==
  ASSUME n \in Nat, NEW k \in V, NEW i \in V, NEW j \in V
  PROVE  \E q \in Iteration : Place(q) = [k |-> k, i |-> i, j |-> j]
<1> DEFINE r == i * n + j
<1> DEFINE s == k * n + i
<1> DEFINE q == s * n + j
<1>1. /\ n \in Nat \ {0}
      /\ k \in Nat /\ i \in Nat /\ j \in Nat
      /\ k + 1 <= n /\ i + 1 <= n /\ j < n
  BY DEF V
<1>2. s \in Nat /\ r \in Nat /\ q \in Nat /\ n * n \in Nat \ {0}
  BY <1>1
<1>3. r < n * n
  <2>1. (i + 1) * n <= n * n
    BY <1>1, TimesMonotone
  <2>2. (i + 1) * n = i * n + n /\ i * n \in Nat
    BY <1>1
  <2> QED BY <1>1, <1>2, <2>1, <2>2
<1>4. q = k * (n * n) + r
  <2>1. s * n = k * (n * n) + i * n
    BY <1>1
  <2>2. k * (n * n) \in Nat /\ i * n \in Nat
    BY <1>1
  <2> QED BY <1>1, <2>1, <2>2
<1>5. q < n * n * n
  <2>1. (k + 1) * (n * n) <= n * (n * n)
    BY <1>1, <1>2, TimesMonotone
  <2>2. (k + 1) * (n * n) = k * (n * n) + n * n /\ n * (n * n) = n * n * n
    BY <1>1
  <2>3. k * (n * n) \in Nat /\ n * n * n \in Nat
    BY <1>1
  <2> QED BY <1>2, <1>3, <1>4, <2>1, <2>2, <2>3
<1>6. q \div (n * n) = k
  BY <1>1, <1>2, <1>3, <1>4, ModUnique
<1>7. q \div n = s /\ q % n = j
  BY <1>1, <1>2, ModUnique
<1>8. s % n = i
  <2>1. i < n
    BY <1>1
  <2> QED BY <1>1, <2>1, ModUnique
<1>9. Place(q) = [k |-> k, i |-> i, j |-> j]
  BY <1>6, <1>7, <1>8 DEF Place
<1>10. q \in Iteration
  BY <1>2, <1>5 DEF Iteration
<1> QED BY <1>9, <1>10

\* The intermediate vertex of an iteration never goes down, and goes up by 1.
LEMMA PlacesInOrder ==
  ASSUME n \in Nat, NEW p \in Iteration
  PROVE  /\ \A q \in Iteration : q <= p => Place(q).k <= Place(p).k
         /\ p + 1 \in Iteration =>
              Place(p + 1).k = Place(p).k \/ Place(p + 1).k = Place(p).k + 1
         /\ p + 1 \notin Iteration => Place(p).k = n - 1 /\ \A q \in Iteration : q <= p
<1>0. /\ n * n * n \in Nat
      /\ \A q \in Iteration : q \in Nat /\ q + 1 <= n * n * n
  BY DEF Iteration
<1>1. n \in Nat \ {0}
  <2>1. CASE n = 0
    <3>1. n * n * n = 0
      BY <2>1
    <3> QED BY <3>1, <1>0
  <2> QED BY <2>1
<1> DEFINE m == n * n
<1>2. m \in Nat \ {0} /\ n * n * n = n * m
  BY <1>1
<1>3. \A q : Place(q).k = q \div m
  BY DEF Place
<1> HIDE DEF m
<1>4. \A q \in Iteration : q <= p => Place(q).k <= Place(p).k
  BY <1>0, <1>2, <1>3, DivMonotone
<1>5. p \in Nat /\ p \div m \in Nat /\ (p \div m) * m <= p /\ p < (p \div m + 1) * m
  BY <1>0, <1>2, DivBounds
<1> DEFINE k == p \div m
<1> HIDE DEF k
<1>6. p \in Nat /\ k \in Nat /\ k * m <= p /\ p < (k + 1) * m /\ Place(p).k = k
  BY <1>3, <1>5 DEF k
<1>7. ASSUME p + 1 \in Iteration
      PROVE  Place(p + 1).k = k \/ Place(p + 1).k = k + 1
  <2>1. k * m \in Nat /\ (k + 1) * m \in Nat /\ (k + 2) * m = (k + 1) * m + m
    BY <1>2, <1>6
  <2>2. CASE p + 1 < (k + 1) * m
    <3>1. (p + 1) \div m = k
      BY <1>2, <1>6, <2>1, <2>2, DivUnique
    <3> QED BY <3>1, <1>3
  <2>3. CASE p + 1 = (k + 1) * m
    <3>1. p + 1 < (k + 1 + 1) * m
      <4>1. p + 1 < (k + 2) * m
        BY <1>2, <2>1, <2>3
      <4>2. k + 1 + 1 = k + 2
        BY <1>6
      <4> QED BY <4>1, <4>2
    <3>2. PICK c \in Nat, a \in Nat : c = k + 1 /\ a = p + 1
      BY <1>6
    <3>3. c * m <= a /\ a < (c + 1) * m
      BY <1>2, <2>1, <2>3, <3>1, <3>2
    <3>4. a \div m = c
      BY <1>2, <3>3, DivUnique
    <3> QED BY <3>2, <3>4, <1>3
  <2> QED BY <1>6, <2>1, <2>2, <2>3
<1>8. ASSUME p + 1 \notin Iteration
      PROVE  k = n - 1 /\ \A q \in Iteration : q <= p
  <2>1. p + 1 = n * m
    BY <1>0, <1>2, <1>8, <1>6 DEF Iteration
  <2>2. (n - 1) * m = n * m - m /\ n - 1 \in Nat /\ n - 1 + 1 = n
    BY <1>1, <1>2
  <2>3. (n - 1) * m <= p /\ p < (n - 1 + 1) * m
    BY <1>1, <1>2, <1>5, <2>1, <2>2
  <2>4. p \div m = n - 1
    BY <1>2, <1>5, <2>2, <2>3, DivUnique
  <2>5. \A q \in Iteration : q <= p
    BY <1>0, <1>2, <1>5, <2>1
  <2> QED BY <2>4, <2>5 DEF k
<1> QED BY <1>4, <1>6, <1>7, <1>8

(***************************************************************************)
(* From one iteration to the next.                                         *)
(***************************************************************************)
LEMMA NextReached ==
  ASSUME n \in Nat, NEW M \in [V \X V -> Int], NEW p \in Iteration,
         Nearly(M, Place(p).k), Passed(M, p), Tested(M, p)
  PROVE  Reached(M, p + 1)
<1> DEFINE k == Place(p).k
<1>1. k \in V /\ p \in Nat /\ k \in Int
  BY PlaceInRange DEF V, Iteration
<1>2. \A q \in Iteration : q \in Nat
  BY DEF Iteration
<1>3. CASE p + 1 \in Iteration /\ Place(p + 1).k = k
  <2>1. Passed(M, p + 1)
    <3>1. ASSUME NEW q \in Iteration, q < p + 1, Place(q).k = k PROVE Tested(M, q)
      <4>1. CASE q = p
        BY <4>1
      <4>2. CASE q < p
        BY <3>1, <4>2 DEF Passed
      <4> QED BY <1>1, <1>2, <3>1, <4>1, <4>2
    <3> QED BY <3>1, <1>3 DEF Passed
  <2> QED BY <1>3, <2>1 DEF Reached
<1>4. CASE ~ (p + 1 \in Iteration /\ Place(p + 1).k = k)
  <2>1. ASSUME NEW q \in Iteration, Place(q).k = k PROVE q <= p
    <3>1. CASE p + 1 \in Iteration
      <4>1. Place(p + 1).k = k + 1
        BY <1>4, <3>1, PlacesInOrder
      <4>2. ASSUME p + 1 <= q PROVE FALSE
        <5>1. Place(p + 1).k <= Place(q).k
          BY <2>1, <3>1, <4>2, PlacesInOrder
        <5> QED BY <5>1, <4>1, <2>1, <1>1
      <4> QED BY <4>2, <1>1, <1>2
    <3>2. CASE p + 1 \notin Iteration
      BY <3>2, PlacesInOrder
    <3> QED BY <3>1, <3>2
  <2>2. ASSUME NEW i \in V, NEW j \in V
        PROVE  M[<<i, j>>] <= M[<<i, k>>] + M[<<k, j>>]
    <3>1. PICK q \in Iteration : Place(q) = [k |-> k, i |-> i, j |-> j]
      BY <1>1, EveryPair
    <3>2. Tested(M, q)
      <4>1. q <= p
        BY <2>1, <3>1
      <4>2. CASE q = p
        BY <4>2
      <4>3. CASE q < p
        BY <3>1, <4>3 DEF Passed
      <4> QED BY <1>1, <1>2, <4>1, <4>2, <4>3
    <3> QED BY <3>1, <3>2 DEF Tested, Loads
  <2>3. Closed(M, k + 1)
    <3>1. SUFFICES ASSUME NEW i \in V, NEW j \in V, NEW m \in V, m < k + 1
                   PROVE  M[<<i, j>>] <= M[<<i, m>>] + M[<<m, j>>]
      BY DEF Closed
    <3>2. CASE m = k
      BY <2>2, <3>2
    <3>3. CASE m < k
      <4>1. \/ M[<<i, j>>] <= M[<<i, m>>] + M[<<m, j>>]
            \/ M[<<i, k>>] + M[<<k, j>>] <= M[<<i, m>>] + M[<<m, j>>]
        BY <3>3 DEF Nearly
      <4>2. M[<<i, j>>] <= M[<<i, k>>] + M[<<k, j>>]
        BY <2>2
      <4>3. /\ M[<<i, j>>] \in Int /\ M[<<i, k>>] \in Int /\ M[<<k, j>>] \in Int
            /\ M[<<i, m>>] \in Int /\ M[<<m, j>>] \in Int
        BY <1>1
      <4> QED BY <4>1, <4>2, <4>3
    <3>4. m \in Int
      BY DEF V
    <3> QED BY <1>1, <3>1, <3>2, <3>3, <3>4
  <2>4. CASE p + 1 \in Iteration
    <3>1. Place(p + 1).k = k + 1
      BY <1>4, <2>4, PlacesInOrder
    <3>2. Nearly(M, k + 1)
      BY <2>3 DEF Nearly, Closed
    <3>3. Passed(M, p + 1)
      <4>1. ASSUME NEW q \in Iteration, q < p + 1 PROVE Place(q).k # k + 1
        <5>1. Place(q).k <= k
          BY <1>1, <1>2, <4>1, PlacesInOrder
        <5>2. Place(q).k \in Int
          BY PlaceInRange DEF V
        <5> QED BY <5>1, <5>2, <1>1
      <4> QED BY <3>1, <4>1 DEF Passed
    <3> QED BY <2>4, <3>1, <3>2, <3>3 DEF Reached
  <2>5. CASE p + 1 \notin Iteration
    <3>1. k + 1 = n
      BY <2>5, PlacesInOrder
    <3> QED BY <2>3, <2>5, <3>1 DEF Reached
  <2> QED BY <2>4, <2>5
<1> QED BY <1>3, <1>4

\* A store makes one entry smaller, and neither row nor column k.
LEMMA StoreReached ==
  ASSUME Graph, NEW M \in [V \X V -> Int], NEW p \in Iteration,
         \A e \in V \X V : Dist[e] <= M[e],
         Nearly(M, Place(p).k), Passed(M, p), ~ Tested(M, p),
         NEW N, N = [M EXCEPT ![Loads[p][1]] = M[Loads[p][2]] + M[Loads[p][3]]],
         \A e \in V \X V : Dist[e] <= N[e]
  PROVE  /\ N \in [V \X V -> Int]
         /\ \A e \in V \X V : N[e] <= M[e]
         /\ Nearly(N, Place(p).k)
         /\ Passed(N, p)
         /\ Tested(N, p)
<1> DEFINE k == Place(p).k
<1> DEFINE i == Place(p).i
<1> DEFINE j == Place(p).j
<1>1. k \in V /\ i \in V /\ j \in V
  BY PlaceInRange DEF Graph
<1>2. /\ Loads[p][1] = <<i, j>>
      /\ Loads[p][2] = <<i, k>>
      /\ Loads[p][3] = <<k, j>>
  BY DEF Loads
<1>3. \A q \in Iteration : /\ Loads[q][1] = <<Place(q).i, Place(q).j>>
                           /\ Loads[q][2] = <<Place(q).i, Place(q).k>>
                           /\ Loads[q][3] = <<Place(q).k, Place(q).j>>
  BY DEF Loads
<1>4. \A q \in Iteration : Place(q).k \in V /\ Place(q).i \in V /\ Place(q).j \in V
  BY PlaceInRange DEF Graph
<1> HIDE DEF i, j
<1> DEFINE s == M[<<i, k>>] + M[<<k, j>>]
<1>5. /\ M[<<i, j>>] > s /\ s \in Int
      /\ N = [M EXCEPT ![<<i, j>>] = s]
  <2>1. \A x, y \in V : M[<<x, y>>] \in Int
    OBVIOUS
  <2> QED BY <1>1, <1>2, <2>1 DEF Tested
<1>6. N \in [V \X V -> Int] /\ \A e \in V \X V : N[e] <= M[e]
  BY <1>1, <1>5
<1>7. \A x, y \in V : /\ M[<<x, y>>] \in Int /\ N[<<x, y>>] \in Int
                      /\ N[<<x, y>>] = IF x = i /\ y = j THEN s ELSE M[<<x, y>>]
  BY <1>1, <1>5, <1>6
<1>8. \A x \in V : M[<<x, x>>] >= 0 /\ N[<<x, x>>] >= 0
  <2>1. ASSUME NEW x \in V PROVE Dist[<<x, x>>] >= 0
    <3>1. Dist[<<x, x>>] \in Int /\ Dist[<<x, x>>] <= Dist[<<x, x>>] + Dist[<<x, x>>]
      BY DEF Graph, Metric
    <3> QED BY <3>1
  <2>2. ASSUME NEW x \in V PROVE M[<<x, x>>] >= 0 /\ N[<<x, x>>] >= 0
    <3>1. Dist[<<x, x>>] \in Int /\ Dist[<<x, x>>] <= M[<<x, x>>] /\ Dist[<<x, x>>] <= N[<<x, x>>]
      BY DEF Graph, Metric
    <3> QED BY <2>1, <3>1, <1>7
  <2> QED BY <2>2
<1>9. i # k /\ j # k
  <2>1. ASSUME i = k PROVE FALSE
    <3>1. M[<<k, j>>] > M[<<k, k>>] + M[<<k, j>>]
      BY <1>5, <2>1
    <3> QED BY <3>1, <1>1, <1>7, <1>8
  <2>2. ASSUME j = k PROVE FALSE
    <3>1. M[<<i, k>>] > M[<<i, k>>] + M[<<k, k>>]
      BY <1>5, <2>2
    <3> QED BY <3>1, <1>1, <1>7, <1>8
  <2> QED BY <2>1, <2>2
<1>10. \A x \in V : N[<<x, k>>] = M[<<x, k>>] /\ N[<<k, x>>] = M[<<k, x>>]
  BY <1>1, <1>7, <1>9
\* Row and column k are closed already.
<1>11. ASSUME NEW x \in V, NEW m \in V, m < k
       PROVE  /\ M[<<k, x>>] <= M[<<k, m>>] + M[<<m, x>>]
              /\ M[<<x, k>>] <= M[<<x, m>>] + M[<<m, k>>]
  <2>1. /\ \/ M[<<k, x>>] <= M[<<k, m>>] + M[<<m, x>>]
           \/ M[<<k, k>>] + M[<<k, x>>] <= M[<<k, m>>] + M[<<m, x>>]
        /\ \/ M[<<x, k>>] <= M[<<x, m>>] + M[<<m, k>>]
           \/ M[<<x, k>>] + M[<<k, k>>] <= M[<<x, m>>] + M[<<m, k>>]
    BY <1>1, <1>11 DEF Nearly
  <2>2. /\ M[<<k, x>>] \in Int /\ M[<<k, m>>] \in Int /\ M[<<m, x>>] \in Int
        /\ M[<<x, k>>] \in Int /\ M[<<x, m>>] \in Int /\ M[<<m, k>>] \in Int
        /\ M[<<k, k>>] \in Int /\ M[<<k, k>>] >= 0
    BY <1>1, <1>7, <1>8
  <2> QED BY <2>1, <2>2
<1>12. Nearly(N, k)
  <2>1. SUFFICES ASSUME NEW x \in V, NEW y \in V, NEW m \in V, m < k
                 PROVE  \/ N[<<x, y>>] <= N[<<x, m>>] + N[<<m, y>>]
                        \/ N[<<x, k>>] + N[<<k, y>>] <= N[<<x, m>>] + N[<<m, y>>]
    BY DEF Nearly
  <2>2. /\ M[<<x, y>>] \in Int /\ M[<<x, m>>] \in Int /\ M[<<m, y>>] \in Int
        /\ M[<<x, k>>] \in Int /\ M[<<k, y>>] \in Int
        /\ M[<<k, m>>] \in Int /\ M[<<m, k>>] \in Int
        /\ N[<<x, y>>] \in Int /\ N[<<x, m>>] \in Int /\ N[<<m, y>>] \in Int
    BY <1>1, <1>7
  <2>3. N[<<x, y>>] <= M[<<x, y>>]
    BY <1>6
  <2>4. CASE ~ (x = i /\ m = j) /\ ~ (m = i /\ y = j)
    <3>1. N[<<x, m>>] = M[<<x, m>>] /\ N[<<m, y>>] = M[<<m, y>>]
      BY <1>7, <2>4
    <3>2. \/ M[<<x, y>>] <= M[<<x, m>>] + M[<<m, y>>]
          \/ M[<<x, k>>] + M[<<k, y>>] <= M[<<x, m>>] + M[<<m, y>>]
      BY <1>1, <2>1 DEF Nearly
    <3>3. N[<<x, k>>] = M[<<x, k>>] /\ N[<<k, y>>] = M[<<k, y>>]
      BY <1>10
    <3> QED BY <2>2, <2>3, <3>1, <3>2, <3>3
  <2>5. CASE x = i /\ m = j /\ ~ (m = i /\ y = j)
    <3>1. N[<<x, m>>] = M[<<x, k>>] + M[<<k, m>>] /\ N[<<m, y>>] = M[<<m, y>>]
      BY <1>7, <2>5
    <3>2. M[<<k, y>>] <= M[<<k, m>>] + M[<<m, y>>]
      BY <1>11, <2>1
    <3>3. N[<<x, k>>] = M[<<x, k>>] /\ N[<<k, y>>] = M[<<k, y>>]
      BY <1>10
    <3> QED BY <2>2, <3>1, <3>2, <3>3
  <2>6. CASE m = i /\ y = j /\ ~ (x = i /\ m = j)
    <3>1. N[<<m, y>>] = M[<<m, k>>] + M[<<k, y>>] /\ N[<<x, m>>] = M[<<x, m>>]
      BY <1>7, <2>6
    <3>2. M[<<x, k>>] <= M[<<x, m>>] + M[<<m, k>>]
      BY <1>11, <2>1
    <3>3. N[<<x, k>>] = M[<<x, k>>] /\ N[<<k, y>>] = M[<<k, y>>]
      BY <1>10
    <3> QED BY <2>2, <3>1, <3>2, <3>3
  <2>7. CASE x = i /\ m = j /\ m = i /\ y = j
    <3>1. x = m /\ y = m
      BY <2>7
    <3>2. N[<<m, m>>] >= 0
      BY <1>8
    <3> QED BY <2>2, <3>1, <3>2
  <2> QED BY <2>4, <2>5, <2>6, <2>7
<1>13. \A q \in Iteration : Place(q).k = k /\ (q = p \/ Tested(M, q)) => Tested(N, q)
  <2>1. SUFFICES ASSUME NEW q \in Iteration, Place(q).k = k, q = p \/ Tested(M, q)
                 PROVE  Tested(N, q)
    OBVIOUS
  <2> DEFINE x == Place(q).i
  <2> DEFINE y == Place(q).j
  <2>2. /\ x \in V /\ y \in V
        /\ Loads[q][1] = <<x, y>>
        /\ Loads[q][2] = <<x, k>>
        /\ Loads[q][3] = <<k, y>>
    BY <1>3, <1>4, <2>1
  <2>3. q = p => x = i /\ y = j
    BY DEF i, j
  <2> HIDE DEF x, y
  <2>4. N[<<x, k>>] = M[<<x, k>>] /\ N[<<k, y>>] = M[<<k, y>>]
    BY <1>10, <2>2
  <2>5. N[<<x, y>>] <= M[<<x, k>>] + M[<<k, y>>]
    <3>1. CASE x = i /\ y = j
      BY <3>1, <1>1, <1>5, <1>7
    <3>2. CASE ~ (x = i /\ y = j)
      <4>1. Tested(M, q)
        BY <2>1, <2>3, <3>2
      <4>2. N[<<x, y>>] = M[<<x, y>>]
        BY <1>7, <2>2, <3>2
      <4> QED BY <4>1, <4>2, <2>2 DEF Tested
    <3> QED BY <3>1, <3>2
  <2> QED BY <2>2, <2>4, <2>5 DEF Tested
<1>14. Passed(N, p) /\ Tested(N, p)
  BY <1>13 DEF Passed
<1> QED BY <1>6, <1>12, <1>14

(***************************************************************************)
(* The invariant of the one thread.                                        *)
(***************************************************************************)
Loaded ==
  /\ pos[1] \in 0 .. n * n * n
  /\ \A m \in 1 .. Len(regs[1]) : regs[1][m] = A[Loads[pos[1]][m]]
  /\ Len(regs[1]) >= 3 => ~ Tested(A, pos[1])

Shrinks == \A e \in V \X V : A[e] <= Weight[e]

Alone ==
  /\ round \in 1 .. Len(Teams)
  /\ Bounded /\ Loaded /\ Shrinks /\ Reached(A, pos[1])

LEMMA Beginning ==
  ASSUME n \in Nat, NEW M
  PROVE  Reached(M, 0)
<1>1. CASE 0 \in Iteration
  <2>1. n \in Nat \ {0}
    <3>1. CASE n = 0
      <4>1. n * n * n = 0
        BY <3>1
      <4> QED BY <1>1, <4>1 DEF Iteration
    <3> QED BY <3>1
  <2>2. n * n \in Nat \ {0}
    BY <2>1
  <2>3. Place(0).k = 0
    <3>1. 0 \div (n * n) = 0
      BY <2>2
    <3> QED BY <3>1 DEF Place
  <2>4. Nearly(M, 0)
    BY DEF Nearly, V
  <2>5. Passed(M, 0)
    BY DEF Passed, Iteration
  <2> QED BY <1>1, <2>3, <2>4, <2>5 DEF Reached
<1>2. CASE 0 \notin Iteration
  <2>1. n = 0
    <3>1. CASE n > 0
      <4>1. n * n * n > 0
        <5>1. n * n > 0
          BY <3>1
        <5>2. n * n \in Nat
          OBVIOUS
        <5> QED BY <3>1, <5>1, <5>2
      <4> QED BY <1>2, <4>1 DEF Iteration
    <3> QED BY <3>1
  <2> QED BY <1>2, <2>1 DEF Reached, Closed, V
<1> QED BY <1>1, <1>2

LEMMA InitAlone ==
  ASSUME Graph, Rounds, Thread = {1}, Init
  PROVE  Alone
<1>1. Bounded
  BY InitBounded
<1>2. pos[1] = 0 /\ regs[1] = <<>> /\ A = Weight /\ round = 1
  BY DEF Init
<1>3. Len(regs[1]) = 0
  BY <1>2
<1>4. n * n * n \in Nat
  BY DEF Graph
<1>5. Loaded
  BY <1>2, <1>3, <1>4 DEF Loaded
<1>6. Shrinks
  BY <1>2 DEF Shrinks, Graph
<1>7. round \in 1 .. Len(Teams)
  BY <1>2 DEF Rounds
<1>8. Reached(A, pos[1])
  BY <1>2, Beginning DEF Graph
<1> QED BY <1>1, <1>5, <1>6, <1>7, <1>8 DEF Alone

LEMMA LoadAlone ==
  ASSUME Graph, Rounds, Thread = {1}, Alone, Load(1)
  PROVE  Alone'
<1> DEFINE p == pos[1]
<1> DEFINE l == Len(regs[1]) + 1
<1> DEFINE x == A[Loads[p][l]]
<1> DEFINE r == Append(regs[1], x)
<1> DEFINE over == Len(r) = 3 /\ r[1] <= Wrap(r[2] + r[3])
<1>1. p \in Iteration /\ Len(regs[1]) < 5
  BY DEF Load, Running
<1>2. /\ regs \in [Thread -> Seq(Int)] /\ pos \in [Thread -> Nat]
      /\ regs[1] \in Seq(Int) /\ Len(regs[1]) \in Nat
      /\ A \in [V \X V -> Int]
  BY ThreadBounded DEF Alone, Bounded, MatrixBounded, Position, RegistersBounded
<1>3. \A m \in 1 .. Len(regs[1]) : regs[1][m] = A[Loads[p][m]]
  BY DEF Alone, Loaded
<1>4. l \in 1 .. 5
  BY <1>1, <1>2
<1>5. \A m \in 1 .. 5 : Loads[p][m] \in V \X V
  BY <1>1, DetourNotShorter
<1>6. x \in Int
  BY <1>2, <1>4, <1>5
<1>7. /\ regs' = [regs EXCEPT ![1] = IF over THEN <<>> ELSE r]
      /\ pos' = [pos EXCEPT ![1] = IF over THEN p + 1 ELSE p]
      /\ A' = A /\ round' = round
  BY DEF Load
<1>8. Bounded'
  BY LoadBounded DEF Alone
<1>9. r \in Seq(Int) /\ Len(r) = l /\ r[l] = x
  BY <1>2, <1>6
<1>10. \A m \in 1 .. l : r[m] = A[Loads[p][m]]
  <2>1. ASSUME NEW m \in 1 .. Len(regs[1]) PROVE r[m] = A[Loads[p][m]]
    <3>1. r[m] = regs[1][m]
      BY <1>2, <1>6
    <3> QED BY <3>1, <1>3
  <2>2. \A m \in 1 .. l : m = l \/ m \in 1 .. Len(regs[1])
    BY <1>2
  <2> QED BY <2>1, <2>2, <1>9
<1> HIDE DEF x, r
<1>11. l = 3 => (over <=> Tested(A, p))
  <2>1. SUFFICES ASSUME l = 3 PROVE r[1] <= Wrap(r[2] + r[3]) <=> Tested(A, p)
    BY <1>9
  <2>2. r[1] = A[Loads[p][1]] /\ r[2] = A[Loads[p][2]] /\ r[3] = A[Loads[p][3]]
    BY <2>1, <1>10
  <2>3. A[Loads[p][2]] \in Int /\ A[Loads[p][3]] \in Int
    BY <1>2, <1>5
  <2>4. Wrap(r[2] + r[3]) = r[2] + r[3]
    BY <2>2, <2>3 DEF Graph
  <2> QED BY <2>2, <2>4 DEF Tested
<1>12. over => l = 3
  BY <1>9
<1>13. Reached(A, p) /\ pos[1] \in 0 .. n * n * n /\ (Len(regs[1]) >= 3 => ~ Tested(A, p))
  BY DEF Alone, Loaded
<1> HIDE DEF over, p
<1>14. Loaded' /\ Reached(A, pos[1])'
  <2>1. CASE over
    <3>1. regs'[1] = <<>> /\ pos'[1] = p + 1
      BY <1>2, <1>7, <2>1
    <3>2. Len(regs'[1]) = 0
      BY <3>1
    <3>3. p + 1 \in 0 .. n * n * n
      <4>1. n * n * n \in Nat
        BY DEF Graph
      <4> QED BY <4>1, <1>1 DEF Iteration
    <3>4. Loaded'
      BY <1>7, <3>1, <3>2, <3>3 DEF Loaded
    <3>5. Reached(A, p + 1)
      BY <1>1, <1>2, <1>11, <1>12, <1>13, <2>1, NextReached DEF Graph, Reached
    <3> QED BY <3>1, <3>4, <3>5, <1>7
  <2>2. CASE ~ over
    <3>1. regs'[1] = r /\ pos'[1] = p
      BY <1>2, <1>7, <2>2
    <3>2. l >= 3 => ~ Tested(A, p)
      BY <1>2, <1>11, <1>13, <2>2
    <3>3. Loaded'
      BY <1>7, <1>9, <1>10, <1>13, <3>1, <3>2 DEF Loaded, p
    <3> QED BY <3>1, <3>3, <1>7, <1>13
  <2> QED BY <2>1, <2>2
<1>15. Shrinks' /\ round' \in 1 .. Len(Teams)
  BY <1>7 DEF Alone, Shrinks
<1> QED BY <1>8, <1>14, <1>15 DEF Alone

LEMMA StoreAlone ==
  ASSUME Graph, Rounds, Thread = {1}, Alone, Store(1)
  PROVE  Alone'
<1> DEFINE p == pos[1]
<1>1. p \in Iteration /\ Len(regs[1]) = 5
  BY DEF Store, Running
<1>2. /\ regs \in [Thread -> Seq(Int)] /\ pos \in [Thread -> Nat]
      /\ A \in [V \X V -> Int] /\ \A e \in V \X V : Dist[e] <= A[e]
  BY DEF Alone, Bounded, MatrixBounded, Position, RegistersBounded
<1>3. Bounded'
  BY StoreBounded DEF Alone
<1>4. \A m \in 1 .. 5 : Loads[p][m] \in V \X V
  BY <1>1, DetourNotShorter
<1>5. regs[1][4] = A[Loads[p][2]] /\ regs[1][5] = A[Loads[p][3]]
  <2>1. regs[1][4] = A[Loads[p][4]] /\ regs[1][5] = A[Loads[p][5]]
    BY <1>1 DEF Alone, Loaded
  <2> QED BY <2>1, <1>1, DetourLoads
<1>6. A[Loads[p][2]] \in Int /\ A[Loads[p][3]] \in Int
  BY <1>2, <1>4
<1>7. /\ A' = [A EXCEPT ![Loads[p][1]] = A[Loads[p][2]] + A[Loads[p][3]]]
      /\ pos' = [pos EXCEPT ![1] = p + 1]
      /\ regs' = [regs EXCEPT ![1] = <<>>]
      /\ round' = round
  <2>1. Wrap(regs[1][4] + regs[1][5]) = regs[1][4] + regs[1][5]
    <3>1. regs[1][4] + regs[1][5] \in Int
      BY <1>5, <1>6
    <3> QED BY <3>1 DEF Graph
  <2> QED BY <2>1, <1>5 DEF Store
<1>8. Nearly(A, Place(p).k) /\ Passed(A, p) /\ ~ Tested(A, p)
  BY <1>1 DEF Alone, Loaded, Reached
<1>9. \A e \in V \X V : Dist[e] <= A'[e]
  BY <1>3 DEF Bounded, MatrixBounded
<1> HIDE DEF p
<1>10. /\ A' \in [V \X V -> Int]
       /\ \A e \in V \X V : A'[e] <= A[e]
       /\ Nearly(A', Place(p).k)
       /\ Passed(A', p)
       /\ Tested(A', p)
  <2> DEFINE N == A'
  <2>1. N = [A EXCEPT ![Loads[p][1]] = A[Loads[p][2]] + A[Loads[p][3]]]
    BY <1>7
  <2>2. \A e \in V \X V : Dist[e] <= N[e]
    BY <1>9
  <2> HIDE DEF N
  <2>3. /\ N \in [V \X V -> Int]
        /\ \A e \in V \X V : N[e] <= A[e]
        /\ Nearly(N, Place(p).k)
        /\ Passed(N, p)
        /\ Tested(N, p)
    BY <1>1, <1>2, <1>8, <2>1, <2>2, StoreReached
  <2> QED BY <2>3 DEF N
<1>11. Reached(A', p + 1)
  BY <1>1, <1>10, NextReached DEF Graph
<1>12. pos'[1] = p + 1 /\ regs'[1] = <<>>
  BY <1>2, <1>7
<1>13. Len(regs'[1]) = 0
  BY <1>12
<1>14. p + 1 \in 0 .. n * n * n
  <2>1. n * n * n \in Nat
    BY DEF Graph
  <2> QED BY <2>1, <1>1 DEF Iteration
<1>15. Loaded'
  BY <1>12, <1>13, <1>14 DEF Loaded
<1>16. Shrinks'
  <2>1. SUFFICES ASSUME NEW e \in V \X V PROVE A'[e] <= Weight[e]
    BY DEF Shrinks
  <2>2. A'[e] <= A[e] /\ A[e] <= Weight[e]
    BY <1>10 DEF Alone, Shrinks
  <2>3. A'[e] \in Int /\ A[e] \in Int /\ Weight[e] \in Int
    BY <1>2, <1>10 DEF Graph
  <2> QED BY <2>2, <2>3
<1>17. round' \in 1 .. Len(Teams) /\ Reached(A, pos[1])'
  BY <1>7, <1>11, <1>12 DEF Alone
<1> QED BY <1>3, <1>15, <1>16, <1>17 DEF Alone

LEMMA NextRoundAlone ==
  ASSUME Graph, Rounds, Thread = {1}, Alone, NextRound
  PROVE  Alone'
<1>1. Bounded'
  BY StepBounded DEF Alone, Step
<1>2. A' = A /\ regs' = regs /\ round' = round + 1 /\ pos'[1] = 0 /\ round < Len(Teams)
  BY DEF NextRound
<1>3. ~ Running(1)
  BY DEF NextRound, RoundDone
<1>4. regs[1] = <<>>
  BY <1>3 DEF Alone, Bounded, RegistersBounded, Running
<1>5. Len(regs[1]) = 0
  BY <1>4
<1>6. n * n * n \in Nat
  BY DEF Graph
<1>7. Loaded'
  BY <1>2, <1>5, <1>6 DEF Loaded
<1>8. Reached(A, pos[1])'
  BY <1>2, Beginning DEF Graph
<1>9. Shrinks' /\ round' \in 1 .. Len(Teams)
  <2>1. Len(Teams) \in Nat
    BY DEF Rounds
  <2> QED BY <2>1, <1>2 DEF Alone, Shrinks
<1> QED BY <1>1, <1>7, <1>8, <1>9 DEF Alone

\* A matrix without a shorter detour, at most the weights, is the distances.
LEMMA AloneEnds ==
  ASSUME Graph, Greatest, Rounds, Thread = {1}, Alone, RoundDone
  PROVE  A = Dist
<1>1. pos[1] \notin Iteration
  <2>1. Teams[round] \in Nat \ {0}
    BY DEF Rounds, Alone
  <2>2. ~ Running(1)
    BY DEF RoundDone
  <2> QED BY <2>1, <2>2 DEF Running
<1>2. Closed(A, n)
  BY <1>1 DEF Alone, Reached
<1>3. A \in [V \X V -> Int] /\ \A e \in V \X V : Dist[e] <= A[e]
  BY DEF Alone, Bounded, MatrixBounded
<1>4. \A i, j, m \in V : A[<<i, j>>] <= A[<<i, m>>] + A[<<m, j>>]
  <2>1. \A m \in V : m < n
    BY DEF V, Graph
  <2> QED BY <2>1, <1>2 DEF Closed
<1>5. Metric(A)
  BY <1>3, <1>4 DEF Metric, Alone, Shrinks
<1>6. \A e \in V \X V : A[e] <= Dist[e]
  BY <1>5 DEF Greatest
<1>7. Dist \in [V \X V -> Int]
  BY DEF Graph, Metric
<1>8. \A e \in V \X V : A[e] = Dist[e]
  BY <1>3, <1>6, <1>7
<1> QED BY <1>3, <1>7, <1>8

LEMMA StepAlone ==
  ASSUME Graph, Rounds, Thread = {1}, Alone, [Step \/ Over]_vars
  PROVE  Alone'
<1>1. ASSUME NEW t \in Thread, Load(t) PROVE Alone'
  <2>1. t = 1
    OBVIOUS
  <2> QED BY <1>1, <2>1, LoadAlone
<1>2. ASSUME NEW t \in Thread, Store(t) PROVE Alone'
  <2>1. t = 1
    OBVIOUS
  <2> QED BY <1>2, <2>1, StoreAlone
<1>3. CASE NextRound
  BY <1>3, NextRoundAlone
<1>4. CASE UNCHANGED vars
  BY <1>4 DEF vars, Alone, Bounded, MatrixBounded, Position, RegistersBounded,
              Loaded, Shrinks, Reached, Nearly, Passed, Tested, Closed
<1> QED BY <1>1, <1>2, <1>3, <1>4 DEF Step, Over

LEMMA AloneExact ==
  ASSUME Graph, Greatest, Rounds, Thread = {1}, Alone
  PROVE  ShortestPaths /\ ExactAlone
<1>1. ShortestPaths
  BY AloneEnds DEF ShortestPaths
<1>2. Fits
  BY DEF Fits, Graph
<1>3. ExactAlone
  BY <1>2, AloneEnds DEF ExactAlone, Ended
<1> QED BY <1>1, <1>3

(***************************************************************************)
(* One thread ends every round with the distances, and so do the programs  *)
(* with a sequential loop (floyd_warshall_omp_static.c, reference.c), if   *)
(* no cycle is negative.  Two threads need not: that is what the run       *)
(* omp_race shows.                                                         *)
(***************************************************************************)
THEOREM DistancesAlone ==
  ASSUME Graph, Greatest, Rounds, Thread = {1}
  PROVE  Spec => [](ShortestPaths /\ ExactAlone)
<1>1. Init => Alone
  BY InitAlone
<1>2. Alone /\ [Step \/ Over]_vars => Alone'
  BY StepAlone
<1>3. Alone => ShortestPaths /\ ExactAlone
  BY AloneExact
<1> QED BY <1>1, <1>2, <1>3, PTL DEF Spec

-----------------------------------------------------------------------------
(* One thread and a sum that does not fit: from x to 0 or back there is no *)
(* edge, INT_MAX stands for it, and the sum of the two turns negative.     *)
Spoils(x) ==
  /\ Words /\ x \in V
  /\ \A e \in V \X V : 0 <= Weight[e] /\ Wrap(Weight[e]) = Weight[e]
  /\ Weight[<<0, 0>>] = 0
  /\ Wrap(Weight[<<x, 0>>] + Weight[<<0, x>>]) < 0
  /\ Dist[<<x, x>>] >= 0

\* The iteration of the intermediate vertex 0 that looks for a way from x to x.
Detour(x) == x * n + x

Smaller(M, p) == Wrap(M[Loads[p][2]] + M[Loads[p][3]]) < M[Loads[p][1]]

\* What the thread has loaded is still true.
Current ==
  /\ \A m \in 1 .. Len(regs[1]) : regs[1][m] = A[Loads[pos[1]][m]]
  /\ Len(regs[1]) >= 3 => Smaller(A, pos[1])

\* The elements of that detour are the weights until it is taken, and then
\* the way from x to itself is shorter than nothing.
Spoiling(x) ==
  IF round = 1 /\ pos[1] <= Detour(x)
  THEN \A e \in {0, x} \X {0, x} : A[e] = Weight[e]
  ELSE A[<<x, x>>] < 0

Spoilt(x) == TypeOK /\ Current /\ Spoiling(x)

LEMMA DetourPlace ==
  ASSUME n \in Nat, NEW x \in V
  PROVE  /\ Detour(x) \in Iteration /\ Detour(x) \in Nat
         /\ Place(Detour(x)) = [k |-> 0, i |-> x, j |-> x]
         /\ \A p \in Iteration : p <= Detour(x) => Place(p).k = 0
         /\ \A p \in Iteration :
              p <= Detour(x) /\ Place(p).i = x /\ Place(p).j = x => p = Detour(x)
<1> DEFINE d == x * n + x
<1>1. n \in Nat \ {0} /\ x \in Nat /\ x + 1 <= n /\ d \in Nat
  BY DEF V
<1>2. d < n * n
  <2>1. (x + 1) * n <= n * n
    BY <1>1, TimesMonotone
  <2>2. (x + 1) * n = x * n + n /\ x * n \in Nat /\ n * n \in Nat
    BY <1>1
  <2> QED BY <1>1, <2>1, <2>2
<1>3. n * n \in Nat \ {0} /\ n * n <= n * n * n
  <2>1. n * n \in Nat \ {0}
    BY <1>1
  <2>2. 1 * (n * n) <= n * (n * n)
    BY <1>1, <2>1, TimesMonotone
  <2>3. n * (n * n) = n * n * n /\ 1 * (n * n) = n * n
    BY <1>1
  <2> QED BY <2>1, <2>2, <2>3
<1>4. \A p \in Nat : p < n * n => p \div (n * n) = 0
  <2> SUFFICES ASSUME NEW p \in Nat, p < n * n PROVE p \div (n * n) = 0
    OBVIOUS
  <2> DEFINE m == n * n
  <2>1. m \in Nat \ {0} /\ p < m
    BY <1>3
  <2> HIDE DEF m
  <2>2. 0 * m <= p /\ p < (0 + 1) * m
    BY <2>1
  <2>3. p \div m = 0
    BY <2>1, <2>2, DivUnique
  <2> QED BY <2>3 DEF m
<1>5. d \div n = x /\ d % n = x
  BY <1>1, ModUnique
<1>6. x % n = x
  <2>1. x = 0 * n + x /\ x < n
    BY <1>1
  <2> QED BY <1>1, <2>1, ModUnique
<1>7. d \in Iteration /\ Place(d) = [k |-> 0, i |-> x, j |-> x]
  <2>1. n * n * n \in Nat
    BY <1>1
  <2> HIDE DEF d
  <2> QED BY <1>1, <1>2, <1>3, <1>4, <1>5, <1>6, <2>1 DEF Iteration, Place
<1>8. ASSUME NEW p \in Iteration, p <= d
      PROVE  Place(p).k = 0 /\ (Place(p).i = x /\ Place(p).j = x => p = d)
  <2>1. p \in Nat /\ p < n * n
    <3> HIDE DEF d
    <3> QED BY <1>1, <1>2, <1>3, <1>8 DEF Iteration
  <2>2. Place(p).k = 0
    BY <1>4, <2>1 DEF Place
  <2>3. ASSUME Place(p).i = x, Place(p).j = x
        PROVE  p = d
    <3> DEFINE q == p \div n
    <3>1. q \in Nat /\ q % n = x /\ p % n = x
      BY <1>1, <2>1, <2>3 DEF Place
    <3>2. q < n
      <4>1. q * n <= p
        BY <1>1, <2>1, DivBounds
      <4> HIDE DEF q
      <4>2. SUFFICES ASSUME n <= q PROVE FALSE
        BY <1>1, <3>1
      <4>3. n * n <= q * n
        BY <1>1, <3>1, <4>2, TimesMonotone
      <4>4. n * n \in Nat /\ q * n \in Nat
        BY <1>1, <3>1
      <4> QED BY <2>1, <4>1, <4>3, <4>4
    <3>3. q = x
      <4> HIDE DEF q
      <4>1. q = 0 * n + q
        BY <3>1
      <4>2. q % n = q
        BY <1>1, <3>1, <3>2, <4>1, ModUnique
      <4> QED BY <3>1, <4>2
    <3>4. p \in Int /\ n \in Int /\ n > 0
      BY <1>1, <2>1
    <3>5. p = n * (p \div n) + (p % n)
      BY <3>4
    <3>6. q = p \div n /\ n * x = x * n
      BY <1>1
    <3> HIDE DEF q
    <3>7. p = n * q + (p % n)
      BY <3>5, <3>6
    <3>8. p = n * x + x
      BY <3>1, <3>3, <3>7
    <3> QED BY <3>6, <3>8
  <2> QED BY <2>2, <2>3
<1> QED BY <1>1, <1>7, <1>8 DEF Detour

LEMMA InitSpoilt ==
  ASSUME NEW x, Spoils(x), Rounds, Thread = {1}, Init
  PROVE  Spoilt(x)
<1>1. TypeOK
  BY InitTypes DEF Spoils
<1>2. pos[1] = 0 /\ regs[1] = <<>> /\ A = Weight /\ round = 1 /\ Len(<<>>) = 0
  BY DEF Init
<1>3. Current
  BY <1>2 DEF Current
<1>4. Detour(x) \in Nat
  BY DetourPlace DEF Spoils, Words
<1>5. Spoiling(x)
  BY <1>2, <1>4 DEF Spoiling
<1> QED BY <1>1, <1>3, <1>5 DEF Spoilt

\* Up to the detour no iteration makes one of its elements smaller.
LEMMA BeforeDetour ==
  ASSUME NEW x, Spoils(x), NEW p \in Iteration, p <= Detour(x),
         \A e \in {0, x} \X {0, x} : A[e] = Weight[e]
  PROVE  /\ Smaller(A, p) => p = Detour(x) \/ Loads[p][1] \notin {0, x} \X {0, x}
         /\ p = Detour(x) =>
              /\ Loads[p][1] = <<x, x>>
              /\ Wrap(A[Loads[p][2]] + A[Loads[p][3]]) < 0
              /\ A[Loads[p][1]] >= 0
<1> DEFINE i == Place(p).i
           j == Place(p).j
<1>1. /\ 0 \in V /\ x \in V
      /\ \A e \in V \X V : Weight[e] \in Int /\ 0 <= Weight[e] /\ Wrap(Weight[e]) = Weight[e]
  <2>1. 0 \in V
    BY DEF Spoils, Words, V
  <2> QED BY <2>1 DEF Spoils, Words
<1>2. /\ Place(p).k = 0 /\ (i = x /\ j = x => p = Detour(x))
      /\ (p = Detour(x) => i = x /\ j = x)
  BY DetourPlace DEF Spoils, Words
<1>3. /\ Loads[p][1] = <<i, j>>
      /\ Loads[p][2] = <<i, 0>>
      /\ Loads[p][3] = <<0, j>>
  BY <1>2 DEF Loads
<1> HIDE DEF i, j
<1>4. /\ A[<<0, 0>>] = 0 /\ A[<<x, x>>] = Weight[<<x, x>>]
      /\ A[<<x, 0>>] = Weight[<<x, 0>>] /\ A[<<0, x>>] = Weight[<<0, x>>]
  BY DEF Spoils
<1>5. ASSUME Smaller(A, p), p # Detour(x), i \in {0, x}, j \in {0, x}
      PROVE  FALSE
  <2>1. Wrap(A[<<i, 0>>] + A[<<0, j>>]) < A[<<i, j>>]
    BY <1>3, <1>5 DEF Smaller
  <2>2. CASE i = 0
    <3>1. A[<<i, 0>>] + A[<<0, j>>] = Weight[<<i, j>>] /\ A[<<i, j>>] = Weight[<<i, j>>]
      BY <1>1, <1>4, <1>5, <2>2
    <3>2. Wrap(Weight[<<i, j>>]) = Weight[<<i, j>>] /\ Weight[<<i, j>>] \in Int
      BY <1>1, <1>5
    <3> QED BY <2>1, <3>1, <3>2
  <2>3. CASE j = 0
    <3>1. A[<<i, 0>>] + A[<<0, j>>] = Weight[<<i, j>>] /\ A[<<i, j>>] = Weight[<<i, j>>]
      BY <1>1, <1>4, <1>5, <2>3
    <3>2. Wrap(Weight[<<i, j>>]) = Weight[<<i, j>>] /\ Weight[<<i, j>>] \in Int
      BY <1>1, <1>5
    <3> QED BY <2>1, <3>1, <3>2
  <2> QED BY <1>2, <1>5, <2>2, <2>3
<1>6. ASSUME p = Detour(x)
      PROVE  /\ Loads[p][1] = <<x, x>>
             /\ Wrap(A[Loads[p][2]] + A[Loads[p][3]]) < 0
             /\ A[Loads[p][1]] >= 0
  <2>1. i = x /\ j = x
    BY <1>2, <1>6
  <2>2. Weight[<<x, x>>] >= 0
    BY <1>1
  <2> QED BY <1>3, <1>4, <2>1, <2>2 DEF Spoils
<1> QED BY <1>3, <1>5, <1>6

LEMMA LoadSpoilt ==
  ASSUME NEW x, Spoils(x), Thread = {1}, Spoilt(x), Load(1)
  PROVE  Spoilt(x)'
<1> DEFINE p == pos[1]
           l == Len(regs[1]) + 1
           y == A[Loads[p][l]]
           r == Append(regs[1], y)
           over == Len(r) = 3 /\ r[1] <= Wrap(r[2] + r[3])
<1>0. TypeOK'
  BY LoadTypes DEF Spoilt, Spoils
<1>1. p \in Iteration /\ p \in Nat /\ Len(regs[1]) < 5
  BY DEF Load, Running, Iteration
<1>2. /\ regs \in [Thread -> Seq(Int)] /\ regs[1] \in Seq(Int) /\ Len(regs[1]) \in Nat
      /\ pos \in [Thread -> 0 .. n * n * n] /\ A \in [V \X V -> Int]
  BY DEF Spoilt, TypeOK
<1>3. l \in 1 .. 5
  BY <1>1, <1>2
<1>4. \A m \in 1 .. 5 : Loads[p][m] \in V \X V
  BY <1>1, LoadsInRange DEF Spoils, Words
<1>5. y \in Int
  BY <1>2, <1>3, <1>4
<1>6. /\ regs' = [regs EXCEPT ![1] = IF over THEN <<>> ELSE r]
      /\ pos' = [pos EXCEPT ![1] = IF over THEN p + 1 ELSE p]
      /\ A' = A /\ round' = round
  BY DEF Load
<1>7. r \in Seq(Int) /\ Len(r) = l /\ r[l] = y
  BY <1>2, <1>5
<1>8. \A m \in 1 .. l : r[m] = A[Loads[p][m]]
  <2>1. ASSUME NEW m \in 1 .. Len(regs[1]) PROVE r[m] = A[Loads[p][m]]
    <3>1. r[m] = regs[1][m]
      BY <1>2, <1>5
    <3> QED BY <3>1 DEF Spoilt, Current
  <2>2. \A m \in 1 .. l : m = l \/ m \in 1 .. Len(regs[1])
    BY <1>2
  <2> QED BY <2>1, <2>2, <1>7
<1> HIDE DEF y, r
<1>9. l = 3 => (over <=> ~ Smaller(A, p))
  <2>1. SUFFICES ASSUME l = 3 PROVE r[1] <= Wrap(r[2] + r[3]) <=> ~ Smaller(A, p)
    BY <1>7
  <2>2. r[1] = A[Loads[p][1]] /\ r[2] = A[Loads[p][2]] /\ r[3] = A[Loads[p][3]]
    BY <2>1, <1>8
  <2>3. A[Loads[p][1]] \in Int /\ A[Loads[p][2]] + A[Loads[p][3]] \in Int
    BY <1>2, <1>4
  <2>4. Wrap(A[Loads[p][2]] + A[Loads[p][3]]) \in Int
    BY <2>3 DEF Spoils, Words
  <2> QED BY <2>2, <2>3, <2>4 DEF Smaller
<1>10. over => l = 3
  BY <1>7
<1>11. Len(regs[1]) >= 3 => Smaller(A, p)
  BY DEF Spoilt, Current
<1>12. Spoiling(x)
  BY DEF Spoilt
<1> HIDE DEF over
<1>13. CASE over
  <2>1. regs'[1] = <<>> /\ pos'[1] = p + 1 /\ Len(<<>>) = 0
    BY <1>2, <1>6, <1>13
  <2>2. Current'
    BY <1>6, <2>1 DEF Current
  <2>3. Spoiling(x)'
    <3>1. CASE round = 1 /\ p <= Detour(x)
      <4>1. \A e \in {0, x} \X {0, x} : A[e] = Weight[e]
        BY <1>12, <3>1 DEF Spoiling
      <4>2. p # Detour(x)
        <5>1. SUFFICES ASSUME p = Detour(x) PROVE FALSE
          OBVIOUS
        <5>2. Smaller(A, p)
          <6>1. /\ Wrap(A[Loads[p][2]] + A[Loads[p][3]]) < 0
                /\ A[Loads[p][1]] >= 0
            BY <1>1, <3>1, <4>1, <5>1, BeforeDetour
          <6>2. A[Loads[p][1]] \in Int /\ A[Loads[p][2]] + A[Loads[p][3]] \in Int
            BY <1>2, <1>4
          <6>3. Wrap(A[Loads[p][2]] + A[Loads[p][3]]) \in Int
            BY <6>2 DEF Spoils, Words
          <6> QED BY <6>1, <6>2, <6>3 DEF Smaller
        <5> QED BY <1>9, <1>10, <1>13, <5>2
      <4>3. p + 1 <= Detour(x)
        BY <1>1, <3>1, <4>2, DetourPlace DEF Spoils, Words
      <4> QED BY <1>6, <2>1, <3>1, <4>1, <4>3 DEF Spoiling
    <3>2. CASE ~ (round = 1 /\ p <= Detour(x))
      <4>1. ~ (round = 1 /\ p + 1 <= Detour(x))
        BY <1>1, <3>2, DetourPlace DEF Spoils, Words
      <4> QED BY <1>6, <1>12, <2>1, <3>2, <4>1 DEF Spoiling
    <3> QED BY <3>1, <3>2
  <2> QED BY <1>0, <2>2, <2>3 DEF Spoilt
<1>14. CASE ~ over
  <2>1. regs'[1] = r /\ pos'[1] = p
    BY <1>2, <1>6, <1>14
  <2>2. l >= 3 => Smaller(A, p)
    BY <1>2, <1>9, <1>11, <1>14
  <2>3. Current'
    BY <1>6, <1>7, <1>8, <2>1, <2>2 DEF Current, Smaller
  <2>4. Spoiling(x)'
    BY <1>6, <1>12, <2>1 DEF Spoiling
  <2> QED BY <1>0, <2>3, <2>4 DEF Spoilt
<1> QED BY <1>13, <1>14

LEMMA StoreSpoilt ==
  ASSUME NEW x, Spoils(x), Thread = {1}, Spoilt(x), Store(1)
  PROVE  Spoilt(x)'
<1> DEFINE p == pos[1]
           sum == Wrap(A[Loads[p][2]] + A[Loads[p][3]])
<1>0. TypeOK'
  BY StoreTypes DEF Spoilt, Spoils
<1>1. p \in Iteration /\ p \in Nat /\ Len(regs[1]) = 5
  BY DEF Store, Running, Iteration
<1>2. /\ regs \in [Thread -> Seq(Int)]
      /\ pos \in [Thread -> 0 .. n * n * n] /\ A \in [V \X V -> Int]
  BY DEF Spoilt, TypeOK
<1>3. \A m \in 1 .. 5 : Loads[p][m] \in V \X V
  BY <1>1, LoadsInRange DEF Spoils, Words
<1>4. Loads[p][1] \in V \X V /\ sum \in Int /\ sum < A[Loads[p][1]]
  <2>1. A[Loads[p][2]] + A[Loads[p][3]] \in Int
    BY <1>2, <1>3
  <2>2. Smaller(A, p)
    BY <1>1 DEF Spoilt, Current
  <2> QED BY <1>3, <2>1, <2>2 DEF Smaller, Spoils, Words
<1>5. regs[1][4] = A[Loads[p][2]] /\ regs[1][5] = A[Loads[p][3]]
  <2>1. regs[1][4] = A[Loads[p][4]] /\ regs[1][5] = A[Loads[p][5]]
    BY <1>1 DEF Spoilt, Current
  <2> QED BY <2>1, <1>1, DetourLoads
<1>6. /\ A' = [A EXCEPT ![Loads[p][1]] = sum]
      /\ pos' = [pos EXCEPT ![1] = p + 1] /\ regs' = [regs EXCEPT ![1] = <<>>]
      /\ round' = round
  BY <1>5 DEF Store
<1>7. pos'[1] = p + 1 /\ regs'[1] = <<>> /\ Len(<<>>) = 0
  BY <1>2, <1>6
<1>8. Current'
  BY <1>7 DEF Current
<1>9. x \in V /\ 0 \in V /\ Spoiling(x) /\ Smaller(A, p)
  <2>1. 0 \in V
    BY DEF Spoils, Words, V
  <2> QED BY <1>1, <2>1 DEF Spoilt, Current, Spoils
<1> DEFINE e == Loads[p][1]
<1>10. Spoiling(x)'
  <2>1. CASE round = 1 /\ p <= Detour(x)
    <3>1. \A f \in {0, x} \X {0, x} : A[f] = Weight[f]
      BY <1>9, <2>1 DEF Spoiling
    <3>2. CASE p = Detour(x)
      <4>1. e = <<x, x>> /\ sum < 0
        BY <1>1, <2>1, <3>1, <3>2, BeforeDetour
      <4>2. A'[<<x, x>>] < 0
        <5> HIDE DEF sum, e
        <5>1. A' = [A EXCEPT ![<<x, x>>] = sum]
          BY <1>6, <4>1 DEF e
        <5> QED BY <1>2, <1>9, <4>1, <5>1
      <4>3. ~ (p + 1 <= Detour(x))
        BY <1>1, <3>2
      <4> QED BY <1>7, <4>2, <4>3 DEF Spoiling
    <3>3. CASE p # Detour(x)
      <4>1. e \notin {0, x} \X {0, x}
        BY <1>1, <1>9, <2>1, <3>1, <3>3, BeforeDetour
      <4>2. \A f \in {0, x} \X {0, x} : A'[f] = A[f]
        <5>1. \A f \in {0, x} \X {0, x} : f \in V \X V
          BY <1>9
        <5> HIDE DEF sum, e
        <5> QED BY <1>2, <1>6, <4>1, <5>1 DEF e
      <4>3. p + 1 <= Detour(x)
        <5>1. Detour(x) \in Nat
          BY DetourPlace DEF Spoils, Words
        <5> QED BY <1>1, <2>1, <3>3, <5>1
      <4> QED BY <1>6, <1>7, <2>1, <3>1, <4>2, <4>3 DEF Spoiling
    <3> QED BY <3>2, <3>3
  <2>2. CASE ~ (round = 1 /\ p <= Detour(x))
    <3>1. ~ (round = 1 /\ p + 1 <= Detour(x))
      BY <1>1, <2>2, DetourPlace DEF Spoils, Words
    <3>2. A[<<x, x>>] < 0
      BY <1>9, <2>2 DEF Spoiling
    <3>3. A'[<<x, x>>] < 0
      <4>1. <<x, x>> \in V \X V /\ A[<<x, x>>] \in Int
        BY <1>2, <1>9
      <4> HIDE DEF sum
      <4>2. CASE e = <<x, x>>
        BY <1>2, <1>4, <1>6, <3>2, <4>1, <4>2
      <4>3. CASE e # <<x, x>>
        BY <1>2, <1>6, <3>2, <4>1, <4>3
      <4> QED BY <4>2, <4>3
    <3> QED BY <1>6, <1>7, <3>1, <3>3 DEF Spoiling
  <2> QED BY <2>1, <2>2
<1> QED BY <1>0, <1>8, <1>10 DEF Spoilt

\* When the thread is through it is past the detour.
LEMMA PastDetour ==
  ASSUME NEW x, Spoils(x), Rounds, Thread = {1}, Spoilt(x), RoundDone
  PROVE  A[<<x, x>>] < 0 /\ regs[1] = <<>>
<1>1. ~ Running(1)
  BY DEF RoundDone
<1>2. 1 <= Teams[round]
  <2>1. Teams[round] \in Nat \ {0}
    BY DEF Rounds, Spoilt, TypeOK
  <2> QED BY <2>1
<1>3. pos[1] \in 0 .. n * n * n /\ pos[1] \notin Iteration
  BY <1>1, <1>2 DEF Running, Spoilt, TypeOK
<1>4. ~ (pos[1] <= Detour(x))
  <2>1. Detour(x) \in Nat /\ Detour(x) <= n * n * n - 1 /\ n * n * n \in Nat
    BY DetourPlace DEF Spoils, Words, Iteration
  <2> QED BY <1>3, <2>1 DEF Iteration
<1> QED BY <1>1, <1>4 DEF Spoilt, Spoiling, TypeOK

LEMMA StepSpoilt ==
  ASSUME NEW x, Spoils(x), Rounds, Thread = {1}, Spoilt(x), [Step \/ Over]_vars
  PROVE  Spoilt(x)'
<1>0. TypeOK'
  BY StepTypes DEF Spoilt, Spoils
<1>1. ASSUME NEW t \in Thread, Load(t) PROVE Spoilt(x)'
  <2>1. t = 1
    OBVIOUS
  <2> QED BY <1>1, <2>1, LoadSpoilt
<1>2. ASSUME NEW t \in Thread, Store(t) PROVE Spoilt(x)'
  <2>1. t = 1
    OBVIOUS
  <2> QED BY <1>2, <2>1, StoreSpoilt
<1>3. CASE NextRound
  <2>1. A' = A /\ regs' = regs /\ round' = round + 1
    BY <1>3 DEF NextRound
  <2>2. A[<<x, x>>] < 0 /\ regs[1] = <<>> /\ Len(<<>>) = 0
    BY <1>3, PastDetour DEF NextRound
  <2>3. round' # 1
    BY <2>1 DEF Spoilt, TypeOK
  <2>4. Current' /\ Spoiling(x)'
    BY <2>1, <2>2, <2>3 DEF Current, Spoiling
  <2> QED BY <1>0, <2>4 DEF Spoilt
<1>4. CASE UNCHANGED vars
  <2>1. Current' /\ Spoiling(x)'
    BY <1>4 DEF vars, Spoilt, Current, Smaller, Spoiling
  <2> QED BY <1>0, <2>1 DEF Spoilt
<1> QED BY <1>1, <1>2, <1>3, <1>4 DEF Step, Over

LEMMA SpoiltWrong ==
  ASSUME NEW x, Spoils(x), Rounds, Thread = {1}, Spoilt(x)
  PROVE  RoundDone => A # Dist
<1>1. SUFFICES ASSUME RoundDone PROVE A # Dist
  OBVIOUS
<1>2. A[<<x, x>>] < 0
  BY <1>1, PastDetour
<1>3. A[<<x, x>>] \in Int /\ Dist[<<x, x>>] >= 0
  BY DEF Spoils, Spoilt, TypeOK
<1> QED BY <1>2, <1>3

(***************************************************************************)
(* A sum of INT_MAX, which stands for a missing edge, and an edge between  *)
(* x and vertex 0 turns negative and is taken for a way (reference.c:23):  *)
(* no round of the one thread ends with the distances.  ShortestPaths is   *)
(* not only violated for the graph of the run omp_race.                    *)
(***************************************************************************)
THEOREM MissingWrong ==
  ASSUME NEW x, Spoils(x), Rounds, Thread = {1}
  PROVE  Spec => [](RoundDone => A # Dist)
<1>1. Init => Spoilt(x)
  BY InitSpoilt
<1>2. Spoilt(x) /\ [Step \/ Over]_vars => Spoilt(x)'
  BY StepSpoilt
<1>3. Spoilt(x) => (RoundDone => A # Dist)
  BY SpoiltWrong
<1> QED BY <1>1, <1>2, <1>3, PTL DEF Spec
=============================================================================
