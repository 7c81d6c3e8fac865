------------------------------ MODULE OmpProofs ------------------------------
(***************************************************************************)
(* What the runs of the OpenMP programs check holds for any graph, any     *)
(* order of the matrices, any sizes and any numbers of threads.            *)
(*                                                                         *)
(* Of the shortest paths and of the sieve the proofs are in FloydProofs    *)
(* and SieveProofs: here the programs are shown to be instances of them.   *)
(* The product is proved here.  Its threads divide the iterations among    *)
(* themselves, each is of one thread, and an element is what as many       *)
(* additions make of 0 as are done, or less if two threads add to it.      *)
(***************************************************************************)
EXTENDS Omp, FiniteSetTheorems, WellFoundedInduction, TLAPS

-----------------------------------------------------------------------------
(* Walks.                                                                  *)

\* Every set of natural numbers has a least one.
LEMMA LeastNumber ==
  ASSUME NEW T, T \subseteq Nat, T # {}
  PROVE  \E x \in T : \A y \in T : x <= y
<1> DEFINE Less == {p \in Nat \X Nat : p[1] < p[2]}
<1>1. IsWellFoundedOn(Less, Nat)
  BY NatLessThanWellFounded DEF OpToRel
<1>2. PICK x \in T : \A y \in T : ~ (<<y, x>> \in Less)
  BY <1>1, WFMin
<1>3. \A y \in T : ~ (y < x)
  BY <1>2
<1> QED BY <1>3

\* A set of integers that are all at least some number has a minimum.
LEMMA MinAtLeast ==
  ASSUME NEW S, S \subseteq Int, S # {}, NEW d \in Int, \A x \in S : d <= x
  PROVE  Min(S) \in S /\ d <= Min(S)
<1> DEFINE T == {x - d : x \in S}
<1>1. T \subseteq Nat /\ T # {}
  <2>1. \A x \in S : x - d \in Nat
    OBVIOUS
  <2> QED BY <2>1
<1>2. PICK y \in T : \A z \in T : y <= z
  <2> HIDE DEF T
  <2> QED BY <1>1, LeastNumber
<1>3. PICK x \in S : y = x - d
  BY <1>2
<1>4. \A z \in S : x <= z
  <2>1. SUFFICES ASSUME NEW z \in S PROVE x <= z
    OBVIOUS
  <2>2. z - d \in T
    OBVIOUS
  <2>3. y <= z - d
    <3> HIDE DEF T
    <3> QED BY <1>2, <2>2
  <2> HIDE DEF T
  <2> QED BY <1>3, <2>3
<1>5. Min(S) = CHOOSE u \in S : \A z \in S : u <= z
  BY DEF Min
<1>6. Min(S) \in S
  BY <1>3, <1>4, <1>5
<1> QED BY <1>6

\* The walks of up to m edges of a graph.
Table(graph, w, m) ==
  w = [i \in 1 .. m |-> IF i = 1 THEN graph.weight ELSE Longer(graph, w[i - 1])]

LEMMA TableExists ==
  ASSUME NEW graph, graph.n \in Nat \ {0}
  PROVE  Table(graph, Walks(graph), graph.n)
<1> DEFINE Bad == {m \in 1 .. graph.n : ~ \E w : Table(graph, w, m)}
<1>1. Bad = {}
  <2>1. SUFFICES ASSUME Bad # {} PROVE FALSE
    OBVIOUS
  <2>2. Bad \subseteq Nat
    OBVIOUS
  <2>3. PICK m \in Bad : \A y \in Bad : m <= y
    <3> HIDE DEF Bad
    <3> QED BY <2>1, <2>2, LeastNumber
  <2>4. CASE m = 1
    <3>1. Table(graph, [i \in 1 .. 1 |-> graph.weight], 1)
      BY DEF Table
    <3> QED BY <2>3, <2>4, <3>1
  <2>5. CASE m # 1
    <3>1. m \in 1 .. graph.n /\ m - 1 \in 1 .. graph.n /\ m - 1 \notin Bad
      <4>1. m \in 1 .. graph.n
        OBVIOUS
      <4> HIDE DEF Bad
      <4> QED BY <2>3, <2>5, <4>1
    <3>2. PICK w : Table(graph, w, m - 1)
      BY <3>1
    <3> DEFINE v == [i \in 1 .. m |-> IF i < m THEN w[i] ELSE Longer(graph, w[m - 1])]
    <3>3. ASSUME NEW i \in 1 .. m
          PROVE  v[i] = IF i = 1 THEN graph.weight ELSE Longer(graph, v[i - 1])
      <4>1. CASE i < m
        <5>1. i \in 1 .. m - 1
          BY <4>1, <3>1
        <5>2. w[i] = IF i = 1 THEN graph.weight ELSE Longer(graph, w[i - 1])
          BY <5>1, <3>2 DEF Table
        <5>3. i # 1 => v[i - 1] = w[i - 1]
          BY <5>1
        <5> QED BY <4>1, <5>2, <5>3
      <4>2. CASE i = m
        <5>1. v[i - 1] = w[m - 1]
          BY <4>2, <2>5, <3>1
        <5> QED BY <4>2, <2>5, <5>1
      <4> QED BY <4>1, <4>2, <3>1
    <3>4. DOMAIN v = 1 .. m
      OBVIOUS
    <3>5. Table(graph, v, m)
      <4>1. v = [i \in 1 .. m |-> v[i]]
        OBVIOUS
      <4> HIDE DEF v
      <4> QED BY <4>1, <3>3 DEF Table
    <3> HIDE DEF v
    <3> QED BY <2>3, <3>5
  <2> QED BY <2>4, <2>5
<1>2. \E w : Table(graph, w, graph.n)
  <2>1. graph.n \notin Bad
    <3> HIDE DEF Bad
    <3> QED BY <1>1
  <2> QED BY <2>1
<1> QED BY <1>2 DEF Table, Walks

\* What is like distances is at most as long as any walk.
LEMMA WalksNotShorter ==
  ASSUME NEW graph, graph.n \in Nat \ {0}, NEW V, V = 0 .. graph.n - 1,
         graph.weight \in [V \X V -> Int],
         NEW D, D \in [V \X V -> Int], \A e \in V \X V : D[e] <= graph.weight[e],
         \A i, k, l \in V : D[<<i, l>>] <= D[<<i, k>>] + D[<<k, l>>]
  PROVE  /\ Distances(graph) \in [V \X V -> Int]
         /\ \A e \in V \X V : D[e] <= Distances(graph)[e]
<1> DEFINE w == Walks(graph)
           Good(u) == u \in [V \X V -> Int] /\ \A e \in V \X V : D[e] <= u[e]
           Bad == {m \in 1 .. graph.n : ~ Good(w[m])}
<1>1. \A m \in 1 .. graph.n :
        w[m] = IF m = 1 THEN graph.weight ELSE Longer(graph, w[m - 1])
  BY TableExists DEF Table
<1>2. ASSUME NEW u, Good(u) PROVE Good(Longer(graph, u))
  <2> DEFINE sums(e) == {u[e[1], k] + graph.weight[k, e[2]] : k \in V}
  <2>1. Longer(graph, u) = [e \in V \X V |-> Min(sums(e))]
    BY DEF Longer
  <2>2. ASSUME NEW e \in V \X V PROVE Min(sums(e)) \in Int /\ D[e] <= Min(sums(e))
    <3>1. PICK i, l \in V : e = <<i, l>>
      OBVIOUS
    <3>2. ASSUME NEW k \in V
          PROVE  /\ u[<<i, k>>] + graph.weight[<<k, l>>] \in Int
                 /\ D[e] <= u[<<i, k>>] + graph.weight[<<k, l>>]
      <4>1. <<i, k>> \in V \X V /\ <<k, l>> \in V \X V
        OBVIOUS
      <4>2. u[<<i, k>>] \in Int /\ D[<<i, k>>] \in Int /\ D[<<i, k>>] <= u[<<i, k>>]
        BY <4>1, <1>2
      <4>3. /\ graph.weight[<<k, l>>] \in Int /\ D[<<k, l>>] \in Int
            /\ D[<<k, l>>] <= graph.weight[<<k, l>>]
        BY <4>1
      <4>4. D[e] \in Int /\ D[e] <= D[<<i, k>>] + D[<<k, l>>]
        BY <3>1
      <4>5. \A a, b, c, d, s \in Int : c <= a /\ d <= b /\ s <= c + d => a + b \in Int /\ s <= a + b
        OBVIOUS
      <4> HIDE DEF Good
      <4> QED BY ONLY <4>2, <4>3, <4>4, <4>5
    <3>3. sums(e) = {u[<<i, k>>] + graph.weight[<<k, l>>] : k \in V}
      BY <3>1
    <3>4. sums(e) \subseteq Int /\ \A x \in sums(e) : D[e] <= x
      BY <3>2, <3>3
    <3>5. PICK k \in V : TRUE
      <4>1. 0 \in V
        OBVIOUS
      <4> QED BY <4>1
    <3>6. u[<<i, k>>] + graph.weight[<<k, l>>] \in sums(e)
      BY <3>3, <3>5
    <3>7. D[e] \in Int
      OBVIOUS
    <3> HIDE DEF sums
    <3> QED BY <3>4, <3>6, <3>7, MinAtLeast
  <2> HIDE DEF sums
  <2> QED BY <2>1, <2>2
<1> HIDE DEF w
<1>3. Good(graph.weight)
  OBVIOUS
<1>4. Bad = {}
  <2>1. SUFFICES ASSUME Bad # {} PROVE FALSE
    OBVIOUS
  <2>2. Bad \subseteq Nat
    OBVIOUS
  <2>3. PICK m \in Bad : \A y \in Bad : m <= y
    <3> HIDE DEF Bad
    <3> QED BY <2>1, <2>2, LeastNumber
  <2>4. m \in 1 .. graph.n /\ ~ Good(w[m])
    BY <2>3
  <2>5. m # 1
    BY <1>1, <1>3, <2>4
  <2>6. m - 1 \in 1 .. graph.n /\ m - 1 \notin Bad
    <3> HIDE DEF Bad
    <3> QED BY <2>3, <2>4, <2>5
  <2>7. Good(w[m - 1])
    BY <2>6
  <2> HIDE DEF Good
  <2> QED BY <1>1, <1>2, <2>4, <2>5, <2>7
<1>5. Good(w[graph.n])
  <2>1. graph.n \notin Bad
    <3> HIDE DEF Bad
    <3> QED BY <1>4
  <2> HIDE DEF Good
  <2> QED BY <2>1
<1> QED BY <1>5 DEF Distances, w

-----------------------------------------------------------------------------
(* Shortest paths.                                                         *)

RaceP == INSTANCE FloydProofs WITH n <- RaceGraph.n, Weight <- RaceGraph.weight,
  Dist <- RaceDist, Teams <- RaceTeams, Wrap <- Wide

LEMMA RaceSame ==
  /\ Race!Init => RaceP!Init
  /\ Race!Step \/ UNCHANGED rounds => [RaceP!Step \/ RaceP!Over]_(RaceP!vars)
  /\ RaceP!TypeOK => Race!TypeOK
<1>1. /\ Race!V = RaceP!V /\ Race!Thread = RaceP!Thread /\ Race!Iteration = RaceP!Iteration
      /\ Race!Loads = RaceP!Loads
  BY DEF Race!V, RaceP!V, Race!Thread, RaceP!Thread, Race!Iteration, RaceP!Iteration,
     Race!Loads, RaceP!Loads, Race!Place, RaceP!Place
<1>2. \A t : Race!Running(t) <=> RaceP!Running(t)
  BY <1>1 DEF Race!Running, RaceP!Running
<1>3. Race!Step => RaceP!Step
  <2>1. ASSUME NEW t PROVE (Race!Load(t) => RaceP!Load(t)) /\ (Race!Store(t) => RaceP!Store(t))
    BY <1>1, <1>2 DEF Race!Load, RaceP!Load, Race!Store, RaceP!Store
  <2>2. Race!NextRound => RaceP!NextRound
    BY <1>1, <1>2 DEF Race!NextRound, RaceP!NextRound, Race!RoundDone, RaceP!RoundDone
  <2> QED BY <1>1, <2>1, <2>2 DEF Race!Step, RaceP!Step
<1>4. Race!Init => RaceP!Init
  BY <1>1 DEF Race!Init, RaceP!Init
<1>5. RaceP!TypeOK => Race!TypeOK
  BY <1>1, <1>2 DEF Race!TypeOK, RaceP!TypeOK
<1>6. UNCHANGED rounds => UNCHANGED RaceP!vars
  BY DEF rounds, RaceP!vars
<1> QED BY <1>3, <1>4, <1>5, <1>6

CalmP == INSTANCE FloydProofs WITH n <- CalmGraph.n, Weight <- CalmGraph.weight,
  Dist <- CalmGraph.weight, Teams <- CalmTeams, Wrap <- Wide

LEMMA CalmSame ==
  /\ Calm!Init => CalmP!Init
  /\ Calm!Step \/ UNCHANGED rounds => [CalmP!Step \/ CalmP!Over]_(CalmP!vars)
  /\ CalmP!TypeOK => Calm!TypeOK
<1>1. /\ Calm!V = CalmP!V /\ Calm!Thread = CalmP!Thread /\ Calm!Iteration = CalmP!Iteration
      /\ Calm!Loads = CalmP!Loads
  BY DEF Calm!V, CalmP!V, Calm!Thread, CalmP!Thread, Calm!Iteration, CalmP!Iteration,
     Calm!Loads, CalmP!Loads, Calm!Place, CalmP!Place
<1>2. \A t : Calm!Running(t) <=> CalmP!Running(t)
  BY <1>1 DEF Calm!Running, CalmP!Running
<1>3. Calm!Step => CalmP!Step
  <2>1. ASSUME NEW t PROVE (Calm!Load(t) => CalmP!Load(t)) /\ (Calm!Store(t) => CalmP!Store(t))
    BY <1>1, <1>2 DEF Calm!Load, CalmP!Load, Calm!Store, CalmP!Store
  <2>2. Calm!NextRound => CalmP!NextRound
    BY <1>1, <1>2 DEF Calm!NextRound, CalmP!NextRound, Calm!RoundDone, CalmP!RoundDone
  <2> QED BY <1>1, <2>1, <2>2 DEF Calm!Step, CalmP!Step
<1>4. Calm!Init => CalmP!Init
  BY <1>1 DEF Calm!Init, CalmP!Init
<1>5. CalmP!TypeOK => Calm!TypeOK
  BY <1>1, <1>2 DEF Calm!TypeOK, CalmP!TypeOK
<1>6. UNCHANGED rounds => UNCHANGED CalmP!vars
  BY DEF rounds, CalmP!vars
<1> QED BY <1>3, <1>4, <1>5, <1>6

AloneP == INSTANCE FloydProofs WITH n <- AloneGraph.n, Weight <- AloneGraph.weight,
  Dist <- AloneDist, Teams <- <<1>>, Wrap <- Wide

LEMMA AloneSame ==
  /\ Alone!Init => AloneP!Init
  /\ Alone!Step \/ UNCHANGED rounds => [AloneP!Step \/ AloneP!Over]_(AloneP!vars)
  /\ AloneP!TypeOK => Alone!TypeOK
<1>1. /\ Alone!V = AloneP!V /\ Alone!Thread = AloneP!Thread /\ Alone!Iteration = AloneP!Iteration
      /\ Alone!Loads = AloneP!Loads
  BY DEF Alone!V, AloneP!V, Alone!Thread, AloneP!Thread, Alone!Iteration, AloneP!Iteration,
     Alone!Loads, AloneP!Loads, Alone!Place, AloneP!Place
<1>2. \A t : Alone!Running(t) <=> AloneP!Running(t)
  BY <1>1 DEF Alone!Running, AloneP!Running
<1>3. Alone!Step => AloneP!Step
  <2>1. ASSUME NEW t PROVE (Alone!Load(t) => AloneP!Load(t)) /\ (Alone!Store(t) => AloneP!Store(t))
    BY <1>1, <1>2 DEF Alone!Load, AloneP!Load, Alone!Store, AloneP!Store
  <2>2. Alone!NextRound => AloneP!NextRound
    BY <1>1, <1>2 DEF Alone!NextRound, AloneP!NextRound, Alone!RoundDone, AloneP!RoundDone
  <2> QED BY <1>1, <2>1, <2>2 DEF Alone!Step, AloneP!Step
<1>4. Alone!Init => AloneP!Init
  BY <1>1 DEF Alone!Init, AloneP!Init
<1>5. AloneP!TypeOK => Alone!TypeOK
  BY <1>1, <1>2 DEF Alone!TypeOK, AloneP!TypeOK
<1>6. UNCHANGED rounds => UNCHANGED AloneP!vars
  BY DEF rounds, AloneP!vars
<1> QED BY <1>3, <1>4, <1>5, <1>6

MissingP == INSTANCE FloydProofs WITH n <- MissingGraph.n, Weight <- MissingGraph.weight,
  Dist <- MissingDist, Teams <- <<1>>, Wrap <- Narrow

LEMMA MissingSame ==
  /\ Missing!Init => MissingP!Init
  /\ Missing!Step \/ UNCHANGED rounds => [MissingP!Step \/ MissingP!Over]_(MissingP!vars)
  /\ MissingP!TypeOK => Missing!TypeOK
  /\ Missing!RoundDone => MissingP!RoundDone
<1>1. /\ Missing!V = MissingP!V /\ Missing!Thread = MissingP!Thread /\ Missing!Iteration = MissingP!Iteration
      /\ Missing!Loads = MissingP!Loads
  BY DEF Missing!V, MissingP!V, Missing!Thread, MissingP!Thread, Missing!Iteration, MissingP!Iteration,
     Missing!Loads, MissingP!Loads, Missing!Place, MissingP!Place
<1>2. \A t : Missing!Running(t) <=> MissingP!Running(t)
  BY <1>1 DEF Missing!Running, MissingP!Running
<1>3. Missing!Step => MissingP!Step
  <2>1. ASSUME NEW t PROVE (Missing!Load(t) => MissingP!Load(t)) /\ (Missing!Store(t) => MissingP!Store(t))
    BY <1>1, <1>2 DEF Missing!Load, MissingP!Load, Missing!Store, MissingP!Store
  <2>2. Missing!NextRound => MissingP!NextRound
    BY <1>1, <1>2 DEF Missing!NextRound, MissingP!NextRound, Missing!RoundDone, MissingP!RoundDone
  <2> QED BY <1>1, <2>1, <2>2 DEF Missing!Step, MissingP!Step
<1>4. Missing!Init => MissingP!Init
  BY <1>1 DEF Missing!Init, MissingP!Init
<1>5. MissingP!TypeOK => Missing!TypeOK
  BY <1>1, <1>2 DEF Missing!TypeOK, MissingP!TypeOK
<1>6. UNCHANGED rounds => UNCHANGED MissingP!vars
  BY DEF rounds, MissingP!vars
<1>7. Missing!RoundDone => MissingP!RoundDone
  BY <1>1, <1>2 DEF MissingP!RoundDone, Missing!RoundDone
<1> QED BY <1>3, <1>4, <1>5, <1>6, <1>7

-----------------------------------------------------------------------------
(***************************************************************************)
(* What an int keeps: numbers it has room for, and a negative one of those *)
(* up to twice INT_MAX + 1.                                                *)
(***************************************************************************)
LEMMA NarrowOf ==
  /\ Half \in Nat
  /\ \A x \in Int : Narrow(x) \in Int
  /\ \A x \in 0 .. Half - 1 : Narrow(x) = x
  /\ \A x \in Half .. 2 * Half - 1 : Narrow(x) < 0
<1> DEFINE w == 2 * Half
<1>1. Half \in Nat /\ Half > 0
  <2>1. Half \in Nat \ {0}
    BY OmpAssumption
  <2> QED BY <2>1
<1>2. w \in Nat /\ w > 0 /\ w = Half + Half
  BY <1>1
<1> HIDE DEF w
<1>3. \A x \in Int : x % w \in 0 .. w - 1
  BY <1>2
<1>4. \A x \in 0 .. w - 1 : x % w = x
  BY <1>2
<1>5. \A x \in 0 .. w - 1 : (x + w) % w = x
  BY <1>2
<1>6. \A x : Narrow(x) = ((x + Half) % w) - Half
  BY DEF Narrow, w
<1>7. ASSUME NEW x \in Int PROVE Narrow(x) \in Int
  BY <1>1, <1>3, <1>6
<1>8. ASSUME NEW x \in 0 .. Half - 1 PROVE Narrow(x) = x
  <2>1. x + Half \in 0 .. w - 1
    BY <1>1, <1>2
  <2>2. (x + Half) % w = x + Half
    BY <1>4, <2>1
  <2> QED BY <1>1, <1>6, <2>2
<1>9. ASSUME NEW x \in Half .. w - 1 PROVE Narrow(x) < 0
  <2>1. PICK y \in 0 .. Half - 1 : x = y + Half
    <3>1. x - Half \in 0 .. Half - 1 /\ x = (x - Half) + Half
      BY <1>1, <1>2
    <3> QED BY <3>1
  <2>2. x + Half = y + w /\ y \in 0 .. w - 1
    BY <1>1, <1>2, <2>1
  <2>3. (x + Half) % w = y
    BY <1>5, <2>2
  <2> QED BY <1>1, <1>6, <2>1, <2>3
<1> QED BY <1>1, <1>7, <1>8, <1>9 DEF w

LEMMA Given ==
  /\ RaceP!Graph /\ RaceP!Words /\ RaceP!Rounds
  /\ CalmP!Graph /\ CalmP!Words /\ CalmP!Rounds
  /\ AloneP!Graph /\ AloneP!Words /\ AloneP!Rounds /\ AloneP!Thread = {1}
  /\ MissingP!Words /\ MissingP!Rounds /\ MissingP!Thread = {1}
<1>1. /\ \A x \in Int : Wide(x) = x /\ Wide(x) \in Int
      /\ \A x \in Int : Narrow(x) \in Int
  BY NarrowOf DEF Wide
<1>2. <<1>> \in Seq(Nat \ {0}) /\ <<1>> # <<>> /\ Len(<<1>>) = 1 /\ <<1>>[1] = 1 /\ 1 .. 1 = {1}
  OBVIOUS
<1>3. RaceP!Graph /\ RaceP!Words /\ RaceP!Rounds
  BY <1>1, OmpAssumption DEF RaceP!Graph, RaceP!Words, RaceP!Rounds, RaceP!V, Race!V,
     RaceP!Metric, Race!Metric
<1>4. CalmP!Graph /\ CalmP!Words /\ CalmP!Rounds
  BY <1>1, OmpAssumption DEF CalmP!Graph, CalmP!Words, CalmP!Rounds, CalmP!V, Calm!V,
     CalmP!Metric, Calm!Metric
<1>5. AloneP!Graph /\ AloneP!Words /\ AloneP!Rounds
  BY <1>1, <1>2, OmpAssumption DEF AloneP!Graph, AloneP!Words, AloneP!Rounds, AloneP!V,
     Alone!V, AloneP!Metric, Alone!Metric
<1>6. AloneP!Thread = {1}
  BY <1>2 DEF AloneP!Thread
<1>7. MissingP!Words /\ MissingP!Rounds /\ MissingP!Thread = {1}
  BY <1>1, <1>2, OmpAssumption DEF MissingP!Words, MissingP!Rounds, MissingP!V, MissingP!Thread
<1> QED BY <1>3, <1>4, <1>5, <1>6, <1>7

\* No matrix that is like distances is greater than the shortest walks.
LEMMA AloneGreatest == AloneP!Greatest
<1>1. SUFFICES ASSUME NEW D, AloneP!Metric(D)
      PROVE  \A e \in AloneP!V \X AloneP!V : D[e] <= AloneDist[e]
  BY DEF AloneP!Greatest
<1> DEFINE V == 0 .. AloneGraph.n - 1
<1>2. AloneGraph.n \in Nat \ {0} /\ AloneGraph.weight \in [V \X V -> Int]
  BY OmpAssumption
<1>3. /\ D \in [V \X V -> Int]
      /\ \A e \in V \X V : D[e] <= AloneGraph.weight[e]
      /\ \A i, k, l \in V : D[<<i, l>>] <= D[<<i, k>>] + D[<<k, l>>]
  BY <1>1 DEF AloneP!Metric, AloneP!V
<1>4. \A e \in V \X V : D[e] <= Distances(AloneGraph)[e]
  <2>1. V = 0 .. AloneGraph.n - 1
    OBVIOUS
  <2> HIDE DEF V
  <2> QED BY ONLY <1>2, <1>3, <2>1, WalksNotShorter
<1> QED BY <1>4 DEF AloneDist, AloneP!V

RaceInv == RaceP!TypeOK /\ RaceP!Bounded

LEMMA RaceBegins == Race!Init => RaceInv
  BY Given, RaceSame, RaceP!InitTypes, RaceP!InitBounded DEF RaceInv

LEMMA RaceNext == RaceInv /\ (Race!Step \/ UNCHANGED rounds) => RaceInv'
  BY Given, RaceSame, RaceP!StepTypes, RaceP!StepBounded DEF RaceInv

LEMMA RaceKeeps == RaceInv => Race!TypeOK /\ Race!NeverBelow
<1>1. RaceP!Bounded => Race!NeverBelow
  BY Given DEF RaceP!Bounded, RaceP!MatrixBounded, RaceP!Graph, RaceP!Metric,
     Race!NeverBelow, Race!V, RaceP!V
<1> QED BY <1>1, RaceSame DEF RaceInv

CalmInv == CalmP!TypeOK /\ CalmP!Bounded /\ CalmP!Final

LEMMA CalmBegins == Calm!Init => CalmInv
  BY Given, CalmSame, CalmP!InitTypes, CalmP!InitBounded, CalmP!InitFinal DEF CalmInv

LEMMA CalmNext == CalmInv /\ (Calm!Step \/ UNCHANGED rounds) => CalmInv'
  BY Given, CalmSame, CalmP!StepTypes, CalmP!StepBounded, CalmP!StepFinal DEF CalmInv

LEMMA CalmKeeps == CalmInv => Calm!TypeOK /\ Calm!NeverBelow /\ Calm!Settled
<1>1. CalmP!Bounded => Calm!NeverBelow
  BY Given DEF CalmP!Bounded, CalmP!MatrixBounded, CalmP!Graph, CalmP!Metric,
     Calm!NeverBelow, Calm!V, CalmP!V
<1>2. CalmP!Final => Calm!Settled
  BY DEF CalmP!Final, Calm!Settled
<1> QED BY <1>1, <1>2, CalmSame DEF CalmInv

AloneInv == AloneP!TypeOK /\ AloneP!Alone

LEMMA AloneBegins == Alone!Init => AloneInv
  BY Given, AloneSame, AloneP!InitTypes, AloneP!InitAlone DEF AloneInv

LEMMA AloneNext == AloneInv /\ (Alone!Step \/ UNCHANGED rounds) => AloneInv'
  BY Given, AloneSame, AloneP!StepTypes, AloneP!StepAlone DEF AloneInv

LEMMA AloneKeeps == AloneInv => Alone!TypeOK /\ Alone!ExactAlone
<1>1. AloneP!Alone => AloneP!ExactAlone
  BY Given, AloneGreatest, AloneP!AloneExact
<1>2. Alone!V = AloneP!V /\ Alone!Thread = AloneP!Thread /\ Alone!Iteration = AloneP!Iteration
  BY DEF Alone!V, AloneP!V, Alone!Thread, AloneP!Thread, Alone!Iteration, AloneP!Iteration
<1>3. AloneP!ExactAlone => Alone!ExactAlone
  BY <1>2 DEF AloneP!ExactAlone, Alone!ExactAlone, AloneP!Ended, Alone!Ended,
     AloneP!RoundDone, Alone!RoundDone, AloneP!Running, Alone!Running, AloneP!Fits, Alone!Fits
<1> QED BY <1>1, <1>3, AloneSame DEF AloneInv

\* The vertex between which and 0 there is no edge, one way or the other.
Far == CHOOSE x \in 0 .. MissingGraph.n - 1 :
         MissingGraph.weight[x, 0] + MissingGraph.weight[0, x] >= Half

LEMMA MissingSpoilt == MissingP!Spoils(Far)
<1> DEFINE V == 0 .. MissingGraph.n - 1
           w == MissingGraph.weight
<1>1. MissingGraph.n \in Nat \ {0} /\ w \in [V \X V -> Int]
  BY OmpAssumption
<1>2. /\ \A e \in V \X V : w[e] \in 0 .. Half - 1
      /\ w[0, 0] = 0
      /\ Far \in V /\ w[Far, 0] + w[0, Far] >= Half
  <2>1. DOMAIN w = V \X V
    BY <1>1
  <2>2. MissingOK
    BY OmpAssumption
  <2>3. \E x \in V : w[x, 0] + w[0, x] >= Half
    BY <2>2 DEF MissingOK
  <2>4. Far \in V /\ w[Far, 0] + w[0, Far] >= Half
    BY <2>3 DEF Far
  <2> QED BY <2>1, <2>2, <2>4 DEF MissingOK
<1>3. MissingP!V = V /\ Half \in Nat /\ 0 \in V
  BY <1>1, NarrowOf DEF MissingP!V
<1>4. MissingDist[<<Far, Far>>] >= 0
  <2> DEFINE D == [e \in V \X V |-> 0]
  <2>1. V = 0 .. MissingGraph.n - 1
    OBVIOUS
  <2>2. /\ D \in [V \X V -> Int]
        /\ \A e \in V \X V : D[e] <= MissingGraph.weight[e]
        /\ \A i, k, l \in V : D[<<i, l>>] <= D[<<i, k>>] + D[<<k, l>>]
    <3>1. ASSUME NEW e \in V \X V PROVE w[e] \in Int /\ 0 <= w[e]
      <4>1. w[e] \in 0 .. Half - 1
        BY <1>2
      <4> HIDE DEF w
      <4> QED BY <1>3, <4>1
    <3> HIDE DEF V
    <3> QED BY <3>1
  <2>3. D[<<Far, Far>>] = 0 /\ <<Far, Far>> \in V \X V
    BY <1>2
  <2> HIDE DEF D, V
  <2>4. /\ Distances(MissingGraph) \in [V \X V -> Int]
        /\ \A e \in V \X V : D[e] <= Distances(MissingGraph)[e]
    BY ONLY <1>1, <2>1, <2>2, WalksNotShorter DEF w
  <2>5. 0 <= Distances(MissingGraph)[<<Far, Far>>]
    BY <2>3, <2>4
  <2> QED BY <2>3, <2>4, <2>5 DEF MissingDist
<1>5. Narrow(w[<<Far, 0>>] + w[<<0, Far>>]) < 0
  <2>1. w[<<Far, 0>>] \in 0 .. Half - 1 /\ w[<<0, Far>>] \in 0 .. Half - 1
    <3> HIDE DEF V, w
    <3> QED BY <1>2, <1>3
  <2>2. w[<<Far, 0>>] + w[<<0, Far>>] \in Half .. 2 * Half - 1
    <3> DEFINE a == w[<<Far, 0>>]
               b == w[<<0, Far>>]
    <3>1. a \in 0 .. Half - 1 /\ b \in 0 .. Half - 1 /\ a + b >= Half
      BY <1>2, <2>1
    <3> HIDE DEF a, b
    <3>2. a + b \in Half .. 2 * Half - 1
      BY <1>3, <3>1
    <3> QED BY <3>2 DEF a, b
  <2> QED BY <2>2, NarrowOf
<1>6. ASSUME NEW e \in V \X V PROVE 0 <= w[e] /\ Narrow(w[e]) = w[e]
  <2>1. w[e] \in 0 .. Half - 1
    BY <1>2
  <2> HIDE DEF w
  <2>2. 0 <= w[e]
    BY <1>3, <2>1
  <2>3. Narrow(w[e]) = w[e]
    BY <2>1, NarrowOf
  <2> QED BY <2>2, <2>3
<1>7. MissingP!Words
  BY Given
<1> QED BY <1>2, <1>3, <1>4, <1>5, <1>6, <1>7 DEF MissingP!Spoils

MissingInv == MissingP!Spoilt(Far)

LEMMA MissingBegins == Missing!Init => MissingInv
  BY Given, MissingSame, MissingSpoilt, MissingP!InitSpoilt DEF MissingInv

LEMMA MissingNext == MissingInv /\ (Missing!Step \/ UNCHANGED rounds) => MissingInv'
  BY Given, MissingSame, MissingSpoilt, MissingP!StepSpoilt DEF MissingInv

LEMMA MissingKeeps ==
  MissingInv => Missing!TypeOK /\ (Missing!RoundDone => A # MissingDist)
<1>1. MissingInv => MissingP!TypeOK /\ (MissingP!RoundDone => A # MissingDist)
  BY Given, MissingSpoilt, MissingP!SpoiltWrong DEF MissingInv, MissingP!Spoilt
<1> QED BY <1>1, MissingSame

-----------------------------------------------------------------------------
(* Primes.                                                                 *)

StrikesP == INSTANCE SieveProofs WITH Sizes <- StrikeLoop.sizes, Threads <- StrikeLoop.threads,
  Chunk <- StrikeLoop.chunk, Dynamic <- TRUE, Wrap <- Wide

LEMMA StrikesSame ==
  /\ Strikes!Init => StrikesP!Init
  /\ Strikes!Step \/ UNCHANGED sieve => [StrikesP!Step \/ StrikesP!Over]_(StrikesP!vars)
  /\ StrikesP!TypeOK => Strikes!TypeOK
  /\ StrikesP!NoPrimeStruck => Strikes!NoPrimeStruck
  /\ StrikesP!PrimesRight => Strikes!PrimesRight
<1>1. Strikes!Thread = StrikesP!Thread /\ Strikes!LastOfChunk = StrikesP!LastOfChunk
  BY DEF Strikes!Thread, StrikesP!Thread, Strikes!LastOfChunk, StrikesP!LastOfChunk
<1>2. /\ \A k : Strikes!InLoop(k) <=> StrikesP!InLoop(k)
      /\ \A k : Strikes!Sieves(k) <=> StrikesP!Sieves(k)
      /\ \A i : Strikes!Composite(i) <=> StrikesP!Composite(i)
  BY DEF Strikes!InLoop, StrikesP!InLoop, Strikes!Sieves, StrikesP!Sieves, Strikes!Composite, StrikesP!Composite
<1>3. Strikes!Init => StrikesP!Init
  BY <1>1 DEF Strikes!Init, StrikesP!Init
<1>4. Strikes!Step => StrikesP!Step
  <2>1. ASSUME NEW t
        PROVE  /\ Strikes!TakeChunk(t) => StrikesP!TakeChunk(t)
               /\ Strikes!Strike(t) => StrikesP!Strike(t)
               /\ Strikes!Advance(t) => StrikesP!Advance(t)
    BY <1>1, <1>2 DEF Strikes!Alive, StrikesP!Alive, Strikes!TakeChunk, StrikesP!TakeChunk, Strikes!Strike, StrikesP!Strike,
       Strikes!Advance, StrikesP!Advance
  <2>2. ASSUME NEW t
        PROVE  (Strikes!Test(t) => StrikesP!Test(t)) /\ (Strikes!Struck(t) => StrikesP!Struck(t))
    BY <1>2, <2>1 DEF Strikes!Alive, StrikesP!Alive, Strikes!Test, StrikesP!Test,
       Strikes!Struck, StrikesP!Struck, Strikes!FirstMultiple, StrikesP!FirstMultiple
  <2> QED BY <1>1, <2>1, <2>2 DEF Strikes!Step, StrikesP!Step
<1>5. StrikesP!TypeOK => Strikes!TypeOK
  BY <1>1 DEF Strikes!TypeOK, StrikesP!TypeOK
<1>6. StrikesP!NoPrimeStruck => Strikes!NoPrimeStruck
  BY <1>2 DEF Strikes!NoPrimeStruck, StrikesP!NoPrimeStruck, Strikes!Fits, StrikesP!Fits
<1>7. StrikesP!PrimesRight => Strikes!PrimesRight
  BY <1>1, <1>2 DEF Strikes!PrimesRight, StrikesP!PrimesRight, Strikes!PrimesDocumented,
     StrikesP!PrimesDocumented, Strikes!Printed, StrikesP!Printed, Strikes!Alive, StrikesP!Alive,
     Strikes!Fits, StrikesP!Fits, Strikes!PrimeSquare, StrikesP!PrimeSquare
<1>8. UNCHANGED sieve => UNCHANGED StrikesP!vars
  BY DEF sieve, StrikesP!vars
<1> QED BY <1>3, <1>4, <1>5, <1>6, <1>7, <1>8

ChunksP == INSTANCE SieveProofs WITH Sizes <- ChunkLoop.sizes, Threads <- ChunkLoop.threads,
  Chunk <- ChunkLoop.chunk, Dynamic <- TRUE, Wrap <- Wide

LEMMA ChunksSame ==
  /\ Chunks!Init => ChunksP!Init
  /\ Chunks!Step \/ UNCHANGED sieve => [ChunksP!Step \/ ChunksP!Over]_(ChunksP!vars)
  /\ ChunksP!TypeOK => Chunks!TypeOK
  /\ ChunksP!NoPrimeStruck => Chunks!NoPrimeStruck
  /\ ChunksP!PrimesRight => Chunks!PrimesRight
<1>1. Chunks!Thread = ChunksP!Thread /\ Chunks!LastOfChunk = ChunksP!LastOfChunk
  BY DEF Chunks!Thread, ChunksP!Thread, Chunks!LastOfChunk, ChunksP!LastOfChunk
<1>2. /\ \A k : Chunks!InLoop(k) <=> ChunksP!InLoop(k)
      /\ \A k : Chunks!Sieves(k) <=> ChunksP!Sieves(k)
      /\ \A i : Chunks!Composite(i) <=> ChunksP!Composite(i)
  BY DEF Chunks!InLoop, ChunksP!InLoop, Chunks!Sieves, ChunksP!Sieves, Chunks!Composite, ChunksP!Composite
<1>3. Chunks!Init => ChunksP!Init
  BY <1>1 DEF Chunks!Init, ChunksP!Init
<1>4. Chunks!Step => ChunksP!Step
  <2>1. ASSUME NEW t
        PROVE  /\ Chunks!TakeChunk(t) => ChunksP!TakeChunk(t)
               /\ Chunks!Strike(t) => ChunksP!Strike(t)
               /\ Chunks!Advance(t) => ChunksP!Advance(t)
    BY <1>1, <1>2 DEF Chunks!Alive, ChunksP!Alive, Chunks!TakeChunk, ChunksP!TakeChunk, Chunks!Strike, ChunksP!Strike,
       Chunks!Advance, ChunksP!Advance
  <2>2. ASSUME NEW t
        PROVE  (Chunks!Test(t) => ChunksP!Test(t)) /\ (Chunks!Struck(t) => ChunksP!Struck(t))
    BY <1>2, <2>1 DEF Chunks!Alive, ChunksP!Alive, Chunks!Test, ChunksP!Test,
       Chunks!Struck, ChunksP!Struck, Chunks!FirstMultiple, ChunksP!FirstMultiple
  <2> QED BY <1>1, <2>1, <2>2 DEF Chunks!Step, ChunksP!Step
<1>5. ChunksP!TypeOK => Chunks!TypeOK
  BY <1>1 DEF Chunks!TypeOK, ChunksP!TypeOK
<1>6. ChunksP!NoPrimeStruck => Chunks!NoPrimeStruck
  BY <1>2 DEF Chunks!NoPrimeStruck, ChunksP!NoPrimeStruck, Chunks!Fits, ChunksP!Fits
<1>7. ChunksP!PrimesRight => Chunks!PrimesRight
  BY <1>1, <1>2 DEF Chunks!PrimesRight, ChunksP!PrimesRight, Chunks!PrimesDocumented,
     ChunksP!PrimesDocumented, Chunks!Printed, ChunksP!Printed, Chunks!Alive, ChunksP!Alive,
     Chunks!Fits, ChunksP!Fits, Chunks!PrimeSquare, ChunksP!PrimeSquare
<1>8. UNCHANGED sieve => UNCHANGED ChunksP!vars
  BY DEF sieve, ChunksP!vars
<1> QED BY <1>3, <1>4, <1>5, <1>6, <1>7, <1>8

OverflowP == INSTANCE SieveProofs WITH Sizes <- OverflowLoop.sizes, Threads <- OverflowLoop.threads,
  Chunk <- OverflowLoop.chunk, Dynamic <- TRUE, Wrap <- Narrow

LEMMA OverflowSame ==
  /\ Overflow!Init => OverflowP!Init
  /\ Overflow!Step \/ UNCHANGED sieve => [OverflowP!Step \/ OverflowP!Over]_(OverflowP!vars)
  /\ OverflowP!TypeOK => Overflow!TypeOK
<1>1. Overflow!Thread = OverflowP!Thread /\ Overflow!LastOfChunk = OverflowP!LastOfChunk
  BY DEF Overflow!Thread, OverflowP!Thread, Overflow!LastOfChunk, OverflowP!LastOfChunk
<1>2. /\ \A k : Overflow!InLoop(k) <=> OverflowP!InLoop(k)
      /\ \A k : Overflow!Sieves(k) <=> OverflowP!Sieves(k)
      /\ \A i : Overflow!Composite(i) <=> OverflowP!Composite(i)
  BY DEF Overflow!InLoop, OverflowP!InLoop, Overflow!Sieves, OverflowP!Sieves, Overflow!Composite, OverflowP!Composite
<1>3. Overflow!Init => OverflowP!Init
  BY <1>1 DEF Overflow!Init, OverflowP!Init
<1>4. Overflow!Step => OverflowP!Step
  <2>1. ASSUME NEW t
        PROVE  /\ Overflow!TakeChunk(t) => OverflowP!TakeChunk(t)
               /\ Overflow!Strike(t) => OverflowP!Strike(t)
               /\ Overflow!Advance(t) => OverflowP!Advance(t)
    BY <1>1, <1>2 DEF Overflow!Alive, OverflowP!Alive, Overflow!TakeChunk, OverflowP!TakeChunk, Overflow!Strike, OverflowP!Strike,
       Overflow!Advance, OverflowP!Advance
  <2>2. ASSUME NEW t
        PROVE  (Overflow!Test(t) => OverflowP!Test(t)) /\ (Overflow!Struck(t) => OverflowP!Struck(t))
    BY <1>2, <2>1 DEF Overflow!Alive, OverflowP!Alive, Overflow!Test, OverflowP!Test,
       Overflow!Struck, OverflowP!Struck, Overflow!FirstMultiple, OverflowP!FirstMultiple
  <2> QED BY <1>1, <2>1, <2>2 DEF Overflow!Step, OverflowP!Step
<1>5. OverflowP!TypeOK => Overflow!TypeOK
  BY <1>1 DEF Overflow!TypeOK, OverflowP!TypeOK
<1>6. UNCHANGED sieve => UNCHANGED OverflowP!vars
  BY DEF sieve, OverflowP!vars
<1> QED BY <1>3, <1>4, <1>5, <1>6

PlainP == INSTANCE SieveProofs WITH Sizes <- PlainSizes, Threads <- 1, Chunk <- 1,
  Dynamic <- FALSE, Wrap <- Wide

LEMMA PlainSame ==
  /\ Plain!Init => PlainP!Init
  /\ Plain!Step \/ UNCHANGED sieve => [PlainP!Step \/ PlainP!Over]_(PlainP!vars)
  /\ PlainP!TypeOK => Plain!TypeOK
  /\ PlainP!NoPrimeStruck => Plain!NoPrimeStruck
  /\ PlainP!PrimesRight => Plain!PrimesRight
<1>1. Plain!Thread = PlainP!Thread /\ Plain!LastOfChunk = PlainP!LastOfChunk
  BY DEF Plain!Thread, PlainP!Thread, Plain!LastOfChunk, PlainP!LastOfChunk
<1>2. /\ \A k : Plain!InLoop(k) <=> PlainP!InLoop(k)
      /\ \A k : Plain!Sieves(k) <=> PlainP!Sieves(k)
      /\ \A i : Plain!Composite(i) <=> PlainP!Composite(i)
  BY DEF Plain!InLoop, PlainP!InLoop, Plain!Sieves, PlainP!Sieves, Plain!Composite, PlainP!Composite
<1>3. Plain!Init => PlainP!Init
  BY <1>1 DEF Plain!Init, PlainP!Init
<1>4. Plain!Step => PlainP!Step
  <2>1. ASSUME NEW t
        PROVE  /\ Plain!TakeChunk(t) => PlainP!TakeChunk(t)
               /\ Plain!Strike(t) => PlainP!Strike(t)
               /\ Plain!Advance(t) => PlainP!Advance(t)
    BY <1>1, <1>2 DEF Plain!Alive, PlainP!Alive, Plain!TakeChunk, PlainP!TakeChunk, Plain!Strike, PlainP!Strike,
       Plain!Advance, PlainP!Advance
  <2>2. ASSUME NEW t
        PROVE  (Plain!Test(t) => PlainP!Test(t)) /\ (Plain!Struck(t) => PlainP!Struck(t))
    BY <1>2, <2>1 DEF Plain!Alive, PlainP!Alive, Plain!Test, PlainP!Test,
       Plain!Struck, PlainP!Struck, Plain!FirstMultiple, PlainP!FirstMultiple
  <2> QED BY <1>1, <2>1, <2>2 DEF Plain!Step, PlainP!Step
<1>5. PlainP!TypeOK => Plain!TypeOK
  BY <1>1 DEF Plain!TypeOK, PlainP!TypeOK
<1>6. PlainP!NoPrimeStruck => Plain!NoPrimeStruck
  BY <1>2 DEF Plain!NoPrimeStruck, PlainP!NoPrimeStruck, Plain!Fits, PlainP!Fits
<1>7. PlainP!PrimesRight => Plain!PrimesRight
  BY <1>1, <1>2 DEF Plain!PrimesRight, PlainP!PrimesRight, Plain!PrimesDocumented,
     PlainP!PrimesDocumented, Plain!Printed, PlainP!Printed, Plain!Alive, PlainP!Alive,
     Plain!Fits, PlainP!Fits, Plain!PrimeSquare, PlainP!PrimeSquare
<1>8. UNCHANGED sieve => UNCHANGED PlainP!vars
  BY DEF sieve, PlainP!vars
<1> QED BY <1>3, <1>4, <1>5, <1>6, <1>7, <1>8

LEMMA LoopsGiven ==
  /\ StrikesP!Parameters /\ (StrikesP!TakenOK => StrikesP!Words)
  /\ ChunksP!Parameters /\ (ChunksP!TakenOK => ChunksP!Words)
  /\ OverflowP!Parameters /\ (OverflowP!TakenOK => OverflowP!Words)
  /\ PlainP!Parameters /\ (PlainP!TakenOK => PlainP!Words)
<1>1. /\ \A x \in Int : Wide(x) = x /\ Wide(x) \in Int
      /\ \A x \in Int : Narrow(x) \in Int
  BY NarrowOf DEF Wide
<1>2. PlainP!Fits
  BY DEF PlainP!Fits, Wide
<1>3. StrikesP!Parameters /\ (StrikesP!TakenOK => StrikesP!Words)
  BY <1>1, <1>2, OmpAssumption
  DEF LoopOK, StrikesP!Parameters, StrikesP!Words
<1>4. ChunksP!Parameters /\ (ChunksP!TakenOK => ChunksP!Words)
  BY <1>1, <1>2, OmpAssumption
  DEF LoopOK, ChunksP!Parameters, ChunksP!Words
<1>5. OverflowP!Parameters /\ (OverflowP!TakenOK => OverflowP!Words)
  BY <1>1, <1>2, OmpAssumption
  DEF LoopOK, OverflowP!Parameters, OverflowP!Words
<1>6. PlainP!Parameters /\ PlainP!Words
  <2>1. 1 \in Nat \ {0} /\ FALSE \in BOOLEAN
    OBVIOUS
  <2>2. PlainP!Parameters
    BY <2>1, OmpAssumption DEF PlainP!Parameters
  <2>3. PlainP!Words
    BY <1>1, <1>2 DEF PlainP!Words
  <2> QED BY <2>2, <2>3
<1> QED BY <1>3, <1>4, <1>5, <1>6

StrikesInv == StrikesP!Types /\ (StrikesP!Fits => StrikesP!ResultInv)

LEMMA StrikesBegins == Strikes!Init => StrikesInv
  BY LoopsGiven, StrikesSame, StrikesP!InitTypes, StrikesP!InitResult DEF StrikesInv

LEMMA StrikesNext == StrikesInv /\ (Strikes!Step \/ UNCHANGED sieve) => StrikesInv'
<1>1. StrikesP!Types => StrikesP!Words
  BY LoopsGiven DEF StrikesP!Types
<1> QED BY <1>1, LoopsGiven, StrikesSame, StrikesP!StepTypes, StrikesP!StepResult DEF StrikesInv

LEMMA StrikesKeeps == StrikesInv => Strikes!TypeOK /\ Strikes!NoPrimeStruck /\ Strikes!PrimesRight
<1>1. SUFFICES ASSUME StrikesInv PROVE Strikes!TypeOK /\ Strikes!NoPrimeStruck /\ Strikes!PrimesRight
  OBVIOUS
<1>2. StrikesP!Fits
  BY <1>1 DEF StrikesInv, StrikesP!Types, StrikesP!TakenOK, StrikesP!Fits, Wide
<1>3. StrikesP!TypeOK /\ StrikesP!NoPrimeStruck /\ StrikesP!PrimesRight
  BY <1>1, <1>2, StrikesP!TypesOK, StrikesP!SieveSpares, StrikesP!ResultRight DEF StrikesInv, StrikesP!ResultInv
<1> QED BY <1>3, StrikesSame

ChunksInv == ChunksP!Types /\ (ChunksP!Fits => ChunksP!ResultInv)

LEMMA ChunksBegins == Chunks!Init => ChunksInv
  BY LoopsGiven, ChunksSame, ChunksP!InitTypes, ChunksP!InitResult DEF ChunksInv

LEMMA ChunksNext == ChunksInv /\ (Chunks!Step \/ UNCHANGED sieve) => ChunksInv'
<1>1. ChunksP!Types => ChunksP!Words
  BY LoopsGiven DEF ChunksP!Types
<1> QED BY <1>1, LoopsGiven, ChunksSame, ChunksP!StepTypes, ChunksP!StepResult DEF ChunksInv

LEMMA ChunksKeeps == ChunksInv => Chunks!TypeOK /\ Chunks!NoPrimeStruck /\ Chunks!PrimesRight
<1>1. SUFFICES ASSUME ChunksInv PROVE Chunks!TypeOK /\ Chunks!NoPrimeStruck /\ Chunks!PrimesRight
  OBVIOUS
<1>2. ChunksP!Fits
  BY <1>1 DEF ChunksInv, ChunksP!Types, ChunksP!TakenOK, ChunksP!Fits, Wide
<1>3. ChunksP!TypeOK /\ ChunksP!NoPrimeStruck /\ ChunksP!PrimesRight
  BY <1>1, <1>2, ChunksP!TypesOK, ChunksP!SieveSpares, ChunksP!ResultRight DEF ChunksInv, ChunksP!ResultInv
<1> QED BY <1>3, ChunksSame

LEMMA OverflowBegins == Overflow!Init => OverflowP!Types
  BY LoopsGiven, OverflowSame, OverflowP!InitTypes

LEMMA OverflowNext ==
  OverflowP!Types /\ (Overflow!Step \/ UNCHANGED sieve) => OverflowP!Types'
<1>1. OverflowP!Types => OverflowP!Words
  BY LoopsGiven DEF OverflowP!Types
<1> QED BY <1>1, LoopsGiven, OverflowSame, OverflowP!StepTypes

LEMMA OverflowKeeps == OverflowP!Types => Overflow!TypeOK
  BY OverflowSame, OverflowP!TypesOK

PlainInv == PlainP!Types /\ (PlainP!Fits => PlainP!ResultInv)

LEMMA PlainBegins == Plain!Init => PlainInv
  BY LoopsGiven, PlainSame, PlainP!InitTypes, PlainP!InitResult DEF PlainInv

LEMMA PlainNext == PlainInv /\ (Plain!Step \/ UNCHANGED sieve) => PlainInv'
<1>1. PlainP!Types => PlainP!Words
  BY LoopsGiven DEF PlainP!Types
<1> QED BY <1>1, LoopsGiven, PlainSame, PlainP!StepTypes, PlainP!StepResult DEF PlainInv

LEMMA PlainKeeps == PlainInv => Plain!TypeOK /\ Plain!NoPrimeStruck /\ Plain!PrimesRight
<1>1. SUFFICES ASSUME PlainInv PROVE Plain!TypeOK /\ Plain!NoPrimeStruck /\ Plain!PrimesRight
  OBVIOUS
<1>2. PlainP!Fits
  BY <1>1 DEF PlainInv, PlainP!Types, PlainP!TakenOK, PlainP!Fits, Wide
<1>3. PlainP!TypeOK /\ PlainP!NoPrimeStruck /\ PlainP!PrimesRight
  BY <1>1, <1>2, PlainP!TypesOK, PlainP!SieveSpares, PlainP!ResultRight DEF PlainInv, PlainP!ResultInv
<1> QED BY <1>3, PlainSame

-----------------------------------------------------------------------------
(* The iterations of the product.                                          *)

LEMMA MinOfTwo ==
  ASSUME NEW a \in Int, NEW b \in Int
  PROVE  Min({a, b}) = IF a <= b THEN a ELSE b
<1> DEFINE m == IF a <= b THEN a ELSE b
<1>1. m \in {a, b} /\ \A y \in {a, b} : m <= y
  OBVIOUS
<1>2. \A x \in {a, b} : (\A y \in {a, b} : x <= y) => x = m
  OBVIOUS
<1>3. Min({a, b}) = CHOOSE x \in {a, b} : \A y \in {a, b} : x <= y
  BY DEF Min
<1> HIDE DEF m
<1>4. Min({a, b}) = m
  BY <1>1, <1>2, <1>3
<1> QED BY <1>4 DEF m

\* The parts of schedule(static) are in order and are all of the iterations.
LEMMA Boundaries ==
  ASSUME NEW s \in Nat, NEW team \in Nat \ {0}
  PROVE  /\ \A t \in 0 .. team : Product!Boundary(s, team, t) \in Nat
         /\ Product!Boundary(s, team, 0) = 0
         /\ Product!Boundary(s, team, team) = s
         /\ \A t, u \in 0 .. team :
              t <= u => Product!Boundary(s, team, t) <= Product!Boundary(s, team, u)
<1> DEFINE q == s \div team
           r == s % team
           b(t) == t * q + (IF t <= r THEN t ELSE r)
<1>1. q \in Nat /\ r \in Nat /\ r < team /\ s = team * q + r
  OBVIOUS
<1>2. \A t \in 0 .. team : Product!Boundary(s, team, t) = b(t)
  <2>1. ASSUME NEW t \in 0 .. team PROVE Product!Boundary(s, team, t) = b(t)
    <3>1. Min({t, r}) = IF t <= r THEN t ELSE r
      <4> HIDE DEF r
      <4> QED BY <1>1, MinOfTwo
    <3>2. Product!Boundary(s, team, t) = t * q + Min({t, r})
      BY DEF Product!Boundary, Product!Min, Min
    <3> HIDE DEF q, r
    <3> QED BY <3>1, <3>2
  <2> QED BY <2>1
<1> HIDE DEF q, r
<1>3. \A t \in 0 .. team : b(t) \in Nat
  <2>1. \A t \in 0 .. team : t * q \in Nat
    BY <1>1
  <2> QED BY <1>1, <2>1
<1>4. b(0) = 0
  BY <1>1
<1>5. b(team) = s
  BY <1>1
<1>6. ASSUME NEW t \in 0 .. team, NEW u \in 0 .. team, t <= u PROVE b(t) <= b(u)
  <2>1. t * q <= u * q
    BY <1>1, <1>6, RaceP!TimesMonotone
  <2>2. t * q \in Nat /\ u * q \in Nat
    BY <1>1
  <2> QED BY <1>1, <1>6, <2>1, <2>2
<1>7. 0 \in 0 .. team /\ team \in 0 .. team
  OBVIOUS
<1> HIDE DEF b
<1> QED BY <1>2, <1>3, <1>4, <1>5, <1>6, <1>7

\* So are the parts of a loop.
LEMMA Starts ==
  ASSUME NEW team \in Nat \ {0}, NEW f \in {1, 2}
  PROVE  /\ \A t \in 0 .. team : Product!Start(team, f, t) \in Nat
         /\ Product!Start(team, f, 0) = 0
         /\ Product!Start(team, f, team) = Product!Size(f)
         /\ \A t, u \in 0 .. team :
              t <= u => Product!Start(team, f, t) <= Product!Start(team, f, u)
<1> DEFINE size == Product!Size(f)
           s == IF collapse THEN size ELSE Order
           w == size \div s
           b(t) == Product!Boundary(s, team, t)
<1>1. Order \in Nat \ {0}
  BY OmpAssumption
<1>2. s \in Nat /\ w \in Nat /\ s * w = size
  <2>1. /\ Order * Order \in Nat \ {0} /\ Order * Order * Order \in Nat \ {0}
        /\ (Order * Order) \div Order = Order
        /\ (Order * Order * Order) \div Order = Order * Order
    <3>1. Order * Order \in Nat \ {0} /\ Order * Order * Order \in Nat \ {0}
      BY <1>1
    <3>2. (Order * Order) \div Order = Order
      BY <1>1, RaceP!ModUnique
    <3>3. (Order * Order * Order) \div Order = Order * Order
      <4>1. \A c \in Nat : (c * Order) \div Order = c
        <5>1. \A c \in Nat : (c * Order + 0) \div Order = c /\ c * Order + 0 = c * Order
          BY <1>1, RaceP!ModUnique
        <5> QED BY <5>1
      <4> QED BY <3>1, <4>1
    <3> QED BY <3>1, <3>2, <3>3
  <2>2. size \in Nat \ {0} /\ (size = Order * Order \/ size = Order * Order * Order)
    BY <2>1 DEF Product!Size
  <2>3. CASE collapse
    <3>1. size \div size = 1
      <4> HIDE DEF size
      <4> QED BY <2>2
    <3> HIDE DEF size
    <3> QED BY <2>2, <2>3, <3>1
  <2>4. CASE ~ collapse
    <3>1. s = Order
      BY <2>4
    <3>2. s * w = size /\ w \in Nat
      <4>1. CASE size = Order * Order
        <5>1. w = Order
          <6> HIDE DEF size
          <6> QED BY <2>1, <3>1, <4>1
        <5> HIDE DEF w, size, s
        <5> QED BY <1>1, <3>1, <4>1, <5>1
      <4>2. CASE size = Order * Order * Order
        <5>1. w = Order * Order
          <6> HIDE DEF size
          <6> QED BY <2>1, <3>1, <4>2
        <5> HIDE DEF w, size, s
        <5> QED BY <1>1, <3>1, <4>2, <5>1
      <4> QED BY <2>2, <4>1, <4>2
    <3> HIDE DEF w, size, s
    <3> QED BY <1>1, <3>1, <3>2
  <2> QED BY <2>3, <2>4
<1>3. \A t : Product!Start(team, f, t) = b(t) * w
  BY DEF Product!Start
<1> HIDE DEF s, w, size
<1>4. /\ \A t \in 0 .. team : b(t) \in Nat
      /\ b(0) = 0
      /\ b(team) = s
      /\ \A t, u \in 0 .. team : t <= u => b(t) <= b(u)
  BY <1>2, Boundaries
<1> HIDE DEF b
<1>5. \A t \in 0 .. team : b(t) * w \in Nat
  BY <1>2, <1>4
<1>6. \A t, u \in 0 .. team : t <= u => b(t) * w <= b(u) * w
  BY <1>2, <1>4, RaceP!TimesMonotone
<1>7. b(0) * w = 0 /\ b(team) * w = size
  BY <1>2, <1>4
<1> QED BY <1>3, <1>5, <1>6, <1>7 DEF size

\* Each of the first iterations of a loop is of one thread.
Owns(t, f, p) == Product!First(f, t) <= p /\ p < Product!First(f, t + 1)

Team == ProductTeams[round]

LEMMA Cuts ==
  ASSUME round \in 1 .. Len(ProductTeams)
  PROVE  /\ Team \in Nat \ {0} /\ 0 .. Team - 1 \subseteq Product!Thread
         /\ \A f \in {1, 2} :
              /\ \A t \in 0 .. Team : Product!First(f, t) \in Nat
              /\ Product!First(f, 0) = 0
              /\ Product!First(f, Team) = Product!Size(f)
              /\ \A t, u \in 0 .. Team :
                   t <= u => Product!First(f, t) <= Product!First(f, u)
<1>1. Team \in Nat \ {0} /\ Team <= ProductTeams[Len(ProductTeams)]
  BY OmpAssumption DEF Team
<1>2. ProductTeams[Len(ProductTeams)] \in Nat
  <2>1. ProductTeams \in Seq(Nat \ {0}) /\ Len(ProductTeams) \in 1 .. Len(ProductTeams)
    BY OmpAssumption
  <2> QED BY <2>1
<1>3. 0 .. Team - 1 \subseteq Product!Thread
  BY <1>1, <1>2 DEF Product!Thread
<1> QED BY <1>1, <1>3, Starts DEF Product!First, Team

LEMMA OneOwner ==
  ASSUME round \in 1 .. Len(ProductTeams), NEW f \in {1, 2},
         NEW t \in 0 .. Team - 1, NEW u \in 0 .. Team - 1, NEW p \in Nat,
         Owns(t, f, p), Owns(u, f, p)
  PROVE  t = u
<1> DEFINE first(v) == Product!First(f, v)
<1>1. /\ Team \in Nat
      /\ \A v \in 0 .. Team : first(v) \in Nat
      /\ \A v, w \in 0 .. Team : v <= w => first(v) <= first(w)
  BY Cuts
<1>2. first(t) <= p /\ p < first(t + 1) /\ first(u) <= p /\ p < first(u + 1)
  BY DEF Owns
<1> HIDE DEF first
<1>3. /\ t \in 0 .. Team /\ t + 1 \in 0 .. Team /\ u \in 0 .. Team /\ u + 1 \in 0 .. Team
      /\ t < u \/ u < t \/ t = u
  BY <1>1
<1>4. ~ (t < u)
  <2>1. SUFFICES ASSUME t < u PROVE FALSE
    OBVIOUS
  <2>2. first(t + 1) <= first(u)
    BY <1>1, <1>3, <2>1
  <2> QED BY <1>1, <1>2, <1>3, <2>2
<1>5. ~ (u < t)
  <2>1. SUFFICES ASSUME u < t PROVE FALSE
    OBVIOUS
  <2>2. first(u + 1) <= first(t)
    BY <1>1, <1>3, <2>1
  <2> QED BY <1>1, <1>2, <1>3, <2>2
<1> QED BY <1>3, <1>4, <1>5

LEMMA SomeOwner ==
  ASSUME round \in 1 .. Len(ProductTeams), NEW f \in {1, 2},
         NEW p \in Nat, p < Product!Size(f)
  PROVE  \E t \in 0 .. Team - 1 : Owns(t, f, p)
<1> DEFINE first(v) == Product!First(f, v)
           T == {v \in 0 .. Team : p < first(v)}
<1>1. /\ Team \in Nat
      /\ \A v \in 0 .. Team : first(v) \in Nat
      /\ first(0) = 0 /\ first(Team) = Product!Size(f)
  BY Cuts
<1>2. \A t : first(t) <= p /\ p < first(t + 1) => Owns(t, f, p)
  BY DEF Owns
<1> HIDE DEF first
<1>3. T \subseteq Nat /\ Team \in T
  BY <1>1
<1>4. PICK u \in T : \A v \in T : u <= v
  <2> HIDE DEF T
  <2> QED BY <1>3, LeastNumber
<1>5. u \in 0 .. Team /\ p < first(u)
  BY <1>4
<1>6. u # 0
  BY <1>1, <1>5
<1>7. u - 1 \in 0 .. Team - 1 /\ u - 1 \notin T
  <2> HIDE DEF T
  <2> QED BY <1>1, <1>3, <1>4, <1>5, <1>6
<1>8. first(u - 1) <= p
  BY <1>1, <1>7
<1> QED BY <1>2, <1>5, <1>7, <1>8

\* The cell of an index, of all rows together.
At(m) == <<m \div Order, m % Order>>

Cells == 0 .. Order * Order - 1
Iterations == 0 .. Order * Order * Order - 1

LEMMA DivBelow ==
  ASSUME NEW a \in Nat, NEW b \in Nat \ {0}, NEW c \in Nat, a < c * b
  PROVE  a \div b \in Nat /\ a \div b < c
<1> DEFINE d == a \div b
<1>1. d \in Nat /\ d * b <= a
  BY RaceP!DivBounds
<1> HIDE DEF d
<1>2. d < c
  <2>1. SUFFICES ASSUME c <= d PROVE FALSE
    BY <1>1
  <2>2. c * b <= d * b
    BY <1>1, <2>1, RaceP!TimesMonotone
  <2>3. c * b \in Nat /\ d * b \in Nat
    BY <1>1
  <2> QED BY <1>1, <2>2, <2>3
<1> QED BY <1>1, <1>2 DEF d

LEMMA DivTwice ==
  ASSUME NEW p \in Nat, NEW b \in Nat \ {0}
  PROVE  p \div (b * b) = (p \div b) \div b
<1> DEFINE q == p \div b
           r == q \div b
<1>1. q \in Nat /\ q * b <= p /\ p < (q + 1) * b
  BY RaceP!DivBounds
<1>2. r \in Nat /\ r * b <= q /\ q < (r + 1) * b
  <2> HIDE DEF q
  <2> QED BY <1>1, RaceP!DivBounds
<1> HIDE DEF q, r
<1>3. r * b \in Nat /\ (r + 1) * b \in Nat /\ q + 1 <= (r + 1) * b
  BY <1>1, <1>2
<1>4. (r * b) * b <= q * b /\ (q + 1) * b <= ((r + 1) * b) * b
  BY <1>1, <1>2, <1>3, RaceP!TimesMonotone
<1>5. (r * b) * b = r * (b * b) /\ ((r + 1) * b) * b = (r + 1) * (b * b)
  BY <1>2
<1>6. b * b \in Nat \ {0} /\ r * (b * b) \in Nat /\ (r + 1) * (b * b) \in Nat
      /\ q * b \in Nat /\ (q + 1) * b \in Nat
  BY <1>1, <1>2
<1>7. r * (b * b) <= p /\ p < (r + 1) * (b * b)
  BY ONLY <1>1, <1>4, <1>5, <1>6, p \in Nat
<1>8. p \div (b * b) = r
  BY <1>2, <1>6, <1>7, RaceP!DivUnique
<1> QED BY <1>8 DEF q, r

LEMMA DivRest ==
  ASSUME NEW a \in Nat, NEW b \in Nat \ {0}
  PROVE  a = b * (a \div b) + (a % b)
<1> DEFINE d == a \div b
<1>1. d \in Nat /\ d * b <= a /\ a < (d + 1) * b
  BY RaceP!DivBounds
<1> HIDE DEF d
<1> DEFINE r == a - d * b
<1>2. r \in Nat /\ r < b /\ d * b + r = a
  <2>1. d * b \in Nat /\ (d + 1) * b = d * b + b
    BY <1>1
  <2> QED BY <1>1, <2>1
<1> HIDE DEF r
<1>3. (d * b + r) % b = r
  BY <1>1, <1>2, RaceP!ModUnique
<1> DEFINE m == a % b
<1>4. m = r
  BY <1>2, <1>3
<1> HIDE DEF m
<1>5. a = b * d + m
  BY <1>1, <1>2, <1>4
<1> QED BY <1>5 DEF d, m

LEMMA CellsAt ==
  /\ \A m \in Cells : At(m) \in Product!Cell
  /\ \A c \in Product!Cell : \E m \in Cells : c = At(m)
  /\ \A m, k \in Nat : At(m) = At(k) => m = k
<1>1. Order \in Nat \ {0}
  BY OmpAssumption
<1>2. ASSUME NEW m \in Cells PROVE At(m) \in Product!Cell
  <2>1. m \in Nat /\ m < Order * Order
    BY <1>1, <1>2 DEF Cells
  <2>2. m \div Order \in Nat /\ m \div Order < Order
    BY <1>1, <2>1, DivBelow
  <2>3. m % Order \in 0 .. Order - 1
    BY <1>1, <2>1
  <2> QED BY <1>1, <2>2, <2>3 DEF At, Product!Cell, Product!V
<1>3. ASSUME NEW c \in Product!Cell PROVE \E m \in Cells : c = At(m)
  <2>1. PICK i, k \in 0 .. Order - 1 : c = <<i, k>>
    BY DEF Product!Cell, Product!V
  <2> DEFINE m == i * Order + k
  <2>2. m \div Order = i /\ m % Order = k
    BY <1>1, RaceP!ModUnique
  <2>3. m \in Nat /\ m < Order * Order
    <3>1. (i + 1) * Order <= Order * Order
      BY <1>1, RaceP!TimesMonotone
    <3>2. i * Order \in Nat /\ (i + 1) * Order = i * Order + Order
      BY <1>1
    <3> QED BY <1>1, <3>1, <3>2
  <2> HIDE DEF m
  <2>4. m \in Cells
    BY <1>1, <2>3 DEF Cells
  <2> QED BY <2>1, <2>2, <2>4 DEF At
<1>4. ASSUME NEW m \in Nat, NEW k \in Nat, At(m) = At(k) PROVE m = k
  <2>1. m \div Order = k \div Order /\ m % Order = k % Order
    BY <1>4 DEF At
  <2>2. m = Order * (m \div Order) + (m % Order)
    BY <1>1, DivRest
  <2>3. k = Order * (k \div Order) + (k % Order)
    BY <1>1, DivRest
  <2> DEFINE a == m \div Order
             b == m % Order
             c == k \div Order
             d == k % Order
  <2>4. m = Order * a + b
    BY <2>2
  <2>5. k = Order * c + d
    BY <2>3
  <2>6. a = c /\ b = d
    BY <2>1
  <2> HIDE DEF a, b, c, d
  <2> QED BY ONLY <2>4, <2>5, <2>6
<1> QED BY <1>2, <1>3, <1>4

\* An iteration is about the element at p \div Order.
LEMMA IterationAt ==
  ASSUME NEW p \in Iterations
  PROVE  /\ p \div Order \in Cells
         /\ <<p \div (Order * Order), (p \div Order) % Order>> = At(p \div Order)
         /\ p \div (Order * Order) \in Product!V
         /\ (p \div Order) % Order \in Product!V
         /\ p % Order \in Product!V
<1>1. Order \in Nat \ {0} /\ Order * Order \in Nat /\ p \in Nat
      /\ p < (Order * Order) * Order
  BY OmpAssumption DEF Iterations
<1>2. p \div Order \in Cells
  BY <1>1, DivBelow DEF Cells
<1>3. p \div (Order * Order) = (p \div Order) \div Order
  BY <1>1, DivTwice
<1>4. At(p \div Order) \in Product!Cell
  BY <1>2, CellsAt
<1>5. p % Order \in Product!V
  BY <1>1 DEF Product!V
<1> QED BY <1>2, <1>3, <1>4, <1>5 DEF At, Product!Cell

-----------------------------------------------------------------------------
(* The invariant of the product.                                           *)

ProductTypes ==
  /\ collapse \in BOOLEAN
  /\ round \in 1 .. Len(ProductTeams)
  /\ A \in [Product!Cell -> {0, 1}]
  /\ B \in [Product!Cell -> {0, 2}]
  /\ C \in [Product!Cell -> 0 .. 2 * Order]
  /\ phase \in [Product!Thread -> 1 .. 3]
  /\ pos \in [Product!Thread -> Nat]
  /\ regs \in [Product!Thread -> SUBSET Nat]
  /\ \A t \in Product!Thread : \A v, w \in regs[t] : v = w

\* A thread is in its part of a loop, and has something loaded only there.
InPart ==
  \A t \in Product!Thread :
    /\ t < Team =>
         /\ phase[t] = 1 => pos[t] \in Product!First(1, t) .. Product!First(1, t + 1)
         /\ phase[t] # 1 => pos[t] \in Product!First(2, t) .. Product!First(2, t + 1)
         /\ phase[t] = 3 => pos[t] = Product!First(2, t + 1)
    /\ t >= Team => pos[t] = 0
    /\ regs[t] # {} => t < Team /\ phase[t] = 2 /\ pos[t] < Product!First(2, t + 1)

\* Nobody is past a barrier that another has not reached.
Barrier ==
  \A t, u \in 0 .. Team - 1 : \A f \in {1, 2} : phase[t] > f => Product!Arrived(f, u)

\* Where a thread is in its part of a loop.
Reached(t, f) ==
  IF phase[t] < f THEN Product!First(f, t)
  ELSE IF phase[t] = f THEN pos[t] ELSE Product!First(f, t + 1)

Passed(f, p) ==
  \E t \in 0 .. Team - 1 : Product!First(f, t) <= p /\ p < Reached(t, f)

Multiplying == \E t \in 0 .. Team - 1 : phase[t] > 1

Filled ==
  \A m \in Cells : Passed(1, m) =>
    A[At(m)] = 1 /\ B[At(m)] = 2 /\ (Multiplying \/ C[At(m)] = 0)

\* The iterations of an element that are done.
Done(m) == {p \in Iterations : p \div Order = m /\ Passed(2, p)}

\* A sum of at most the additions that are done, all if nobody else adds.
SumOf(v, m) ==
  \E a \in 0 .. Order :
    /\ v = 2 * a
    /\ a <= Cardinality(Done(m))
    /\ At(m) \in Product!Shared \/ a = Cardinality(Done(m))

Sums ==
  Multiplying => \A m \in Cells :
    SumOf(C[At(m)], m) /\ (Done(m) = {} \/ C[At(m)] # 0)

Loads ==
  \A t \in 0 .. Team - 1 : \A v \in regs[t] : SumOf(v, pos[t] \div Order)

ProductInv == ProductTypes /\ InPart /\ Barrier /\ Filled /\ Sums /\ Loads

LEMMA Parts ==
  ASSUME ProductTypes, NEW t \in 0 .. Team - 1, NEW f \in {1, 2}
  PROVE  /\ t \in Product!Thread /\ Team \in Nat \ {0}
         /\ Product!First(f, t) \in Nat /\ Product!First(f, t + 1) \in Nat
         /\ Product!First(f, t) <= Product!First(f, t + 1)
         /\ Product!First(f, t + 1) <= Product!Size(f)
<1>1. round \in 1 .. Len(ProductTeams)
  BY DEF ProductTypes
<1> DEFINE first(v) == Product!First(f, v)
<1>2. /\ Team \in Nat \ {0} /\ 0 .. Team - 1 \subseteq Product!Thread
      /\ \A v \in 0 .. Team : first(v) \in Nat
      /\ first(Team) = Product!Size(f)
      /\ \A v, w \in 0 .. Team : v <= w => first(v) <= first(w)
  BY <1>1, Cuts
<1> HIDE DEF first
<1>3. t \in 0 .. Team /\ t + 1 \in 0 .. Team /\ Team \in 0 .. Team /\ t + 1 <= Team
  BY <1>2
<1>4. /\ t \in Product!Thread
      /\ first(t) \in Nat /\ first(t + 1) \in Nat
      /\ first(t) <= first(t + 1) /\ first(t + 1) <= Product!Size(f)
  BY <1>2, <1>3
<1> QED BY <1>2, <1>4 DEF first

LEMMA ReachedInPart ==
  ASSUME ProductTypes, InPart, NEW t \in 0 .. Team - 1, NEW f \in {1, 2}
  PROVE  /\ Reached(t, f) \in Nat
         /\ Product!First(f, t) <= Reached(t, f)
         /\ Reached(t, f) <= Product!First(f, t + 1)
<1>1. /\ t \in Product!Thread /\ Team \in Nat \ {0} /\ t < Team
      /\ Product!First(f, t) \in Nat /\ Product!First(f, t + 1) \in Nat
      /\ Product!First(f, t) <= Product!First(f, t + 1)
  BY Parts
<1>2. phase[t] \in 1 .. 3 /\ pos[t] \in Nat
  BY <1>1 DEF ProductTypes
<1>3. phase[t] = f => Product!First(f, t) <= pos[t] /\ pos[t] <= Product!First(f, t + 1)
  BY <1>1 DEF InPart
<1> QED BY <1>1, <1>2, <1>3 DEF Reached

\* When all have arrived the loop is done.
LEMMA AllPassed ==
  ASSUME ProductTypes, InPart, NEW f \in {1, 2},
         \A u \in 0 .. Team - 1 : Product!Arrived(f, u),
         NEW p \in Nat, p < Product!Size(f)
  PROVE  Passed(f, p)
<1>1. PICK t \in 0 .. Team - 1 : Owns(t, f, p)
  BY SomeOwner DEF ProductTypes
<1>2. /\ t \in Product!Thread /\ Team \in Nat \ {0} /\ t < Team
      /\ Product!First(f, t) \in Nat /\ Product!First(f, t + 1) \in Nat
  BY Parts
<1>3. phase[t] \in 1 .. 3 /\ pos[t] \in Nat
  BY <1>2 DEF ProductTypes
<1>4. phase[t] > f \/ (phase[t] = f /\ ~ (pos[t] < Product!First(f, t + 1)))
  BY <1>2, <1>3 DEF Product!Arrived, Product!InLoop, Product!Working, Team
<1>5. Product!First(f, t + 1) <= Reached(t, f)
  BY <1>2, <1>3, <1>4 DEF Reached
<1>6. Reached(t, f) \in Nat
  BY ReachedInPart
<1>7. Product!First(f, t) <= p /\ p < Reached(t, f)
  BY <1>1, <1>2, <1>5, <1>6 DEF Owns
<1> QED BY <1>7 DEF Passed

LEMMA AllFilled ==
  ASSUME ProductTypes, InPart, Barrier, Filled, Multiplying
  PROVE  \A c \in Product!Cell : A[c] = 1 /\ B[c] = 2
<1>1. PICK t \in 0 .. Team - 1 : phase[t] > 1
  BY DEF Multiplying
<1>2. \A u \in 0 .. Team - 1 : Product!Arrived(1, u)
  BY <1>1 DEF Barrier
<1>3. ASSUME NEW c \in Product!Cell PROVE A[c] = 1 /\ B[c] = 2
  <2>1. PICK m \in Cells : c = At(m)
    BY CellsAt
  <2>2. m \in Nat /\ m < Product!Size(1)
    <3>1. Order * Order \in Nat
      BY OmpAssumption
    <3> QED BY <3>1 DEF Cells, Product!Size
  <2>3. Passed(1, m)
    BY <1>2, <2>2, AllPassed
  <2> QED BY <2>1, <2>3 DEF Filled
<1> QED BY <1>3

\* Only one thread adds to an element that is not shared.
LEMMA AddsAlone ==
  ASSUME ProductTypes, NEW t \in 0 .. Team - 1, NEW u \in 0 .. Team - 1,
         NEW p \in Nat, Owns(t, 2, p), NEW q \in Nat, Owns(u, 2, q),
         p \div Order = q \div Order, At(p \div Order) \notin Product!Shared
  PROVE  ~ (t < u)
<1> DEFINE b == Product!First(2, u)
           m == p \div Order
           d == b \div Order
<1>1. SUFFICES ASSUME t < u PROVE FALSE
  OBVIOUS
<1>2. Order \in Nat \ {0}
  BY OmpAssumption
<1>3. /\ Team \in Nat /\ b \in Nat
      /\ Product!First(2, t + 1) <= b
  <2>1. Team \in Nat \ {0} /\ round \in 1 .. Len(ProductTeams)
    BY Cuts DEF ProductTypes
  <2>2. t + 1 \in 0 .. Team /\ u \in 0 .. Team /\ t + 1 <= u
    BY <1>1, <2>1
  <2>3. b \in Nat /\ Product!First(2, t + 1) <= b
    BY <2>1, <2>2, Cuts
  <2> QED BY <2>1, <2>3
<1>4. p < b /\ b <= q
  <2>1. p < Product!First(2, t + 1) /\ Product!First(2, t + 1) \in Nat
    BY Parts DEF Owns
  <2>2. b <= q
    BY DEF Owns
  <2> HIDE DEF b
  <2> QED BY <1>3, <2>1, <2>2
<1>5. u \in 1 .. ProductTeams[round] - 1
  BY <1>1, <1>3 DEF Team
<1>6. b % Order # 0 => <<b \div (Order * Order), (b \div Order) % Order>> \in Product!Shared
  BY <1>5 DEF Product!Shared
<1> HIDE DEF b
<1>7. m \in Nat /\ m * Order <= p /\ q < (m + 1) * Order /\ d \in Nat /\ d * Order <= b
      /\ b < (d + 1) * Order
  <2>1. m \in Nat /\ m * Order <= p /\ d \in Nat /\ d * Order <= b /\ b < (d + 1) * Order
    BY <1>2, <1>3, RaceP!DivBounds
  <2>2. q < (q \div Order + 1) * Order
    BY <1>2, RaceP!DivBounds
  <2> QED BY <2>1, <2>2
<1>8. b \div (Order * Order) = d \div Order
  BY <1>2, <1>3, DivTwice
<1>9. b = Order * d + (b % Order)
  BY <1>2, <1>3, DivRest
<1>10. At(m) \notin Product!Shared
  OBVIOUS
<1> HIDE DEF m, d
<1>11. m * Order \in Nat /\ (m + 1) * Order \in Nat
  BY <1>2, <1>7
<1>12. d = m
  <2>1. m * Order <= b /\ b < (m + 1) * Order
    BY <1>3, <1>4, <1>7, <1>11
  <2> QED BY <1>2, <1>3, <1>7, <2>1, RaceP!DivUnique DEF d
<1>13. b % Order # 0
  <2>1. SUFFICES ASSUME b % Order = 0 PROVE FALSE
    OBVIOUS
  <2>2. b = Order * m
    BY <1>2, <1>3, <1>7, <1>9, <1>12, <2>1
  <2>3. b = m * Order
    BY <1>2, <1>7, <2>2
  <2> QED BY <1>3, <1>4, <1>7, <1>11, <2>3
<1>14. At(m) = <<b \div (Order * Order), (b \div Order) % Order>>
  BY <1>8, <1>12 DEF At, d
<1> QED BY <1>6, <1>10, <1>13, <1>14

LEMMA CellIterations ==
  ASSUME NEW m \in Cells
  PROVE  LET all == m * Order .. m * Order + Order - 1
         IN  /\ {p \in Iterations : p \div Order = m} = all
             /\ IsFiniteSet(all) /\ Cardinality(all) = Order
<1> DEFINE b == m * Order
           all == b .. b + Order - 1
<1>1. Order \in Nat \ {0} /\ Order * Order \in Nat /\ m \in Nat /\ m < Order * Order
  <2>1. Order \in Nat \ {0}
    BY OmpAssumption
  <2>2. Order * Order \in Nat
    BY <2>1
  <2> QED BY <2>1, <2>2 DEF Cells
<1>2. b \in Nat /\ (m + 1) * Order = b + Order
  BY <1>1
<1>3. (m + 1) * Order <= (Order * Order) * Order /\ (Order * Order) * Order \in Nat
  BY <1>1, RaceP!TimesMonotone
<1>4. ASSUME NEW p \in Iterations, p \div Order = m PROVE p \in all
  <2>1. p \in Nat
    BY <1>4 DEF Iterations
  <2>2. m * Order <= p /\ p < (m + 1) * Order
    BY <1>1, <1>4, <2>1, RaceP!DivBounds
  <2> HIDE DEF b
  <2>3. b <= p /\ p < b + Order
    BY <1>2, <2>2 DEF b
  <2> QED BY <1>1, <1>2, <2>1, <2>3
<1>5. ASSUME NEW p \in all PROVE p \in Iterations /\ p \div Order = m
  <2>1. p \in Nat /\ b <= p /\ p < b + Order
    <3> HIDE DEF b
    <3> QED BY <1>1, <1>2
  <2>2. m * Order <= p /\ p < (m + 1) * Order
    BY <1>2, <2>1
  <2>3. p \div Order = m
    BY <1>1, <2>1, <2>2, RaceP!DivUnique
  <2>4. p < (Order * Order) * Order
    <3> HIDE DEF b
    <3> QED BY <1>1, <1>2, <1>3, <2>1
  <2> QED BY <1>3, <2>1, <2>3, <2>4 DEF Iterations
<1> HIDE DEF b
<1>6. IsFiniteSet(all) /\ Cardinality(all) = Order
  BY <1>1, <1>2, FS_Interval
<1> QED BY <1>4, <1>5, <1>6 DEF b

LEMMA DoneFinite ==
  ASSUME NEW m \in Cells
  PROVE  IsFiniteSet(Done(m)) /\ Cardinality(Done(m)) \in 0 .. Order
<1> DEFINE all == m * Order .. m * Order + Order - 1
<1>1. Done(m) \subseteq all /\ IsFiniteSet(all) /\ Cardinality(all) = Order
  BY CellIterations DEF Done
<1> HIDE DEF all
<1>2. IsFiniteSet(Done(m)) /\ Cardinality(Done(m)) <= Cardinality(all)
  BY <1>1, FS_Subset
<1>3. Cardinality(Done(m)) \in Nat /\ Order \in Nat
  BY <1>2, FS_CardinalityType, OmpAssumption
<1> QED BY <1>1, <1>2, <1>3

\* When all have arrived everything has been added.
LEMMA AllDone ==
  ASSUME ProductTypes, InPart, \A u \in 0 .. Team - 1 : Product!Arrived(2, u),
         NEW m \in Cells
  PROVE  Cardinality(Done(m)) = Order
<1>1. ASSUME NEW p \in Iterations PROVE Passed(2, p)
  <2>1. p \in Nat /\ p < Product!Size(2)
    <3>1. Order * Order * Order \in Nat
      BY OmpAssumption
    <3> QED BY <1>1, <3>1 DEF Iterations, Product!Size
  <2> QED BY <2>1, AllPassed
<1>2. Done(m) = {p \in Iterations : p \div Order = m}
  BY <1>1 DEF Done
<1> QED BY <1>2, CellIterations

-----------------------------------------------------------------------------
(* The steps of the product.                                               *)

LEMMA Fixed ==
  ASSUME round' = round, collapse' = collapse
  PROVE  /\ Team' = Team /\ Product!Shared' = Product!Shared
         /\ \A f, t : Product!First(f, t)' = Product!First(f, t)
<1>1. \A f, t : Product!First(f, t)' = Product!First(f, t)
  BY DEF Product!First, Product!Start
<1> QED BY <1>1 DEF Team, Product!Shared

LEMMA SameDone ==
  ASSUME round' = round, collapse' = collapse,
         \A t \in 0 .. Team - 1 : Reached(t, 2)' = Reached(t, 2)
  PROVE  /\ \A m : Done(m)' = Done(m)
         /\ \A v, m : SumOf(v, m)' <=> SumOf(v, m)
<1>1. ASSUME NEW p PROVE Passed(2, p)' <=> Passed(2, p)
  BY Fixed DEF Passed
<1>2. ASSUME NEW m PROVE Done(m)' = Done(m)
  BY <1>1 DEF Done
<1>3. ASSUME NEW v, NEW m PROVE SumOf(v, m)' <=> SumOf(v, m)
  BY <1>2, Fixed DEF SumOf
<1> QED BY <1>2, <1>3

\* A thread that is in its part has not arrived.
LEMMA StillNotArrived ==
  ASSUME ProductTypes, Barrier, round' = round, collapse' = collapse, phase' = phase,
         NEW t \in 0 .. Team - 1, Product!InLoop(t),
         \A u \in 0 .. Team - 1 : u # t => pos'[u] = pos[u]
  PROVE  Barrier'
<1>1. Team' = Team /\ \A f, u : Product!First(f, u)' = Product!First(f, u)
  BY Fixed
<1>2. \A u : (u < ProductTeams[round])' <=> u < ProductTeams[round]
  OBVIOUS
<1>3. ASSUME NEW u \in 0 .. Team - 1, NEW f \in {1, 2}, Product!Arrived(f, u)
      PROVE  Product!Arrived(f, u)'
  <2>1. CASE u = t
    BY <1>3, <2>1 DEF Product!Arrived
  <2>2. CASE u # t
    BY <1>1, <1>2, <1>3, <2>2 DEF Product!Arrived, Product!InLoop, Product!Working
  <2> QED BY <2>1, <2>2
<1> QED BY <1>1, <1>3 DEF Barrier

LEMMA InPartKept ==
  ASSUME ProductTypes, InPart, round' = round, collapse' = collapse, phase' = phase,
         NEW t \in 0 .. Team - 1, Product!InLoop(t),
         regs' \in [Product!Thread -> SUBSET Nat],
         \A u \in Product!Thread : u # t => regs'[u] = regs[u],
         \/ pos' = pos /\ phase[t] = 2
         \/ pos' = [pos EXCEPT ![t] = pos[t] + 1] /\ regs'[t] = {}
  PROVE  /\ InPart' /\ pos' \in [Product!Thread -> Nat]
         /\ \A u \in 0 .. Team - 1 : u # t => pos'[u] = pos[u]
<1>1. Team' = Team /\ \A f, u : Product!First(f, u)' = Product!First(f, u)
  BY Fixed
<1>2. /\ t \in Product!Thread /\ t < Team /\ phase[t] \in 1 .. 2 /\ pos[t] \in Nat
      /\ pos[t] < Product!First(phase[t], t + 1)
      /\ Team \in Nat \ {0} /\ 0 .. Team - 1 \subseteq Product!Thread
  <2>1. /\ t \in Product!Thread /\ Team \in Nat \ {0} /\ 0 .. Team - 1 \subseteq Product!Thread
    BY Cuts DEF ProductTypes
  <2>2. phase[t] \in 1 .. 3 /\ pos[t] \in Nat
    BY <2>1 DEF ProductTypes
  <2> QED BY <2>1, <2>2 DEF Product!InLoop
<1>3. \A f \in {1, 2} : /\ Product!First(f, t) \in Nat /\ Product!First(f, t + 1) \in Nat
                        /\ Product!First(f, t) <= Product!First(f, t + 1)
  BY Parts
<1>4. pos' \in [Product!Thread -> Nat]
  BY <1>2 DEF ProductTypes
<1>5. \A u \in Product!Thread : u # t => pos'[u] = pos[u]
  BY DEF ProductTypes
<1>6. ASSUME NEW u \in Product!Thread
      PROVE  /\ u < Team =>
                  /\ phase[u] = 1 => pos'[u] \in Product!First(1, u) .. Product!First(1, u + 1)
                  /\ phase[u] # 1 => pos'[u] \in Product!First(2, u) .. Product!First(2, u + 1)
                  /\ phase[u] = 3 => pos'[u] = Product!First(2, u + 1)
             /\ u >= Team => pos'[u] = 0
             /\ regs'[u] # {} => u < Team /\ phase[u] = 2 /\ pos'[u] < Product!First(2, u + 1)
  <2>1. CASE u # t
    BY <1>5, <2>1 DEF InPart
  <2>2. CASE u = t /\ pos'[t] = pos[t] /\ phase[t] = 2
    BY <1>2, <2>2 DEF InPart
  <2>3. CASE u = t /\ pos'[t] = pos[t] + 1 /\ regs'[t] = {}
    <3>1. phase[t] = 1 => pos[t] \in Product!First(1, t) .. Product!First(1, t + 1)
      BY <1>2 DEF InPart
    <3>2. phase[t] = 2 => pos[t] \in Product!First(2, t) .. Product!First(2, t + 1)
      BY <1>2 DEF InPart
    <3>3. CASE phase[t] = 1
      BY <1>2, <1>3, <2>3, <3>1, <3>3
    <3>4. CASE phase[t] = 2
      BY <1>2, <1>3, <2>3, <3>2, <3>4
    <3> QED BY <1>2, <3>3, <3>4
  <2>4. pos'[t] = pos[t] \/ pos'[t] = pos[t] + 1
    BY <1>2 DEF ProductTypes
  <2>5. (pos'[t] = pos[t] /\ phase[t] = 2) \/ (pos'[t] = pos[t] + 1 /\ regs'[t] = {})
    BY <1>2 DEF ProductTypes
  <2> QED BY <2>1, <2>2, <2>3, <2>5
<1>7. InPart'
  BY <1>1, <1>6 DEF InPart
<1> QED BY <1>2, <1>4, <1>5, <1>7

LEMMA InitCellKeeps ==
  ASSUME ProductInv, NEW t \in Product!Thread, Product!InitCell(t)
  PROVE  ProductInv'
<1> DEFINE p == pos[t]
<1>0. ProductTypes /\ InPart /\ Barrier /\ Filled
  BY DEF ProductInv
<1>1. /\ round' = round /\ collapse' = collapse /\ phase' = phase /\ regs' = regs
      /\ Product!InLoop(t) /\ phase[t] = 1 /\ pos' = [pos EXCEPT ![t] = p + 1]
      /\ A' = [A EXCEPT ![At(p)] = 1] /\ B' = [B EXCEPT ![At(p)] = 2]
      /\ C' = [C EXCEPT ![At(p)] = 0]
  BY DEF Product!InitCell, At
<1>2. t \in 0 .. Team - 1
  <2>1. t < Team /\ Team \in Nat
    BY <1>0, <1>1, Cuts DEF Product!InLoop, Product!Working, Team, ProductTypes
  <2>2. t \in Nat
    BY DEF Product!Thread
  <2> QED BY <2>1, <2>2
<1>3. Team' = Team /\ \A f, u : Product!First(f, u)' = Product!First(f, u)
  BY <1>1, Fixed
<1>4. p \in Nat /\ p < Product!First(1, t + 1) /\ Product!First(1, t) <= p
  BY <1>0, <1>1, <1>2, Parts DEF Product!InLoop, InPart, ProductTypes
<1>5. p \in Cells
  <2>1. Product!First(1, t + 1) \in Nat /\ Product!First(1, t + 1) <= Product!Size(1)
    BY <1>0, <1>2, Parts
  <2>2. Order * Order \in Nat
    BY OmpAssumption
  <2> QED BY <1>4, <2>1, <2>2 DEF Cells, Product!Size
<1>6. At(p) \in Product!Cell
  BY <1>5, CellsAt
<1>7. ~ Multiplying
  <2>1. SUFFICES ASSUME NEW u \in 0 .. Team - 1, phase[u] > 1 PROVE FALSE
    BY DEF Multiplying
  <2>2. Product!Arrived(1, t)
    BY <1>0, <1>2, <2>1 DEF Barrier
  <2> QED BY <1>1, <2>2 DEF Product!Arrived
<1>8. \A u \in Product!Thread : regs[u] = {}
  <2>1. SUFFICES ASSUME NEW u \in Product!Thread, regs[u] # {} PROVE FALSE
    OBVIOUS
  <2>2. u < Team /\ phase[u] = 2 /\ u \in Nat /\ Team \in Nat
    BY <1>0, <2>1, Cuts DEF InPart, Product!Thread, ProductTypes
  <2>3. u \in 0 .. Team - 1
    BY <2>2
  <2> QED BY <1>7, <2>2, <2>3 DEF Multiplying
<1>9. InPart' /\ pos' \in [Product!Thread -> Nat]
      /\ \A u \in 0 .. Team - 1 : u # t => pos'[u] = pos[u]
  <2>1. regs' \in [Product!Thread -> SUBSET Nat] /\ regs'[t] = {}
    BY <1>0, <1>1, <1>8 DEF ProductTypes
  <2>2. \A u \in Product!Thread : u # t => regs'[u] = regs[u]
    BY <1>1
  <2> QED BY <1>0, <1>1, <1>2, <2>1, <2>2, InPartKept
<1>10. Barrier'
  BY <1>0, <1>1, <1>2, <1>9, StillNotArrived
<1>11. ProductTypes'
  <2>1. 0 \in 0 .. 2 * Order
    BY OmpAssumption
  <2>2. A' \in [Product!Cell -> {0, 1}] /\ B' \in [Product!Cell -> {0, 2}]
        /\ C' \in [Product!Cell -> 0 .. 2 * Order]
    BY <1>0, <1>1, <1>6, <2>1 DEF ProductTypes
  <2> QED BY <1>0, <1>1, <1>9, <2>2 DEF ProductTypes
<1>12. ~ Multiplying'
  BY <1>1, <1>3, <1>7 DEF Multiplying
<1>13. ASSUME NEW m \in Cells, Passed(1, m)', m # p PROVE Passed(1, m)
  <2>1. PICK u \in 0 .. Team - 1 : Product!First(1, u) <= m /\ m < Reached(u, 1)'
    BY <1>3, <1>13 DEF Passed
  <2>2. m \in Nat
    BY OmpAssumption DEF Cells
  <2>3. m < Reached(u, 1)
    <3>1. CASE u = t
      <4>1. pos'[t] = p + 1
        BY <1>0, <1>1 DEF ProductTypes
      <4>2. Reached(t, 1)' = p + 1 /\ Reached(t, 1) = p
        BY <1>1, <4>1 DEF Reached
      <4> QED BY <1>4, <1>13, <2>1, <2>2, <3>1, <4>2
    <3>2. CASE u # t
      BY <1>1, <1>3, <1>9, <2>1, <3>2 DEF Reached
    <3> QED BY <3>1, <3>2
  <2> QED BY <2>1, <2>3 DEF Passed
<1>14. Filled'
  <2>1. ASSUME NEW m \in Cells, Passed(1, m)'
        PROVE  A'[At(m)] = 1 /\ B'[At(m)] = 2 /\ C'[At(m)] = 0
    <3>1. At(m) \in Product!Cell
      BY CellsAt
    <3>2. CASE At(m) = At(p)
      BY <1>0, <1>1, <3>1, <3>2 DEF ProductTypes
    <3>3. CASE At(m) # At(p)
      <4>1. Passed(1, m)
        BY <1>13, <2>1, <3>3
      <4>2. A[At(m)] = 1 /\ B[At(m)] = 2 /\ C[At(m)] = 0
        BY <1>0, <1>7, <4>1 DEF Filled
      <4> QED BY <1>0, <1>1, <3>1, <3>3, <4>2 DEF ProductTypes
    <3> QED BY <3>2, <3>3
  <2> QED BY <2>1 DEF Filled
<1>15. Sums'
  BY <1>12 DEF Sums
<1>16. Loads'
  BY <1>0, <1>1, <1>3, <1>8, Parts DEF Loads
<1> QED BY <1>9, <1>10, <1>11, <1>14, <1>15, <1>16 DEF ProductInv

\* A thread of the second loop is at an iteration, and the elements are filled.
LEMMA AtIteration ==
  ASSUME ProductInv, NEW t \in Product!Thread, Product!InLoop(t), phase[t] = 2
  PROVE  /\ t \in 0 .. Team - 1 /\ Multiplying
         /\ pos[t] \in Iterations /\ Owns(t, 2, pos[t])
         /\ pos[t] \div Order \in Cells /\ At(pos[t] \div Order) \in Product!Cell
         /\ <<Product!I(t), Product!J(t)>> = At(pos[t] \div Order)
         /\ A[Product!I(t), Product!K(t)] * B[Product!K(t), Product!J(t)] = 2
<1>0. ProductTypes /\ InPart /\ Barrier /\ Filled
  BY DEF ProductInv
<1>1. t \in 0 .. Team - 1
  <2>1. t < Team /\ Team \in Nat
    BY <1>0, Cuts DEF Product!InLoop, Product!Working, Team, ProductTypes
  <2> QED BY <2>1 DEF Product!Thread
<1>2. Multiplying
  BY <1>1 DEF Multiplying
<1>3. pos[t] \in Nat /\ Owns(t, 2, pos[t])
  <2>1. /\ Team \in Nat /\ t < Team
        /\ Product!First(2, t) \in Nat /\ Product!First(2, t + 1) \in Nat
    BY <1>0, <1>1, Parts
  <2>2. pos[t] \in Product!First(2, t) .. Product!First(2, t + 1)
    BY <1>0, <2>1 DEF InPart
  <2>3. pos[t] < Product!First(2, t + 1)
    BY DEF Product!InLoop
  <2> QED BY <2>1, <2>2, <2>3 DEF Owns
<1>4. pos[t] \in Iterations
  <2>1. Product!First(2, t + 1) \in Nat /\ Product!First(2, t + 1) <= Product!Size(2)
    BY <1>0, <1>1, Parts
  <2>2. Order * Order * Order \in Nat
    BY OmpAssumption
  <2> QED BY <1>3, <2>1, <2>2 DEF Iterations, Product!Size, Owns
<1>5. pos[t] \div Order \in Cells /\ At(pos[t] \div Order) \in Product!Cell
  BY <1>4, IterationAt, CellsAt
<1>6. <<Product!I(t), Product!J(t)>> = At(pos[t] \div Order)
  BY <1>4, IterationAt DEF Product!I, Product!J
<1>7. <<Product!I(t), Product!K(t)>> \in Product!Cell /\ <<Product!K(t), Product!J(t)>> \in Product!Cell
  BY <1>4, IterationAt DEF Product!I, Product!J, Product!K, Product!Cell
<1>8. A[<<Product!I(t), Product!K(t)>>] = 1 /\ B[<<Product!K(t), Product!J(t)>>] = 2
  BY <1>0, <1>2, <1>7, AllFilled
<1>9. A[Product!I(t), Product!K(t)] * B[Product!K(t), Product!J(t)] = 2
  <2> DEFINE a == A[Product!I(t), Product!K(t)]
             b == B[Product!K(t), Product!J(t)]
  <2>1. a = 1 /\ b = 2
    BY <1>8, Zenon
  <2> HIDE DEF a, b
  <2>2. a * b = 2
    BY <2>1
  <2> QED BY <2>2 DEF a, b
<1> QED BY <1>1, <1>2, <1>3, <1>4, <1>5, <1>6, <1>9

LEMMA LoadKeeps ==
  ASSUME ProductInv, NEW t \in Product!Thread, Product!Load(t)
  PROVE  ProductInv'
<1> DEFINE m == pos[t] \div Order
           c == C[At(m)]
<1>0. ProductTypes /\ InPart /\ Barrier /\ Filled /\ Sums /\ Loads
  BY DEF ProductInv
<1>1. /\ t \in 0 .. Team - 1 /\ Multiplying /\ m \in Cells /\ At(m) \in Product!Cell
      /\ <<Product!I(t), Product!J(t)>> = At(m)
  BY AtIteration DEF Product!Load
<1>2. /\ round' = round /\ collapse' = collapse /\ phase' = phase /\ pos' = pos
      /\ A' = A /\ B' = B /\ C' = C
      /\ Product!InLoop(t) /\ phase[t] = 2
      /\ regs' = [regs EXCEPT ![t] = {c}]
  BY <1>1 DEF Product!Load
<1>3. Team' = Team
  BY <1>2, Fixed
<1>4. c \in 0 .. 2 * Order /\ c \in Nat
  BY <1>0, <1>1, OmpAssumption DEF ProductTypes
<1>5. SumOf(c, m)
  BY <1>0, <1>1 DEF Sums
<1> HIDE DEF c
<1>6. /\ regs' \in [Product!Thread -> SUBSET Nat]
      /\ \A u \in Product!Thread : regs'[u] = IF u = t THEN {c} ELSE regs[u]
  BY <1>0, <1>2, <1>4 DEF ProductTypes
<1>7. InPart'
  BY <1>0, <1>1, <1>2, <1>6, InPartKept
<1>8. Barrier'
  BY <1>0, <1>1, <1>2, StillNotArrived
<1>9. ProductTypes'
  <2>1. \A u \in Product!Thread : \A v, w \in regs'[u] : v = w
    BY <1>0, <1>6 DEF ProductTypes
  <2> QED BY <1>0, <1>2, <1>6, <2>1 DEF ProductTypes
<1>10. \A u \in 0 .. Team - 1 : Reached(u, 1)' = Reached(u, 1) /\ Reached(u, 2)' = Reached(u, 2)
  BY <1>2, Fixed DEF Reached
<1>11. Multiplying'
  BY <1>1, <1>2, <1>3 DEF Multiplying
<1>12. Filled'
  <2>1. \A k : Passed(1, k)' <=> Passed(1, k)
    BY <1>2, <1>10, Fixed DEF Passed
  <2> QED BY <1>0, <1>2, <1>11, <2>1 DEF Filled
<1>13. /\ \A k : Done(k)' = Done(k)
       /\ \A v, k : SumOf(v, k)' <=> SumOf(v, k)
  BY <1>2, <1>10, SameDone
<1>14. Sums'
  BY <1>0, <1>1, <1>2, <1>13 DEF Sums
<1>15. Loads'
  <2>1. ASSUME NEW u \in 0 .. Team - 1, NEW v \in regs'[u]
        PROVE  SumOf(v, pos[u] \div Order)
    <3>1. u \in Product!Thread
      BY <1>0, Parts
    <3>2. CASE u = t
      BY <1>5, <1>6, <2>1, <3>1, <3>2
    <3>3. CASE u # t
      BY <1>0, <1>6, <2>1, <3>1, <3>3 DEF Loads
    <3> QED BY <3>2, <3>3
  <2> QED BY <1>2, <1>3, <1>13, <2>1 DEF Loads
<1> QED BY <1>7, <1>8, <1>9, <1>12, <1>14, <1>15 DEF ProductInv

LEMMA StoreKeeps ==
  ASSUME ProductInv, NEW t \in Product!Thread, Product!Store(t)
  PROVE  ProductInv'
<1>. PICK p, m : p = pos[t] /\ m = p \div Order
  OBVIOUS
<1>0. ProductTypes /\ InPart /\ Barrier /\ Filled /\ Sums /\ Loads
  BY DEF ProductInv
<1>1. PICK c \in regs[t] :
        C' = [C EXCEPT ![<<Product!I(t), Product!J(t)>>] =
                c + A[Product!I(t), Product!K(t)] * B[Product!K(t), Product!J(t)]]
  BY DEF Product!Store
<1>2. phase[t] = 2 /\ Product!InLoop(t)
  <2>1. phase[t] = 2 /\ t < Team /\ pos[t] < Product!First(2, t + 1)
    BY <1>0, <1>1 DEF InPart
  <2> QED BY <2>1 DEF Product!InLoop, Product!Working, Team
<1>3. /\ t \in 0 .. Team - 1 /\ Multiplying /\ p \in Iterations /\ p \in Nat
      /\ Owns(t, 2, p) /\ m \in Cells /\ At(m) \in Product!Cell
      /\ C' = [C EXCEPT ![At(m)] = c + 2]
  <2>1. p \in Iterations => p \in Nat
    BY DEF Iterations
  <2> QED BY <1>1, <1>2, <2>1, AtIteration
<1>4. /\ round' = round /\ collapse' = collapse /\ phase' = phase /\ A' = A /\ B' = B
      /\ pos' = [pos EXCEPT ![t] = p + 1] /\ regs' = [regs EXCEPT ![t] = {}]
  BY DEF Product!Store
<1>5. Team' = Team /\ Product!Shared' = Product!Shared
      /\ \A f, u : Product!First(f, u)' = Product!First(f, u)
  BY <1>4, Fixed
<1>6. /\ regs' \in [Product!Thread -> SUBSET Nat]
      /\ \A u \in Product!Thread : regs'[u] = IF u = t THEN {} ELSE regs[u]
  BY <1>0, <1>4 DEF ProductTypes
<1>7. InPart' /\ pos' \in [Product!Thread -> Nat]
      /\ \A u \in 0 .. Team - 1 : u # t => pos'[u] = pos[u]
  <2>1. regs'[t] = {} /\ \A u \in Product!Thread : u # t => regs'[u] = regs[u]
    BY <1>6
  <2> QED BY <1>0, <1>2, <1>3, <1>4, <1>6, <2>1, InPartKept
<1>8. Barrier'
  BY <1>0, <1>2, <1>3, <1>4, <1>7, StillNotArrived
<1>9. pos'[t] = p + 1
  BY <1>0, <1>4 DEF ProductTypes
<1>10. ASSUME NEW u \in 0 .. Team - 1
       PROVE  /\ Reached(u, 1)' = Reached(u, 1)
              /\ Reached(u, 2)' = IF u = t THEN p + 1 ELSE Reached(u, 2)
  BY <1>2, <1>4, <1>5, <1>7, <1>9 DEF Reached
<1>11. Multiplying'
  BY <1>3, <1>4, <1>5 DEF Multiplying
<1>12. Filled'
  <2>1. \A k : Passed(1, k)' <=> Passed(1, k)
    BY <1>5, <1>10 DEF Passed
  <2> QED BY <1>0, <1>4, <1>11, <2>1 DEF Filled
<1>13. ~ Passed(2, p)
  <2>1. SUFFICES ASSUME NEW u \in 0 .. Team - 1, Product!First(2, u) <= p, p < Reached(u, 2)
        PROVE FALSE
    BY DEF Passed
  <2>2. Owns(u, 2, p)
    <3>1. Reached(u, 2) \in Nat /\ Reached(u, 2) <= Product!First(2, u + 1)
      BY <1>0, ReachedInPart
    <3>2. Product!First(2, u + 1) \in Nat
      BY <1>0, Parts
    <3> QED BY <1>3, <2>1, <3>1, <3>2 DEF Owns
  <2>3. u = t
    BY <1>0, <1>3, <2>2, OneOwner DEF ProductTypes
  <2>4. Reached(t, 2) = p
    BY <1>2 DEF Reached
  <2> QED BY <1>3, <2>1, <2>3, <2>4
<1>14. ASSUME NEW q \in Nat PROVE Passed(2, q)' <=> Passed(2, q) \/ q = p
  <2>1. Reached(t, 2) = p /\ Reached(t, 2)' = p + 1 /\ Product!First(2, t) <= p
    BY <1>2, <1>3, <1>10 DEF Reached, Owns
  <2>2. Passed(2, p)'
    <3>1. Product!First(2, t)' <= p /\ p < Reached(t, 2)' /\ t \in 0 .. Team' - 1
      BY <1>3, <1>5, <2>1
    <3> QED BY <3>1 DEF Passed
  <2>3. ASSUME Passed(2, q) PROVE Passed(2, q)'
    <3>1. PICK u \in 0 .. Team - 1 : Product!First(2, u) <= q /\ q < Reached(u, 2)
      BY <2>3 DEF Passed
    <3>2. q < Reached(u, 2)'
      BY <1>3, <1>10, <2>1, <3>1
    <3> QED BY <1>5, <3>1, <3>2 DEF Passed
  <2>4. ASSUME Passed(2, q)', q # p PROVE Passed(2, q)
    <3>1. PICK u \in 0 .. Team - 1 : Product!First(2, u) <= q /\ q < Reached(u, 2)'
      BY <1>5, <2>4 DEF Passed
    <3>2. q < Reached(u, 2)
      BY <1>3, <1>10, <2>1, <2>4, <3>1
    <3> QED BY <3>1, <3>2 DEF Passed
  <2>5. CASE q = p
    BY <2>2, <2>5
  <2>6. CASE q # p
    BY <2>3, <2>4, <2>6
  <2> QED BY <2>5, <2>6
<1>15. \A q \in Iterations : q \in Nat
  BY DEF Iterations
<1>16. /\ Done(m)' = Done(m) \cup {p} /\ p \notin Done(m)
       /\ \A k : k # m => Done(k)' = Done(k)
  <2>1. ASSUME NEW k PROVE Done(k)' = Done(k) \cup {q \in Iterations : q = p /\ m = k}
    BY <1>14, <1>15 DEF Done
  <2>2. {q \in Iterations : q = p} = {p}
    BY <1>3
  <2>3. p \notin Done(m)
    BY <1>13 DEF Done
  <2> QED BY <2>1, <2>2, <2>3
<1>17. Cardinality(Done(m)') = Cardinality(Done(m)) + 1 /\ Cardinality(Done(m)) \in Nat
       /\ Cardinality(Done(m)') <= Order
  <2>1. IsFiniteSet(Done(m)) /\ Cardinality(Done(m)) \in 0 .. Order
    BY <1>3, DoneFinite
  <2>2. Cardinality(Done(m)') = Cardinality(Done(m)) + 1
    BY <1>16, <2>1, FS_AddElement
  <2>3. Cardinality(Done(m)') \in 0 .. Order
    <3> DEFINE all == m * Order .. m * Order + Order - 1
    <3>1. Done(m)' \subseteq all
      BY <1>3, CellIterations DEF Done
    <3>2. IsFiniteSet(all) /\ Cardinality(all) = Order
      BY <1>3, CellIterations
    <3> HIDE DEF all
    <3>3. IsFiniteSet(Done(m)') /\ Cardinality(Done(m)') <= Order
      BY <3>1, <3>2, FS_Subset
    <3> QED BY <3>3, FS_CardinalityType, OmpAssumption
  <2> QED BY <2>1, <2>2, <2>3
<1>18. SumOf(c, m)
  BY <1>0, <1>1, <1>3 DEF Loads
<1>19. SumOf(c + 2, m)' /\ c + 2 # 0 /\ c + 2 \in 0 .. 2 * Order
  <2>1. PICK a \in 0 .. Order : /\ c = 2 * a /\ a <= Cardinality(Done(m))
                                /\ At(m) \in Product!Shared \/ a = Cardinality(Done(m))
    BY <1>18 DEF SumOf
  <2>2. /\ a + 1 \in 0 .. Order /\ c + 2 = 2 * (a + 1)
        /\ a + 1 <= Cardinality(Done(m)')
        /\ At(m) \in Product!Shared \/ a + 1 = Cardinality(Done(m)')
    <3>1. Order \in Nat
      BY OmpAssumption
    <3> QED BY <1>17, <2>1, <3>1
  <2>3. SumOf(c + 2, m)'
    BY <1>5, <2>2 DEF SumOf
  <2>4. Order \in Nat
    BY OmpAssumption
  <2> QED BY <2>2, <2>3, <2>4
<1>20. ProductTypes'
  <2>1. C' \in [Product!Cell -> 0 .. 2 * Order]
    BY <1>0, <1>3, <1>19 DEF ProductTypes
  <2>2. \A u \in Product!Thread : \A v, w \in regs'[u] : v = w
    BY <1>0, <1>6 DEF ProductTypes
  <2> QED BY <1>0, <1>4, <1>6, <1>7, <2>1, <2>2 DEF ProductTypes
<1>21. ASSUME NEW v, NEW k, k # m, SumOf(v, k) PROVE SumOf(v, k)'
  BY <1>5, <1>16, <1>21 DEF SumOf
<1>22. Sums'
  <2>1. ASSUME NEW k \in Cells PROVE SumOf(C[At(k)], k)' /\ (Done(k)' = {} \/ C'[At(k)] # 0)
    <3>1. At(k) \in Product!Cell /\ (k # m => At(k) # At(m))
      <4>1. k \in Nat /\ m \in Nat
        BY <1>3, OmpAssumption DEF Cells
      <4> QED BY <4>1, CellsAt
    <3>2. CASE k = m
      <4>1. C'[At(k)] = c + 2
        BY <1>0, <1>3, <3>2 DEF ProductTypes
      <4>2. SumOf(C[At(k)], k)'
        BY <1>19, <3>2, <4>1 DEF SumOf
      <4> QED BY <1>19, <4>1, <4>2
    <3>3. CASE k # m
      <4>1. C'[At(k)] = C[At(k)]
        BY <1>0, <1>3, <3>1, <3>3 DEF ProductTypes
      <4>2. SumOf(C[At(k)], k) /\ (Done(k) = {} \/ C[At(k)] # 0)
        BY <1>0, <1>3 DEF Sums
      <4>3. SumOf(C[At(k)], k)'
        BY <1>5, <1>16, <3>3, <4>1, <4>2 DEF SumOf
      <4> QED BY <1>16, <3>3, <4>1, <4>2, <4>3
    <3> QED BY <3>2, <3>3
  <2> QED BY <2>1 DEF Sums
<1>23. Loads'
  <2>1. SUFFICES ASSUME NEW u \in 0 .. Team - 1, NEW v \in regs'[u]
        PROVE  SumOf(v, pos[u] \div Order)'
    BY <1>5 DEF Loads
  <2>2. u \in Product!Thread
    BY <1>0, Parts
  <2>3. u # t /\ v \in regs[u] /\ pos'[u] = pos[u]
    BY <1>6, <1>7, <2>1, <2>2
  <2>. PICK k : k = pos[u] \div Order
    OBVIOUS
  <2>4. SumOf(v, k)
    BY <1>0, <2>3 DEF Loads
  <2>5. SumOf(v, k)'
    <3>1. CASE k # m
      BY <1>21, <2>4, <3>1
    <3>2. CASE k = m
      <4>1. Product!InLoop(u) /\ phase[u] = 2
        <5>1. phase[u] = 2 /\ u < Team /\ pos[u] < Product!First(2, u + 1)
          BY <1>0, <2>2, <2>3 DEF InPart
        <5> QED BY <5>1 DEF Product!InLoop, Product!Working, Team
      <4>2. Owns(u, 2, pos[u]) /\ pos[u] \in Nat
        BY <2>2, <4>1, <1>15, AtIteration
      <4>3. At(m) \in Product!Shared
        <5>1. SUFFICES ASSUME At(m) \notin Product!Shared PROVE FALSE
          OBVIOUS
        <5>2. ~ (t < u)
          BY <1>0, <1>3, <3>2, <4>2, <5>1, AddsAlone
        <5>3. ~ (u < t)
          BY <1>0, <1>3, <3>2, <4>2, <5>1, AddsAlone
        <5> QED BY <1>3, <2>3, <5>2, <5>3
      <4>4. PICK a \in 0 .. Order : v = 2 * a /\ a <= Cardinality(Done(m))
        BY <2>4, <3>2 DEF SumOf
      <4>5. a <= Cardinality(Done(m)')
        BY <1>17, <4>4
      <4> QED BY <1>5, <3>2, <4>3, <4>4, <4>5 DEF SumOf
    <3> QED BY <3>1, <3>2
  <2> QED BY <2>3, <2>5 DEF SumOf
<1> QED BY <1>7, <1>8, <1>12, <1>20, <1>22, <1>23 DEF ProductInv

LEMMA LeaveKeeps ==
  ASSUME ProductInv, NEW t \in Product!Thread, Product!Leave(t)
  PROVE  ProductInv'
<1> PICK f \in {1, 2} : f = phase[t]
  BY DEF ProductInv, ProductTypes, Product!Leave
<1>0. ProductTypes /\ InPart /\ Barrier /\ Filled /\ Sums /\ Loads
  BY DEF ProductInv
<1>1. /\ round' = round /\ collapse' = collapse /\ A' = A /\ B' = B /\ C' = C /\ regs' = regs
      /\ phase' = [phase EXCEPT ![t] = f + 1]
      /\ pos' = [pos EXCEPT ![t] = IF f = 1 THEN Product!First(2, t) ELSE pos[t]]
  BY DEF Product!Leave
<1>2. Team' = Team /\ Product!Shared' = Product!Shared
      /\ \A g, u : Product!First(g, u)' = Product!First(g, u)
  BY <1>1, Fixed
<1>3. t \in 0 .. Team - 1 /\ Team \in Nat \ {0} /\ 0 .. Team - 1 \subseteq Product!Thread
  <2>1. Team \in Nat \ {0} /\ 0 .. Team - 1 \subseteq Product!Thread
    BY <1>0, Cuts DEF ProductTypes
  <2>2. t < Team
    BY DEF Product!Leave, Product!Working, Team
  <2> QED BY <2>1, <2>2 DEF Product!Thread
<1>4. /\ \A g \in {1, 2} : /\ Product!First(g, t) \in Nat /\ Product!First(g, t + 1) \in Nat
                           /\ Product!First(g, t) <= Product!First(g, t + 1)
      /\ pos[t] \in Nat
  BY <1>0, <1>3, Parts DEF ProductTypes
<1>5. pos[t] = Product!First(f, t + 1)
  <2>1. ~ (pos[t] < Product!First(f, t + 1))
    BY <1>3 DEF Product!Leave, Product!InLoop
  <2>2. pos[t] \in Product!First(f, t) .. Product!First(f, t + 1)
    BY <1>0, <1>3 DEF InPart
  <2> QED BY <1>4, <2>1, <2>2
<1>6. \A u \in 0 .. Team - 1 : Product!Arrived(f, u)
  BY <1>3 DEF Product!Leave, Product!Working, Team
<1>7. /\ phase'[t] = f + 1
      /\ pos'[t] = IF f = 1 THEN Product!First(2, t) ELSE pos[t]
      /\ \A u \in Product!Thread : u # t => phase'[u] = phase[u] /\ pos'[u] = pos[u]
      /\ phase' \in [Product!Thread -> 1 .. 3] /\ pos' \in [Product!Thread -> Nat]
  BY <1>0, <1>1, <1>4 DEF ProductTypes
<1>8. regs[t] = {}
  BY <1>0, <1>4, <1>5 DEF InPart
<1>9. ProductTypes'
  BY <1>0, <1>1, <1>7 DEF ProductTypes
<1>10. InPart'
  <2>1. ASSUME NEW u \in Product!Thread
        PROVE  /\ u < Team =>
                    /\ phase'[u] = 1 => pos'[u] \in Product!First(1, u) .. Product!First(1, u + 1)
                    /\ phase'[u] # 1 => pos'[u] \in Product!First(2, u) .. Product!First(2, u + 1)
                    /\ phase'[u] = 3 => pos'[u] = Product!First(2, u + 1)
               /\ u >= Team => pos'[u] = 0
               /\ regs[u] # {} => u < Team /\ phase'[u] = 2 /\ pos'[u] < Product!First(2, u + 1)
    <3>1. CASE u # t
      BY <1>0, <1>7, <3>1 DEF InPart
    <3>2. CASE u = t /\ f = 1
      BY <1>3, <1>4, <1>7, <1>8, <3>2
    <3>3. CASE u = t /\ f = 2
      BY <1>3, <1>4, <1>5, <1>7, <1>8, <3>3
    <3> QED BY <3>1, <3>2, <3>3
  <2> QED BY <1>1, <1>2, <2>1 DEF InPart
<1>11. Barrier'
  <2>1. ASSUME NEW u \in 0 .. Team - 1, NEW g \in {1, 2}, Product!Arrived(g, u)
        PROVE  Product!Arrived(g, u)'
    <3>1. CASE u = t
      BY <1>7, <2>1, <3>1 DEF Product!Arrived
    <3>2. CASE u # t
      <4>1. phase'[u] = phase[u] /\ pos'[u] = pos[u]
        BY <1>3, <1>7, <3>2
      <4>2. Product!Working(u)' <=> Product!Working(u)
        BY <1>1 DEF Product!Working
      <4> QED BY <1>2, <2>1, <4>1, <4>2 DEF Product!Arrived, Product!InLoop
    <3> QED BY <3>1, <3>2
  <2>2. ASSUME NEW x \in 0 .. Team - 1, NEW u \in 0 .. Team - 1, NEW g \in {1, 2}, phase'[x] > g
        PROVE  Product!Arrived(g, u)
    <3>1. CASE x # t \/ g # f
      <4>1. phase[x] > g
        BY <1>3, <1>7, <2>2, <3>1
      <4> QED BY <1>0, <4>1 DEF Barrier
    <3>2. CASE g = f
      BY <1>6, <3>2
    <3> QED BY <3>1, <3>2
  <2> QED BY <1>2, <2>1, <2>2 DEF Barrier
<1>12. ASSUME NEW u \in 0 .. Team - 1, NEW g \in {1, 2}
       PROVE  Reached(u, g)' = Reached(u, g)
  <2>1. CASE u # t
    BY <1>2, <1>3, <1>7, <2>1 DEF Reached
  <2>2. CASE u = t /\ f = 1
    BY <1>2, <1>5, <1>7, <2>2 DEF Reached
  <2>3. CASE u = t /\ f = 2
    BY <1>2, <1>5, <1>7, <2>3 DEF Reached
  <2> QED BY <2>1, <2>2, <2>3
<1>13. /\ \A m : Done(m)' = Done(m)
       /\ \A v, m : SumOf(v, m)' <=> SumOf(v, m)
  BY <1>1, <1>12, SameDone
<1>14. Multiplying'
  BY <1>2, <1>3, <1>7 DEF Multiplying
<1>15. Filled'
  <2>1. \A m : Passed(1, m)' <=> Passed(1, m)
    BY <1>2, <1>12 DEF Passed
  <2> QED BY <1>0, <1>1, <1>14, <2>1 DEF Filled
<1>16. Sums'
  <2>1. ASSUME NEW m \in Cells PROVE SumOf(C[At(m)], m) /\ (Done(m) = {} \/ C[At(m)] # 0)
    <3>1. CASE Multiplying
      BY <1>0, <3>1 DEF Sums
    <3>2. CASE ~ Multiplying
      <4>1. ASSUME NEW u \in 0 .. Team - 1 PROVE phase[u] = 1
        <5>1. u \in Product!Thread
          BY <1>0, Parts
        <5>2. phase[u] \in 1 .. 3
          BY <1>0, <5>1 DEF ProductTypes
        <5>3. ~ (phase[u] > 1)
          BY <3>2 DEF Multiplying
        <5> QED BY <5>2, <5>3
      <4>2. m \in Nat /\ m < Product!Size(1)
        <5>1. Order * Order \in Nat
          BY OmpAssumption
        <5> QED BY <5>1 DEF Cells, Product!Size
      <4>3. f = 1
        BY <1>3, <4>1
      <4>4. Passed(1, m)
        BY <1>0, <1>6, <4>2, <4>3, AllPassed
      <4>5. C[At(m)] = 0
        BY <1>0, <3>2, <4>4 DEF Filled
      <4>6. \A p \in Iterations : ~ Passed(2, p)
        <5>1. SUFFICES ASSUME NEW p \in Iterations, NEW u \in 0 .. Team - 1,
                              Product!First(2, u) <= p, p < Reached(u, 2)
              PROVE  FALSE
          BY DEF Passed
        <5>2. Reached(u, 2) = Product!First(2, u)
          BY <4>1 DEF Reached
        <5>3. Product!First(2, u) \in Nat /\ p \in Nat
          BY <1>0, Parts DEF Iterations
        <5> QED BY <5>1, <5>2, <5>3
      <4>7. Done(m) = {}
        BY <4>6 DEF Done
      <4>8. 0 \in 0 .. Order /\ Cardinality(Done(m)) = 0
        BY <4>7, FS_EmptySet, OmpAssumption
      <4> QED BY <4>5, <4>7, <4>8 DEF SumOf
    <3> QED BY <3>1, <3>2
  <2> QED BY <1>1, <1>13, <2>1 DEF Sums
<1>17. Loads'
  <2>1. ASSUME NEW u \in 0 .. Team - 1, NEW v \in regs[u] PROVE SumOf(v, pos'[u] \div Order)
    <3>1. u # t
      BY <1>8, <2>1
    <3>2. pos'[u] = pos[u]
      BY <1>3, <1>7, <3>1
    <3> QED BY <1>0, <2>1, <3>2 DEF Loads
  <2> QED BY <1>1, <1>2, <1>13, <2>1 DEF Loads
<1> QED BY <1>9, <1>10, <1>11, <1>15, <1>16, <1>17 DEF ProductInv

AtBegin ==
  /\ ProductTypes
  /\ \A t \in Product!Thread : phase[t] = 1 /\ regs[t] = {}
  /\ pos = Product!Begin(ProductTeams[round])

\* A round begins: nothing is filled, nobody multiplies.
LEMMA RoundBegins == AtBegin => ProductInv
<1>. SUFFICES ASSUME AtBegin PROVE ProductInv
  OBVIOUS
<1>0. /\ ProductTypes
      /\ \A t \in Product!Thread : phase[t] = 1 /\ regs[t] = {}
      /\ pos = Product!Begin(ProductTeams[round])
  BY DEF AtBegin
<1>1. /\ Team \in Nat \ {0} /\ 0 .. Team - 1 \subseteq Product!Thread
      /\ \A t \in Product!Thread : t \in Nat
  BY <1>0, Cuts DEF ProductTypes, Product!Thread
<1>2. \A t \in 0 .. Team - 1 : pos[t] = Product!First(1, t)
  BY <1>0, <1>1 DEF Product!Begin, Product!First, Team
<1>3. \A t \in Product!Thread : t >= Team => pos[t] = 0
  BY <1>0, <1>1 DEF Product!Begin, Team
<1>4. InPart
  <2>1. ASSUME NEW t \in Product!Thread, t < Team
        PROVE  pos[t] \in Product!First(1, t) .. Product!First(1, t + 1)
    <3>1. t \in 0 .. Team - 1
      BY <1>1, <2>1
    <3>2. /\ Product!First(1, t) \in Nat /\ Product!First(1, t + 1) \in Nat
          /\ Product!First(1, t) <= Product!First(1, t + 1)
      BY <1>0, <3>1, Parts
    <3> QED BY <1>2, <3>1, <3>2
  <2> QED BY <1>0, <1>3, <2>1 DEF InPart
<1>5. ~ Multiplying
  BY <1>0, <1>1 DEF Multiplying
<1>6. Barrier
  BY <1>0, <1>1 DEF Barrier
<1>7. Filled
  <2>1. SUFFICES ASSUME NEW m \in Cells, NEW t \in 0 .. Team - 1,
                        Product!First(1, t) <= m, m < Reached(t, 1)
        PROVE  FALSE
    BY DEF Filled, Passed
  <2>2. Reached(t, 1) = Product!First(1, t)
    BY <1>0, <1>1, <1>2 DEF Reached
  <2>3. Product!First(1, t) \in Nat /\ m \in Int
    BY <1>0, Parts DEF Cells
  <2> QED BY <2>1, <2>2, <2>3
<1>8. Loads
  BY <1>0, <1>1 DEF Loads
<1> QED BY <1>0, <1>4, <1>5, <1>6, <1>7, <1>8 DEF ProductInv, Sums

LEMMA NextRoundKeeps ==
  ASSUME ProductInv, Product!NextRound
  PROVE  ProductInv'
<1>0. ProductTypes /\ InPart
  BY DEF ProductInv
<1>1. /\ round < Len(ProductTeams) /\ round' = round + 1 /\ collapse' = collapse
      /\ A' = A /\ B' = B /\ C' = C /\ regs' = regs
      /\ phase' = [t \in Product!Thread |-> 1] /\ pos' = Product!Begin(ProductTeams[round + 1])
  BY DEF Product!NextRound
<1>2. \A t \in Product!Thread : regs[t] = {}
  BY <1>0 DEF InPart, Product!NextRound, Product!RoundDone, Product!Working, Team
<1>3. round' \in 1 .. Len(ProductTeams)
  <2>1. Len(ProductTeams) \in Nat
    BY OmpAssumption
  <2> QED BY <1>0, <1>1, <2>1 DEF ProductTypes
<1>4. \A t \in Product!Thread : Product!Start(ProductTeams[round + 1], 1, t) \in Nat
                                \/ ~ (t < ProductTeams[round + 1])
  <2>1. ProductTeams[round + 1] \in Nat \ {0}
    BY <1>1, <1>3, OmpAssumption
  <2> QED BY <2>1, Starts DEF Product!Thread
<1>5. pos' \in [Product!Thread -> Nat]
  BY <1>1, <1>4 DEF Product!Begin
<1>6. ProductTypes'
  BY <1>0, <1>1, <1>3, <1>5 DEF ProductTypes
<1>7. pos' = Product!Begin(ProductTeams[round])'
  BY <1>1 DEF Product!Begin, Product!Start
<1>8. AtBegin'
  BY <1>1, <1>2, <1>6, <1>7 DEF AtBegin
<1>9. AtBegin' => ProductInv'
  BY RoundBegins, PTL
<1> QED BY <1>8, <1>9

LEMMA ProductBegins == Product!Init => ProductInv
<1>1. SUFFICES ASSUME Product!Init PROVE AtBegin
  BY RoundBegins
<1>2. Order \in Nat \ {0} /\ 0 \in 0 .. 2 * Order
  BY OmpAssumption
<1>3. round = 1 /\ 1 \in 1 .. Len(ProductTeams) /\ ProductTeams[1] \in Nat \ {0}
  <2>1. Len(ProductTeams) \in Nat \ {0}
    BY OmpAssumption
  <2> QED BY <1>1, <2>1, OmpAssumption DEF Product!Init
<1>4. \A t \in Product!Thread : Product!Start(ProductTeams[1], 1, t) \in Nat
                                \/ ~ (t < ProductTeams[1])
  BY <1>3, Starts DEF Product!Thread
<1>5. pos \in [Product!Thread -> Nat]
  BY <1>1, <1>4 DEF Product!Begin, Product!Init
<1>6. ProductTypes
  BY <1>1, <1>2, <1>3, <1>5 DEF Product!Init, ProductTypes
<1> QED BY <1>1, <1>3, <1>6 DEF AtBegin, Product!Init

LEMMA ProductStutters ==
  ASSUME ProductInv, UNCHANGED rounds, UNCHANGED matmul
  PROVE  ProductInv'
<1>1. /\ round' = round /\ collapse' = collapse /\ A' = A /\ B' = B /\ C' = C
      /\ phase' = phase /\ pos' = pos /\ regs' = regs
  BY DEF rounds, matmul
<1>2. Team' = Team /\ Product!Shared' = Product!Shared
      /\ \A f, t : Product!First(f, t)' = Product!First(f, t)
  BY <1>1, Fixed
<1>3. \A t, f : Reached(t, f)' = Reached(t, f)
  BY <1>1, <1>2 DEF Reached
<1>4. /\ \A m : Done(m)' = Done(m)
      /\ \A v, m : SumOf(v, m)' <=> SumOf(v, m)
  BY <1>1, <1>3, SameDone
<1>5. \A f, p : Passed(f, p)' <=> Passed(f, p)
  BY <1>2, <1>3 DEF Passed
<1>6. Multiplying' <=> Multiplying
  BY <1>1, <1>2 DEF Multiplying
<1>7. ProductTypes'
  BY <1>1 DEF ProductInv, ProductTypes
<1>8. InPart'
  BY <1>1, <1>2 DEF ProductInv, InPart
<1>9. Barrier'
  <2>1. \A f, u : Product!Arrived(f, u)' <=> Product!Arrived(f, u)
    BY <1>1, <1>2 DEF Product!Arrived, Product!InLoop, Product!Working
  <2> QED BY <1>1, <1>2, <2>1 DEF ProductInv, Barrier
<1>10. Filled'
  BY <1>1, <1>5, <1>6 DEF ProductInv, Filled
<1>11. Sums'
  BY <1>1, <1>4, <1>6 DEF ProductInv, Sums
<1>12. Loads'
  BY <1>1, <1>2, <1>4 DEF ProductInv, Loads
<1> QED BY <1>7, <1>8, <1>9, <1>10, <1>11, <1>12 DEF ProductInv

LEMMA ProductNext ==
  ASSUME ProductInv, Product!Step \/ (UNCHANGED rounds /\ UNCHANGED matmul)
  PROVE  ProductInv'
  BY InitCellKeeps, LoadKeeps, StoreKeeps, LeaveKeeps, NextRoundKeeps, ProductStutters
  DEF Product!Step

LEMMA ProductKeeps ==
  ASSUME ProductInv
  PROVE  Product!TypeOK /\ Product!ProductRight
<1>0. ProductTypes /\ InPart /\ Barrier /\ Sums /\ Loads
  BY DEF ProductInv
<1>1. /\ Team \in Nat \ {0} /\ 0 .. Team - 1 \subseteq Product!Thread
      /\ \A t \in Product!Thread : t \in Nat
  BY <1>0, Cuts DEF ProductTypes, Product!Thread
<1>2. ASSUME NEW t \in Product!Thread PROVE pos[t] \in 0 .. Order * Order * Order
  <2>1. Order * Order \in Nat /\ Order * Order * Order \in Nat
        /\ Order * Order <= Order * Order * Order
    <3>1. Order \in Nat \ {0} /\ 1 <= Order
      BY OmpAssumption
    <3>2. Order * Order \in Nat /\ Order * Order * Order \in Nat
      BY <3>1
    <3>3. 1 * (Order * Order) <= Order * (Order * Order)
      BY <3>1, <3>2, RaceP!TimesMonotone
    <3> QED BY <3>1, <3>2, <3>3
  <2>2. CASE t >= Team
    BY <1>0, <2>1, <2>2 DEF InPart
  <2>3. CASE t < Team
    <3>1. t \in 0 .. Team - 1
      BY <1>1, <2>3
    <3>2. \A f \in {1, 2} : /\ Product!First(f, t) \in Nat /\ Product!First(f, t + 1) \in Nat
                            /\ Product!First(f, t + 1) <= Product!Size(f)
      BY <1>0, <3>1, Parts
    <3>3. Product!Size(1) = Order * Order /\ Product!Size(2) = Order * Order * Order
      BY DEF Product!Size
    <3>4. \E f \in {1, 2} : pos[t] \in Product!First(f, t) .. Product!First(f, t + 1)
      BY <1>0, <2>3 DEF InPart
    <3> HIDE DEF Product!Size
    <3> QED BY <2>1, <3>2, <3>3, <3>4
  <2> QED BY <1>1, <2>2, <2>3
<1>3. ASSUME NEW t \in Product!Thread
      PROVE  regs[t] \subseteq 0 .. 2 * Order /\ Cardinality(regs[t]) <= 1
  <2>1. CASE regs[t] = {}
    BY <2>1, FS_EmptySet
  <2>2. CASE regs[t] # {}
    <3>1. PICK v : v \in regs[t]
      BY <2>2
    <3>2. regs[t] = {v}
      BY <1>0, <3>1 DEF ProductTypes
    <3>3. t \in 0 .. Team - 1
      BY <1>0, <1>1, <2>2 DEF InPart
    <3>4. PICK a \in 0 .. Order : v = 2 * a
      BY <1>0, <3>1, <3>3 DEF Loads, SumOf
    <3>5. v \in 0 .. 2 * Order
      BY <3>4, OmpAssumption
    <3>6. Cardinality({v}) = 1
      BY FS_Singleton
    <3> QED BY <3>2, <3>5, <3>6
  <2> QED BY <2>1, <2>2
<1>4. Product!TypeOK
  <2>1. \A S : Product!Cardinality(S) = Cardinality(S)
    BY DEF Product!Cardinality, Cardinality
  <2> QED BY <1>0, <1>2, <1>3, <2>1 DEF ProductTypes, Product!TypeOK
<1>5. ASSUME Product!RoundDone, NEW c \in Product!Cell
      PROVE  IF c \in Product!Shared THEN C[c] \in {2 * m : m \in 1 .. Order}
             ELSE C[c] = 2 * Order
  <2>1. \A u \in 0 .. Team - 1 : phase[u] = 3
    BY <1>1, <1>5 DEF Product!RoundDone, Product!Working, Team
  <2>2. Multiplying
    <3>1. 0 \in 0 .. Team - 1
      BY <1>1
    <3> QED BY <2>1, <3>1 DEF Multiplying
  <2>3. PICK m \in Cells : c = At(m)
    BY CellsAt
  <2>4. Cardinality(Done(m)) = Order
    <3>1. \A u \in 0 .. Team - 1 : Product!Arrived(2, u)
      BY <2>1 DEF Product!Arrived
    <3> QED BY <1>0, <3>1, AllDone
  <2>5. SumOf(C[c], m) /\ (Done(m) = {} \/ C[c] # 0)
    BY <1>0, <2>2, <2>3 DEF Sums
  <2>6. C[c] # 0
    <3>1. Order # 0
      BY OmpAssumption
    <3> QED BY <2>4, <2>5, <3>1, FS_EmptySet
  <2>7. PICK a \in 0 .. Order : C[c] = 2 * a /\ (c \in Product!Shared \/ a = Order)
    BY <2>3, <2>4, <2>5 DEF SumOf
  <2>8. a \in 1 .. Order
    BY <2>6, <2>7, OmpAssumption
  <2> QED BY <2>7, <2>8
<1>6. Product!ProductRight
  BY <1>5 DEF Product!ProductRight
<1> QED BY <1>4, <1>6

-----------------------------------------------------------------------------
(***************************************************************************)
(* The invariant: that of the program that is run.                         *)
(***************************************************************************)
OmpInv ==
  /\ program \in {"race", "calm", "alone", "missing", "product", "strikes",
                  "chunks", "overflow", "plain"}
  /\ program = "race" => RaceInv
  /\ program = "calm" => CalmInv
  /\ program = "alone" => AloneInv
  /\ program = "missing" => MissingInv
  /\ program = "product" => ProductInv
  /\ program = "strikes" => StrikesInv
  /\ program = "chunks" => ChunksInv
  /\ program = "overflow" => OverflowP!Types
  /\ program = "plain" => PlainInv

LEMMA OmpInit == Init => OmpInv
  BY RaceBegins, CalmBegins, AloneBegins, MissingBegins, ProductBegins,
     StrikesBegins, ChunksBegins, OverflowBegins, PlainBegins
  DEF Init, RaceInit, MissingInit, OmpInv

LEMMA OmpNext == OmpInv /\ [Next]_vars => OmpInv'
<1>1. SUFFICES ASSUME OmpInv, [Next]_vars PROVE OmpInv'
  OBVIOUS
<1>2. /\ program' = program
      /\ program = "race" => Race!Step \/ UNCHANGED rounds
      /\ program = "calm" => Calm!Step \/ UNCHANGED rounds
      /\ program = "alone" => Alone!Step \/ UNCHANGED rounds
      /\ program = "missing" => Missing!Step \/ UNCHANGED rounds
      /\ program = "product" => Product!Step \/ (UNCHANGED rounds /\ UNCHANGED matmul)
      /\ program = "strikes" => Strikes!Step \/ UNCHANGED sieve
      /\ program = "chunks" => Chunks!Step \/ UNCHANGED sieve
      /\ program = "overflow" => Overflow!Step \/ UNCHANGED sieve
      /\ program = "plain" => Plain!Step \/ UNCHANGED sieve
  BY <1>1 DEF Next, Step, vars
<1>3. CASE program = "race"
  BY <1>1, <1>2, <1>3, RaceNext DEF OmpInv
<1>4. CASE program = "calm"
  BY <1>1, <1>2, <1>4, CalmNext DEF OmpInv
<1>5. CASE program = "alone"
  BY <1>1, <1>2, <1>5, AloneNext DEF OmpInv
<1>6. CASE program = "missing"
  BY <1>1, <1>2, <1>6, MissingNext DEF OmpInv
<1>7. CASE program = "product"
  BY <1>1, <1>2, <1>7, ProductNext DEF OmpInv
<1>8. CASE program = "strikes"
  BY <1>1, <1>2, <1>8, StrikesNext DEF OmpInv
<1>9. CASE program = "chunks"
  BY <1>1, <1>2, <1>9, ChunksNext DEF OmpInv
<1>10. CASE program = "overflow"
  BY <1>1, <1>2, <1>10, OverflowNext DEF OmpInv
<1>11. CASE program = "plain"
  BY <1>1, <1>2, <1>11, PlainNext DEF OmpInv
<1> QED BY <1>1, <1>3, <1>4, <1>5, <1>6, <1>7, <1>8, <1>9, <1>10, <1>11 DEF OmpInv

THEOREM OmpInvariant == Spec => []OmpInv
  BY OmpInit, OmpNext, PTL DEF Spec

(***************************************************************************)
(* The variables of whichever program is run keep their types, for any     *)
(* graph, any order of the matrices, any sizes and any number of threads.  *)
(***************************************************************************)
THEOREM TypeCorrect == Spec => []TypeOK
<1>1. OmpInv => TypeOK
  BY RaceKeeps, CalmKeeps, AloneKeeps, MissingKeeps, ProductKeeps,
     StrikesKeeps, ChunksKeeps, OverflowKeeps, PlainKeeps
  DEF OmpInv, TypeOK
<1> QED BY <1>1, OmpInvariant, PTL

(***************************************************************************)
(* No race of the threads makes an entry of the matrix smaller than the    *)
(* distance of its vertices (floyd_warshall_omp_dynamic.c:63-66).          *)
(***************************************************************************)
THEOREM DistancesBound == Spec => []NeverBelow
<1>1. OmpInv => NeverBelow
  BY RaceKeeps, CalmKeeps
  DEF OmpInv, NeverBelow
<1> QED BY <1>1, OmpInvariant, PTL

(***************************************************************************)
(* A matrix that holds distances is left as it is by every interleaving    *)
(* (floyd_warshall_omp_dynamic.c:58-66).                                   *)
(***************************************************************************)
THEOREM DistancesStay == Spec => []Settled
<1>1. OmpInv => Settled
  BY CalmKeeps
  DEF OmpInv, Settled
<1> QED BY <1>1, OmpInvariant, PTL

(***************************************************************************)
(* One thread ends with the shortest of the walks of at most as many edges *)
(* as there are vertices, if the sums fit into an int (reference.c:19-27). *)
(***************************************************************************)
THEOREM DistancesAlone == Spec => []ExactAlone
<1>1. OmpInv => ExactAlone
  BY AloneKeeps
  DEF OmpInv, ExactAlone
<1> QED BY <1>1, OmpInvariant, PTL

(***************************************************************************)
(* If INT_MAX stands for a missing edge between a vertex and vertex 0, the *)
(* sum of it and the edge back wraps around and is taken for a way: no     *)
(* matrix the one thread prints holds the distances (reference.c:23), for  *)
(* an int of any width and any weights it has room for.  ShortestPaths is  *)
(* violated not only for the graph of the run omp_race.                    *)
(***************************************************************************)
THEOREM MissingEdgesSpoil ==
  Spec => [](program = "missing" /\ Missing!RoundDone => A # MissingDist)
<1>1. OmpInv => (program = "missing" /\ Missing!RoundDone => A # MissingDist)
  BY MissingKeeps
  DEF OmpInv
<1> QED BY <1>1, OmpInvariant, PTL

(***************************************************************************)
(* Whatever the interleaving and the last round left, the elements of the  *)
(* product are right, but for those that two threads share                 *)
(* (matrix_multiply_omp_collapse.c), of which not all additions are lost.  *)
(***************************************************************************)
THEOREM ProductFound == Spec => []ProductRight
<1>1. OmpInv => ProductRight
  BY ProductKeeps
  DEF OmpInv, ProductRight
<1> QED BY <1>1, OmpInvariant, PTL

(***************************************************************************)
(* No interleaving of the threads strikes a prime or writes outside the    *)
(* array, as long as the numbers of the loops fit into an int              *)
(* (sieve_eratosthenes_omp_dynamic.c:19-33).                               *)
(***************************************************************************)
THEOREM PrimesSurvive == Spec => []NoPrimeStruck
<1>1. OmpInv => NoPrimeStruck
  BY StrikesKeeps, ChunksKeeps, PlainKeeps
  DEF OmpInv, NoPrimeStruck
<1> QED BY <1>1, OmpInvariant, PTL

(***************************************************************************)
(* Exactly the primes are printed, unless the condition is j * j < n and n *)
(* the square of a prime (sieve_eratosthenes_omp_dynamic.c:24,             *)
(* sieve_eratosthenes_omp.c:16).                                           *)
(***************************************************************************)
THEOREM PrimesPrinted == Spec => []PrimesRight
<1>1. OmpInv => PrimesRight
  BY StrikesKeeps, ChunksKeeps, PlainKeeps
  DEF OmpInv, PrimesRight
<1> QED BY <1>1, OmpInvariant, PTL
=============================================================================
