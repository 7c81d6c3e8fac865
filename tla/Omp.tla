-------------------------------- MODULE Omp ---------------------------------
(***************************************************************************)
(* The OpenMP programs: one of them is run.                                *)
(*                                                                         *)
(* Floyd-Warshall runs on a graph [n, weight] with the threads of "race"   *)
(* or "calm" in each round, the latter on a matrix that holds distances    *)
(* already; with one thread ("alone"); and with one thread and an int that *)
(* INT_MAX takes part in ("missing").  The sieve runs with [sizes,         *)
(* threads, chunk]: chunks that are shared ("strikes", "chunks"), without  *)
(* OpenMP ("plain"), and with an int that is too narrow ("overflow").      *)
(***************************************************************************)
EXTENDS Integers, Sequences, FiniteSetsExt

CONSTANTS
  RaceGraph, RaceTeams,
  CalmGraph, CalmTeams,
  AloneGraph,
  MissingGraph,
  Order, ProductTeams,
  StrikeLoop, ChunkLoop, PlainSizes, OverflowLoop,
  Half        \* INT_MAX + 1

\* An int that wraps around, and one that is wide enough.
Narrow(x) == ((x + Half) % (2 * Half)) - Half
Wide(x)   == x

\* The walks that are an edge longer: the shortest from each vertex to each.
Longer(graph, walks) ==
  LET vertices == 0 .. graph.n - 1
  IN  [e \in vertices \X vertices |->
         Min({walks[e[1], k] + graph.weight[k, e[2]] : k \in vertices})]

\* The shortest of the walks of m edges, for m up to the number of vertices.
\* The weights from a vertex to itself are 0: these are of at most m edges.
Walks(graph) ==
  LET walks[m \in 1 .. graph.n] ==
        IF m = 1 THEN graph.weight ELSE Longer(graph, walks[m - 1])
  IN  walks

Distances(graph) == Walks(graph)[graph.n]

RaceDist    == Distances(RaceGraph)
AloneDist   == Distances(AloneGraph)
MissingDist == Distances(MissingGraph)

VARIABLES
  program,
  round, A, pos, regs,                               \* of FloydWarshall and MatMul
  collapse, B, C, phase,                             \* of MatMul
  n, is_prime, next, pc, j, last, multiple, wild     \* of Sieve

rounds == <<round, A, pos, regs>>
matmul == <<collapse, B, C, phase>>
sieve  == <<n, is_prime, next, pc, j, last, multiple, wild>>
vars   == <<program, rounds, matmul, sieve>>

Race    == INSTANCE FloydWarshall WITH n <- RaceGraph.n, Weight <- RaceGraph.weight,
             Dist <- RaceDist, Teams <- RaceTeams, Wrap <- Wide
Calm    == INSTANCE FloydWarshall WITH n <- CalmGraph.n, Weight <- CalmGraph.weight,
             Dist <- CalmGraph.weight, Teams <- CalmTeams, Wrap <- Wide
Alone   == INSTANCE FloydWarshall WITH n <- AloneGraph.n, Weight <- AloneGraph.weight,
             Dist <- AloneDist, Teams <- <<1>>, Wrap <- Wide
Missing == INSTANCE FloydWarshall WITH n <- MissingGraph.n, Weight <- MissingGraph.weight,
             Dist <- MissingDist, Teams <- <<1>>, Wrap <- Narrow

Product == INSTANCE MatMul WITH n <- Order, Teams <- ProductTeams

Strikes  == INSTANCE Sieve WITH Sizes <- StrikeLoop.sizes, Threads <- StrikeLoop.threads,
              Chunk <- StrikeLoop.chunk, Dynamic <- TRUE, Wrap <- Wide
Chunks   == INSTANCE Sieve WITH Sizes <- ChunkLoop.sizes, Threads <- ChunkLoop.threads,
              Chunk <- ChunkLoop.chunk, Dynamic <- TRUE, Wrap <- Wide
Overflow == INSTANCE Sieve WITH Sizes <- OverflowLoop.sizes, Threads <- OverflowLoop.threads,
              Chunk <- OverflowLoop.chunk, Dynamic <- TRUE, Wrap <- Narrow
Plain    == INSTANCE Sieve WITH Sizes <- PlainSizes, Threads <- 1, Chunk <- 1,
              Dynamic <- FALSE, Wrap <- Wide

LoopOK(loop) == /\ loop.sizes \subseteq Nat \ {0, 1}
                /\ loop.threads \in Nat /\ loop.chunk \in Nat \ {0}

\* There is no edge from some vertex to 0 or back; INT_MAX stands for it.
MissingOK ==
  LET w == MissingGraph.weight
  IN  /\ \A e \in DOMAIN w : w[e] \in 0 .. Half - 1
      /\ w[0, 0] = 0
      /\ \E x \in 0 .. MissingGraph.n - 1 : w[x, 0] + w[0, x] >= Half

\* The matrices are distances: no cycle of the graphs is negative.
ASSUME OmpAssumption ==
  /\ \A graph \in {RaceGraph, CalmGraph, AloneGraph, MissingGraph} :
       /\ graph.n \in Nat \ {0}
       /\ graph.weight \in [(0 .. graph.n - 1) \X (0 .. graph.n - 1) -> Int]
  /\ Race!Metric(RaceDist) /\ Calm!Metric(CalmGraph.weight) /\ Alone!Metric(AloneDist)
  /\ \A teams \in {RaceTeams, CalmTeams, ProductTeams} :
       /\ teams \in Seq(Nat \ {0}) /\ teams # <<>>
       /\ \A r \in DOMAIN teams : teams[r] <= teams[Len(teams)]
  /\ Order \in Nat \ {0}
  /\ \A loop \in {StrikeLoop, ChunkLoop, OverflowLoop} : LoopOK(loop)
  /\ PlainSizes \subseteq Nat \ {0, 1}
  /\ Half \in Nat \ {0} /\ MissingOK
  /\ \A size \in OverflowLoop.sizes : size < Half

NoRounds == round = 0 /\ A = 0 /\ pos = 0 /\ regs = 0
NoMatMul == collapse = 0 /\ B = 0 /\ C = 0 /\ phase = 0
NoSieve  == /\ n = 0 /\ is_prime = 0 /\ next = 0 /\ pc = 0 /\ j = 0 /\ last = 0
            /\ multiple = 0 /\ wild = 0

RaceInit    == program = "race" /\ Race!Init /\ NoMatMul /\ NoSieve
MissingInit == program = "missing" /\ Missing!Init /\ NoMatMul /\ NoSieve

Init ==
  \/ RaceInit
  \/ MissingInit
  \/ /\ \/ program = "calm" /\ Calm!Init
        \/ program = "alone" /\ Alone!Init
     /\ NoMatMul /\ NoSieve
  \/ program = "product" /\ Product!Init /\ NoSieve
  \/ /\ \/ program = "strikes" /\ Strikes!Init
        \/ program = "chunks" /\ Chunks!Init
        \/ program = "overflow" /\ Overflow!Init
        \/ program = "plain" /\ Plain!Init
     /\ NoRounds /\ NoMatMul

Step ==
  /\ \/ /\ \/ program = "race" /\ Race!Step
           \/ program = "calm" /\ Calm!Step
           \/ program = "alone" /\ Alone!Step
           \/ program = "missing" /\ Missing!Step
        /\ UNCHANGED <<matmul, sieve>>
     \/ program = "product" /\ Product!Step /\ UNCHANGED sieve
     \/ /\ \/ program = "strikes" /\ Strikes!Step
           \/ program = "chunks" /\ Chunks!Step
           \/ program = "overflow" /\ Overflow!Step
           \/ program = "plain" /\ Plain!Step
        /\ UNCHANGED <<rounds, matmul>>
  /\ UNCHANGED program

\* The program has ended.
Finished ==
  CASE program = "race" -> Race!Ended
    [] program = "calm" -> Calm!Ended
    [] program = "alone" -> Alone!Ended
    [] program = "missing" -> Missing!Ended
    [] program = "product" -> Product!Ended
    [] program = "strikes" -> Strikes!Ended
    [] program = "chunks" -> Chunks!Ended
    [] program = "overflow" -> Overflow!Ended
    [] program = "plain" -> Plain!Ended

Next == Step \/ (Finished /\ UNCHANGED vars)

Spec == Init /\ [][Next]_vars

\* As long as a thread can go on, one does.
FairSpec == Spec /\ WF_vars(Step)

\* Only the two threads of floyd_warshall_omp_dynamic.c and the thread of
\* reference.c with its missing edges.
GraphSpec == (RaceInit \/ MissingInit) /\ [][Next]_vars

-----------------------------------------------------------------------------
(* The properties of the programs, each of the program it is about.        *)

\* The variables of the program have their types.
TypeOK ==
  CASE program = "race" -> Race!TypeOK
    [] program = "calm" -> Calm!TypeOK
    [] program = "alone" -> Alone!TypeOK
    [] program = "missing" -> Missing!TypeOK
    [] program = "product" -> Product!TypeOK
    [] program = "strikes" -> Strikes!TypeOK
    [] program = "chunks" -> Chunks!TypeOK
    [] program = "overflow" -> Overflow!TypeOK
    [] program = "plain" -> Plain!TypeOK

\* Racing threads never make an entry smaller than the distance.
NeverBelow ==
  /\ program = "race" => Race!NeverBelow
  /\ program = "calm" => Calm!NeverBelow

\* A matrix of distances is left alone by racing threads.
Settled == program = "calm" => Calm!Settled

\* One thread computes the distances if INT_MAX takes part in no sum.
ExactAlone == program = "alone" => Alone!ExactAlone

\* The matrix that is printed holds the distances (README.md:187), also if
\* edges are missing (reference.c:29-34).
ShortestPaths ==
  /\ program = "race" => Race!ShortestPaths
  /\ program = "missing" => Missing!ShortestPaths

\* The product is right but for elements whose sum two threads share.
ProductRight == program = "product" => Product!ProductRight

\* No interleaving strikes a prime.
NoPrimeStruck ==
  /\ program = "strikes" => Strikes!NoPrimeStruck
  /\ program = "chunks" => Chunks!NoPrimeStruck
  /\ program = "plain" => Plain!NoPrimeStruck

\* The primes are printed unless n is the square of one.
PrimesRight ==
  /\ program = "strikes" => Strikes!PrimesRight
  /\ program = "chunks" => Chunks!PrimesRight
  /\ program = "plain" => Plain!PrimesRight

\* They are printed (README.md:206).
PrimesDocumented ==
  /\ program = "strikes" => Strikes!PrimesDocumented
  /\ program = "chunks" => Chunks!PrimesDocumented
  /\ program = "overflow" => Overflow!PrimesDocumented
  /\ program = "plain" => Plain!PrimesDocumented

(***************************************************************************)
(* Every program ends: no thread waits at a barrier another has left, and  *)
(* the races of the threads do not make one of them go on for ever.        *)
(***************************************************************************)
Ends == <>Finished
=============================================================================
