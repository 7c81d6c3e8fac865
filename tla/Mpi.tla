-------------------------------- MODULE Mpi ---------------------------------
(***************************************************************************)
(* The MPI programs: one of them is run, the product with an order of the  *)
(* matrix that the number of processes divides and with one it does not.   *)
(***************************************************************************)
EXTENDS Integers

CONSTANTS
  Racers,        \* the processes of the relay race
  Processes,     \* of the programs that share an array, a vector or a matrix
  Tourists,      \* of the tour of the collective calls
  ArrayLength,   \* of the second maximum, and the elements an array may have
  Values,
  VectorLength,  \* of the search
  EvenOrder,     \* rows of the matrix: a multiple of Processes, and no multiple
  UnevenOrder

\* With fewer than three processes a send of the race aborts the program.
ASSUME MpiAssumption ==
  /\ Racers \in Nat /\ Racers >= 3
  /\ Processes \in Nat \ {0} /\ Tourists \in Nat \ {0}
  /\ ArrayLength \in Nat /\ Values \subseteq Nat /\ VectorLength \in Nat
  /\ EvenOrder \in Nat \ {0} /\ EvenOrder % Processes = 0
  /\ UnevenOrder \in Nat /\ UnevenOrder % Processes # 0

VARIABLES
  program,
  input, stage, inside, mem, given, aborted,   \* of Spmd
  pc, net, pending, Tag, stop, now, winner     \* of RelayRace

spmd  == <<input, stage, inside, mem, given, aborted>>
relay == <<pc, net, pending, Tag, stop, now, winner>>
vars  == <<program, spmd, relay>>

Relay   == INSTANCE RelayRace    WITH num_procs <- Racers
Second  == INSTANCE SecondMax    WITH num_procs <- Processes, N <- ArrayLength
Search  == INSTANCE VectorSearch WITH num_procs <- Processes, N <- VectorLength
Even    == INSTANCE MatVec       WITH num_procs <- Processes, N <- EvenOrder
Uneven  == INSTANCE MatVec       WITH num_procs <- Processes, N <- UnevenOrder
Tour    == INSTANCE Collectives  WITH num_procs <- Tourists

NoSpmd  == /\ input = 0 /\ stage = 0 /\ inside = 0 /\ mem = 0 /\ given = 0
           /\ aborted = 0
NoRelay == /\ pc = 0 /\ net = 0 /\ pending = 0 /\ Tag = 0 /\ stop = 0 /\ now = 0
           /\ winner = 0

Init ==
  \/ program = "relay race" /\ Relay!Init /\ NoSpmd
  \/ /\ \/ program = "second max" /\ Second!Init
        \/ program = "vector search" /\ Search!Init
        \/ program = "even product" /\ Even!Init
        \/ program = "uneven product" /\ Uneven!Init
        \/ program = "tour" /\ Tour!Init
     /\ NoRelay

Step ==
  /\ \/ program = "relay race" /\ Relay!Step /\ UNCHANGED spmd
     \/ /\ \/ program = "second max" /\ Second!Step
           \/ program = "vector search" /\ Search!Step
           \/ program = "even product" /\ Even!Step
           \/ program = "uneven product" /\ Uneven!Step
           \/ program = "tour" /\ Tour!Step
        /\ UNCHANGED relay
  /\ UNCHANGED program

\* The program has ended.
Finished ==
  CASE program = "relay race" -> Relay!Raced
    [] program = "second max" -> Second!Ended
    [] program = "vector search" -> Search!Ended
    [] program = "even product" -> Even!Ended
    [] program = "uneven product" -> Uneven!Ended
    [] program = "tour" -> Tour!Ended

Next == Step \/ (Finished /\ UNCHANGED vars)

Spec == Init /\ [][Next]_vars

\* As long as a process can go on, one does.
FairSpec == Spec /\ WF_vars(Step)

-----------------------------------------------------------------------------
(* The properties of the programs, each of the program it is about.        *)

\* The variables of the program have their types.
TypeOK ==
  CASE program = "relay race" -> Relay!TypeOK
    [] program = "second max" -> Second!TypeOK
    [] program = "vector search" -> Search!TypeOK
    [] program = "even product" -> Even!StageOK
    [] program = "uneven product" -> Uneven!StageOK
    [] program = "tour" -> Tour!StageOK

\* Each baton stays in its team and is in one place.
BatonKept == program = "relay race" => Relay!BatonKept

\* Process 0 compares two times, after all runners have run.
BothTimed == program = "relay race" => Relay!BothTimed

\* The second-largest element (README.md:153) is printed, if the processes
\* divide the length of the array.
SecondRight == program = "second max" => Second!SecondRight

\* An index that is printed is that of the first zero.
IndexRight == program = "vector search" => Search!IndexRight

\* The product (README.md:125) is right if the processes divide the order, and
\* else as far as the matrix and the vector were distributed.
ProductRight ==
  /\ program = "even product" => Even!ProductRight
  /\ program = "uneven product" => Uneven!ProductRight

\* The results are those README.md documents: no zero is reported missing when
\* there is one (147), the second-largest element is found (153), the product is
\* that of the matrix and the vector (125).
ResultsDocumented ==
  /\ program = "vector search" => Search!NotFoundRight
  /\ program = "second max" => Second!SecondDocumented
  /\ program = "even product" => Even!ProductDocumented
  /\ program = "uneven product" => Uneven!ProductDocumented

\* The three collective calls deliver what README.md:90-92 says.
Delivered == program = "tour" => Tour!Delivered

(***************************************************************************)
(* Every program ends: every process takes part in every call, those with  *)
(* nothing to give included, and in the race nobody waits in a circle,     *)
(* whether or not a send waits for its receipt (RelayRace, Spmd).          *)
(***************************************************************************)
Ends == <>Finished
=============================================================================
