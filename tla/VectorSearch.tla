---------------------------- MODULE VectorSearch ----------------------------
(***************************************************************************)
(* The search for the first zero of a vector,                              *)
(* parallel-vector-search/src/parallel_search.c: scatter, local search,    *)
(* MPI_Reduce with MPI_MIN.  An element is 0 or, for any other, 1.         *)
(*                                                                         *)
(* MPI_Scatter is called with MPI_DOUBLE on vectors of int: every part is  *)
(* twice as long as the code reckons with, process p gets the elements     *)
(* from 2 * chunk_size * p on, and whatever lies behind the vector.  It    *)
(* overruns local_vector, which may end the program there and then.        *)
(***************************************************************************)
EXTENDS Integers, Sequences, FiniteSetsExt

CONSTANTS
  num_procs,
  N           \* length of the vector, 256 in the code

VARIABLES input, stage, inside, mem, given, aborted

Index      == 0 .. N - 1
chunk_size == N \div num_procs
Local      == 0 .. chunk_size - 1
IntsPerDouble == 2

Stages   == 2
Kind(k)  == IF k = 1 THEN "scatter" ELSE "gather"
Input    == [Index -> {0, 1}]
Overruns == IF chunk_size > 0 THEN {1} ELSE {}

Zeros(a) == {i \in DOMAIN a : a[i] = 0}

\* Mutant: the last zero of the part, for want of a break.
search_zeroLast(local_vector, p) ==
  IF Zeros(local_vector) = {} THEN -1 ELSE Max(Zeros(local_vector)) + p * chunk_size

\* p * chunk_size is where the part would begin in a vector of double.
search_zero(local_vector, p) ==
  IF Zeros(local_vector) = {} THEN -1 ELSE Min(Zeros(local_vector)) + p * chunk_size

\* The memory of a process: local_vector, and in the end global_first_zero.
Give(k, p, vector, m) ==
  CASE k = 2 -> search_zero(m[1], p)
    [] k = 1 /\ p = 0 -> vector
    [] OTHER -> <<>>

\* The part, with anything behind the end of the vector; then the result of
\* MPI_MIN, which only process 0 gets.
Take(k, p, m, g) ==
  IF k = 1
  THEN {<<part>> : part \in {a \in [Local -> {0, 1}] : \A i \in Local :
          LET j == IntsPerDouble * chunk_size * p + i
          IN  j \in Index => a[i] = g[0][j]}}
  ELSE {Append(m, IF p = 0 THEN Min({g[q] : q \in DOMAIN g}) ELSE -1)}

INSTANCE Spmd

-----------------------------------------------------------------------------
TypeOK ==
  /\ StageOK
  /\ \A p \in Rank : Done(p) => mem[p][2] \in Index \cup {-1}

(***************************************************************************)
(* An index that is printed is that of the first zero of the vector, even  *)
(* though the processes but the first look at the wrong part of it: a      *)
(* process without a zero turns the minimum into -1, and the index process *)
(* 0 finds, in the one part it has right, is below all others (lines       *)
(* 10-15, 43-55).                                                          *)
(***************************************************************************)
IndexRight ==
  Done(0) /\ mem[0][2] >= 0 => Zeros(input) # {} /\ mem[0][2] = Min(Zeros(input))

(***************************************************************************)
(* "Handles 'not found' case with sentinel value (-1)" (README.md:147):    *)
(* no zero is reported missing when there is one.  MPI_MIN takes the       *)
(* sentinel of any process for the result.                                 *)
(***************************************************************************)
NotFoundRight == Done(0) /\ mem[0][2] = -1 => Zeros(input) = {}
=============================================================================
