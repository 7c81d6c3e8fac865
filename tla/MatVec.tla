------------------------------- MODULE MatVec -------------------------------
(***************************************************************************)
(* The distributed matrix-vector product,                                  *)
(* parallel-matrix-multiply/src/parallel_matrix_mult.c: scatter the rows,  *)
(* scatter the vector, put it together everywhere, multiply, gather.       *)
(*                                                                         *)
(* Elements are symbols: one of the matrix or the vector is its index      *)
(* there, a sum of products is the set of the pairs that are multiplied.   *)
(***************************************************************************)
EXTENDS Integers, Sequences

CONSTANTS
  num_procs,
  N           \* rows and columns, 64 in the code

VARIABLES input, stage, inside, mem, given, aborted

nlocal == N \div num_procs
Local  == 0 .. nlocal - 1
Filled == nlocal * num_procs   \* elements that are distributed
Junk   == -1                   \* what malloc left, which may be any number

Stages   == 4
Kind(k)  == CASE k \in {1, 2} -> "scatter" [] k = 3 -> "all" [] k = 4 -> "gather"
Input    == {[matrix |-> [i \in 0 .. N * N - 1 |-> i], vector |-> [j \in 0 .. N - 1 |-> j]]}
Overruns == {}

Part(a, p, size) == [i \in 0 .. size - 1 |-> a[p * size + i]]

\* N elements, of which those that somebody sent are set.
Together(g, unset) ==
  [i \in 0 .. N - 1 |-> IF i < Filled THEN g[i \div nlocal][i % nlocal] ELSE unset]

\* Mutant: the rows are as long as the part of the vector.
ProductShort(a, fb) ==
  [i \in Local |-> {<<a[i * N + j], fb[j]>> : j \in 0 .. nlocal - 1}]

Product(a, fb) == [i \in Local |-> {<<a[i * N + j], fb[j]>> : j \in 0 .. N - 1}]

\* The memory of a process: local_matrix, local_b, local_result, result.
Give(k, p, data, m) ==
  CASE k = 1 -> IF p = 0 THEN data.matrix ELSE <<>>
    [] k = 2 -> IF p = 0 THEN data.vector ELSE <<>>
    [] k \in {3, 4} -> m[k - 1]

Take(k, p, m, g) ==
  {Append(m, CASE k = 1 -> Part(g[0], p, nlocal * N)
               [] k = 2 -> Part(g[0], p, nlocal)
               [] k = 3 -> Product(m[1], Together(g, Junk))
               [] k = 4 -> IF p = 0 THEN Together(g, {<<Junk, Junk>>}) ELSE <<>>)}

INSTANCE Spmd

-----------------------------------------------------------------------------
\* The matrix-vector multiplication of README.md:125, with 2 to 64 processes
\* (README.md:134): every element is the sum over its whole row, each
\* element of it with that of the vector in its column (lines 25-42, 86-103).
ProductDocumented ==
  Done(0) => \A i \in 0 .. N - 1 :
    mem[0][4][i] = {<<i * N + j, j>> : j \in 0 .. N - 1}

(***************************************************************************)
(* So it is if num_procs divides N.  If not, the elements that are         *)
(* computed are such sums, but their last columns meet elements of fb that *)
(* nobody sent, and the last elements are not computed: what is printed    *)
(* there depends on what malloc left, and nothing is claimed of it.        *)
(***************************************************************************)
ProductRight ==
  Done(0) => \A i \in 0 .. Filled - 1 :
    mem[0][4][i] = {<<i * N + j, IF j < Filled THEN j ELSE Junk>> : j \in 0 .. N - 1}
=============================================================================
