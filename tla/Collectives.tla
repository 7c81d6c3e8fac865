---------------------------- MODULE Collectives -----------------------------
(***************************************************************************)
(* The tour of the collective calls,                                       *)
(* mpi_collective_operations/src/A2Q2.c: MPI_Scatterv with a stride,       *)
(* MPI_Gatherv of parts of different length, MPI_Reduce_scatter.           *)
(***************************************************************************)
EXTENDS Integers, Sequences, FiniteSetsExt

CONSTANT num_procs

VARIABLES input, stage, inside, mem, given, aborted

stride == 2

Stages   == 3
Kind(k)  == CASE k = 1 -> "scatter" [] k = 2 -> "gather" [] k = 3 -> "all"
Input    == {[i \in 0 .. num_procs * stride - 1 |-> i]}
Overruns == {}

displs(p) == p * stride

receiveCounts(p) == p + 1

total_elements[i \in 0 .. num_procs] ==
  IF i = 0 THEN 0 ELSE total_elements[i - 1] + receiveCounts(i - 1)

\* Mutant: the part of a process begins where that of the last one began.
displs2Behind(p) == total_elements[IF p = 0 THEN 0 ELSE p - 1]

displs2(p) == total_elements[p]

\* What process q sent stands from displs2(q) on.
receiveBuffer2(g) ==
  [i \in 0 .. displs2(num_procs) - 1 |->
     LET q == Max({r \in 0 .. num_procs - 1 : displs2(r) <= i})
     IN  g[q][i - displs2(q)]]

\* MPI_SUM over element p of what the processes sent.
Reduced(g, p) ==
  LET sum[n \in 0 .. num_procs] == IF n = 0 THEN 0 ELSE sum[n - 1] + g[n - 1][p]
  IN  sum[num_procs]

Give(k, p, sendBuffer, m) ==
  CASE k = 1 -> IF p = 0 THEN sendBuffer ELSE <<>>
    [] k = 2 -> [i \in 0 .. p |-> p * 10 + i]
    [] k = 3 -> [i \in 0 .. num_procs - 1 |-> p + i + 1]

\* The memory: what each of the three calls delivered.
Take(k, p, m, g) ==
  CASE k = 1 -> {<<g[0][displs(p)]>>}
    [] k = 2 -> {Append(m, IF p = 0 THEN receiveBuffer2(g) ELSE <<>>)}
    [] k = 3 -> {Append(m, Reduced(g, p))}

INSTANCE Spmd

-----------------------------------------------------------------------------
(***************************************************************************)
(* "Scatterv with strided data distribution (stride=2)", "Gatherv with     *)
(* variable-sized collection (rank+1 elements)", "Reduce_scatter with SUM  *)
(* operation" (README.md:90-92): each process ends with every second       *)
(* element of the array and the sum of its column, process 0 with the      *)
(* parts of all, none cut or overwritten, in the order of their ranks.     *)
(***************************************************************************)
Delivered ==
  /\ \A p \in Rank : Done(p) =>
       /\ mem[p][1] = 2 * p
       /\ mem[p][3] = num_procs * (p + 1) + (num_procs * (num_procs - 1)) \div 2
  /\ Done(0) => \A p \in Rank, i \in 0 .. num_procs - 1 : i <= p =>
       mem[0][2][(p * (p + 1)) \div 2 + i] = 10 * p + i
=============================================================================
