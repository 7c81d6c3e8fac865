----------------------------- MODULE SecondMax ------------------------------
(***************************************************************************)
(* The two-pass search for the second largest element,                     *)
(* parallel-second-max/src/econd_max_finder.c: scatter, local maximum,     *)
(* MPI_Allreduce, strike the maximum out, and the same again.              *)
(***************************************************************************)
EXTENDS Integers, Sequences, FiniteSetsExt

CONSTANTS
  num_procs,
  N,       \* length of the array, 100 in the code
  Values   \* its possible elements, 0 .. 99 in the code

VARIABLES input, stage, inside, mem, given, aborted

local_size == N \div num_procs
Local      == 0 .. local_size - 1

Stages   == 3
Kind(k)  == IF k = 1 THEN "scatter" ELSE "all"
Input    == [0 .. N - 1 -> Values]
Overruns == {}

find_local_max(a) == Max({a[i] : i \in DOMAIN a} \cup {-1})
global_max(g)     == Max({g[q] : q \in DOMAIN g})

\* The memory of a process: local_data, and in the end global_second_max.
Give(k, p, data, m) ==
  IF k = 1 THEN (IF p = 0 THEN data ELSE <<>>) ELSE find_local_max(m[1])

\* Mutant: every process strikes out its own maximum.
ClearLocal(m, p, g) == <<[i \in Local |-> IF m[1][i] = g[p] THEN -1 ELSE m[1][i]]>>

\* Mutant: the maximum is negated.
ClearNegates(m, p, g) ==
  <<[i \in Local |-> IF m[1][i] = global_max(g) THEN -m[1][i] ELSE m[1][i]]>>

\* The maximum is struck out wherever it is.
Clear(m, p, g) ==
  <<[i \in Local |-> IF m[1][i] = global_max(g) THEN -1 ELSE m[1][i]]>>

Take(k, p, m, g) ==
  CASE k = 1 -> {<<[i \in Local |-> g[0][p * local_size + i]]>>}
    [] k = 2 -> {Clear(m, p, g)}
    [] k = 3 -> {Append(m, global_max(g))}

INSTANCE Spmd

-----------------------------------------------------------------------------
TypeOK ==
  /\ StageOK
  /\ \A p \in Rank :
       /\ stage[p] > 1 => mem[p][1] \in [Local -> Values \cup {-1}]
       /\ Done(p) => mem[p][2] \in Values \cup {-1}

\* The largest element below the maximum, or -1.
Second(S) == Max((S \ {Max(S \cup {-1})}) \cup {-1})

\* "Two-pass parallel algorithm to find second-largest element" (README.md:153),
\* which line 74 prints: duplicates of the maximum aside, -1 if there is no other
\* value.
SecondDocumented == Done(0) => mem[0][2] = Second({input[i] : i \in 0 .. N - 1})

(***************************************************************************)
(* It does if num_procs divides N, whatever the processes' relative speed: *)
(* no process mixes its two passes (lines 47-68).  If not, the last        *)
(* elements are never scattered (line 36), and the second largest may be   *)
(* one of them.                                                            *)
(***************************************************************************)
SecondRight == N % num_procs = 0 => SecondDocumented
=============================================================================
