------------------------------- MODULE MCMLFQ -------------------------------
(* The instances of MLFQ that TLC checks.                                  *)
EXTENDS MLFQProps, TLC

CONSTANTS c1, c2

TwoCPUs == {c1, c2}
OneCPU  == {c1}

\* Two types of which task 1 has one and task 2 the other.
TwoTypes == {0, 1}
ByParity == [t \in 1 .. MaxTasks |-> t % 2]

\* Lengths of which a task file may hold any: below and at zero, and one that
\* takes a task down two levels.
OddLengths == {-1, 0, 5}

CpuSymmetry == Permutations(CPU)
=============================================================================
