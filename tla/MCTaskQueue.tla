----------------------------- MODULE MCTaskQueue ----------------------------
(* Four threads and four tasks: a list long enough to have an inner task *)
(* and a thread that finds the queue emptied between Peek and DeqLock.     *)
EXTENDS TaskQueue, TLC

CONSTANTS p1, p2, p3, p4, n1, n2, n3, n4

FourThreads == {p1, p2, p3, p4}
FourNodes   == {n1, n2, n3, n4}
Sym == Permutations(FourThreads) \cup Permutations(FourNodes)
=============================================================================
