------------------------------- MODULE MCOmp --------------------------------
(* The graphs, sizes and threads the OpenMP programs are run with.         *)
EXTENDS Omp

Matrix(rows) ==
  [e \in (0 .. Len(rows) - 1) \X (0 .. Len(rows) - 1) |-> rows[e[1] + 1][e[2] + 1]]

\* From 2 to 4 there are four ways: direct, by 0, by 3 and, the best, by 1.
FourWays == Matrix(<< <<0, 10, 10, 10, 4>>,
                      <<10, 0, 10, 10, 1>>,
                      <<4, 1, 0, 3, 10>>,
                      <<10, 10, 10, 0, 3>>,
                      <<10, 10, 10, 10, 0>> >>)

\* A directed graph whose weights are its distances.
Closed == Matrix(<< <<0, 1, 3>>, <<6, 0, 2>>, <<4, 5, 0>> >>)

\* From 0 to 1 the best way is by 3 and 2.
Chain == Matrix(<< <<0, 9, 5, 1>>, <<7, 0, 8, 9>>, <<6, 1, 0, 8>>, <<9, 5, 1, 0>> >>)

\* The graph of floyd_warshall_omp_static.c:66-71, M for INT_MAX.
M == Half - 1
Static == Matrix(<< <<0, 2, 5, M, M, M>>,
                    <<M, 0, 7, 1, M, 8>>,
                    <<M, M, 0, 4, M, M>>,
                    <<M, M, M, 0, 3, M>>,
                    <<M, M, 2, M, 0, 3>>,
                    <<M, 5, M, 2, 4, 0>> >>)

MCRaceGraph    == [n |-> 5, weight |-> FourWays]
MCCalmGraph    == [n |-> 3, weight |-> Closed]
MCAloneGraph   == [n |-> 4, weight |-> Chain]
MCMissingGraph == [n |-> 6, weight |-> Static]

MCRaceTeams    == <<2>>
MCCalmTeams    == <<2, 2>>
MCProductTeams == <<2, 4>>

MCStrikeLoop   == [sizes |-> {4, 9, 16, 25, 50}, threads |-> 2, chunk |-> 2]
MCChunkLoop    == [sizes |-> {12}, threads |-> 3, chunk |-> 1]
MCOverflowLoop == [sizes |-> {14, 20}, threads |-> 2, chunk |-> 3]
=============================================================================
