------------------------------ MODULE MCFat32 -------------------------------
(* Small volumes: the root, the directories D and E, a file, and a cluster *)
(* that continues the root, D, or nothing.  They lie behind each other or, *)
(* with two sectors in a cluster, with one cluster between them.           *)
EXTENDS Fat32Props, TLC

\* The first is the root's; At(2, 4) is LastCluster.
At(gap, k) == RootClus + gap * k

D(gap) == [attr |-> {"dir"}, stem |-> <<"d">>, ext |-> <<>>, first |-> At(gap, 1),
           deleted |-> FALSE]
E(gap) == [D(gap) EXCEPT !.stem = <<"e">>, !.first = At(gap, 2)]

\* A file f.txt, an empty file, the same marked as deleted, and a file ftxt
\* without extension, whose name is printed like the first.
File(gap) == [attr |-> {"archive"}, stem |-> <<"f">>, ext |-> <<"t", "x", "t">>,
              first |-> At(gap, 3), deleted |-> FALSE]
Files(gap) == {File(gap), [File(gap) EXCEPT !.first = 0],
               [File(gap) EXCEPT !.deleted = TRUE],
               [File(gap) EXCEPT !.stem = <<"f", "t", "x", "t">>, !.ext = <<>>]}

\* The places tried in the first, second and further sectors of a cluster.
Offsets(n) == IF n = 1 THEN {2, 3, 4} ELSE {3, 8}
Place(n, c, o) == (c - RootClus) * n * EntriesPerSec + o

Dots(n, e, parent) ==
  (Place(n, e.first, 0) :> [e EXCEPT !.stem = <<".">>]) @@
  (Place(n, e.first, 1) :> [e EXCEPT !.stem = <<".", ".">>, !.first = parent])

\* link is the cluster that goes on in the last one.
Image(n, gap, link, parentE, d, e, f, file) ==
  [spc |-> n,
   fat |-> [c \in Clusters |-> IF c = link THEN At(gap, 4) ELSE EndOfChain],
   entry |-> (d :> D(gap)) @@ (e :> E(gap)) @@ (f :> file)
               @@ Dots(n, D(gap), 0) @@ Dots(n, E(gap), parentE)]

\* The places of a directory: in its own cluster and, if it goes on, in the last.
Spots(n, gap, link, c) ==
  {Place(n, c, o) : o \in Offsets(n)} \cup
  (IF c = link THEN {Place(n, At(gap, 4), o) : o \in {0, n * EntriesPerSec - 1}} ELSE {})

\* D is in the root, E in the root or in D, the file in any of the three;
\* root and D, or the file, may have a second cluster.
VolumesOf(n, gap, files) ==
  UNION {
    {Image(n, gap, x[1], IF x[2] = RootClus THEN 0 ELSE x[2], d, e, f, x[4]) :
       <<d, e, f>> \in {y \in Spots(n, gap, x[1], RootClus) \X Spots(n, gap, x[1], x[2])
                              \X Spots(n, gap, x[1], x[3]) :
                          Cardinality({y[1], y[2], y[3]}) = 3}}
    : x \in {At(gap, k) : k \in {0, 1, 3}} \X {At(gap, k) : k \in {0, 1}}
              \X {At(gap, k) : k \in {0, 1, 2}} \X files}

\* Those with D at its first visible place.
Some == {v \in VolumesOf(1, 1, {File(1)}) :
           LET s == Place(1, RootClus, 3) IN s \in DOMAIN v.entry /\ v.entry[s] = D(1)}

\* The volume v with its entry e replaced.
Replaced(v, e, new) ==
  [v EXCEPT !.entry = [s \in DOMAIN @ |-> IF @[s] = e THEN new ELSE @[s]]]

\* Not a tree: E leads to the first cluster of D as well, also where it lies
\* in D.
Shared == {Replaced(v, E(1), [E(1) EXCEPT !.first = At(1, 1)]) : v \in Some}

\* D is deleted and its first cluster free.
Freed == {[Replaced(v, D(1), [D(1) EXCEPT !.deleted = TRUE]) EXCEPT !.fat[At(1, 1)] = 0] :
            v \in Some}

MCVolumes == VolumesOf(1, 1, Files(1)) \cup VolumesOf(2, 1, {File(1)})
               \cup VolumesOf(2, 2, Files(2)) \cup Shared \cup Freed

FileName == <<"f", ".", "t", "x", "t">>
MCPaths == {<<>>, <<FileName>>, <<<<"d">>, FileName>>, <<<<"e">>, FileName>>,
            <<<<"d">>, <<"e">>, FileName>>, <<<<"d">>, <<"e">>>>,
            <<FileName, FileName>>}
=============================================================================
