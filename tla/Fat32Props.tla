----------------------------- MODULE Fat32Props -----------------------------
(* What list and get of Fat32Reader achieve, against the directory tree    *)
(* that the table and the entries of a volume describe.                    *)
EXTENDS Fat32Reader

TypeOK ==
  /\ pc \in {"main", "list", "get", "fetch", "end", "crash"}
  /\ stack \in Seq([cluster : Clusters \cup {0}, next : 0 .. spc * eps, depth : Nat,
                    calls : Nat])
  /\ \A k \in DOMAIN shown : shown[k] \in (0 .. LastSlot) \X Nat
  /\ Len(input) <= Len(command.path)
  /\ currentCluster \in Clusters \cup {0}
  /\ probe \in Clusters \cup {0}
  /\ calls \in Nat
  /\ output \in [from : Int, sectors : Nat \cup {-1}, done : BOOLEAN]

-----------------------------------------------------------------------------
(* The tree.                                                               *)

Base(c)      == findFirstSector(c) * EntriesPerSec
EntrySlots(c) == IF c \in Clusters THEN Base(c) .. Base(c) + eps - 1 ELSE {}

\* The directory entries of a cluster the code can see from it.
Seen(c) == {s \in EntrySlots(c) \cap DOMAIN vol.entry : s - Base(c) > 2 /\ vol.entry[s].attr # {}}

First(S) == {vol.entry[s].first : s \in S}
Dirs(S)  == {s \in S : "dir" \in vol.entry[s].attr}

\* All clusters of the directories that begin at the clusters of a set.
Chains(C) ==
  LET R[n \in 0 .. LastCluster] ==
        IF n = 0 THEN C \cap Clusters
        ELSE LET some == R[n - 1]
             IN  some \cup ({vol.fat[c] : c \in some} \cap Clusters)
  IN  R[LastCluster]

\* The clusters of the directories that lie at most n levels below the root.
Level[n \in 0 .. LastCluster] ==
  IF n = 0 THEN Chains({RootClus})
  ELSE LET above == Level[n - 1]
       IN  above \cup Chains(First(Dirs(UNION {Seen(c) : c \in above})))

DirClusters == Level[LastCluster]
AllSeen     == UNION {Seen(c) : c \in DirClusters}

\* The links and entries of the directories, and where each leads to.  The
\* directories form a tree if none leads to the root and no two to one of them.
Ways == ({"link"} \X DirClusters) \cup ({"entry"} \X Dirs(AllSeen))

LeadsTo(w) == IF w[1] = "link" THEN vol.fat[w[2]] ELSE vol.entry[w[2]].first

Tree ==
  LET ways == Ways
      dirs == DirClusters
  IN  \A x \in ways :
        /\ LeadsTo(x) # RootClus
        /\ LeadsTo(x) \in dirs => \A y \in ways : LeadsTo(x) = LeadsTo(y) => x = y

\* With several sectors per cluster listDir and findFile read on into the
\* cluster behind; nothing strays in if that one is not of a directory.
NoNeighbours(C) ==
  spc > 1 => \A c \in C : EntrySlots(c + 1) \cap DOMAIN vol.entry = {}

-----------------------------------------------------------------------------
(***************************************************************************)
(* What list prints, entries of deleted files included: every entry that   *)
(* does not lie at one of the first three places of its cluster, and only  *)
(* those, each below its directory, and each once if a cluster is a sector *)
(* and the directories form a tree (lines 365-443).                        *)
(***************************************************************************)
Parent(k) ==
  CHOOSE i \in 1 .. k - 1 :
    /\ shown[i][2] = shown[k][2] - 1
    /\ \A m \in i + 1 .. k - 1 : shown[m][2] > shown[i][2]

ListExact ==
  (pc = "end" /\ command.name = "list" /\ NoNeighbours(DirClusters)) =>
    /\ {shown[k][1] : k \in DOMAIN shown} = AllSeen
    /\ spc = 1 /\ Tree => Len(shown) = Cardinality(AllSeen)
    /\ \A k \in DOMAIN shown :
         shown[k][1] \in UNION {EntrySlots(c) : c \in
           Chains(IF shown[k][2] = 0 THEN {RootClus}
                  ELSE {vol.entry[shown[Parent(k)][1]].first})}

(***************************************************************************)
(* get never makes up a file: what it fetches is an entry of the tree that *)
(* carries the last name of the path, in a directory that some of the      *)
(* other names lead to, in their order (lines 156-189).                    *)
(***************************************************************************)
Named(C, name) ==
  {s \in UNION {Seen(c) : c \in C} : convertedName(vol.entry[s]) = name}

\* The first clusters of the directories that names of path[1 .. n] lead to.
LedTo(path) ==
  LET R[n \in 0 .. Len(path)] ==
        IF n = 0 THEN {RootClus}
        ELSE LET C == R[n - 1] IN C \cup First(Named(C, path[n]))
  IN  R

GetInTree ==
  pc = "fetch" \/ output # NoOutput =>
    LET path == command.path
        led  == LedTo(path)[Len(path) - 1]
    IN  NoNeighbours(led) => \E s \in Named(led, path[Len(path)]) :
          /\ "archive" \in vol.entry[s].attr
          /\ currentCluster = vol.entry[s].first

(***************************************************************************)
(* A file whose path is in use, written with its proper names, is reached  *)
(* and its copy begun, if every entry on the way lies in the first cluster *)
(* of its directory, not at its first three places, the file has an        *)
(* extension of three letters, the directories have none, and no other     *)
(* entry there is printed with the same name: no earlier component and no  *)
(* state of the search gets in the way (lines 159-189, 263-325).  What is  *)
(* copied is more than the file, and for an empty file none of it.         *)
(***************************************************************************)
properName(e) == IF e.ext = <<>> THEN e.stem ELSE e.stem \o <<".">> \o e.ext

\* The entry a name stands for in the directory that begins at c, if that is
\* so plain; none otherwise.
Plain(c, name) ==
  {s \in Seen(c) :
     /\ Named({c}, name) \subseteq {s}
     /\ ~ vol.entry[s].deleted
     /\ properName(vol.entry[s]) = name
     /\ Len(vol.entry[s].ext) = IF "archive" \in vol.entry[s].attr THEN 3 ELSE 0}

PlainIn(C, name) == UNION {Plain(c, name) : c \in C}

\* The directories the names of path[1 .. n] stand for.
PlainDirs(path) ==
  LET R[n \in 0 .. Len(path)] ==
        IF n = 0 THEN {RootClus} ELSE First(Dirs(PlainIn(R[n - 1], path[n])))
  IN  R

GetFinds ==
  (pc = "end" /\ command.path # <<>>) =>
    LET path == command.path
        n    == Len(path) - 1
    IN  NoNeighbours(LedTo(path)[n]) =>
          \A s \in PlainIn(PlainDirs(path)[n], path[n + 1]) :
            "archive" \in vol.entry[s].attr =>
              currentCluster = vol.entry[s].first /\ output # NoOutput

(***************************************************************************)
(* list and get end, and their calls of listDir and findFile, one for      *)
(* every directory and every further cluster of one, never fill a call     *)
(* stack that has room for one call more than there are clusters: for list *)
(* if the directories form a tree, for get if the chains of what the names *)
(* lead to end, and if the reading past a cluster finds nothing            *)
(* (lines 263-443).                                                        *)
(***************************************************************************)
Finite(c) ==
  LET chain == Chains({c})
  IN  Cardinality(chain) < MaxCalls /\ \E b \in chain : vol.fat[b] \notin Clusters

ListFits == NoNeighbours(DirClusters) /\ Tree /\ Cardinality(DirClusters) < MaxCalls
GetFits ==
  LET led == LedTo(command.path)[Len(command.path)]
  IN  NoNeighbours(led) /\ \A c \in led \cap Clusters : Finite(c)

Ends ==
  (pc = "main" /\ IF command.name = "list" THEN ListFits ELSE GetFits) ~> pc = "end"

(***************************************************************************)
(* "Output all files and directories on the drive." (line 137): every      *)
(* entry in use of a directory is printed.                                 *)
(***************************************************************************)
InUse(s) == vol.entry[s].attr # {} /\ ~ vol.entry[s].deleted
IsDots(s) == vol.entry[s].stem \in {<<".">>, <<".", ".">>}

ListAll ==
  (pc = "end" /\ command.name = "list") =>
    \A c \in DirClusters : \A s \in EntrySlots(c) \cap DOMAIN vol.entry :
      InUse(s) /\ ~ IsDots(s) => \E k \in DOMAIN shown : shown[k][1] = s

(***************************************************************************)
(* "Extract files from disk images" (README.md:72): a copy during which no *)
(* call failed is no longer than the clusters of the file, none for an     *)
(* empty one (lines 207-259).                                              *)
(***************************************************************************)
GetExtracts ==
  output.done => output.sectors <= spc * Cardinality(Chains({currentCluster}))

\* What the program and its documentation say of its two commands.
ResultsDocumented == ListAll /\ GetExtracts
=============================================================================
