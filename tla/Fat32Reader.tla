---------------------------- MODULE Fat32Reader -----------------------------
(***************************************************************************)
(* The FAT32 reader, fat32_filesystem_reader/src/fat32Reader.c: the        *)
(* commands list and get.                                                  *)
(*                                                                         *)
(* A volume is its number of sectors per cluster, its table, and the       *)
(* directory entries that 32 bytes at a place of the data region make,     *)
(* where they do.  Of dir_attr the code looks at two bits, "dir" (0x10)    *)
(* and "archive" (0x20), which it takes for the mark of a file; an entry   *)
(* with neither is a label, a piece of a long name or a file without the   *)
(* bit.  The entry of a deleted file is read like any other.  Of the first *)
(* cluster it takes the low half, dir_first_cluster_lo.                    *)
(***************************************************************************)
EXTENDS Integers, Sequences, FiniteSets, FiniteSetsExt

CONSTANTS
  EntriesPerSec, \* BPB_BytesPerSec / 32
  LastCluster,
  Volumes,       \* the volumes the program is run on
  Paths,         \* the arguments of get, cut at the slashes
  MaxCalls       \* the calls of listDir or findFile the call stack has room for

RootClus   == 2
Clusters   == RootClus .. LastCluster
EndOfChain == LastCluster + 1
Blank == [attr |-> {}, stem |-> <<>>, ext |-> <<>>, first |-> 0, deleted |-> FALSE]

\* A sector of 512 bytes has 16 entries.  The low half of a cluster's number is
\* all of it: on a larger volume list and get go to other clusters.
ASSUME Fat32Assumption ==
  /\ EntriesPerSec \in Nat /\ EntriesPerSec > 3
  /\ LastCluster \in Nat /\ RootClus <= LastCluster /\ LastCluster < 65536
  /\ MaxCalls \in Nat \ {0}
  /\ \A p \in Paths : p \in Seq(Seq(STRING))

\* A link leads to a cluster, ends the chain or, in a cluster that is free, is
\* 0; an entry lies in the data region and leads to a cluster or, for "..", a
\* label or an empty file, to 0.
\* The name of a file has the three characters appendDot moves.
ASSUME VolumesAssumption ==
  \A v \in Volumes :
    /\ v.spc \in Nat \ {0}
    /\ v.fat \in [Clusters -> Clusters \cup {0, EndOfChain}]
    /\ \A s \in DOMAIN v.entry :
         LET e == v.entry[s] IN
         /\ s \in 0 .. (LastCluster - 1) * v.spc * EntriesPerSec - 1
         /\ e.first \in Clusters \cup {0}
         /\ e.stem \in Seq(STRING) /\ e.ext \in Seq(STRING)
         /\ "archive" \in e.attr => Len(e.stem) + Len(e.ext) >= 3

VARIABLES
  vol,      \* the image: spc, fat, and entry for the places that have one
  command,  \* its name, "list" or "get", and its path
  pc,       \* "main", the command under way, "end" or "crash"
  stack,    \* the calls of listDir: cluster, place of the next entry, depth, and
            \* how many calls there are up to it
  shown,    \* the slots whose entries are printed, each with its depth
  input,    \* the rest of the path
  currentCluster,
  probe,    \* the cluster findFile searches
  calls,    \* the calls of findFile that led there
  output    \* output.txt: its first sector, its length, -1 before it is opened,
            \* whether it is complete

vars == <<vol, command, pc, stack, shown, input, currentCluster, probe, calls, output>>

spc      == vol.spc
eps      == spc * EntriesPerSec   \* "directory entry per sector"
Sectors  == (LastCluster - 1) * spc
LastSlot == Sectors * EntriesPerSec - 1
NoOutput == [from |-> 0, sectors |-> -1, done |-> FALSE]

-----------------------------------------------------------------------------
\* Relative to the data region; clusters 0 and 1 lie before it, in the table.
findFirstSector(c) == (c - 2) * spc

\* Past the end of the image nothing is read, the buffer keeps the last entry.
SlotAt(c, i, j) ==
  LET s == (findFirstSector(c) + i) * EntriesPerSec + j
  IN  IF s < LastSlot THEN s ELSE LastSlot

\* What the table holds has neither of the two bits where dir_attr would be.
readEntry(c, i, j) ==
  IF SlotAt(c, i, j) \in DOMAIN vol.entry THEN vol.entry[SlotAt(c, i, j)] ELSE Blank

\* The first two words of the table end a chain.  A 0 is followed like a link,
\* to what would be cluster 0.
readCurrentFAT(c) == IF c \in Clusters THEN vol.fat[c] ELSE EndOfChain

\* The first three places of what is taken for a sector are passed over.
Visible(c, i, j) == j > 2 /\ readEntry(c, i, j).attr # {}

\* The places of a cluster from p on, in the order of the two nested loops.
VisibleFrom(c, p) ==
  {q \in p .. spc * eps - 1 : Visible(c, q \div eps, q % eps)}

\* Mutant: the dot goes before the last two characters.
appendDotLate(file) ==
  SubSeq(file, 1, Len(file) - 2) \o <<".">> \o SubSeq(file, Len(file) - 1, Len(file))

\* Before the last three characters, whatever the extension.
appendDot(file) ==
  SubSeq(file, 1, Len(file) - 3) \o <<".">> \o SubSeq(file, Len(file) - 2, Len(file))

removeSpaces(e) == e.stem \o e.ext

convertedName(e) ==
  IF "archive" \in e.attr THEN appendDot(removeSpaces(e)) ELSE removeSpaces(e)

-----------------------------------------------------------------------------
Init ==
  /\ vol \in Volumes
  /\ command \in [name : {"list"}, path : {<<>>}] \cup [name : {"get"}, path : Paths]
  /\ input = command.path
  /\ pc = "main"
  /\ stack = <<>>
  /\ shown = <<>>
  /\ currentCluster = RootClus
  /\ probe = RootClus
  /\ calls = 1
  /\ output = NoOutput

Main ==
  /\ pc = "main"
  /\ pc' = command.name
  /\ stack' = IF command.name = "get" THEN <<>>
              ELSE <<[cluster |-> RootClus, next |-> 0, depth |-> 0, calls |-> 1]>>
  /\ UNCHANGED <<vol, command, shown, input, currentCluster, probe, calls, output>>

(***************************************************************************)
(* listDir.  The call for the next cluster of the chain takes the place of *)
(* its caller, which does nothing more when it returns, but it counts.     *)
(***************************************************************************)
Top       == stack[Len(stack)]
Callers   == SubSeq(stack, 1, Len(stack) - 1)
Unlisted  == VisibleFrom(Top.cluster, Top.next)
Listing   == pc = "list" /\ stack # <<>>

\* The program ends if there is one call too many.
Overflows(st) == st # <<>> /\ st[Len(st)].calls > MaxCalls

ListEntry ==
  /\ Listing /\ Unlisted # {}
  /\ LET q == Min(Unlisted)
         s == SlotAt(Top.cluster, q \div eps, q % eps)
         e == vol.entry[s]
         caller == Append(Callers, [Top EXCEPT !.next = q + 1])
     IN  /\ shown' = Append(shown, <<s, Top.depth>>)
         /\ stack' = IF "dir" \notin e.attr THEN caller
                     ELSE Append(caller, [cluster |-> e.first, next |-> 0,
                                          depth |-> Top.depth + 1,
                                          calls |-> Top.calls + 1])
  /\ pc' = IF Overflows(stack') THEN "crash" ELSE pc
  /\ UNCHANGED <<vol, command, input, currentCluster, probe, calls, output>>

\* Mutant: only the first cluster of a directory is listed.
ListReturnAlways ==
  /\ Listing /\ Unlisted = {}
  /\ stack' = Callers
  /\ UNCHANGED <<vol, command, pc, shown, input, currentCluster, probe, calls, output>>

\* Mutant: the mark of the end is taken for a cluster.
ListNextClusterPastEnd ==
  /\ Listing /\ Unlisted = {}
  /\ stack' = Append(Callers, [Top EXCEPT !.cluster = readCurrentFAT(@), !.next = 0,
                                          !.calls = @ + 1])
  /\ pc' = IF Overflows(stack') THEN "crash" ELSE pc
  /\ UNCHANGED <<vol, command, shown, input, currentCluster, probe, calls, output>>

ListNextCluster ==
  /\ Listing /\ Unlisted = {}
  /\ LET next == readCurrentFAT(Top.cluster)
     IN  stack' = IF next = EndOfChain THEN Callers
                  ELSE Append(Callers, [Top EXCEPT !.cluster = next, !.next = 0,
                                                   !.calls = @ + 1])
  /\ pc' = IF Overflows(stack') THEN "crash" ELSE pc
  /\ UNCHANGED <<vol, command, shown, input, currentCluster, probe, calls, output>>

ListEnd ==
  /\ pc = "list" /\ stack = <<>>
  /\ pc' = "end"
  /\ UNCHANGED <<vol, command, stack, shown, input, currentCluster, probe, calls, output>>

-----------------------------------------------------------------------------
(* get: the loop of main over the components of the path, and findFile.    *)

Searching == pc = "get" /\ input # <<>>
Matches(c) ==
  {q \in VisibleFrom(c, 0) :
     convertedName(readEntry(c, q \div eps, q % eps)) = Head(input)}

\* Mutant: whatever the last name of the path stands for is fetched.
FoundFetchesAny ==
  /\ Searching /\ probe = currentCluster /\ Matches(probe) # {}
  /\ LET q == Min(Matches(probe))
     IN  currentCluster' = readEntry(probe, q \div eps, q % eps).first
  /\ probe' = currentCluster'
  /\ pc' = IF Tail(input) = <<>> THEN "fetch" ELSE "get"
  /\ input' = Tail(input)
  /\ calls' = 1
  /\ UNCHANGED <<vol, command, stack, shown, output>>

\* The first match in the cluster findFile was called for.
Found ==
  /\ Searching /\ probe = currentCluster /\ Matches(probe) # {}
  /\ LET q == Min(Matches(probe))
         e == readEntry(probe, q \div eps, q % eps)
     IN  /\ currentCluster' = e.first
         /\ probe' = e.first
         /\ pc' = IF "archive" \in e.attr /\ Tail(input) = <<>> THEN "fetch" ELSE "get"
  /\ input' = Tail(input)
  /\ calls' = 1
  /\ UNCHANGED <<vol, command, stack, shown, output>>

\* Mutant: the number of the next cluster is not passed on.
ProbeNextAgain ==
  /\ Searching /\ Matches(probe) = {} /\ readCurrentFAT(probe) # EndOfChain
  /\ probe' = currentCluster
  /\ calls' = calls + 1
  /\ pc' = IF calls' > MaxCalls THEN "crash" ELSE pc
  /\ UNCHANGED <<vol, command, stack, shown, input, currentCluster, output>>

\* The recursive call for the next cluster of the chain.
ProbeNext ==
  /\ Searching /\ Matches(probe) = {} /\ readCurrentFAT(probe) # EndOfChain
  /\ probe' = readCurrentFAT(probe)
  /\ calls' = calls + 1
  /\ pc' = IF calls' > MaxCalls THEN "crash" ELSE pc
  /\ UNCHANGED <<vol, command, stack, shown, input, currentCluster, output>>

\* A match of the recursive call is dropped; main takes the next component
\* and goes on in the same directory.
NotFound ==
  /\ Searching
  /\ IF Matches(probe) = {} THEN readCurrentFAT(probe) = EndOfChain
     ELSE probe # currentCluster
  /\ input' = Tail(input)
  /\ probe' = currentCluster
  /\ calls' = 1
  /\ UNCHANGED <<vol, command, pc, stack, shown, currentCluster, output>>

GetEnd ==
  /\ pc = "get" /\ input = <<>>
  /\ pc' = "end"
  /\ UNCHANGED <<vol, command, stack, shown, input, currentCluster, probe, calls, output>>

\* fetchFile copies from the first sector on up to the end of the image; the
\* call that fails, if one does, ends it.
Fetch ==
  /\ pc = "fetch"
  /\ LET start == findFirstSector(currentCluster) IN
       \E n \in 0 .. Sectors - start :
         output' = [from |-> start, sectors |-> n, done |-> n = Sectors - start]
  /\ pc' = "end"
  /\ UNCHANGED <<vol, command, stack, shown, input, currentCluster, probe, calls>>

Over == pc \in {"end", "crash"} /\ UNCHANGED vars

Step == Main \/ ListEntry \/ ListNextCluster \/ ListEnd
          \/ Found \/ ProbeNext \/ NotFound \/ GetEnd \/ Fetch

Next == Step \/ Over

Spec == Init /\ [][Next]_vars

\* The program runs.
FairSpec == Spec /\ WF_vars(Step)
=============================================================================
