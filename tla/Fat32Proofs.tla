----------------------------- MODULE Fat32Proofs ----------------------------
(***************************************************************************)
(* The FAT32 reader on any volume: its variables keep their types, get     *)
(* fetches nothing but a file that names of its path lead to, it reaches   *)
(* every file whose path is plain, and list prints exactly the entries of  *)
(* the tree that can be seen.                                              *)
(***************************************************************************)
EXTENDS Fat32Props, SequenceTheorems, FiniteSetTheorems, NaturalsInduction,
        WellFoundedInduction, TLAPS

Place  == Clusters \cup {0}       \* what the first cluster of an entry may be
Frame  == [cluster : Place, next : 0 .. spc * eps, depth : Nat, calls : Nat]
Prints == (0 .. LastSlot) \X Nat

TypeInv ==
  /\ vol \in Volumes
  /\ pc \in {"main", "list", "get", "fetch", "end", "crash"}
  /\ command.path \in Seq(Seq(STRING)) /\ command.name \in {"list", "get"}
  /\ (command.name = "list" \/ pc = "list") => command.path = <<>>
  /\ stack \in Seq(Frame)
  /\ shown \in Seq(Prints)
  /\ input \in Seq(Seq(STRING)) /\ Len(input) <= Len(command.path)
  /\ currentCluster \in Place
  /\ probe \in Place
  /\ calls \in Nat
  /\ output \in [from : Int, sectors : Nat \cup {-1}, done : BOOLEAN]

-----------------------------------------------------------------------------
(* Numbers and sequences.                                                  *)

LEMMA LeastNumber ==
  ASSUME NEW T, T \subseteq Nat, T # {}
  PROVE  \E x \in T : \A y \in T : x <= y
<1> DEFINE Less == {p \in Nat \X Nat : p[1] < p[2]}
<1>1. IsWellFoundedOn(Less, Nat)
  BY NatLessThanWellFounded DEF OpToRel
<1>2. PICK x \in T : \A y \in T : ~ (<<y, x>> \in Less)
  BY <1>1, WFMin
<1>3. \A y \in T : ~ (y < x)
  BY <1>2
<1>4. QED
  BY <1>3

LEMMA MinIn ==
  ASSUME NEW T, T \subseteq Nat, T # {}
  PROVE  Min(T) \in T
  BY LeastNumber DEF Min

\* A function that is defined by recursion on 0 .. N exists.
Steps(S)     == [Nat \X S -> S]
Tables(N, S) == [0 .. N -> S]
Recurs(g, b, step, N) == g[0] = b /\ \A n \in 1 .. N : g[n] = step[<<n, g[n - 1]>>]

LEMMA RecursionExists ==
  ASSUME NEW S, NEW b \in S, NEW step \in Steps(S), NEW N \in Nat
  PROVE  \E g \in Tables(N, S) : Recurs(g, b, step, N)
<1> DEFINE Good(m, g) == \A n \in 0 .. m : g[n] = IF n = 0 THEN b ELSE step[<<n, g[n - 1]>>]
           Bad == {m \in Nat : ~ \E g \in [0 .. m -> S] : Good(m, g)}
<1>1. SUFFICES Bad = {}
  <2>1. ASSUME Bad = {}
        PROVE  \E g \in [0 .. N -> S] : Good(N, g)
    BY <2>1
  <2>2. ASSUME NEW g \in [0 .. N -> S], Good(N, g)
        PROVE  Recurs(g, b, step, N)
    <3>1. 0 \in 0 .. N /\ \A n \in 1 .. N : n \in 0 .. N /\ n # 0
      OBVIOUS
    <3> QED BY <2>2, <3>1 DEF Recurs
  <2> HIDE DEF Bad, Good
  <2> QED BY <2>1, <2>2 DEF Tables
<1>2. SUFFICES ASSUME Bad # {} PROVE FALSE
  OBVIOUS
<1>3. PICK m \in Bad : \A y \in Bad : m <= y
  BY <1>2, LeastNumber
<1>4. CASE m = 0
  <2>1. [n \in 0 .. 0 |-> b] \in [0 .. 0 -> S]
    OBVIOUS
  <2>2. Good(0, [n \in 0 .. 0 |-> b])
    OBVIOUS
  <2> QED BY <1>3, <1>4, <2>1, <2>2
<1>5. CASE m # 0
  <2>1. m - 1 \in Nat /\ m - 1 \notin Bad
    <3>1. m \in Nat
      OBVIOUS
    <3> HIDE DEF Bad
    <3> QED BY <1>3, <1>5, <3>1
  <2>2. PICK g \in [0 .. m - 1 -> S] : Good(m - 1, g)
    BY <2>1
  <2> DEFINE h == [n \in 0 .. m |-> IF n = m THEN step[<<m, g[m - 1]>>] ELSE g[n]]
  <2>3. m - 1 \in 0 .. m - 1 /\ g[m - 1] \in S
    BY <2>1
  <2>4. h \in [0 .. m -> S]
    BY <2>1, <2>3 DEF Steps
  <2>5. ASSUME NEW n \in 0 .. m
        PROVE  h[n] = IF n = 0 THEN b ELSE step[<<n, h[n - 1]>>]
    <3>1. CASE n = m
      <4>1. h[n - 1] = g[m - 1]
        BY <1>5, <2>1, <3>1
      <4> QED BY <1>5, <3>1, <4>1
    <3>2. CASE n # m
      <4>1. n \in 0 .. m - 1 /\ h[n] = g[n] /\ (n # 0 => h[n - 1] = g[n - 1])
        BY <2>1, <3>2
      <4>2. g[n] = IF n = 0 THEN b ELSE step[<<n, g[n - 1]>>]
        BY <2>2, <4>1
      <4> QED BY <4>1, <4>2
    <3> QED BY <3>1, <3>2
  <2> HIDE DEF h
  <2>6. Good(m, h)
    BY <2>4, <2>5
  <2> QED BY <1>3, <2>4, <2>6
<1> QED BY <1>4, <1>5

\* And has its values where the step keeps them.
LEMMA RecursionStays ==
  ASSUME NEW S, NEW N \in Nat, NEW L, L[0] \in S,
         \A n \in 1 .. N : L[n - 1] \in S => L[n] \in S
  PROVE  \A n \in 0 .. N : L[n] \in S
<1> DEFINE Bad == {n \in 0 .. N : L[n] \notin S}
<1>0. Bad \subseteq Nat
  OBVIOUS
<1>1. SUFFICES ASSUME Bad # {} PROVE FALSE
  OBVIOUS
<1>2. PICK n \in Bad : \A y \in Bad : n <= y
  <2> HIDE DEF Bad
  <2> QED BY <1>0, <1>1, LeastNumber
<1>3. n \in 1 .. N /\ L[n] \notin S
  OBVIOUS
<1>4. n - 1 \in 0 .. N /\ n - 1 \notin Bad
  <2> HIDE DEF Bad
  <2> QED BY <1>2, <1>3
<1> QED BY <1>3, <1>4

LEMMA Quotient ==
  ASSUME NEW n \in Nat, NEW b \in Nat \ {0}, NEW q \in 0 .. n * b - 1
  PROVE  q \div b \in 0 .. n - 1 /\ q % b \in 0 .. b - 1
<1> DEFINE d == q \div b
<1>1. q \in Nat /\ q < n * b /\ d \in Nat /\ d * b <= q /\ q % b \in 0 .. b - 1
  OBVIOUS
<1> HIDE DEF d
<1>2. ASSUME d >= n PROVE FALSE
  <2>1. d * b >= n * b
    BY <1>1, <1>2
  <2> QED BY <1>1, <2>1
<1> QED BY <1>1, <1>2 DEF d

-----------------------------------------------------------------------------
(* The volume.                                                             *)

LEMMA VolumeFacts ==
  ASSUME vol \in Volumes
  PROVE  /\ spc \in Nat \ {0} /\ eps \in Nat /\ eps > 3
         /\ EntriesPerSec \in Nat /\ EntriesPerSec > 3 /\ spc * EntriesPerSec = eps
         /\ LastCluster \in Nat /\ RootClus \in Clusters
         /\ Sectors \in Nat \ {0}
         /\ LastSlot \in Nat /\ LastSlot = (LastCluster - 1) * eps - 1
         /\ \A c \in Clusters : vol.fat[c] \in Place \cup {EndOfChain}
         /\ EndOfChain \notin Place
         /\ \A s \in DOMAIN vol.entry :
              /\ s \in 0 .. LastSlot
              /\ vol.entry[s].first \in Place
              /\ vol.entry[s].stem \in Seq(STRING) /\ vol.entry[s].ext \in Seq(STRING)
              /\ "archive" \in vol.entry[s].attr =>
                   Len(vol.entry[s].stem) + Len(vol.entry[s].ext) >= 3
<1> DEFINE S == vol.spc
           E == EntriesPerSec
           L == LastCluster - 1
<1>1. S \in Nat \ {0} /\ E \in Nat /\ E > 3 /\ L \in Nat /\ L >= 1
  <2>1. S \in Nat \ {0}
    BY VolumesAssumption
  <2>2. E \in Nat /\ E > 3 /\ LastCluster \in Nat /\ 2 <= LastCluster
    BY Fat32Assumption DEF RootClus
  <2> HIDE DEF S
  <2> QED BY <2>1, <2>2
<1>2. S * E \in Nat /\ S * E > 3
  <2>1. S * E >= 1 * E
    BY <1>1
  <2> QED BY <1>1, <2>1
<1>3. L * S \in Nat \ {0} /\ (L * S) * E = L * (S * E)
  BY <1>1
<1>4. L * (S * E) \in Nat /\ L * (S * E) > 0
  BY <1>1, <1>2
<1>5. /\ eps = S * E /\ spc = S /\ Sectors = L * S
      /\ LastSlot = (L * S) * E - 1
  BY DEF eps, spc, Sectors, LastSlot
<1>6. /\ vol.fat \in [Clusters -> Place \cup {EndOfChain}]
      /\ \A s \in DOMAIN vol.entry :
              /\ s \in 0 .. LastSlot
              /\ vol.entry[s].first \in Place
              /\ vol.entry[s].stem \in Seq(STRING) /\ vol.entry[s].ext \in Seq(STRING)
              /\ "archive" \in vol.entry[s].attr =>
                   Len(vol.entry[s].stem) + Len(vol.entry[s].ext) >= 3
  BY VolumesAssumption, <1>5 DEF Place
<1>7. RootClus \in Clusters /\ EndOfChain \notin Place /\ LastCluster \in Nat
  BY Fat32Assumption DEF RootClus, Clusters, EndOfChain, Place
<1> HIDE DEF S, E, L
<1>8. LastSlot \in Nat /\ LastSlot = L * eps - 1
  BY <1>3, <1>4, <1>5
<1> QED BY <1>1, <1>2, <1>3, <1>5, <1>6, <1>7, <1>8 DEF S, E, L

\* The place the code reads for entry j of what it takes for sector i of a
\* cluster: in the cluster and past its first three places, or in the next.
LEMMA SlotFacts ==
  ASSUME vol \in Volumes, NEW c \in Place, NEW i \in 0 .. spc - 1,
         NEW j \in 0 .. eps - 1, j > 2, SlotAt(c, i, j) \in DOMAIN vol.entry
  PROVE  LET s == SlotAt(c, i, j) IN
         /\ c \in Clusters
         /\ \/ s \in EntrySlots(c) /\ s - Base(c) > 2
            \/ spc > 1 /\ s \in EntrySlots(c + 1)
<1> DEFINE S == spc
           E == EntriesPerSec
           B == eps
           s0 == ((c - 2) * S + i) * E + j
           off == i * E + j
           b == ((c - 2) * S) * E
<1>1. /\ S \in Nat \ {0} /\ E \in Nat /\ E > 3 /\ B \in Nat /\ B > 3 /\ S * E = B
      /\ LastSlot \in Nat /\ LastSlot = (LastCluster - 1) * B - 1 /\ LastCluster \in Nat
      /\ \A s \in DOMAIN vol.entry : s \in 0 .. LastSlot
  BY VolumeFacts
<1>2. SlotAt(c, i, j) = IF s0 < LastSlot THEN s0 ELSE LastSlot
  BY DEF SlotAt, findFirstSector
<1>3. Base(c) = b
  BY DEF Base, findFirstSector
<1>4. c \in Int /\ c + 1 \in Int /\ i \in 0 .. S - 1 /\ j \in 0 .. B - 1 /\ j > 2
  BY <1>1 DEF Place, Clusters, RootClus
<1>5. Base(c + 1) = ((c + 1 - 2) * S) * E
  BY <1>1, <1>4 DEF Base, findFirstSector
<1> HIDE DEF S, B
<1>6. b = (c - 2) * B /\ Base(c + 1) = b + B
  <2>1. b = (c - 2) * (S * E)
    BY <1>1, <1>4
  <2>2. Base(c + 1) = (c + 1 - 2) * (S * E)
    BY <1>1, <1>4, <1>5
  <2>3. (c + 1 - 2) * B = (c - 2) * B + B
    BY <1>1, <1>4
  <2> QED BY <1>1, <2>1, <2>2, <2>3
<1>7. s0 = b + off
  BY <1>1, <1>4
<1>8. i * E \in Nat /\ i * E <= B - E /\ (i = 0 \/ S > 1)
  <2>1. i * E <= (S - 1) * E
    BY <1>1, <1>4
  <2>2. (S - 1) * E = S * E - E
    BY <1>1
  <2> QED BY <1>1, <1>4, <2>1, <2>2
<1>9. off \in Nat /\ off > 2 /\ off < B + B - E /\ (off < B \/ S > 1)
  BY <1>1, <1>4, <1>8
<1>10. b \in Int
  BY <1>1, <1>4, <1>6
<1> HIDE DEF b, off, s0
<1>11. c \in Clusters
  <2>1. SUFFICES ASSUME c = 0 PROVE FALSE
    BY DEF Place
  <2>2. b = -2 * B
    BY <1>1, <1>6, <2>1
  <2>3. s0 < 0 /\ s0 < LastSlot
    BY <1>1, <1>7, <1>9, <2>2
  <2>4. SlotAt(c, i, j) = s0
    BY <1>2, <2>3
  <2> QED BY <1>1, <2>3, <2>4
<1>12. c \in 2 .. LastCluster
  BY <1>11 DEF Clusters, RootClus
<1>13. b + B <= (LastCluster - 1) * B
  <2>1. (c - 2) * B + B = (c - 1) * B
    BY <1>1, <1>12
  <2>2. (c - 1) * B <= (LastCluster - 1) * B
    BY <1>1, <1>12
  <2> QED BY <1>6, <2>1, <2>2
<1>14. EntrySlots(c) = b .. b + B - 1
  BY <1>11, <1>3 DEF EntrySlots, B
<1>15. CASE off < B
  <2>1. s0 <= LastSlot
    BY <1>1, <1>7, <1>9, <1>10, <1>13, <1>15
  <2>2. SlotAt(c, i, j) = s0
    BY <1>1, <1>2, <1>7, <1>9, <1>10, <2>1
  <2> QED BY <1>1, <1>3, <1>7, <1>9, <1>10, <1>11, <1>14, <1>15, <2>2
<1>16. CASE off >= B /\ c = LastCluster
  <2>1. b + B = (LastCluster - 1) * B
    BY <1>1, <1>6, <1>12, <1>16
  <2>2. SlotAt(c, i, j) = b + B - 1
    BY <1>1, <1>2, <1>7, <1>9, <1>10, <1>16, <2>1
  <2> QED BY <1>1, <1>3, <1>10, <1>11, <1>14, <2>2
<1>17. CASE off >= B /\ c # LastCluster
  <2>1. c + 1 \in Clusters
    BY <1>12, <1>17, Fat32Assumption DEF Clusters, RootClus
  <2>2. EntrySlots(c + 1) = b + B .. b + B + B - 1
    BY <1>6, <2>1 DEF EntrySlots, B
  <2>3. b + B + B <= (LastCluster - 1) * B
    <3>1. (c + 1) * B <= LastCluster * B
      BY <1>1, <1>12, <1>17
    <3>2. (c + 1) * B = (c - 2) * B + B + B + B
      BY <1>1, <1>12
    <3>3. (LastCluster - 1) * B = LastCluster * B - B
      BY <1>1
    <3>4. (c + 1) * B \in Int /\ LastCluster * B \in Int
      BY <1>1, <1>12
    <3> QED BY <1>1, <1>6, <1>10, <3>1, <3>2, <3>3, <3>4
  <2>4. SlotAt(c, i, j) = s0
    BY <1>1, <1>2, <1>7, <1>9, <1>10, <2>3
  <2>5. s0 \in EntrySlots(c + 1) /\ S > 1
    BY <1>1, <1>7, <1>9, <1>10, <1>17, <2>2
  <2> QED BY <1>11, <2>4, <2>5 DEF S
<1> QED BY <1>1, <1>9, <1>12, <1>15, <1>16, <1>17

\* What the code sees in a cluster are entries.
LEMMA VisibleFacts ==
  ASSUME vol \in Volumes, NEW c \in Place, NEW p \in 0 .. spc * eps,
         NEW q \in VisibleFrom(c, p)
  PROVE  LET s == SlotAt(c, q \div eps, q % eps) IN
         /\ q \in 0 .. spc * eps - 1
         /\ q \div eps \in 0 .. spc - 1
         /\ q % eps \in 0 .. eps - 1 /\ q % eps > 2
         /\ s \in DOMAIN vol.entry
         /\ readEntry(c, q \div eps, q % eps) = vol.entry[s]
         /\ vol.entry[s].attr # {}
<1>1. spc \in Nat /\ eps \in Nat \ {0}
  BY VolumeFacts
<1>2. spc * eps \in Nat
  BY <1>1
<1>3. q \in p .. spc * eps - 1 /\ Visible(c, q \div eps, q % eps)
  BY DEF VisibleFrom
<1>4. q \in 0 .. spc * eps - 1
  BY <1>2, <1>3
<1>5. q \div eps \in 0 .. spc - 1 /\ q % eps \in 0 .. eps - 1
  BY <1>1, <1>4, Quotient
<1>6. /\ q % eps > 2
      /\ readEntry(c, q \div eps, q % eps).attr # {}
  BY <1>3 DEF Visible
<1>7. SlotAt(c, q \div eps, q % eps) \in DOMAIN vol.entry
  BY <1>6 DEF readEntry, Blank
<1> QED BY <1>4, <1>5, <1>6, <1>7 DEF readEntry

LEMMA BaseFacts ==
  ASSUME vol \in Volumes, NEW c \in Clusters
  PROVE  /\ c \in Nat /\ Base(c) \in Nat /\ Base(c) = (c - 2) * eps
         /\ Base(c) + eps - 1 <= LastSlot
         /\ EntrySlots(c) = Base(c) .. Base(c) + eps - 1
<1> DEFINE S == spc
           E == EntriesPerSec
           B == eps
<1>1. /\ S \in Nat \ {0} /\ E \in Nat /\ B \in Nat /\ B > 3 /\ S * E = B
      /\ LastSlot = (LastCluster - 1) * B - 1 /\ LastCluster \in Nat
  BY VolumeFacts
<1>2. c \in Nat /\ 2 <= c /\ c <= LastCluster
  BY <1>1 DEF Clusters, RootClus
<1>3. Base(c) = ((c - 2) * S) * E
  BY DEF Base, findFirstSector
<1>4. EntrySlots(c) = Base(c) .. Base(c) + B - 1
  BY DEF EntrySlots
<1> HIDE DEF S, E, B
<1>5. Base(c) = (c - 2) * B
  <2>1. ((c - 2) * S) * E = (c - 2) * (S * E)
    BY <1>1, <1>2
  <2> QED BY <1>1, <1>3, <2>1
<1>6. (c - 2) * B \in Nat
  <2>1. c - 2 \in Nat
    BY <1>2
  <2> QED BY <1>1, <2>1
<1>7. (c - 2) * B + B <= (LastCluster - 1) * B
  <2>1. (c - 2) * B + B = (c - 1) * B
    BY <1>1, <1>2
  <2>2. (c - 1) * B <= (LastCluster - 1) * B
    BY <1>1, <1>2
  <2> QED BY <2>1, <2>2
<1>8. (LastCluster - 1) * B \in Int
  BY <1>1
<1> QED BY <1>1, <1>2, <1>4, <1>5, <1>6, <1>7, <1>8 DEF B

LEMMA SlotsApart ==
  ASSUME vol \in Volumes, NEW c \in Clusters, NEW d \in Clusters,
         NEW s \in EntrySlots(c), s \in EntrySlots(d)
  PROVE  c = d
<1> DEFINE B == eps
<1>1. B \in Nat /\ c \in Nat /\ d \in Nat
  BY BaseFacts, VolumeFacts
<1>2. /\ s \in (c - 2) * B .. (c - 2) * B + B - 1
      /\ s \in (d - 2) * B .. (d - 2) * B + B - 1
  BY BaseFacts
<1> HIDE DEF B
<1>3. \A x, y \in Nat : x < y => (x - 2) * B + B <= (y - 2) * B
  <2>1. SUFFICES ASSUME NEW x \in Nat, NEW y \in Nat, x < y
                 PROVE  (x - 2) * B + B <= (y - 2) * B
    OBVIOUS
  <2>2. (x - 2) * B + B = (x - 1) * B
    BY <1>1
  <2>3. (x - 1) * B <= (y - 2) * B
    BY <1>1, <2>1
  <2> QED BY <2>2, <2>3
<1>4. (c - 2) * B \in Int /\ (d - 2) * B \in Int
  BY <1>1
<1>5. ASSUME c < d PROVE FALSE
  BY <1>1, <1>2, <1>3, <1>4, <1>5
<1>6. ASSUME d < c PROVE FALSE
  BY <1>1, <1>2, <1>3, <1>4, <1>6
<1> QED BY <1>1, <1>5, <1>6

\* The code sees every entry of a cluster but those of the first three places.
LEMMA SeenVisible ==
  ASSUME vol \in Volumes, NEW c, NEW s \in Seen(c)
  PROVE  LET q == s - Base(c) IN
         /\ c \in Clusters /\ s \in DOMAIN vol.entry
         /\ q \in VisibleFrom(c, 0) /\ q \in Nat
         /\ SlotAt(c, q \div eps, q % eps) = s
         /\ readEntry(c, q \div eps, q % eps) = vol.entry[s]
<1> DEFINE q == s - Base(c)
<1>1. s \in EntrySlots(c) /\ s \in DOMAIN vol.entry /\ q > 2 /\ vol.entry[s].attr # {}
  BY DEF Seen
<1>2. c \in Clusters
  BY <1>1 DEF EntrySlots
<1>3. /\ spc \in Nat \ {0} /\ eps \in Nat /\ eps > 3 /\ EntriesPerSec \in Nat
      /\ LastSlot \in Nat /\ s \in 0 .. LastSlot
  BY <1>1, VolumeFacts
<1>4. c \in Nat /\ Base(c) \in Nat /\ EntrySlots(c) = Base(c) .. Base(c) + eps - 1
  BY <1>2, BaseFacts
<1>5. q \in 0 .. eps - 1 /\ s = Base(c) + q
  BY <1>1, <1>3, <1>4
<1>6. Base(c) = findFirstSector(c) * EntriesPerSec
  BY DEF Base
<1> HIDE DEF q
<1>7. q \div eps = 0 /\ q % eps = q
  BY <1>3, <1>5
<1>8. SlotAt(c, 0, q) = s
  <2>1. findFirstSector(c) + 0 = findFirstSector(c)
    <3>1. findFirstSector(c) \in Int
      BY <1>3, <1>4 DEF findFirstSector
    <3> QED BY <3>1
  <2>2. (findFirstSector(c) + 0) * EntriesPerSec + q = s
    BY <1>5, <1>6, <2>1
  <2> QED BY <1>3, <2>2 DEF SlotAt
<1>9. readEntry(c, 0, q) = vol.entry[s]
  BY <1>1, <1>8 DEF readEntry
<1>10. q \in 0 .. spc * eps - 1
  <2>1. spc * eps >= 1 * eps
    BY <1>3
  <2>2. spc * eps \in Nat
    BY <1>3
  <2> QED BY <1>3, <1>5, <2>1, <2>2
<1>11. q \in VisibleFrom(c, 0)
  BY <1>1, <1>7, <1>9, <1>10 DEF VisibleFrom, Visible
<1> QED BY <1>1, <1>2, <1>7, <1>8, <1>9, <1>10, <1>11 DEF q

\* And where no entry lies behind the cluster it sees no others.
LEMMA VisibleSeen ==
  ASSUME vol \in Volumes, NEW C, NoNeighbours(C), NEW c \in Place, c \in C \cup {0},
         NEW p \in 0 .. spc * eps, NEW q \in VisibleFrom(c, p)
  PROVE  LET s == SlotAt(c, q \div eps, q % eps) IN
         /\ c \in C /\ c \in Clusters /\ s \in Seen(c)
         /\ spc = 1 => s - Base(c) = q
<1> DEFINE i == q \div eps
           j == q % eps
           s == SlotAt(c, i, j)
<1>1. /\ q \in 0 .. spc * eps - 1 /\ i \in 0 .. spc - 1 /\ j \in 0 .. eps - 1 /\ j > 2
      /\ s \in DOMAIN vol.entry /\ vol.entry[s].attr # {}
  BY VisibleFacts
<1>2. /\ c \in Clusters
      /\ \/ s \in EntrySlots(c) /\ s - Base(c) > 2
         \/ spc > 1 /\ s \in EntrySlots(c + 1)
  <2> HIDE DEF i, j
  <2> QED BY <1>1, SlotFacts DEF s
<1>3. c \in C
  BY <1>2, VolumeFacts DEF Clusters, RootClus
<1>4. s \in Seen(c)
  <2> HIDE DEF s
  <2> QED BY <1>1, <1>2, <1>3 DEF NoNeighbours, Seen
<1>5. ASSUME spc = 1
      PROVE  s - Base(c) = q
  <2>1. /\ eps \in Nat \ {0} /\ EntriesPerSec \in Nat /\ spc * eps = eps
        /\ LastSlot \in Nat
    BY <1>5, VolumeFacts
  <2>2. q \in 0 .. eps - 1
    BY <1>1, <2>1
  <2>3. i = 0 /\ j = q
    BY <2>1, <2>2
  <2>4. /\ c \in Nat /\ Base(c) \in Nat /\ Base(c) + eps - 1 <= LastSlot
        /\ Base(c) = findFirstSector(c) * EntriesPerSec
    BY <1>2, BaseFacts DEF Base
  <2>5. findFirstSector(c) + 0 = findFirstSector(c)
    <3>1. findFirstSector(c) \in Int
      BY <1>5, <2>4 DEF findFirstSector
    <3> QED BY <3>1
  <2>6. SlotAt(c, 0, q) = Base(c) + q
    BY <2>1, <2>2, <2>4, <2>5 DEF SlotAt
  <2> HIDE DEF i, j
  <2>7. s = Base(c) + q
    BY <2>3, <2>6
  <2> QED BY <2>2, <2>4, <2>7
<1> QED BY <1>2, <1>3, <1>4, <1>5

LEMMA LinkFacts ==
  ASSUME vol \in Volumes, NEW c \in Place, readCurrentFAT(c) # EndOfChain
  PROVE  readCurrentFAT(c) \in Place
  BY VolumeFacts DEF readCurrentFAT

LEMMA TypeInit == Init => TypeInv
<1> SUFFICES ASSUME Init PROVE TypeInv
  OBVIOUS
<1>1. /\ command.path \in Seq(Seq(STRING)) /\ command.name \in {"list", "get"}
      /\ command.name = "list" => command.path = <<>>
  <2>1. CASE command \in [name : {"list"}, path : {<<>>}]
    <3>1. <<>> \in Seq(Seq(STRING))
      OBVIOUS
    <3>2. command.name = "list" /\ command.path = <<>>
      BY <2>1
    <3> QED BY <3>1, <3>2
  <2>2. CASE command \in [name : {"get"}, path : Paths]
    BY <2>2, Fat32Assumption
  <2> QED BY <2>1, <2>2 DEF Init
<1>2. Len(command.path) \in Nat
  BY <1>1
<1>3. RootClus \in Place /\ output \in [from : Int, sectors : Nat \cup {-1}, done : BOOLEAN]
  BY VolumeFacts DEF Init, NoOutput, Place
<1>4. stack \in Seq(Frame) /\ shown \in Seq(Prints)
  BY DEF Init
<1> QED BY <1>1, <1>2, <1>3, <1>4 DEF Init, TypeInv

\* Of the variables in Frame and Prints none changes.
LEMMA SameVolume ==
  ASSUME vol' = vol PROVE Frame' = Frame /\ Prints' = Prints
  BY DEF Frame, Prints, spc, eps, LastSlot, Sectors, Place

LEMMA TopFacts ==
  ASSUME TypeInv, Listing
  PROVE  /\ Top \in Frame /\ Callers \in Seq(Frame)
         /\ Len(stack) \in Nat /\ Len(stack) > 0
<1>1. stack \in Seq(Frame) /\ stack # <<>>
  BY DEF TypeInv, Listing
<1>2. Len(stack) \in Nat /\ Len(stack) > 0
  BY <1>1, EmptySeq
<1>3. stack[Len(stack)] \in Frame
  BY <1>1, <1>2, ElementOfSeq
<1>4. SubSeq(stack, 1, Len(stack) - 1) \in Seq(Frame)
  <2>1. \A i \in 1 .. Len(stack) - 1 : stack[i] \in Frame
    BY <1>1, <1>2, ElementOfSeq
  <2> QED BY <1>2, <2>1, SubSeqProperties
<1> QED BY <1>2, <1>3, <1>4 DEF Top, Callers

\* A frame whose listing goes on, in the same cluster or in the next.
LEMMA FrameGoesOn ==
  ASSUME NEW M, NEW t \in [cluster : Place, next : M, depth : Nat, calls : Nat],
         NEW c, NEW q
  PROVE  /\ [t EXCEPT !.next = q]
              = [cluster |-> t.cluster, next |-> q, depth |-> t.depth, calls |-> t.calls]
         /\ [t EXCEPT !.cluster = c, !.next = q, !.calls = @ + 1]
              = [cluster |-> c, next |-> q, depth |-> t.depth, calls |-> t.calls + 1]
<1> DEFINE x == [t EXCEPT !.next = q]
           y == [t EXCEPT !.cluster = c, !.next = q, !.calls = @ + 1]
           R == [cluster : Place \cup {c}, next : M \cup {q}, depth : Nat, calls : Nat]
<1>1. x \in R /\ x.cluster = t.cluster /\ x.next = q /\ x.depth = t.depth /\ x.calls = t.calls
  OBVIOUS
<1>2. y \in R /\ y.cluster = c /\ y.next = q /\ y.depth = t.depth /\ y.calls = t.calls + 1
  <2>1. PICK k \in Nat : k = t.calls + 1
    OBVIOUS
  <2>2. /\ [t EXCEPT !.cluster = c, !.next = q, !.calls = k] \in R
        /\ [t EXCEPT !.cluster = c, !.next = q, !.calls = k].cluster = c
        /\ [t EXCEPT !.cluster = c, !.next = q, !.calls = k].next = q
        /\ [t EXCEPT !.cluster = c, !.next = q, !.calls = k].depth = t.depth
        /\ [t EXCEPT !.cluster = c, !.next = q, !.calls = k].calls = k
    OBVIOUS
  <2> QED BY <2>1, <2>2
<1> HIDE DEF x, y
<1>3. x = [cluster |-> t.cluster, next |-> q, depth |-> t.depth, calls |-> t.calls]
  BY <1>1
<1>4. y = [cluster |-> c, next |-> q, depth |-> t.depth, calls |-> t.calls + 1]
  BY <1>2
<1> QED BY <1>3, <1>4 DEF x, y

LEMMA ListEntryTypes == TypeInv /\ ListEntry => TypeInv'
<1> SUFFICES ASSUME TypeInv, ListEntry PROVE TypeInv'
  OBVIOUS
<1> DEFINE q == Min(Unlisted)
           s == SlotAt(Top.cluster, q \div eps, q % eps)
           e == vol.entry[s]
           caller == Append(Callers, [Top EXCEPT !.next = q + 1])
<1>1. vol \in Volumes /\ Listing /\ vol' = vol
  BY DEF TypeInv, ListEntry
<1>2. Top \in Frame /\ Callers \in Seq(Frame)
  BY <1>1, TopFacts
<1>3. /\ Top.cluster \in Place /\ Top.next \in 0 .. spc * eps
      /\ Top.depth \in Nat /\ Top.calls \in Nat
  BY <1>2 DEF Frame
<1>4. spc * eps \in Nat
  BY <1>1, VolumeFacts
<1>5. q \in VisibleFrom(Top.cluster, Top.next)
  <2>1. VisibleFrom(Top.cluster, Top.next) \subseteq Nat
    BY <1>3, <1>4 DEF VisibleFrom
  <2> QED BY <2>1, MinIn DEF ListEntry, Unlisted
<1> HIDE DEF q
<1>6. q \in 0 .. spc * eps - 1 /\ s \in DOMAIN vol.entry
  BY <1>1, <1>3, <1>5, VisibleFacts
<1>7. s \in 0 .. LastSlot /\ e.first \in Place
  BY <1>1, <1>6, VolumeFacts
<1>8. shown' = Append(shown, <<s, Top.depth>>)
  BY DEF ListEntry, q
<1>9. stack' = IF "dir" \notin e.attr THEN caller
               ELSE Append(caller, [cluster |-> e.first, next |-> 0, depth |-> Top.depth + 1,
                       calls |-> Top.calls + 1])
  BY DEF ListEntry, q
<1> HIDE DEF s
<1>10. <<s, Top.depth>> \in Prints
  BY <1>3, <1>7 DEF Prints
<1>11. shown' \in Seq(Prints)
  BY <1>8, <1>10, AppendProperties DEF TypeInv
<1>12. [Top EXCEPT !.next = q + 1] \in Frame
  <2>1. q + 1 \in 0 .. spc * eps
    <3> DEFINE n == spc * eps
    <3>1. n \in Nat /\ q \in 0 .. n - 1
      BY <1>4, <1>6
    <3> HIDE DEF n
    <3>2. q + 1 \in 0 .. n
      BY <3>1
    <3> QED BY <3>2 DEF n
  <2> QED BY <1>2, <2>1 DEF Frame
<1>13. [cluster |-> e.first, next |-> 0, depth |-> Top.depth + 1,
                       calls |-> Top.calls + 1] \in Frame
  BY <1>3, <1>4, <1>7 DEF Frame
<1> HIDE DEF e
<1>14. caller \in Seq(Frame)
  BY <1>2, <1>12, AppendProperties
<1>15. stack' \in Seq(Frame)
  BY <1>9, <1>13, <1>14, AppendProperties
<1>16. /\ pc' \in {"crash", pc}
       /\ UNCHANGED <<command, input, currentCluster, probe, calls, output>>
  BY DEF ListEntry
<1> QED BY <1>1, <1>11, <1>15, <1>16, SameVolume DEF TypeInv

LEMMA ListOtherTypes == TypeInv /\ (ListNextCluster \/ ListEnd \/ Main) => TypeInv'
<1> SUFFICES ASSUME TypeInv, ListNextCluster \/ ListEnd \/ Main PROVE TypeInv'
  OBVIOUS
<1>1. CASE ListNextCluster
  <2> DEFINE next == readCurrentFAT(Top.cluster)
  <2>1. vol \in Volumes /\ Listing /\ vol' = vol
    BY <1>1 DEF TypeInv, ListNextCluster
  <2>2. Top \in Frame /\ Callers \in Seq(Frame)
    BY <2>1, TopFacts
  <2>3. Top.cluster \in Place /\ 0 \in 0 .. spc * eps
    <3>1. spc * eps \in Nat
      BY <2>1, VolumeFacts
    <3> QED BY <2>2, <3>1 DEF Frame
  <2>4. CASE next = EndOfChain
    <3>1. stack' \in Seq(Frame)
      BY <1>1, <2>2, <2>4 DEF ListNextCluster
    <3> QED BY <1>1, <2>1, <3>1, SameVolume DEF TypeInv, ListNextCluster
  <2>5. CASE next # EndOfChain
    <3>1. next \in Place
      BY <2>1, <2>3, <2>5, LinkFacts DEF Place
    <3>2. stack' = Append(Callers, [Top EXCEPT !.cluster = next, !.next = 0, !.calls = @ + 1])
      BY <1>1, <2>5 DEF ListNextCluster
    <3> HIDE DEF next
    <3>3. [Top EXCEPT !.cluster = next, !.next = 0, !.calls = @ + 1] \in Frame
      <4>1. [Top EXCEPT !.cluster = next, !.next = 0, !.calls = @ + 1]
              = [cluster |-> next, next |-> 0, depth |-> Top.depth, calls |-> Top.calls + 1]
        BY <2>2, FrameGoesOn DEF Frame
      <4>2. Top.depth \in Nat /\ Top.calls + 1 \in Nat
        BY <2>2 DEF Frame
      <4> QED BY <2>3, <3>1, <4>1, <4>2 DEF Frame
    <3>4. stack' \in Seq(Frame)
      BY <2>2, <3>2, <3>3, AppendProperties
    <3> QED BY <1>1, <2>1, <3>4, SameVolume DEF TypeInv, ListNextCluster
  <2> QED BY <2>4, <2>5
<1>2. CASE ListEnd
  BY <1>2, SameVolume DEF TypeInv, ListEnd
<1>3. CASE Main
  <2>1. vol \in Volumes /\ vol' = vol
    BY <1>3 DEF TypeInv, Main
  <2>2. spc * eps \in Nat /\ RootClus \in Place
    BY <2>1, VolumeFacts DEF Place
  <2>3. [cluster |-> RootClus, next |-> 0, depth |-> 0, calls |-> 1] \in Frame
    BY <2>2 DEF Frame
  <2>4. stack' \in Seq(Frame)
    <3> DEFINE root == [cluster |-> RootClus, next |-> 0, depth |-> 0, calls |-> 1]
    <3>1. stack' \in {<<>>, <<root>>}
      BY <1>3 DEF Main
    <3>2. <<>> \in Seq(Frame) /\ <<root>> \in Seq(Frame)
      <4> HIDE DEF root
      <4> QED BY <2>3 DEF root
    <3> QED BY <3>1, <3>2
  <2> QED BY <1>3, <2>1, <2>4, SameVolume DEF TypeInv, Main
<1> QED BY <1>1, <1>2, <1>3

\* A match is an entry, and a component of the path is taken off.
LEMMA MatchFacts ==
  ASSUME vol \in Volumes, NEW c \in Place, Matches(c) # {}
  PROVE  LET q == Min(Matches(c))
             s == SlotAt(c, q \div eps, q % eps)
         IN  /\ q \in Matches(c)
             /\ s \in DOMAIN vol.entry
             /\ readEntry(c, q \div eps, q % eps) = vol.entry[s]
             /\ vol.entry[s].first \in Place
<1> DEFINE q == Min(Matches(c))
<1>1. spc * eps \in Nat
  BY VolumeFacts
<1>2. Matches(c) \subseteq VisibleFrom(c, 0) /\ VisibleFrom(c, 0) \subseteq Nat
  BY <1>1 DEF Matches, VisibleFrom
<1>3. q \in Matches(c) /\ q \in VisibleFrom(c, 0)
  BY <1>2, MinIn
<1> HIDE DEF q
<1>4. 0 \in 0 .. spc * eps
  BY <1>1
<1>5. /\ SlotAt(c, q \div eps, q % eps) \in DOMAIN vol.entry
      /\ readEntry(c, q \div eps, q % eps) = vol.entry[SlotAt(c, q \div eps, q % eps)]
  BY <1>3, <1>4, VisibleFacts
<1>6. vol.entry[SlotAt(c, q \div eps, q % eps)].first \in Place
  BY <1>5, VolumeFacts
<1> QED BY <1>3, <1>5, <1>6 DEF q

LEMMA TailFacts ==
  ASSUME TypeInv, input # <<>>
  PROVE  /\ Tail(input) \in Seq(Seq(STRING))
         /\ Len(Tail(input)) = Len(input) - 1
         /\ Len(input) \in Nat \ {0}
         /\ \A k \in 1 .. Len(input) - 1 : Tail(input)[k] = input[k + 1]
         /\ Head(input) = input[1] /\ Head(input) \in Seq(STRING)
  BY HeadTailProperties, EmptySeq DEF TypeInv

LEMMA GetTypes ==
  TypeInv /\ (Found \/ ProbeNext \/ NotFound \/ GetEnd \/ Fetch) => TypeInv'
<1> SUFFICES ASSUME TypeInv, Found \/ ProbeNext \/ NotFound \/ GetEnd \/ Fetch
             PROVE  TypeInv'
  OBVIOUS
<1>1. vol \in Volumes /\ probe \in Place
  BY DEF TypeInv
<1>2. Len(command.path) \in Nat /\ Len(input) \in Nat
  BY DEF TypeInv
<1>3. CASE Found
  <2>1. /\ UNCHANGED <<vol, command, stack, shown, output>>
        /\ Searching /\ input' = Tail(input) /\ pc' \in {"fetch", "get"} /\ calls' = 1
    BY <1>3 DEF Found
  <2>2. currentCluster' \in Place /\ probe' \in Place
    BY <1>1, <1>3, MatchFacts DEF Found
  <2>3. input' \in Seq(Seq(STRING)) /\ Len(input') <= Len(command.path)
    BY <1>2, <2>1, TailFacts DEF Searching, TypeInv
  <2> QED BY <2>1, <2>2, <2>3, SameVolume DEF TypeInv
<1>4. CASE ProbeNext
  <2>1. probe' \in Place
    BY <1>1, <1>4, LinkFacts DEF ProbeNext
  <2>2. /\ calls' \in Nat /\ pc' \in {"get", "crash"}
        /\ UNCHANGED <<vol, command, stack, shown, input, currentCluster, output>>
    BY <1>4 DEF ProbeNext, Searching, TypeInv
  <2> QED BY <2>1, <2>2, SameVolume DEF TypeInv
<1>5. CASE NotFound
  <2>1. Searching /\ input' = Tail(input)
    BY <1>5 DEF NotFound
  <2>2. input' \in Seq(Seq(STRING)) /\ Len(input') <= Len(command.path)
    BY <1>2, <2>1, TailFacts DEF Searching, TypeInv
  <2>3. UNCHANGED <<vol, command, pc, stack, shown, currentCluster, output>>
        /\ probe' = currentCluster /\ calls' = 1
    BY <1>5 DEF NotFound
  <2> QED BY <2>2, <2>3, SameVolume DEF TypeInv
<1>6. CASE GetEnd
  BY <1>6, SameVolume DEF TypeInv, GetEnd
<1>7. CASE Fetch
  <2>1. PICK n \in 0 .. Sectors - findFirstSector(currentCluster) :
          output' = [from |-> findFirstSector(currentCluster), sectors |-> n,
                     done |-> n = Sectors - findFirstSector(currentCluster)]
    BY <1>7 DEF Fetch
  <2>2. findFirstSector(currentCluster) \in Int /\ n \in Nat
    <3>1. currentCluster \in Int /\ spc \in Nat /\ Sectors \in Nat
      BY <1>1, VolumeFacts DEF TypeInv, Place, Clusters, RootClus
    <3>2. findFirstSector(currentCluster) \in Int
      BY <3>1 DEF findFirstSector
    <3> QED BY <3>1, <3>2
  <2>3. output' \in [from : Int, sectors : Nat \cup {-1}, done : BOOLEAN]
    BY <2>1, <2>2
  <2> QED BY <1>7, <2>3, SameVolume DEF TypeInv, Fetch
<1> QED BY <1>3, <1>4, <1>5, <1>6, <1>7

LEMMA TypeNext == TypeInv /\ [Next]_vars => TypeInv'
<1> SUFFICES ASSUME TypeInv, [Next]_vars PROVE TypeInv'
  OBVIOUS
<1>1. CASE Step
  BY <1>1, ListEntryTypes, ListOtherTypes, GetTypes DEF Step
<1>2. CASE UNCHANGED vars
  BY <1>2, SameVolume DEF TypeInv, vars
<1> QED BY <1>1, <1>2 DEF Next, Over

LEMMA TypeImplied == TypeInv => TypeOK
<1> SUFFICES ASSUME TypeInv PROVE TypeOK
  OBVIOUS
<1>1. \A k \in DOMAIN shown : shown[k] \in Prints
  BY ElementOfSeq DEF TypeInv
<1> QED BY <1>1 DEF TypeInv, TypeOK, Frame, Prints, Place

(***************************************************************************)
(* TypeOK.  What the table and the entries hold never takes the program to *)
(* anything but a cluster of the table or 0, and every place it prints     *)
(* lies on the volume (readCurrentFAT, readEntry and their callers).       *)
(***************************************************************************)
THEOREM TypeCorrect == Spec => []TypeOK
<1>1. Spec => []TypeInv
  BY TypeInit, TypeNext, PTL DEF Spec
<1> QED BY <1>1, TypeImplied, PTL

-----------------------------------------------------------------------------
(* What the names of the path lead to.                                     *)

Path  == command.path
Led   == LedTo(Path)
Plains == PlainDirs(Path)

LEMMA SameTree ==
  ASSUME vol' = vol, command' = command
  PROVE  /\ Path' = Path /\ Led' = Led /\ Plains' = Plains
         /\ \A C, name : PlainIn(C, name)' = PlainIn(C, name)
         /\ \A C, name : Named(C, name)' = Named(C, name)
         /\ \A C : NoNeighbours(C)' <=> NoNeighbours(C)
<1>1. Path' = Path
  BY DEF Path
<1>2. Led' = Led
  BY DEF Path, Led, LedTo, First, Named, Seen, EntrySlots, Base, findFirstSector, eps, spc
<1>3. Plains' = Plains
  BY DEF Path, Plains, PlainDirs, First, Dirs, PlainIn, Plain, Named, Seen, EntrySlots, Base,
         findFirstSector, eps, spc
<1>4. \A C, name : Named(C, name)' = Named(C, name)
  BY DEF Named, Seen, EntrySlots, Base, findFirstSector, eps, spc
<1>5. \A C, name : PlainIn(C, name)' = PlainIn(C, name)
  BY DEF PlainIn, Plain, Named, Seen, EntrySlots, Base, findFirstSector, eps, spc
<1>6. \A C : NoNeighbours(C)' <=> NoNeighbours(C)
  BY DEF NoNeighbours, EntrySlots, Base, findFirstSector, eps, spc
<1> QED BY <1>1, <1>2, <1>3, <1>4, <1>5, <1>6

LEMMA NamedFacts ==
  ASSUME vol \in Volumes, NEW C, NEW name
  PROVE  First(Named(C, name)) \subseteq Place /\ Named(C, name) \subseteq DOMAIN vol.entry
<1>1. Named(C, name) \subseteq DOMAIN vol.entry
  BY DEF Named, Seen
<1> QED BY <1>1, VolumeFacts DEF First

LEMMA LedToFacts ==
  ASSUME vol \in Volumes, NEW path \in Seq(Seq(STRING))
  PROVE  /\ LedTo(path) \in [0 .. Len(path) -> SUBSET Place]
         /\ LedTo(path)[0] = {RootClus}
         /\ \A n \in 1 .. Len(path) :
              LedTo(path)[n] = LedTo(path)[n - 1] \cup First(Named(LedTo(path)[n - 1], path[n]))
<1> DEFINE N == Len(path)
           S == SUBSET Place
           step == [x \in Nat \X S |-> x[2] \cup First(Named(x[2], path[x[1]]))]
           Is(g) == g = [n \in 0 .. N |->
                          IF n = 0 THEN {RootClus}
                          ELSE LET C == g[n - 1] IN C \cup First(Named(C, path[n]))]
<1>1. N \in Nat
  OBVIOUS
<1>2. step \in Steps(S)
  BY NamedFacts DEF Steps
<1>3. {RootClus} \in S
  BY VolumeFacts DEF Place
<1> HIDE DEF N
<1>4. PICK g \in Tables(N, S) : Recurs(g, {RootClus}, step, N)
  <2> HIDE DEF step, S
  <2> QED BY <1>1, <1>2, <1>3, RecursionExists
<1>5. ASSUME NEW n \in 0 .. N
      PROVE  g[n] = IF n = 0 THEN {RootClus}
                    ELSE LET C == g[n - 1] IN C \cup First(Named(C, path[n]))
  <2>1. CASE n = 0
    BY <1>4, <2>1 DEF Recurs
  <2>2. CASE n # 0
    <3>1. n - 1 \in 0 .. N /\ n \in Nat
      BY <1>1, <2>2
    <3>2. g[n - 1] \in S
      BY <3>1 DEF Tables
    <3>3. step[<<n, g[n - 1]>>] = g[n - 1] \cup First(Named(g[n - 1], path[n]))
      BY <3>1, <3>2
    <3>4. n \in 1 .. N
      BY <1>1, <2>2
    <3> HIDE DEF step
    <3> QED BY <1>4, <2>2, <3>3, <3>4 DEF Recurs
  <2> QED BY <2>1, <2>2
<1>6. Is(g)
  <2> HIDE DEF step
  <2> QED BY <1>5 DEF Tables
<1>7. LedTo(path) = CHOOSE f : Is(f)
  BY DEF LedTo, N
<1> DEFINE L == LedTo(path)
<1> HIDE DEF Is, L
<1>8. Is(L)
  BY <1>6, <1>7 DEF L
<1>9. ASSUME NEW n \in 0 .. N
      PROVE  L[n] = IF n = 0 THEN {RootClus} ELSE L[n - 1] \cup First(Named(L[n - 1], path[n]))
  BY <1>8 DEF Is
<1>10. L[0] = {RootClus}
  <2>1. 0 \in 0 .. N
    BY <1>1
  <2> QED BY <1>9, <2>1, Zenon
<1>11. \A n \in 1 .. N : L[n] = L[n - 1] \cup First(Named(L[n - 1], path[n]))
  <2>1. \A n \in 1 .. N : n \in 0 .. N /\ n # 0
    BY <1>1
  <2> QED BY <1>9, <2>1, Zenon
<1>12. \A n \in 1 .. N : L[n - 1] \in S => L[n] \in S
  BY <1>11, NamedFacts
<1>13. \A n \in 0 .. N : L[n] \in S
  <2> HIDE DEF S
  <2> QED BY <1>1, <1>3, <1>10, <1>12, RecursionStays
<1>14. L \in [0 .. N -> S]
  BY <1>8, <1>13 DEF Is
<1> QED BY <1>10, <1>11, <1>14 DEF L, N

\* More names lead to no fewer clusters.
LEMMA LedToGrows ==
  ASSUME vol \in Volumes, NEW path \in Seq(Seq(STRING)),
         NEW m \in 0 .. Len(path), NEW n \in 0 .. m
  PROVE  LedTo(path)[n] \subseteq LedTo(path)[m]
<1> DEFINE L == LedTo(path)
           N == Len(path)
           Bad == {k \in 0 .. N : n <= k /\ ~ (L[n] \subseteq L[k])}
<1>1. \A k \in 1 .. N : L[k - 1] \subseteq L[k]
  BY LedToFacts
<1>2. N \in Nat
  OBVIOUS
<1> HIDE DEF L, N
<1>3. SUFFICES ASSUME Bad # {} PROVE FALSE
  BY <1>2 DEF L, N
<1>4. PICK k \in Bad : \A y \in Bad : k <= y
  <2>1. Bad \subseteq Nat
    OBVIOUS
  <2> HIDE DEF Bad
  <2> QED BY <1>3, <2>1, LeastNumber
<1>5. k \in 0 .. N /\ n <= k /\ ~ (L[n] \subseteq L[k]) /\ k # n
  OBVIOUS
<1>6. k - 1 \in 0 .. N /\ n <= k - 1 /\ k - 1 \notin Bad
  <2> HIDE DEF Bad
  <2> QED BY <1>2, <1>4, <1>5
<1> QED BY <1>1, <1>2, <1>5, <1>6

LEMMA PlainFacts ==
  ASSUME vol \in Volumes, NEW C, NEW name
  PROVE  First(Dirs(PlainIn(C, name))) \subseteq Place /\ PlainIn(C, name) \subseteq DOMAIN vol.entry
<1>1. PlainIn(C, name) \subseteq DOMAIN vol.entry
  BY DEF PlainIn, Plain, Seen
<1> QED BY <1>1, VolumeFacts DEF First, Dirs

LEMMA PlainDirsFacts ==
  ASSUME vol \in Volumes, NEW path \in Seq(Seq(STRING))
  PROVE  /\ PlainDirs(path)[0] = {RootClus}
         /\ \A n \in 1 .. Len(path) :
              PlainDirs(path)[n] = First(Dirs(PlainIn(PlainDirs(path)[n - 1], path[n])))
<1> DEFINE N == Len(path)
           S == SUBSET Place
           step == [x \in Nat \X S |-> First(Dirs(PlainIn(x[2], path[x[1]])))]
           Is(g) == g = [n \in 0 .. N |->
                          IF n = 0 THEN {RootClus} ELSE First(Dirs(PlainIn(g[n - 1], path[n])))]
<1>1. N \in Nat
  OBVIOUS
<1>2. step \in Steps(S)
  BY PlainFacts DEF Steps
<1>3. {RootClus} \in S
  BY VolumeFacts DEF Place
<1> HIDE DEF N
<1>4. PICK g \in Tables(N, S) : Recurs(g, {RootClus}, step, N)
  <2> HIDE DEF step, S
  <2> QED BY <1>1, <1>2, <1>3, RecursionExists
<1>5. ASSUME NEW n \in 0 .. N
      PROVE  g[n] = IF n = 0 THEN {RootClus} ELSE First(Dirs(PlainIn(g[n - 1], path[n])))
  <2>1. CASE n = 0
    BY <1>4, <2>1 DEF Recurs
  <2>2. CASE n # 0
    <3>1. n - 1 \in 0 .. N /\ n \in Nat
      BY <1>1, <2>2
    <3>2. g[n - 1] \in S
      BY <3>1 DEF Tables
    <3>3. step[<<n, g[n - 1]>>] = First(Dirs(PlainIn(g[n - 1], path[n])))
      BY <3>1, <3>2
    <3>4. n \in 1 .. N
      BY <1>1, <2>2
    <3> HIDE DEF step
    <3> QED BY <1>4, <2>2, <3>3, <3>4 DEF Recurs
  <2> QED BY <2>1, <2>2
<1>6. Is(g)
  <2> HIDE DEF step
  <2> QED BY <1>5 DEF Tables
<1>7. PlainDirs(path) = CHOOSE f : Is(f)
  BY DEF PlainDirs, N
<1> DEFINE P == PlainDirs(path)
<1> HIDE DEF Is, P
<1>8. Is(P)
  BY <1>6, <1>7 DEF P
<1>9. \A n \in 0 .. N : P[n] = IF n = 0 THEN {RootClus} ELSE First(Dirs(PlainIn(P[n - 1], path[n])))
  BY <1>8 DEF Is
<1>10. P[0] = {RootClus}
  BY <1>1, <1>9
<1>11. \A n \in 1 .. N : P[n] = First(Dirs(PlainIn(P[n - 1], path[n])))
  BY <1>1, <1>9
<1> QED BY <1>10, <1>11 DEF P, N

-----------------------------------------------------------------------------
(* The invariants of get.                                                  *)

Taken == Len(Path) - Len(input)   \* the names main is done with
Final == Led[Len(Path) - 1]       \* where the last name is looked up
Clear == Path # <<>> /\ NoNeighbours(Final)

\* Where the files begin that the last name may stand for, and the file that
\* a plain path stands for.
FilesOf(S) == {s \in S : "archive" \in vol.entry[s].attr}
Sought == First(FilesOf(Named(Final, Path[Len(Path)])))
Goal   == First(FilesOf(PlainIn(Plains[Len(Path) - 1], Path[Len(Path)])))

\* main looks the next name up where the names before it lead to.
LedInv ==
  /\ \A k \in 1 .. Len(input) : input[k] = Path[Taken + k]
  /\ pc \in {"main", "list", "get", "crash"} => output = NoOutput
  /\ (pc \in {"main", "get"} /\ Clear) => currentCluster \in Led[Taken]
  /\ (pc = "fetch" \/ output # NoOutput) => Path # <<>> /\ (Clear => currentCluster \in Sought)

\* While the names are plain main is in the directory they stand for, and a
\* search that has gone on to another cluster has found nothing there.
FindInv ==
  /\ pc = "main" => probe = currentCluster /\ input = Path
  /\ (pc \in {"main", "get"} /\ input # <<>>) => Plains[Taken] \subseteq {currentCluster}
  /\ (Searching /\ probe # currentCluster) => Matches(currentCluster) = {}
  /\ (pc = "get" /\ input = <<>>) => Goal = {}
  /\ pc = "fetch" => Goal \subseteq {currentCluster}
  /\ (pc = "end" /\ Goal # {}) => Goal \subseteq {currentCluster} /\ output # NoOutput

GetInv == LedInv /\ (Clear => FindInv)

LEMMA SameGoal ==
  ASSUME vol' = vol, command' = command
  PROVE  /\ Path' = Path /\ Led' = Led /\ Plains' = Plains
         /\ Clear' <=> Clear
         /\ Sought' = Sought /\ Goal' = Goal
<1>1. Path' = Path /\ Led' = Led /\ Plains' = Plains
  BY SameTree
<1>2. Final' = Final
  BY <1>1 DEF Final
<1>3. Clear' <=> Clear
  BY <1>1, <1>2 DEF Clear, NoNeighbours, EntrySlots, Base, findFirstSector, eps, spc
<1>4. Sought' = Sought
  BY <1>1, <1>2 DEF Sought, First, FilesOf, Named, Seen, EntrySlots, Base, findFirstSector, eps, spc
<1>5. Goal' = Goal
  BY <1>1 DEF Goal, First, FilesOf, PlainIn, Plain, Named, Seen, EntrySlots, Base,
              findFirstSector, eps, spc
<1> QED BY <1>1, <1>3, <1>4, <1>5

-----------------------------------------------------------------------------
(* Names and matches.                                                      *)

LEMMA CutConcat ==
  ASSUME NEW S, NEW s \in Seq(S), NEW t \in Seq(S)
  PROVE  /\ SubSeq(s \o t, 1, Len(s)) = s
         /\ SubSeq(s \o t, Len(s) + 1, Len(s) + Len(t)) = t
<1> DEFINE u == s \o t
           a == SubSeq(u, 1, Len(s))
           b == SubSeq(u, Len(s) + 1, Len(s) + Len(t))
<1>1. /\ Len(s) \in Nat /\ Len(t) \in Nat
      /\ \A i \in 1 .. Len(s) : s[i] \in S
      /\ \A i \in 1 .. Len(t) : t[i] \in S
  BY ElementOfSeq
<1>2. /\ \A i \in 1 .. Len(s) : u[i] = s[i]
      /\ \A i \in Len(s) + 1 .. Len(s) + Len(t) : u[i] = t[i - Len(s)]
  BY <1>1, ConcatProperties
<1> HIDE DEF u
<1>3. /\ a \in Seq(S) /\ Len(a) = Len(s)
      /\ \A i \in 1 .. Len(s) : a[i] = u[i]
  <2>1. \A i \in 1 .. Len(s) : u[i] \in S
    BY <1>1, <1>2
  <2> QED BY <1>1, <2>1, SubSeqProperties
<1>4. /\ b \in Seq(S) /\ Len(b) = Len(t)
      /\ \A i \in 1 .. Len(t) : b[i] = u[Len(s) + i]
  <2>1. \A i \in Len(s) + 1 .. Len(s) + Len(t) : u[i] \in S
    BY <1>1, <1>2
  <2> DEFINE m == Len(s) + 1
             n == Len(s) + Len(t)
  <2>2. m \in Int /\ n \in Int /\ n - m + 1 = Len(t) /\ (m <= n <=> Len(t) # 0)
        /\ \A i \in Int : m + i - 1 = Len(s) + i
    BY <1>1
  <2> HIDE DEF m, n
  <2>3. \A i \in m .. n : u[i] \in S
    BY <2>1 DEF m, n
  <2>4. /\ SubSeq(u, m, n) \in Seq(S)
        /\ Len(SubSeq(u, m, n)) = IF m <= n THEN n - m + 1 ELSE 0
        /\ \A i \in 1 .. n - m + 1 : SubSeq(u, m, n)[i] = u[m + i - 1]
    BY <2>2, <2>3, SubSeqProperties
  <2>5. Len(SubSeq(u, m, n)) = Len(t)
    <3>1. CASE m <= n
      BY <2>2, <2>4, <3>1
    <3>2. CASE ~ (m <= n)
      BY <2>2, <2>4, <3>2
    <3> QED BY <3>1, <3>2
  <2>6. ASSUME NEW i \in 1 .. Len(t) PROVE SubSeq(u, m, n)[i] = u[Len(s) + i]
    <3>1. i \in 1 .. n - m + 1 /\ m + i - 1 = Len(s) + i
      BY <2>2
    <3>2. SubSeq(u, m, n)[i] = u[m + i - 1]
      BY <2>4, <3>1
    <3> QED BY <3>1, <3>2
  <2> QED BY <2>4, <2>5, <2>6 DEF m, n
<1> HIDE DEF a, b
<1>5. a = s
  BY <1>2, <1>3, SeqEqual
<1>6. b = t
  <2>1. \A i \in 1 .. Len(t) : b[i] = t[i]
    <3> TAKE i \in 1 .. Len(t)
    <3>1. Len(s) + i \in Len(s) + 1 .. Len(s) + Len(t) /\ Len(s) + i - Len(s) = i
      BY <1>1
    <3> QED BY <1>2, <1>4, <3>1
  <2> QED BY <1>4, <2>1, SeqEqual
<1> QED BY <1>5, <1>6 DEF a, b, u

\* An entry that a plain name stands for is printed with its proper name.
LEMMA PlainNamed ==
  ASSUME vol \in Volumes, NEW c, NEW name, NEW s \in Plain(c, name)
  PROVE  s \in Named({c}, name) /\ Named({c}, name) \subseteq {s}
<1> DEFINE e == vol.entry[s]
<1>1. /\ s \in Seen(c) /\ s \in DOMAIN vol.entry
      /\ Named({c}, name) \subseteq {s}
      /\ properName(e) = name
      /\ Len(e.ext) = IF "archive" \in e.attr THEN 3 ELSE 0
  BY DEF Plain, Seen
<1>2. e.stem \in Seq(STRING) /\ e.ext \in Seq(STRING)
  BY <1>1, VolumeFacts
<1> HIDE DEF e
<1>3. Len(e.stem) \in Nat /\ Len(e.ext) \in Nat /\ Len(<<>>) = 0
  BY <1>2
<1>4. CASE "archive" \in e.attr
  <2> DEFINE file == removeSpaces(e)
  <2>1. Len(e.ext) = 3 /\ e.ext # <<>>
    <3>1. Len(e.ext) = 3
      BY <1>1, <1>4
    <3>2. Len(e.ext) # 0
      BY <3>1
    <3> QED BY <1>3, <3>1, <3>2
  <2>2. file = e.stem \o e.ext /\ Len(file) = Len(e.stem) + 3
    <3>1. Len(e.stem \o e.ext) = Len(e.stem) + Len(e.ext)
      BY <1>2, ConcatProperties
    <3> QED BY <2>1, <3>1 DEF removeSpaces
  <2> HIDE DEF file
  <2>3. Len(file) - 3 = Len(e.stem) /\ Len(file) - 2 = Len(e.stem) + 1
        /\ Len(file) = Len(e.stem) + Len(e.ext)
    BY <1>3, <2>1, <2>2
  <2>4. SubSeq(file, 1, Len(file) - 3) = e.stem /\ SubSeq(file, Len(file) - 2, Len(file)) = e.ext
    <3>1. SubSeq(e.stem \o e.ext, 1, Len(e.stem)) = e.stem
      BY <1>2, CutConcat
    <3>2. SubSeq(e.stem \o e.ext, Len(e.stem) + 1, Len(e.stem) + Len(e.ext)) = e.ext
      BY <1>2, CutConcat
    <3> QED BY <2>2, <2>3, <3>1, <3>2
  <2>5. appendDot(file) = e.stem \o <<".">> \o e.ext
    BY <2>4 DEF appendDot
  <2>6. convertedName(e) = properName(e)
    BY <1>4, <2>1, <2>5 DEF convertedName, properName, file
  <2> QED BY <1>1, <2>6 DEF Named, e
<1>5. CASE "archive" \notin e.attr
  <2>1. e.ext = <<>>
    BY <1>1, <1>2, <1>5, EmptySeq
  <2>2. convertedName(e) = properName(e)
    BY <1>2, <1>5, <2>1, ConcatEmptySeq DEF convertedName, properName, removeSpaces
  <2> QED BY <1>1, <2>2 DEF Named, e
<1> QED BY <1>4, <1>5

\* What findFile matches in a cluster of C is an entry of that cluster, if
\* nothing strays in from the cluster behind.
LEMMA MatchNamed ==
  ASSUME vol \in Volumes, NEW C, NEW c \in Place, c \in C, NoNeighbours(C),
         NEW q \in Matches(c)
  PROVE  /\ SlotAt(c, q \div eps, q % eps) \in Named({c}, Head(input))
         /\ readEntry(c, q \div eps, q % eps) = vol.entry[SlotAt(c, q \div eps, q % eps)]
<1> DEFINE i == q \div eps
           j == q % eps
           s == SlotAt(c, i, j)
<1>1. 0 \in 0 .. spc * eps
  BY VolumeFacts
<1>2. q \in VisibleFrom(c, 0) /\ convertedName(readEntry(c, i, j)) = Head(input)
  BY DEF Matches
<1>3. /\ i \in 0 .. spc - 1 /\ j \in 0 .. eps - 1 /\ j > 2 /\ s \in DOMAIN vol.entry
      /\ readEntry(c, i, j) = vol.entry[s] /\ vol.entry[s].attr # {}
  BY <1>1, <1>2, VisibleFacts
<1> HIDE DEF i, j
<1>4. \/ s \in EntrySlots(c) /\ s - Base(c) > 2
      \/ spc > 1 /\ s \in EntrySlots(c + 1)
  BY <1>3, SlotFacts
<1>5. s \in EntrySlots(c) /\ s - Base(c) > 2
  BY <1>3, <1>4 DEF NoNeighbours
<1>6. s \in Seen(c)
  BY <1>3, <1>5 DEF Seen
<1>7. s \in Named({c}, Head(input))
  BY <1>2, <1>3, <1>6 DEF Named, i, j
<1> QED BY <1>3, <1>7 DEF i, j

\* It matches what carries the name.
LEMMA NamedMatches ==
  ASSUME vol \in Volumes, NEW c, NEW s \in Named({c}, Head(input))
  PROVE  Matches(c) # {}
<1> DEFINE q == s - Base(c)
<1>1. s \in Seen(c) /\ convertedName(vol.entry[s]) = Head(input)
  BY DEF Named
<1>2. q \in VisibleFrom(c, 0) /\ readEntry(c, q \div eps, q % eps) = vol.entry[s]
  BY <1>1, SeenVisible
<1> HIDE DEF q
<1> QED BY <1>1, <1>2 DEF Matches

-----------------------------------------------------------------------------
(* get follows the names.                                                  *)

LEMMA PathFacts ==
  ASSUME TypeInv
  PROVE  /\ Path \in Seq(Seq(STRING)) /\ Len(Path) \in Nat
         /\ Len(input) \in Nat /\ Taken \in 0 .. Len(Path)
         /\ Path # <<>> <=> Len(Path) > 0
         /\ input # <<>> <=> Len(input) > 0
<1>1. Path \in Seq(Seq(STRING)) /\ Len(Path) \in Nat /\ Len(input) \in Nat
      /\ Len(input) <= Len(Path) /\ input \in Seq(Seq(STRING))
  BY DEF TypeInv, Path
<1>2. (Path # <<>> <=> Len(Path) # 0) /\ (input # <<>> <=> Len(input) # 0)
  BY <1>1, EmptySeq
<1> QED BY <1>1, <1>2 DEF Taken

LEMMA VolumeKept == ASSUME [Next]_vars PROVE vol' = vol /\ command' = command
  BY DEF Next, Step, Over, vars, Main, ListEntry, ListNextCluster, ListEnd,
         Found, ProbeNext, NotFound, GetEnd, Fetch

\* What taking a name off the path does to the names that are left.
LEMMA TakeOff ==
  ASSUME TypeInv, LedInv, command' = command, input # <<>>, input' = Tail(input)
  PROVE  /\ Taken \in 0 .. Len(Path) - 1 /\ Taken' = Taken + 1
         /\ Head(input) = Path[Taken + 1]
         /\ \A k \in 1 .. Len(input') : input'[k] = Path[Taken' + k]
         /\ input' = <<>> <=> Taken + 1 = Len(Path)
<1>1. /\ Path \in Seq(Seq(STRING)) /\ Len(Path) \in Nat /\ Path' = Path
      /\ Len(input) \in Nat /\ Taken \in 0 .. Len(Path) /\ Len(input) > 0
  BY PathFacts DEF Path
<1>2. /\ Tail(input) \in Seq(Seq(STRING)) /\ Len(Tail(input)) = Len(input) - 1
      /\ \A k \in 1 .. Len(input) - 1 : Tail(input)[k] = input[k + 1]
      /\ Head(input) = input[1]
  BY TailFacts
<1>3. \A k \in 1 .. Len(input) : input[k] = Path[Taken + k]
  BY DEF LedInv
<1>4. Taken' = Taken + 1 /\ Taken = Len(Path) - Len(input)
  BY <1>1, <1>2 DEF Taken
<1>5. Len(input') = Len(input) - 1 /\ (input' = <<>> <=> Len(input') = 0)
  BY <1>2, EmptySeq
<1>6. ASSUME NEW k \in 1 .. Len(input') PROVE input'[k] = Path[Taken' + k]
  <2>1. k \in 1 .. Len(input) - 1 /\ k + 1 \in 1 .. Len(input)
        /\ Taken + (k + 1) = Taken' + k
    BY <1>1, <1>4, <1>5
  <2>2. input'[k] = input[k + 1] /\ input[k + 1] = Path[Taken + (k + 1)]
    BY <1>2, <1>3, <2>1
  <2> QED BY <2>1, <2>2
<1>7. Head(input) = Path[Taken + 1]
  BY <1>1, <1>2, <1>3
<1>8. Taken \in 0 .. Len(Path) - 1
  BY <1>1, <1>4
<1>9. Taken + 1 = Len(Path) <=> Len(input) - 1 = 0
  <2>1. PICK l \in Int : l = Len(Path)
    BY <1>1
  <2>2. PICK n \in Int : n = Len(input)
    BY <1>1
  <2>3. Taken = l - n
    BY <1>4, <2>1, <2>2
  <2>4. Taken + 1 = l <=> n - 1 = 0
    BY <2>3
  <2> QED BY <2>1, <2>2, <2>4
<1> QED BY <1>4, <1>5, <1>6, <1>7, <1>8, <1>9

\* What findFile finds lies where the names lead to, with the next name.
LEMMA FoundNamed ==
  ASSUME TypeInv, LedInv, Clear, Found
  PROVE  \E s \in Named({currentCluster}, Path[Taken + 1]) :
           /\ s \in Named(Led[Taken], Path[Taken + 1])
           /\ currentCluster' = vol.entry[s].first
           /\ pc' = IF "archive" \in vol.entry[s].attr /\ Tail(input) = <<>> THEN "fetch" ELSE "get"
<1> DEFINE c == currentCluster
           q == Min(Matches(c))
           s == SlotAt(c, q \div eps, q % eps)
<1>1. /\ vol \in Volumes /\ c \in Place /\ command' = command
      /\ input # <<>> /\ input' = Tail(input) /\ pc = "get" /\ probe = c /\ Matches(c) # {}
  BY DEF TypeInv, Found, Searching
<1>2. Taken \in 0 .. Len(Path) - 1 /\ Head(input) = Path[Taken + 1]
  BY <1>1, TakeOff
<1>3. c \in Led[Taken]
  BY <1>1 DEF LedInv
<1>4. NoNeighbours({c})
  <2>1. Path \in Seq(Seq(STRING)) /\ Len(Path) \in Nat /\ Len(Path) > 0
    BY PathFacts DEF Clear
  <2>2. Len(Path) - 1 \in 0 .. Len(Path) /\ Taken \in 0 .. Len(Path) - 1
    BY <1>2, <2>1
  <2>3. Led[Taken] \subseteq Final
    BY <1>1, <2>1, <2>2, LedToGrows DEF Led, Final
  <2> QED BY <1>3, <2>3 DEF Clear, NoNeighbours
<1>5. q \in Matches(c)
  BY <1>1, MatchFacts
<1>6. /\ currentCluster' = readEntry(c, q \div eps, q % eps).first
      /\ pc' = IF "archive" \in readEntry(c, q \div eps, q % eps).attr /\ Tail(input) = <<>>
               THEN "fetch" ELSE "get"
  BY <1>1 DEF Found
<1> HIDE DEF q
<1>7. s \in Named({c}, Path[Taken + 1]) /\ readEntry(c, q \div eps, q % eps) = vol.entry[s]
  BY <1>1, <1>2, <1>4, <1>5, MatchNamed
<1> HIDE DEF s
<1>8. s \in Named(Led[Taken], Path[Taken + 1])
  BY <1>3, <1>7 DEF Named
<1> QED BY <1>6, <1>7, <1>8

\* The steps that take no name and leave the directory alone.
LEMMA LedStays ==
  ASSUME LedInv, vol' = vol, command' = command,
         UNCHANGED <<input, currentCluster, output>>,
         pc' \in {"main", "get"} => pc \in {"main", "get"},
         pc' \in {"main", "list", "get", "crash"} => pc \in {"main", "list", "get", "crash"},
         pc' = "fetch" => pc = "fetch"
  PROVE  LedInv'
<1>1. Path' = Path /\ Led' = Led /\ (Clear' <=> Clear) /\ Sought' = Sought
  BY SameGoal
<1>2. Taken' = Taken /\ NoOutput' = NoOutput
  BY <1>1 DEF Taken, NoOutput
<1> QED BY <1>1, <1>2 DEF LedInv

LEMMA LedNext == TypeInv /\ LedInv /\ [Next]_vars => LedInv'
<1> SUFFICES ASSUME TypeInv, LedInv, [Next]_vars PROVE LedInv'
  OBVIOUS
<1>1. vol' = vol /\ command' = command
  BY VolumeKept
<1>2. Path' = Path /\ Led' = Led /\ (Clear' <=> Clear) /\ Sought' = Sought /\ NoOutput' = NoOutput
  BY <1>1, SameGoal DEF NoOutput
<1>3. vol \in Volumes /\ Path \in Seq(Seq(STRING)) /\ Len(Path) \in Nat
  BY PathFacts DEF TypeInv
<1>4. CASE Main
  <2>1. pc = "main" /\ pc' \in {"list", "get"} /\ UNCHANGED <<input, currentCluster, output>>
    BY <1>4 DEF Main, TypeInv
  <2> QED BY <1>1, <2>1, LedStays
<1>5. CASE ListEntry \/ ListNextCluster \/ ListEnd
  <2>1. pc = "list" /\ pc' \in {"list", "crash", "end"} /\ UNCHANGED <<input, currentCluster, output>>
    BY <1>5 DEF ListEntry, ListNextCluster, ListEnd, Listing
  <2> QED BY <1>1, <2>1, LedStays
<1>6. CASE Found
  <2>1. pc = "get" /\ input # <<>> /\ input' = Tail(input) /\ pc' \in {"fetch", "get"} /\ output' = output
    BY <1>6 DEF Found, Searching
  <2>2. /\ Taken \in 0 .. Len(Path) - 1 /\ Taken' = Taken + 1
        /\ \A k \in 1 .. Len(input') : input'[k] = Path'[Taken' + k]
        /\ input' = <<>> <=> Taken + 1 = Len(Path)
    BY <1>1, <1>2, <2>1, TakeOff
  <2>3. output' = NoOutput'
    BY <1>2, <2>1 DEF LedInv
  <2>4. ASSUME Clear
        PROVE  /\ pc' = "get" => currentCluster' \in Led[Taken + 1]
               /\ pc' = "fetch" => currentCluster' \in Sought
    <3>1. PICK s \in Named(Led[Taken], Path[Taken + 1]) :
            /\ currentCluster' = vol.entry[s].first
            /\ pc' = IF "archive" \in vol.entry[s].attr /\ Tail(input) = <<>> THEN "fetch" ELSE "get"
      BY <1>6, <2>4, FoundNamed
    <3>2. currentCluster' \in Led[Taken + 1]
      <4>1. Led[Taken + 1] = Led[Taken] \cup First(Named(Led[Taken], Path[Taken + 1]))
        <5>1. \A n \in 1 .. Len(Path) : Led[n] = Led[n - 1] \cup First(Named(Led[n - 1], Path[n]))
          BY <1>3, LedToFacts DEF Led
        <5>2. PICK t \in 0 .. Len(Path) - 1 : t = Taken
          BY <2>2
        <5>3. t + 1 \in 1 .. Len(Path) /\ t + 1 - 1 = t
          BY <1>3
        <5>4. Led[t + 1] = Led[t] \cup First(Named(Led[t], Path[t + 1]))
          BY <5>1, <5>3
        <5> QED BY <5>2, <5>4
      <4> QED BY <3>1, <4>1 DEF First
    <3>3. ASSUME pc' = "fetch" PROVE currentCluster' \in Sought
      <4>1. "archive" \in vol.entry[s].attr /\ Taken + 1 = Len(Path)
        BY <2>1, <2>2, <3>1, <3>3
      <4>2. Taken = Len(Path) - 1
        BY <1>3, <2>2, <4>1
      <4> QED BY <3>1, <4>1, <4>2 DEF Sought, First, FilesOf, Final
    <3> QED BY <3>2, <3>3
  <2>5. Path # <<>>
    BY <2>2, <1>3, PathFacts
  <2> QED BY <1>2, <2>1, <2>2, <2>3, <2>4, <2>5 DEF LedInv
<1>7. CASE ProbeNext \/ GetEnd
  <2>1. pc = "get" /\ pc' \in {"get", "end", "crash"} /\ UNCHANGED <<input, currentCluster, output>>
    BY <1>7 DEF ProbeNext, GetEnd, Searching
  <2> QED BY <1>1, <2>1, LedStays
<1>8. CASE NotFound
  <2>1. /\ pc = "get" /\ pc' = "get" /\ input # <<>> /\ input' = Tail(input)
        /\ UNCHANGED <<currentCluster, output>>
    BY <1>8 DEF NotFound, Searching
  <2>2. /\ Taken \in 0 .. Len(Path) - 1 /\ Taken' = Taken + 1
        /\ \A k \in 1 .. Len(input') : input'[k] = Path'[Taken' + k]
    BY <1>1, <1>2, <2>1, TakeOff
  <2>3. Led[Taken] \subseteq Led[Taken + 1]
    <3>1. Taken + 1 \in 0 .. Len(Path) /\ Taken \in 0 .. Taken + 1
      BY <1>3, <2>2
    <3> QED BY <1>3, <3>1, LedToGrows DEF Led
  <2> QED BY <1>2, <2>1, <2>2, <2>3 DEF LedInv
<1>9. CASE Fetch
  <2>1. pc = "fetch" /\ pc' = "end" /\ UNCHANGED <<input, currentCluster>>
    BY <1>9 DEF Fetch
  <2>2. Taken' = Taken
    BY <1>2, <2>1 DEF Taken
  <2> QED BY <1>2, <2>1, <2>2 DEF LedInv
<1>10. CASE UNCHANGED vars
  <2>1. pc' = pc /\ UNCHANGED <<input, currentCluster, output>>
    BY <1>10 DEF vars
  <2> QED BY <1>1, <2>1, LedStays
<1> QED BY <1>4, <1>5, <1>6, <1>7, <1>8, <1>9, <1>10 DEF Next, Step, Over

LEMMA LedInit == Init => LedInv
<1> SUFFICES ASSUME Init PROVE LedInv
  OBVIOUS
<1>1. TypeInv
  BY TypeInit
<1>2. pc = "main" /\ input = Path /\ output = NoOutput /\ currentCluster = RootClus
  BY DEF Init, Path
<1>3. Len(Path) \in Nat /\ Path \in Seq(Seq(STRING))
  BY <1>1, PathFacts
<1>4. Taken = 0 /\ \A k \in 1 .. Len(input) : Taken + k = k
  BY <1>2, <1>3 DEF Taken
<1>5. currentCluster \in Led[Taken]
  BY <1>1, <1>2, <1>3, <1>4, LedToFacts DEF Led, TypeInv
<1> QED BY <1>2, <1>4, <1>5 DEF LedInv

LEMMA LedImplied == TypeInv /\ LedInv => GetInTree
<1> SUFFICES ASSUME TypeInv, LedInv, pc = "fetch" \/ output # NoOutput,
                    NoNeighbours(LedTo(command.path)[Len(command.path) - 1])
             PROVE  \E s \in Named(LedTo(command.path)[Len(command.path) - 1],
                                    command.path[Len(command.path)]) :
                      /\ "archive" \in vol.entry[s].attr
                      /\ currentCluster = vol.entry[s].first
  BY DEF GetInTree
<1>1. Final = LedTo(command.path)[Len(command.path) - 1] /\ Path = command.path
  BY DEF Final, Led, Path
<1>2. Clear
  BY <1>1 DEF LedInv, Clear
<1>3. currentCluster \in First(FilesOf(Named(Final, Path[Len(Path)])))
  BY <1>2 DEF LedInv, Sought
<1> QED BY <1>1, <1>3 DEF First, FilesOf

(***************************************************************************)
(* GetInTree.  Whatever findFile drops or main passes over, the file that  *)
(* is fetched carries the last name of the path and lies in a directory    *)
(* that some of the other names lead to, in their order (lines 156-189).   *)
(***************************************************************************)
THEOREM FetchedInTree == Spec => []GetInTree
<1>1. Spec => []TypeInv
  BY TypeInit, TypeNext, PTL DEF Spec
<1>2. Spec => []LedInv
  BY <1>1, LedInit, LedNext, PTL DEF Spec
<1> QED BY <1>1, <1>2, LedImplied, PTL

-----------------------------------------------------------------------------
(* get finds the plain files.                                              *)

LEMMA PlainsFacts ==
  ASSUME TypeInv, NEW n \in 0 .. Len(Path) - 1
  PROVE  Plains[n + 1] = First(Dirs(PlainIn(Plains[n], Path[n + 1])))
<1>1. vol \in Volumes /\ Path \in Seq(Seq(STRING)) /\ Len(Path) \in Nat
  BY PathFacts DEF TypeInv
<1>2. \A k \in 1 .. Len(Path) : Plains[k] = First(Dirs(PlainIn(Plains[k - 1], Path[k])))
  BY <1>1, PlainDirsFacts DEF Plains
<1>3. n + 1 \in 1 .. Len(Path) /\ n + 1 - 1 = n
  BY <1>1
<1> QED BY <1>2, <1>3

\* What a plain name stands for where main looks it up is what findFile finds.
LEMMA PlainFound ==
  ASSUME TypeInv, LedInv, Clear, FindInv, Found
  PROVE  \E s : /\ PlainIn(Plains[Taken], Path[Taken + 1]) \subseteq {s}
               /\ currentCluster' = vol.entry[s].first
               /\ pc' = IF "archive" \in vol.entry[s].attr /\ Tail(input) = <<>> THEN "fetch" ELSE "get"
<1>1. PICK s \in Named({currentCluster}, Path[Taken + 1]) :
        /\ currentCluster' = vol.entry[s].first
        /\ pc' = IF "archive" \in vol.entry[s].attr /\ Tail(input) = <<>> THEN "fetch" ELSE "get"
  BY FoundNamed
<1>2. Plains[Taken] \subseteq {currentCluster} /\ vol \in Volumes
  BY DEF FindInv, Found, Searching, TypeInv
<1>3. ASSUME NEW p \in PlainIn(Plains[Taken], Path[Taken + 1]) PROVE p = s
  <2>1. p \in Plain(currentCluster, Path[Taken + 1])
    BY <1>2 DEF PlainIn
  <2>2. Named({currentCluster}, Path[Taken + 1]) \subseteq {p}
    BY <1>2, <2>1, PlainNamed
  <2> QED BY <2>2
<1> QED BY <1>1, <1>3

\* Where findFile finds nothing no plain name stands for anything.
LEMMA PlainMissed ==
  ASSUME TypeInv, LedInv, command' = command, Clear, FindInv, NotFound
  PROVE  PlainIn(Plains[Taken], Path[Taken + 1]) = {}
<1>1. Matches(currentCluster) = {} /\ vol \in Volumes
  BY DEF NotFound, FindInv, TypeInv
<1>2. Plains[Taken] \subseteq {currentCluster} /\ Head(input) = Path[Taken + 1]
  BY TakeOff DEF FindInv, NotFound, Searching
<1>3. SUFFICES ASSUME NEW p \in PlainIn(Plains[Taken], Path[Taken + 1]) PROVE FALSE
  OBVIOUS
<1>4. p \in Plain(currentCluster, Path[Taken + 1])
  BY <1>2 DEF PlainIn
<1>5. p \in Named({currentCluster}, Head(input))
  BY <1>1, <1>2, <1>4, PlainNamed
<1> QED BY <1>1, <1>5, NamedMatches

\* The last name and its plain file.
LEMMA GoalFacts ==
  ASSUME TypeInv, Taken + 1 = Len(Path)
  PROVE  Goal = First(FilesOf(PlainIn(Plains[Taken], Path[Taken + 1])))
<1>1. PICK l \in Nat : l = Len(Path)
  BY PathFacts
<1>2. PICK n \in 0 .. l : n = Taken
  BY <1>1, PathFacts
<1>3. n = l - 1
  BY <1>1, <1>2
<1> QED BY <1>1, <1>2, <1>3 DEF Goal

LEMMA FetchOpens ==
  ASSUME Fetch PROVE output' # NoOutput
<1>1. PICK n \in 0 .. Sectors - findFirstSector(currentCluster) : output'.sectors = n
  BY DEF Fetch
<1>2. n # -1
  BY <1>1
<1> QED BY <1>1, <1>2 DEF NoOutput

LEMMA FindNext == TypeInv /\ GetInv /\ [Next]_vars => (Clear' => FindInv')
<1> SUFFICES ASSUME TypeInv, LedInv, Clear => FindInv, [Next]_vars, Clear' PROVE FindInv'
  BY DEF GetInv
<1>1. vol' = vol /\ command' = command
  BY VolumeKept
<1>2. Path' = Path /\ Plains' = Plains /\ (Clear' <=> Clear) /\ Goal' = Goal
  BY <1>1, SameGoal
<1>3. Clear /\ FindInv
  BY <1>2
<1>4. command.path # <<>>
  BY <1>3 DEF Clear, Path
<1>5. CASE Main
  <2>1. /\ pc = "main" /\ pc' = "get" /\ probe = currentCluster
        /\ UNCHANGED <<input, currentCluster, probe>>
    BY <1>3, <1>4, <1>5 DEF Main, TypeInv, FindInv
  <2>2. Taken' = Taken
    BY <1>2, <2>1 DEF Taken
  <2>3. input # <<>>
    BY <1>3, <1>4, <2>1 DEF FindInv, Path
  <2> QED BY <1>2, <1>3, <2>1, <2>2, <2>3 DEF FindInv, Searching
<1>6. CASE ListEntry \/ ListNextCluster \/ ListEnd
  BY <1>4, <1>6 DEF ListEntry, ListNextCluster, ListEnd, Listing, TypeInv
<1>7. CASE Found
  <2>1. /\ pc = "get" /\ input # <<>> /\ input' = Tail(input) /\ probe' = currentCluster'
        /\ pc' \in {"fetch", "get"}
    BY <1>7 DEF Found, Searching
  <2>2. /\ Taken \in 0 .. Len(Path) - 1 /\ Taken' = Taken + 1
        /\ input' = <<>> <=> Taken + 1 = Len(Path)
    BY <1>1, <2>1, TakeOff
  <2>3. PICK s : /\ PlainIn(Plains[Taken], Path[Taken + 1]) \subseteq {s}
                 /\ currentCluster' = vol.entry[s].first
                 /\ pc' = IF "archive" \in vol.entry[s].attr /\ Tail(input) = <<>> THEN "fetch" ELSE "get"
    BY <1>3, <1>7, PlainFound
  <2>4. Plains[Taken + 1] \subseteq {currentCluster'}
    BY <2>2, <2>3, PlainsFacts DEF First, Dirs
  <2>5. ASSUME Taken + 1 = Len(Path)
        PROVE  /\ Goal \subseteq {currentCluster'}
               /\ pc' = "get" => Goal = {}
    <3>1. Goal = First(FilesOf(PlainIn(Plains[Taken], Path[Taken + 1])))
      BY <2>5, GoalFacts
    <3>2. Goal \subseteq {currentCluster'}
      BY <2>3, <3>1 DEF First, FilesOf
    <3>3. ASSUME pc' = "get" PROVE Goal = {}
      <4>1. "archive" \notin vol.entry[s].attr
        BY <2>1, <2>2, <2>3, <2>5, <3>3
      <4> QED BY <2>3, <3>1, <4>1 DEF First, FilesOf
    <3> QED BY <3>2, <3>3
  <2>6. pc' = "fetch" => input' = <<>>
    BY <2>1, <2>3
  <2> QED BY <1>2, <2>1, <2>2, <2>4, <2>5, <2>6 DEF FindInv, Searching
<1>8. CASE ProbeNext
  <2>1. /\ pc = "get" /\ pc' \in {"get", "crash"} /\ input # <<>> /\ Matches(probe) = {}
        /\ UNCHANGED <<vol, input, currentCluster>>
    BY <1>8 DEF ProbeNext, Searching
  <2>2. Matches(currentCluster) = {}
    BY <1>3, <2>1 DEF FindInv, Searching
  <2>3. Matches(currentCluster)' = Matches(currentCluster)
    BY <2>1 DEF Matches, VisibleFrom, Visible, readEntry, SlotAt, findFirstSector, LastSlot,
                Sectors, eps, spc
  <2>4. Taken' = Taken
    BY <1>2, <2>1 DEF Taken
  <2> QED BY <1>2, <1>3, <2>1, <2>2, <2>3, <2>4 DEF FindInv
<1>9. CASE NotFound
  <2>1. /\ pc = "get" /\ pc' = "get" /\ input # <<>> /\ input' = Tail(input)
        /\ probe' = currentCluster'
    BY <1>9 DEF NotFound, Searching
  <2>2. /\ Taken \in 0 .. Len(Path) - 1 /\ Taken' = Taken + 1
        /\ input' = <<>> <=> Taken + 1 = Len(Path)
    BY <1>1, <2>1, TakeOff
  <2>3. PlainIn(Plains[Taken], Path[Taken + 1]) = {}
    BY <1>1, <1>3, <1>9, PlainMissed
  <2>4. Plains[Taken + 1] = {}
    BY <2>2, <2>3, PlainsFacts DEF First, Dirs
  <2>5. Taken + 1 = Len(Path) => Goal = {}
    BY <2>3, GoalFacts DEF First, FilesOf
  <2> QED BY <1>2, <2>1, <2>2, <2>4, <2>5 DEF FindInv, Searching
<1>10. CASE GetEnd
  <2>1. pc' = "end" /\ Goal = {}
    BY <1>3, <1>10 DEF GetEnd, FindInv
  <2> QED BY <1>2, <2>1 DEF FindInv, Searching
<1>11. CASE Fetch
  <2>1. pc' = "end" /\ Goal \subseteq {currentCluster} /\ currentCluster' = currentCluster
    BY <1>3, <1>11 DEF Fetch, FindInv
  <2>2. output' # NoOutput
    BY <1>11, FetchOpens
  <2>3. NoOutput' = NoOutput
    BY DEF NoOutput
  <2> QED BY <1>2, <2>1, <2>2, <2>3 DEF FindInv, Searching
<1>12. CASE UNCHANGED vars
  <2>1. UNCHANGED <<pc, input, currentCluster, probe, output, vol>>
    BY <1>12 DEF vars
  <2>2. Matches(currentCluster)' = Matches(currentCluster)
    BY <2>1 DEF Matches, VisibleFrom, Visible, readEntry, SlotAt, findFirstSector, LastSlot,
                Sectors, eps, spc
  <2>3. NoOutput' = NoOutput
    BY DEF NoOutput
  <2>4. Taken' = Taken
    BY <1>2, <2>1 DEF Taken
  <2> QED BY <1>2, <1>3, <2>1, <2>2, <2>3, <2>4 DEF FindInv, Searching
<1> QED BY <1>5, <1>6, <1>7, <1>8, <1>9, <1>10, <1>11, <1>12 DEF Next, Step, Over

LEMMA FindInit == Init => (Clear => FindInv)
<1> SUFFICES ASSUME Init, Clear PROVE FindInv
  OBVIOUS
<1>1. TypeInv /\ LedInv
  BY TypeInit, LedInit
<1>2. pc = "main" /\ input = Path /\ probe = currentCluster /\ currentCluster = RootClus
  BY DEF Init, Path
<1>3. Len(Path) \in Nat /\ Path \in Seq(Seq(STRING)) /\ vol \in Volumes
  BY <1>1, PathFacts DEF TypeInv
<1>4. Taken = 0
  BY <1>2, <1>3 DEF Taken
<1>5. Plains[0] = {RootClus}
  BY <1>3, PlainDirsFacts DEF Plains
<1> QED BY <1>2, <1>4, <1>5 DEF FindInv, Searching

LEMMA FindImplied == TypeInv /\ GetInv => GetFinds
<1> SUFFICES ASSUME TypeInv, LedInv, Clear => FindInv, pc = "end", command.path # <<>>,
                    NoNeighbours(LedTo(command.path)[Len(command.path) - 1]),
                    NEW s \in PlainIn(PlainDirs(command.path)[Len(command.path) - 1],
                                      command.path[Len(command.path) - 1 + 1]),
                    "archive" \in vol.entry[s].attr
             PROVE  currentCluster = vol.entry[s].first /\ output # NoOutput
  BY DEF GetFinds, GetInv
<1>1. Clear
  BY DEF Clear, Final, Led, Path
<1>2. Len(Path) - 1 + 1 = Len(Path) /\ Path = command.path
  BY PathFacts DEF Path
<1>3. s \in FilesOf(PlainIn(Plains[Len(Path) - 1], Path[Len(Path)]))
  BY <1>2 DEF FilesOf, Plains
<1>4. vol.entry[s].first \in Goal
  BY <1>3 DEF Goal, First
<1> QED BY <1>1, <1>4 DEF FindInv

(***************************************************************************)
(* GetFinds.  A file whose path is plain is the one whose copy is begun:   *)
(* neither the clusters findFile looks through nor the names before lead   *)
(* past it (lines 159-189, 263-325).                                       *)
(***************************************************************************)
THEOREM PlainFetched == Spec => []GetFinds
<1>1. Spec => []TypeInv
  BY TypeInit, TypeNext, PTL DEF Spec
<1>2. Init => GetInv
  BY LedInit, FindInit DEF GetInv
<1>3. TypeInv /\ GetInv /\ [Next]_vars => GetInv'
  BY LedNext, FindNext DEF GetInv
<1>4. Spec => []GetInv
  BY <1>1, <1>2, <1>3, PTL DEF Spec
<1> QED BY <1>1, <1>4, FindImplied, PTL

-----------------------------------------------------------------------------
(* The tree.                                                               *)

\* What grows N times within a set of N elements grows no more.
LEMMA Saturates ==
  ASSUME NEW N \in Nat, NEW U, IsFiniteSet(U), Cardinality(U) <= N,
         NEW step \in [SUBSET U -> SUBSET U], \A X \in SUBSET U : X \subseteq step[X],
         NEW L, L[0] \in SUBSET U, \A n \in 1 .. N : L[n] = step[L[n - 1]]
  PROVE  L[N] \in SUBSET U /\ step[L[N]] = L[N]
<1>1. \A n \in 0 .. N : L[n] \in SUBSET U
  <2> DEFINE S == SUBSET U
  <2>1. \A n \in 1 .. N : L[n - 1] \in S => L[n] \in S
    OBVIOUS
  <2>2. L[0] \in S
    OBVIOUS
  <2> HIDE DEF S
  <2>3. \A n \in 0 .. N : L[n] \in S
    BY <2>1, <2>2, RecursionStays
  <2> QED BY <2>3 DEF S
<1>2. N \in 0 .. N
  OBVIOUS
<1> DEFINE Still == {n \in 1 .. N : L[n] = L[n - 1]}
<1>3. CASE Still = {}
  <2> DEFINE Small == {n \in 0 .. N : ~ (Cardinality(L[n]) >= n)}
  <2>1. \A n \in 0 .. N : Cardinality(L[n]) \in Nat /\ IsFiniteSet(L[n])
    BY <1>1, FS_Subset, FS_CardinalityType
  <2>2. Small = {}
    <3>1. SUFFICES ASSUME Small # {} PROVE FALSE
      OBVIOUS
    <3>2. Small \subseteq Nat
      OBVIOUS
    <3>3. PICK n \in Small : \A y \in Small : n <= y
      <4> HIDE DEF Small
      <4> QED BY <3>1, <3>2, LeastNumber
    <3>4. n \in 1 .. N /\ ~ (Cardinality(L[n]) >= n)
      <4>1. n \in 0 .. N /\ ~ (Cardinality(L[n]) >= n)
        OBVIOUS
      <4>2. n # 0
        BY <2>1, <4>1
      <4> QED BY <4>1, <4>2
    <3>5. n - 1 \in 0 .. N /\ n - 1 \notin Small
      <4> HIDE DEF Small
      <4> QED BY <3>3, <3>4
    <3>6. Cardinality(L[n - 1]) >= n - 1
      BY <3>5
    <3>7. L[n - 1] \subseteq L[n] /\ L[n - 1] # L[n]
      BY <1>1, <1>3, <3>4, <3>5
    <3>8. Cardinality(L[n - 1]) <= Cardinality(L[n]) /\ Cardinality(L[n - 1]) # Cardinality(L[n])
      BY <2>1, <3>4, <3>7, FS_Subset
    <3>9. Cardinality(L[n - 1]) \in Nat /\ Cardinality(L[n]) \in Nat
      BY <2>1, <3>4, <3>5
    <3> QED BY <3>4, <3>6, <3>8, <3>9
  <2>3. Cardinality(L[N]) >= N
    BY <1>2, <2>2
  <2>4. Cardinality(L[N]) <= Cardinality(U) /\ (Cardinality(U) = Cardinality(L[N]) => U = L[N])
    BY <1>1, <1>2, FS_Subset
  <2>5. L[N] = U
    <3>1. Cardinality(U) \in Nat /\ Cardinality(L[N]) \in Nat
      BY <1>2, <2>1, FS_CardinalityType
    <3> QED BY <2>3, <2>4, <3>1
  <2>6. U \in SUBSET U
    OBVIOUS
  <2>7. step[U] \in SUBSET U /\ U \subseteq step[U]
    BY <2>6
  <2>8. step[U] = U
    BY <2>7
  <2> QED BY <2>5, <2>6, <2>8
<1>4. CASE Still # {}
  <2>1. PICK n \in 1 .. N : L[n] = L[n - 1]
    BY <1>4
  <2> DEFINE Moved == {m \in 0 .. N : m >= n /\ L[m] # L[n]}
  <2>2. step[L[n]] = L[n]
    BY <2>1
  <2>3. Moved = {}
    <3>1. SUFFICES ASSUME Moved # {} PROVE FALSE
      OBVIOUS
    <3>2. Moved \subseteq Nat
      OBVIOUS
    <3>3. PICK m \in Moved : \A y \in Moved : m <= y
      <4> HIDE DEF Moved
      <4> QED BY <3>1, <3>2, LeastNumber
    <3>4. m \in 1 .. N /\ m > n /\ L[m] # L[n]
      OBVIOUS
    <3>5. m - 1 \in 0 .. N /\ m - 1 >= n /\ m - 1 \notin Moved
      <4> HIDE DEF Moved
      <4> QED BY <3>3, <3>4
    <3>6. L[m - 1] = L[n]
      BY <3>5
    <3> QED BY <2>2, <3>4, <3>6
  <2>4. L[N] = L[n]
    BY <1>2, <2>3
  <2> QED BY <1>1, <1>2, <2>2, <2>4
<1> QED BY <1>3, <1>4

\* A set that grows by recursion, as Chains and Level define theirs.
Links(X)  == {vol.fat[c] : c \in X} \cap Clusters
Linked(T) == \A c \in T : vol.fat[c] \in Clusters => vol.fat[c] \in T

LEMMA ClustersFinite ==
  ASSUME vol \in Volumes
  PROVE  IsFiniteSet(Clusters) /\ Cardinality(Clusters) <= LastCluster
<1>1. LastCluster \in Nat /\ 2 <= LastCluster
  BY Fat32Assumption DEF RootClus
<1>2. IsFiniteSet(2 .. LastCluster) /\ Cardinality(2 .. LastCluster) = LastCluster - 2 + 1
  BY <1>1, FS_Interval
<1> QED BY <1>1, <1>2 DEF Clusters, RootClus

\* The clusters of the directories that begin at C are those the links of the
\* table lead to from there.
LEMMA ChainsFacts ==
  ASSUME vol \in Volumes, NEW C
  PROVE  /\ Chains(C) \subseteq Clusters /\ C \cap Clusters \subseteq Chains(C)
         /\ Linked(Chains(C))
         /\ \A T : C \cap Clusters \subseteq T /\ Linked(T) => Chains(C) \subseteq T
<1> DEFINE N == LastCluster
           S == SUBSET Clusters
           b == C \cap Clusters
           grow == [X \in S |-> X \cup Links(X)]
           step == [x \in Nat \X S |-> grow[x[2]]]
           Is(g) == g = [n \in 0 .. N |->
                          IF n = 0 THEN C \cap Clusters
                          ELSE LET some == g[n - 1]
                               IN  some \cup ({vol.fat[c] : c \in some} \cap Clusters)]
<1>1. N \in Nat
  BY VolumeFacts
<1>2. grow \in [S -> S] /\ step \in Steps(S)
  BY DEF Steps, Links
<1>3. b \in S
  OBVIOUS
<1>4. PICK g \in Tables(N, S) : Recurs(g, b, step, N)
  <2> HIDE DEF step, S, N, b
  <2> QED BY <1>1, <1>2, <1>3, RecursionExists
<1>5. ASSUME NEW n \in 0 .. N
      PROVE  g[n] = IF n = 0 THEN C \cap Clusters
                    ELSE LET some == g[n - 1]
                         IN  some \cup ({vol.fat[c] : c \in some} \cap Clusters)
  <2>1. CASE n = 0
    BY <1>4, <2>1 DEF Recurs
  <2>2. CASE n # 0
    <3>1. n - 1 \in 0 .. N /\ n \in Nat /\ n \in 1 .. N
      BY <1>1, <2>2
    <3>2. g[n - 1] \in S
      BY <3>1 DEF Tables
    <3>3. step[<<n, g[n - 1]>>] = g[n - 1] \cup ({vol.fat[c] : c \in g[n - 1]} \cap Clusters)
      BY <3>1, <3>2 DEF Links
    <3> HIDE DEF step, S, N
    <3> QED BY <1>4, <2>2, <3>1, <3>3 DEF Recurs
  <2> QED BY <2>1, <2>2
<1>6. Is(g)
  <2> HIDE DEF step, S
  <2> QED BY <1>5 DEF Tables
<1> DEFINE R == CHOOSE f : Is(f)
<1>7. Chains(C) = R[N]
  BY DEF Chains
<1> HIDE DEF Is, R
<1>8. Is(R)
  BY <1>6 DEF R
<1>9. ASSUME NEW n \in 0 .. N
      PROVE  R[n] = IF n = 0 THEN b ELSE R[n - 1] \cup Links(R[n - 1])
  BY <1>8 DEF Is, Links
<1>10. R[0] = b
  <2>1. 0 \in 0 .. N
    BY <1>1
  <2> QED BY <1>9, <2>1, Zenon
<1>11. \A n \in 1 .. N : R[n] = R[n - 1] \cup Links(R[n - 1]) /\ n - 1 \in 0 .. N
  <2>1. \A n \in 1 .. N : n \in 0 .. N /\ n # 0 /\ n - 1 \in 0 .. N
    BY <1>1
  <2> QED BY <1>9, <2>1, Zenon
<1>12. \A n \in 0 .. N : R[n] \in S
  <2>1. \A n \in 1 .. N : R[n - 1] \in S => R[n] \in S
    BY <1>11 DEF Links
  <2> HIDE DEF S
  <2> QED BY <1>1, <1>3, <1>10, <2>1, RecursionStays
<1>13. \A n \in 1 .. N : R[n] = grow[R[n - 1]]
  BY <1>11, <1>12
<1>14. R[N] \in S /\ grow[R[N]] = R[N]
  <2>1. \A X \in SUBSET Clusters : X \subseteq grow[X]
    OBVIOUS
  <2>2. IsFiniteSet(Clusters) /\ Cardinality(Clusters) <= N
    BY ClustersFinite
  <2>3. R[0] \in SUBSET Clusters /\ grow \in [SUBSET Clusters -> SUBSET Clusters]
    BY <1>2, <1>3, <1>10
  <2> HIDE DEF grow, N
  <2> QED BY <1>1, <1>13, <2>1, <2>2, <2>3, Saturates
<1>15. b \subseteq R[N]
  <2> DEFINE W == {X \in S : b \subseteq X}
  <2>1. \A n \in 1 .. N : R[n - 1] \in W => R[n] \in W
    BY <1>11, <1>12
  <2>2. R[0] \in W
    BY <1>3, <1>10
  <2> HIDE DEF W
  <2>3. R[N] \in W
    BY <1>1, <2>1, <2>2, RecursionStays
  <2> QED BY <2>3 DEF W
<1>16. Linked(R[N])
  <2>1. Links(R[N]) \subseteq R[N]
    BY <1>14
  <2> QED BY <2>1 DEF Links, Linked
<1>17. ASSUME NEW T, b \subseteq T, Linked(T)
       PROVE  R[N] \subseteq T
  <2> DEFINE W == SUBSET T
  <2>1. \A n \in 1 .. N : R[n - 1] \in W => R[n] \in W
    BY <1>11, <1>17 DEF Linked, Links
  <2>2. R[0] \in W
    BY <1>10, <1>17
  <2> HIDE DEF W
  <2>3. R[N] \in W
    BY <1>1, <2>1, <2>2, RecursionStays
  <2> QED BY <2>3 DEF W
<1> QED BY <1>7, <1>14, <1>15, <1>16, <1>17

\* And so with the clusters of all directories: they are those the root, the
\* links and the entries of directories lead to.
Below(X)   == First(Dirs(UNION {Seen(c) : c \in X}))
Entered(T) == Below(T) \cap Clusters \subseteq T

LEMMA TreeFacts ==
  ASSUME vol \in Volumes
  PROVE  /\ DirClusters \subseteq Clusters /\ RootClus \in DirClusters
         /\ Linked(DirClusters) /\ Entered(DirClusters)
         /\ \A T : RootClus \in T /\ Linked(T) /\ Entered(T) => DirClusters \subseteq T
<1> DEFINE N == LastCluster
           S == SUBSET Clusters
           b == Chains({RootClus})
           grow == [X \in S |-> X \cup Chains(Below(X))]
           step == [x \in Nat \X S |-> grow[x[2]]]
           Is(g) == g = [n \in 0 .. N |->
                          IF n = 0 THEN Chains({RootClus})
                          ELSE LET above == g[n - 1]
                               IN  above \cup Chains(First(Dirs(UNION {Seen(c) : c \in above})))]
<1>1. N \in Nat
  BY VolumeFacts
<1>2. grow \in [S -> S] /\ step \in Steps(S)
  <2>1. \A X : Chains(Below(X)) \in S
    BY ChainsFacts
  <2>2. grow \in [S -> S]
    BY <2>1
  <2> HIDE DEF grow
  <2> QED BY <2>2 DEF Steps
<1>3. b \in S
  BY ChainsFacts
<1>4. PICK g \in Tables(N, S) : Recurs(g, b, step, N)
  <2> HIDE DEF step, S, N, b
  <2> QED BY <1>1, <1>2, <1>3, RecursionExists
<1>5. ASSUME NEW n \in 0 .. N
      PROVE  g[n] = IF n = 0 THEN Chains({RootClus})
                    ELSE LET above == g[n - 1]
                         IN  above \cup Chains(First(Dirs(UNION {Seen(c) : c \in above})))
  <2>1. CASE n = 0
    BY <1>4, <2>1 DEF Recurs
  <2>2. CASE n # 0
    <3>1. n - 1 \in 0 .. N /\ n \in Nat /\ n \in 1 .. N
      BY <1>1, <2>2
    <3>2. g[n - 1] \in S
      BY <3>1 DEF Tables
    <3>3. step[<<n, g[n - 1]>>]
            = g[n - 1] \cup Chains(First(Dirs(UNION {Seen(c) : c \in g[n - 1]})))
      BY <3>1, <3>2 DEF Below
    <3> HIDE DEF step, S, N
    <3> QED BY <1>4, <2>2, <3>1, <3>3 DEF Recurs
  <2> QED BY <2>1, <2>2
<1>6. Is(g)
  <2> HIDE DEF step, S
  <2> QED BY <1>5 DEF Tables
<1>7. Level = CHOOSE f : Is(f)
  BY DEF Level
<1> DEFINE R == Level
<1> HIDE DEF Is, R
<1>8. Is(R)
  BY <1>6, <1>7 DEF R
<1>9. ASSUME NEW n \in 0 .. N
      PROVE  R[n] = IF n = 0 THEN b ELSE R[n - 1] \cup Chains(Below(R[n - 1]))
  BY <1>8 DEF Is, Below
<1>10. R[0] = b
  <2>1. 0 \in 0 .. N
    BY <1>1
  <2> QED BY <1>9, <2>1, Zenon
<1>11. \A n \in 1 .. N : R[n] = R[n - 1] \cup Chains(Below(R[n - 1])) /\ n - 1 \in 0 .. N
  <2>1. \A n \in 1 .. N : n \in 0 .. N /\ n # 0 /\ n - 1 \in 0 .. N
    BY <1>1
  <2> QED BY <1>9, <2>1, Zenon
<1>12. \A n \in 0 .. N : R[n] \in S
  <2>1. \A n \in 1 .. N : R[n - 1] \in S => R[n] \in S
    BY <1>11, ChainsFacts
  <2> HIDE DEF S
  <2> QED BY <1>1, <1>3, <1>10, <2>1, RecursionStays
<1>13. \A n \in 1 .. N : R[n] = grow[R[n - 1]]
  BY <1>11, <1>12
<1>14. R[N] \in S /\ grow[R[N]] = R[N]
  <2>1. \A X \in SUBSET Clusters : X \subseteq grow[X]
    OBVIOUS
  <2>2. IsFiniteSet(Clusters) /\ Cardinality(Clusters) <= N
    BY ClustersFinite
  <2>3. R[0] \in SUBSET Clusters /\ grow \in [SUBSET Clusters -> SUBSET Clusters]
    BY <1>2, <1>3, <1>10
  <2> HIDE DEF grow, N
  <2> QED BY <1>1, <1>13, <2>1, <2>2, <2>3, Saturates
<1>15. RootClus \in R[N] /\ Linked(R[N])
  <2> DEFINE W == {X \in S : RootClus \in X /\ Linked(X)}
  <2>1. \A n \in 1 .. N : R[n - 1] \in W => R[n] \in W
    <3>1. SUFFICES ASSUME NEW n \in 1 .. N, R[n - 1] \in W PROVE R[n] \in W
      OBVIOUS
    <3> DEFINE X == R[n - 1]
               Y == Chains(Below(R[n - 1]))
    <3>2. R[n] = X \cup Y /\ X \in W
      BY <1>11, <3>1
    <3>3. Linked(Y) /\ Y \in S
      BY ChainsFacts
    <3> HIDE DEF X, Y
    <3> QED BY <3>2, <3>3 DEF Linked
  <2>2. R[0] \in W
    <3>1. RootClus \in Clusters
      BY VolumeFacts
    <3> QED BY <1>3, <1>10, <3>1, ChainsFacts
  <2> HIDE DEF W
  <2>3. R[N] \in W
    BY <1>1, <2>1, <2>2, RecursionStays
  <2> QED BY <2>3 DEF W
<1>16. Entered(R[N])
  <2>1. Below(R[N]) \cap Clusters \subseteq Chains(Below(R[N]))
    BY ChainsFacts
  <2>2. Chains(Below(R[N])) \subseteq R[N]
    BY <1>14
  <2> QED BY <2>1, <2>2 DEF Entered
<1>17. ASSUME NEW T, RootClus \in T, Linked(T), Entered(T)
       PROVE  R[N] \subseteq T
  <2> DEFINE W == SUBSET T
  <2>1. \A n \in 1 .. N : R[n - 1] \in W => R[n] \in W
    <3>1. SUFFICES ASSUME NEW n \in 1 .. N, R[n - 1] \subseteq T PROVE R[n] \subseteq T
      OBVIOUS
    <3>2. Below(R[n - 1]) \subseteq Below(T)
      BY <3>1 DEF Below, First, Dirs
    <3>3. Chains(Below(R[n - 1])) \subseteq T
      BY <1>17, <3>2, ChainsFacts DEF Entered
    <3> QED BY <1>11, <3>1, <3>3
  <2>2. R[0] \in W
    BY <1>10, <1>17, ChainsFacts
  <2> HIDE DEF W
  <2>3. R[N] \in W
    BY <1>1, <2>1, <2>2, RecursionStays
  <2> QED BY <2>3 DEF W
<1>18. DirClusters = R[N]
  BY DEF DirClusters, R
<1> QED BY <1>14, <1>15, <1>16, <1>17, <1>18

-----------------------------------------------------------------------------
(* A step of list.                                                         *)

Printed(sh) == {sh[k][1] : k \in DOMAIN sh}
On(st)      == {st[i].cluster : i \in DOMAIN st}

\* ListEntry prints the first entry s of the top's that is left, at place q.
Enters(st, sh, st2, sh2, s, q) ==
  LET n == Len(st)
      t == st[n]
      isDir == "dir" \in vol.entry[s].attr
  IN  /\ n > 0
      /\ t.cluster \in DirClusters /\ s \in Seen(t.cluster)
      /\ q \in VisibleFrom(t.cluster, t.next) /\ q \in Nat
      /\ SlotAt(t.cluster, q \div eps, q % eps) = s /\ (spc = 1 => s - Base(t.cluster) = q)
      /\ \A y \in VisibleFrom(t.cluster, t.next) : q <= y
      /\ Len(sh2) = Len(sh) + 1 /\ sh2[Len(sh) + 1] = <<s, t.depth>>
      /\ \A k \in 1 .. Len(sh) : sh2[k] = sh[k]
      /\ Len(st2) = IF isDir THEN n + 1 ELSE n
      /\ \A i \in 1 .. n - 1 : st2[i] = st[i]
      /\ st2[n].cluster = t.cluster /\ st2[n].next = q + 1 /\ st2[n].depth = t.depth
      /\ isDir => /\ st2[n + 1].cluster = vol.entry[s].first /\ st2[n + 1].next = 0
                  /\ st2[n + 1].depth = t.depth + 1

\* ListNextCluster leaves the cluster of the top for the next one, if any.
Turns(st, st2) ==
  LET n == Len(st)
      t == st[n]
      next == readCurrentFAT(t.cluster)
  IN  /\ n > 0
      /\ VisibleFrom(t.cluster, t.next) = {}
      /\ Len(st2) = IF next = EndOfChain THEN n - 1 ELSE n
      /\ \A i \in 1 .. n - 1 : st2[i] = st[i]
      /\ next # EndOfChain => /\ st2[n].cluster = next /\ st2[n].next = 0
                              /\ st2[n].depth = t.depth

LEMMA CallersFacts ==
  ASSUME stack \in Seq(Frame), Len(stack) > 0
  PROVE  Len(Callers) = Len(stack) - 1 /\ \A i \in 1 .. Len(stack) - 1 : Callers[i] = stack[i]
<1> DEFINE n == Len(stack)
<1>1. n \in Nat /\ n > 0 /\ \A i \in 1 .. n - 1 : stack[i] \in Frame
  BY ElementOfSeq
<1> HIDE DEF n
<1>2. Callers = SubSeq(stack, 1, n - 1)
  BY DEF Callers, n
<1>3. Len(Callers) = n - 1 /\ \A i \in 1 .. n - 1 : Callers[i] = stack[1 + i - 1]
  BY <1>1, <1>2, SubSeqProperties
<1> QED BY <1>1, <1>3 DEF n

LEMMA ListEntryEnters ==
  ASSUME TypeInv, ListEntry, NoNeighbours(DirClusters), On(stack) \subseteq DirClusters \cup {0}
  PROVE  \E s, q : Enters(stack, shown, stack', shown', s, q)
<1> DEFINE q == Min(Unlisted)
           s == SlotAt(Top.cluster, q \div eps, q % eps)
           e == vol.entry[s]
           caller == Append(Callers, [Top EXCEPT !.next = q + 1])
           n == Len(stack)
<1>1. vol \in Volumes /\ Listing /\ stack \in Seq(Frame) /\ shown \in Seq(Prints)
  BY DEF TypeInv, ListEntry
<1>2. Top \in Frame /\ Callers \in Seq(Frame) /\ n \in Nat /\ n > 0 /\ Top = stack[n]
  BY <1>1, TopFacts DEF Top
<1>3. /\ Top.cluster \in Place /\ Top.next \in 0 .. spc * eps
      /\ Top.depth \in Nat /\ Top.calls \in Nat
  BY <1>2 DEF Frame
<1>4. spc * eps \in Nat
  BY <1>1, VolumeFacts
<1>5. q \in VisibleFrom(Top.cluster, Top.next) /\ \A y \in VisibleFrom(Top.cluster, Top.next) : q <= y
  <2>1. VisibleFrom(Top.cluster, Top.next) \subseteq Nat /\ Unlisted # {}
    BY <1>3, <1>4 DEF VisibleFrom, ListEntry
  <2>2. \E x \in Unlisted : \A y \in Unlisted : x <= y
    BY <2>1, LeastNumber DEF Unlisted
  <2> QED BY <2>2 DEF Unlisted, Min
<1> HIDE DEF q
<1>6. q \in Nat
  BY <1>1, <1>3, <1>5, VisibleFacts
<1>7. Top.cluster \in DirClusters \cup {0}
  <2>1. n \in DOMAIN stack
    BY <1>1, <1>2
  <2> QED BY <1>2, <2>1 DEF On
<1>8. Top.cluster \in DirClusters /\ s \in Seen(Top.cluster) /\ (spc = 1 => s - Base(Top.cluster) = q)
  BY <1>1, <1>3, <1>5, <1>7, VisibleSeen
<1>9. shown' = Append(shown, <<s, Top.depth>>)
  BY DEF ListEntry, q
<1>10. stack' = IF "dir" \notin e.attr THEN caller
                ELSE Append(caller, [cluster |-> e.first, next |-> 0, depth |-> Top.depth + 1,
                       calls |-> Top.calls + 1])
  BY DEF ListEntry, q
<1>11. SlotAt(Top.cluster, q \div eps, q % eps) = s
  OBVIOUS
<1> HIDE DEF s
<1>12. <<s, Top.depth>> \in Prints
  BY <1>1, <1>3, <1>8, VolumeFacts DEF Prints, Seen
<1>13. Len(shown') = Len(shown) + 1 /\ shown'[Len(shown) + 1] = <<s, Top.depth>>
       /\ \A k \in 1 .. Len(shown) : shown'[k] = shown[k]
  BY <1>1, <1>9, <1>12, AppendProperties
<1> DEFINE t2 == [Top EXCEPT !.next = q + 1]
<1>14. t2 = [cluster |-> Top.cluster, next |-> q + 1, depth |-> Top.depth, calls |-> Top.calls]
  BY <1>2, FrameGoesOn DEF Frame
<1> DEFINE isDir == "dir" \in e.attr
           new == [cluster |-> e.first, next |-> 0, depth |-> Top.depth + 1,
                       calls |-> Top.calls + 1]
           F == [cluster : Place, next : Nat, depth : Nat, calls : Nat]
<1>15. t2 \in F /\ new \in F /\ Callers \in Seq(F)
  <2>1. e.first \in Place
    BY <1>1, <1>8, VolumeFacts DEF Seen
  <2>2. Frame \subseteq F
    BY <1>4 DEF Frame
  <2>3. Callers \in Seq(F)
    <3> HIDE DEF F
    <3> QED BY <1>2, <2>2, SeqMonotonic
  <2> QED BY <1>3, <1>6, <1>14, <2>1, <2>3
<1> HIDE DEF F, t2, new, isDir, n
<1>16. caller \in Seq(F) /\ Len(caller) = n /\ caller[n] = t2
       /\ \A i \in 1 .. n - 1 : caller[i] = stack[i]
  <2>1. Len(Callers) = n - 1 /\ \A i \in 1 .. n - 1 : Callers[i] = stack[i]
    BY <1>1, <1>2, CallersFacts DEF n
  <2>2. caller = Append(Callers, t2)
    BY DEF t2
  <2> HIDE DEF caller
  <2>3. caller \in Seq(F) /\ Len(caller) = Len(Callers) + 1 /\ caller[Len(Callers) + 1] = t2
        /\ \A i \in 1 .. Len(Callers) : caller[i] = Callers[i]
    BY <1>15, <2>2, AppendProperties
  <2> QED BY <1>2, <2>1, <2>3 DEF n
<1>17. /\ Len(stack') = IF isDir THEN n + 1 ELSE n
       /\ \A i \in 1 .. n - 1 : stack'[i] = stack[i]
       /\ stack'[n] = t2 /\ (isDir => stack'[n + 1] = new)
  <2>1. CASE isDir
    <3>1. stack' = Append(caller, new)
      BY <1>10, <2>1 DEF isDir, new
    <3> HIDE DEF caller
    <3>2. Len(stack') = n + 1 /\ stack'[n + 1] = new /\ \A i \in 1 .. n : stack'[i] = caller[i]
      BY <1>15, <1>16, <3>1, AppendProperties
    <3>3. stack'[n] = t2 /\ \A i \in 1 .. n - 1 : stack'[i] = stack[i]
      BY <1>2, <1>16, <3>2 DEF n
    <3> QED BY <2>1, <3>2, <3>3
  <2>2. CASE ~ isDir
    <3>1. stack' = caller
      BY <1>10, <2>2 DEF isDir
    <3> HIDE DEF caller
    <3> QED BY <1>16, <2>2, <3>1
  <2> QED BY <2>1, <2>2
<1> HIDE DEF caller
<1>18. Enters(stack, shown, stack', shown', s, q)
  BY <1>2, <1>5, <1>6, <1>8, <1>11, <1>13, <1>14, <1>17 DEF Enters, n, t2, new, isDir
<1> QED BY <1>18

LEMMA ListNextTurns ==
  ASSUME TypeInv, ListNextCluster
  PROVE  Turns(stack, stack') /\ shown' = shown
<1> DEFINE next == readCurrentFAT(Top.cluster)
           n == Len(stack)
<1>1. vol \in Volumes /\ Listing /\ stack \in Seq(Frame)
  BY DEF TypeInv, ListNextCluster
<1>2. Top \in Frame /\ Callers \in Seq(Frame) /\ n \in Nat /\ n > 0 /\ Top = stack[n]
  BY <1>1, TopFacts DEF Top
<1>3. Len(Callers) = n - 1 /\ \A i \in 1 .. n - 1 : Callers[i] = stack[i]
  BY <1>1, <1>2, CallersFacts
<1>4. VisibleFrom(Top.cluster, Top.next) = {} /\ shown' = shown
  BY DEF ListNextCluster, Unlisted
<1>5. CASE next = EndOfChain
  <2>1. stack' = Callers
    BY <1>5 DEF ListNextCluster
  <2> QED BY <1>2, <1>3, <1>4, <1>5, <2>1 DEF Turns
<1>6. CASE next # EndOfChain
  <2>1. stack' = Append(Callers, [Top EXCEPT !.cluster = next, !.next = 0, !.calls = @ + 1])
    BY <1>6 DEF ListNextCluster
  <2>2. next \in Place /\ 0 \in 0 .. spc * eps
    <3>1. Top.cluster \in Place
      BY <1>2 DEF Frame
    <3>2. spc * eps \in Nat
      BY <1>1, VolumeFacts
    <3> QED BY <1>1, <1>6, <3>1, <3>2, LinkFacts DEF Place
  <2> HIDE DEF next
  <2> DEFINE x == [Top EXCEPT !.cluster = next, !.next = 0, !.calls = @ + 1]
  <2>3. x.cluster = next /\ x.next = 0 /\ x.depth = Top.depth /\ x \in Frame
    <3>1. x = [cluster |-> next, next |-> 0, depth |-> Top.depth, calls |-> Top.calls + 1]
      BY <1>2, FrameGoesOn DEF Frame
    <3> HIDE DEF x
    <3>2. Top.depth \in Nat /\ Top.calls + 1 \in Nat
      BY <1>2 DEF Frame
    <3> QED BY <2>2, <3>1, <3>2 DEF Frame
  <2> HIDE DEF x, n
  <2>4. Len(stack') = Len(Callers) + 1 /\ stack'[Len(Callers) + 1] = x
        /\ \A i \in 1 .. Len(Callers) : stack'[i] = Callers[i]
    BY <1>2, <2>1, <2>3, AppendProperties DEF x
  <2>5. Len(stack') = n /\ stack'[n] = x /\ \A i \in 1 .. n - 1 : stack'[i] = stack[i]
    BY <1>2, <1>3, <2>4
  <2> QED BY <1>2, <1>4, <1>6, <2>3, <2>5 DEF Turns, n, next
<1> QED BY <1>5, <1>6

\* What is printed and what is on the stack afterwards.
LEMMA EntersFacts ==
  ASSUME vol \in Volumes, NEW st \in Seq(Frame), NEW st2 \in Seq(Frame),
         NEW sh \in Seq(Prints), NEW sh2 \in Seq(Prints), NEW s, NEW q,
         Enters(st, sh, st2, sh2, s, q)
  PROVE  /\ Printed(sh2) = Printed(sh) \cup {s}
         /\ On(st2) = On(st) \cup (IF "dir" \in vol.entry[s].attr THEN {vol.entry[s].first} ELSE {})
         /\ DOMAIN st = 1 .. Len(st) /\ Len(st) \in Nat \ {0}
         /\ DOMAIN st2 = 1 .. Len(st2) /\ DOMAIN sh = 1 .. Len(sh) /\ DOMAIN sh2 = 1 .. Len(sh) + 1
         /\ Len(sh) \in Nat
<1> DEFINE n == Len(st)
           m == Len(sh)
           isDir == "dir" \in vol.entry[s].attr
           f == vol.entry[s].first
<1>1. /\ n \in Nat \ {0} /\ m \in Nat /\ DOMAIN st = 1 .. n /\ DOMAIN sh = 1 .. m
      /\ DOMAIN sh2 = 1 .. m + 1 /\ DOMAIN st2 = 1 .. (IF isDir THEN n + 1 ELSE n)
      /\ DOMAIN st2 = 1 .. Len(st2)
  BY DEF Enters
<1>2. /\ \A k \in 1 .. m : sh2[k] = sh[k]
      /\ sh2[m + 1][1] = s
  BY DEF Enters
<1>3. /\ \A i \in 1 .. n - 1 : st2[i] = st[i]
      /\ st2[n].cluster = st[n].cluster
      /\ isDir => st2[n + 1].cluster = f
  BY DEF Enters
<1> HIDE DEF n, m, isDir, f
<1>4. Printed(sh2) = Printed(sh) \cup {s}
  <2>1. 1 .. m + 1 = (1 .. m) \cup {m + 1}
    BY <1>1
  <2>2. Printed(sh2) = {sh2[k][1] : k \in 1 .. m} \cup {sh2[m + 1][1]}
    BY <1>1, <2>1 DEF Printed
  <2>3. {sh2[k][1] : k \in 1 .. m} = {sh[k][1] : k \in 1 .. m}
    BY <1>2
  <2>4. Printed(sh) = {sh[k][1] : k \in 1 .. m}
    BY <1>1 DEF Printed
  <2> QED BY <1>2, <2>2, <2>3, <2>4
<1>5. \A i \in 1 .. n : st2[i].cluster = st[i].cluster
  <2>1. \A i \in 1 .. n : i = n \/ i \in 1 .. n - 1
    BY <1>1
  <2> QED BY <1>3, <2>1
<1>6. On(st2) = On(st) \cup (IF isDir THEN {f} ELSE {})
  <2>1. {st2[i].cluster : i \in 1 .. n} = {st[i].cluster : i \in 1 .. n}
    BY <1>5
  <2>2. On(st) = {st[i].cluster : i \in 1 .. n}
    BY <1>1 DEF On
  <2>3. CASE isDir
    <3>1. DOMAIN st2 = (1 .. n) \cup {n + 1}
      BY <1>1, <2>3
    <3>2. On(st2) = {st2[i].cluster : i \in 1 .. n} \cup {st2[n + 1].cluster}
      BY <3>1 DEF On
    <3> QED BY <1>3, <2>1, <2>2, <2>3, <3>2
  <2>4. CASE ~ isDir
    <3>1. On(st2) = {st2[i].cluster : i \in 1 .. n}
      BY <1>1, <2>4 DEF On
    <3> QED BY <2>1, <2>2, <2>4, <3>1
  <2> QED BY <2>3, <2>4
<1> QED BY <1>1, <1>4, <1>6 DEF n, m, isDir, f

LEMMA TurnsFacts ==
  ASSUME vol \in Volumes, NEW st \in Seq(Frame), NEW st2 \in Seq(Frame), Turns(st, st2)
  PROVE  LET c == st[Len(st)].cluster
             next == readCurrentFAT(c)
         IN  /\ DOMAIN st = 1 .. Len(st) /\ Len(st) \in Nat \ {0} /\ DOMAIN st2 = 1 .. Len(st2)
             /\ c \in Place /\ c \in On(st)
             /\ next # EndOfChain => c \in Clusters /\ vol.fat[c] = next /\ next \in Place
             /\ c \in Clusters => next = vol.fat[c]
             /\ next \notin Place => next = EndOfChain
             /\ On(st) \subseteq On(st2) \cup {c}
             /\ On(st2) \subseteq On(st) \cup ({next} \cap Place)
             /\ next \in Clusters => next \in On(st2)
<1> DEFINE n == Len(st)
           c == st[n].cluster
           next == readCurrentFAT(c)
<1>1. /\ n \in Nat \ {0} /\ DOMAIN st = 1 .. n /\ DOMAIN st2 = 1 .. Len(st2)
      /\ Len(st2) = IF next = EndOfChain THEN n - 1 ELSE n
      /\ \A i \in 1 .. n - 1 : st2[i] = st[i]
      /\ next # EndOfChain => st2[n].cluster = next
  BY DEF Turns
<1>2. st[n] \in Frame /\ c \in Place
  <2>1. st[n] \in Frame
    <3> HIDE DEF n, c, next
    <3>1. n \in 1 .. n
      BY <1>1
    <3>2. n = Len(st)
      BY DEF n
    <3> QED BY <3>1, <3>2, ElementOfSeq
  <2> QED BY <2>1 DEF Frame
<1>3. /\ next # EndOfChain => c \in Clusters /\ vol.fat[c] = next /\ next \in Place
      /\ c \in Clusters => next = vol.fat[c]
      /\ next \notin Place => next = EndOfChain
  BY VolumeFacts DEF readCurrentFAT
<1>4. next = EndOfChain => next \notin Clusters
  BY VolumeFacts DEF Place
<1> HIDE DEF next, n
<1>5. \A i \in 1 .. n : i = n \/ i \in 1 .. n - 1
  BY <1>1
<1>6. c \in On(st)
  BY <1>1 DEF On
<1>7. On(st) \subseteq On(st2) \cup {c}
  <2>1. \A i \in 1 .. n - 1 : i \in 1 .. Len(st2) /\ st2[i].cluster = st[i].cluster
    BY <1>1
  <2> QED BY <1>1, <1>5, <2>1 DEF On
<1>8. On(st2) \subseteq On(st) \cup ({next} \cap Place)
  <2>1. SUFFICES ASSUME NEW i \in 1 .. Len(st2)
                 PROVE  st2[i].cluster \in On(st) \cup ({next} \cap Place)
    BY <1>1 DEF On
  <2>2. CASE i = n
    <3>1. next # EndOfChain
      BY <1>1, <2>1, <2>2
    <3> QED BY <1>1, <1>3, <2>2, <3>1
  <2>3. CASE i # n
    <3>1. i \in 1 .. n - 1 /\ i \in 1 .. n
      BY <1>1, <2>1, <2>3
    <3> QED BY <1>1, <3>1 DEF On
  <2> QED BY <2>2, <2>3
<1>9. next \in Clusters => next \in On(st2)
  <2>1. next \in Clusters => n \in 1 .. Len(st2)
    BY <1>1, <1>4
  <2> QED BY <1>1, <1>4, <2>1 DEF On
<1> QED BY <1>1, <1>2, <1>3, <1>6, <1>7, <1>8, <1>9 DEF n, next

-----------------------------------------------------------------------------
(* Nothing is left out: with the clusters of dn list is through.           *)

Covers(dn, st, sh) ==
  /\ dn \subseteq DirClusters
  /\ RootClus \in dn \cup On(st)
  /\ \A c \in dn : /\ Seen(c) \subseteq Printed(sh)
                   /\ vol.fat[c] \in Clusters => vol.fat[c] \in dn \cup On(st)
  /\ First(Dirs(Printed(sh))) \subseteq dn \cup On(st) \cup {0}
  /\ \A i \in DOMAIN st : \A y \in VisibleFrom(st[i].cluster, 0) :
       y < st[i].next => SlotAt(st[i].cluster, y \div eps, y % eps) \in Printed(sh)

\* And what is printed or on the stack is of the tree.
InTree(st, sh) ==
  /\ On(st) \subseteq DirClusters \cup {0}
  /\ \A i \in DOMAIN st : st[i].depth = i - 1
  /\ Printed(sh) \subseteq AllSeen

LEMMA EntersInTree ==
  ASSUME vol \in Volumes, NEW st \in Seq(Frame), NEW st2 \in Seq(Frame),
         NEW sh \in Seq(Prints), NEW sh2 \in Seq(Prints), NEW s, NEW q,
         Enters(st, sh, st2, sh2, s, q), InTree(st, sh)
  PROVE  InTree(st2, sh2) /\ s \in AllSeen /\ s \in DOMAIN vol.entry
<1> DEFINE n == Len(st)
           c == st[n].cluster
           f == vol.entry[s].first
           isDir == "dir" \in vol.entry[s].attr
<1>1. c \in DirClusters /\ s \in Seen(c) /\ s \in DOMAIN vol.entry
  BY DEF Enters, Seen
<1>2. s \in AllSeen
  BY <1>1 DEF AllSeen
<1>3. f \in Place
  BY <1>1, VolumeFacts
<1>4. isDir => f \in DirClusters \cup {0}
  <2>1. isDir => f \in Below(DirClusters)
    BY <1>2 DEF Below, AllSeen, First, Dirs
  <2> QED BY <1>3, <2>1, TreeFacts DEF Entered, Place
<1>5. On(st2) \subseteq DirClusters \cup {0} /\ Printed(sh2) \subseteq AllSeen
  BY <1>2, <1>4, EntersFacts DEF InTree
<1>6. n \in Nat \ {0} /\ DOMAIN st2 = 1 .. Len(st2) /\ DOMAIN st = 1 .. n
  BY EntersFacts
<1>7. /\ Len(st2) = IF isDir THEN n + 1 ELSE n
      /\ \A i \in 1 .. n - 1 : st2[i] = st[i]
      /\ st2[n].depth = st[n].depth /\ (isDir => st2[n + 1].depth = st[n].depth + 1)
  BY DEF Enters
<1> HIDE DEF n, isDir
<1>8. ASSUME NEW i \in DOMAIN st2
      PROVE  st2[i].depth = i - 1
  <2>1. st[n].depth = n - 1 /\ \A k \in 1 .. n - 1 : st[k].depth = k - 1
    BY <1>6 DEF InTree
  <2>2. CASE i \in 1 .. n - 1
    BY <1>7, <2>1, <2>2
  <2>3. CASE i = n
    BY <1>7, <2>1, <2>3
  <2>4. CASE i = n + 1
    <3>1. isDir
      BY <1>6, <1>7, <2>4
    <3> QED BY <1>6, <1>7, <2>1, <2>4, <3>1
  <2> QED BY <1>6, <1>7, <2>2, <2>3, <2>4
<1> QED BY <1>1, <1>2, <1>5, <1>8 DEF InTree

LEMMA EntersCovers ==
  ASSUME vol \in Volumes, NEW st \in Seq(Frame), NEW st2 \in Seq(Frame),
         NEW sh \in Seq(Prints), NEW sh2 \in Seq(Prints), NEW s, NEW q,
         Enters(st, sh, st2, sh2, s, q), InTree(st, sh), NEW dn, Covers(dn, st, sh)
  PROVE  Covers(dn, st2, sh2)
<1> DEFINE n == Len(st)
           c == st[n].cluster
           f == vol.entry[s].first
           isDir == "dir" \in vol.entry[s].attr
<1>1. /\ Printed(sh2) = Printed(sh) \cup {s}
      /\ On(st2) = On(st) \cup (IF isDir THEN {f} ELSE {})
      /\ n \in Nat \ {0} /\ DOMAIN st = 1 .. n /\ DOMAIN st2 = 1 .. Len(st2)
  BY EntersFacts
<1>2. dn \subseteq DirClusters /\ RootClus \in dn \cup On(st2)
  BY <1>1 DEF Covers
<1>3. \A d \in dn : /\ Seen(d) \subseteq Printed(sh2)
                    /\ vol.fat[d] \in Clusters => vol.fat[d] \in dn \cup On(st2)
  BY <1>1 DEF Covers
<1>4. First(Dirs(Printed(sh2))) \subseteq dn \cup On(st2) \cup {0}
  BY <1>1 DEF Covers, First, Dirs
<1>5. /\ Len(st2) = IF isDir THEN n + 1 ELSE n
      /\ \A i \in 1 .. n - 1 : st2[i] = st[i]
      /\ st2[n].cluster = c /\ st2[n].next = q + 1 /\ (isDir => st2[n + 1].next = 0)
      /\ q \in Nat /\ \A y \in VisibleFrom(c, st[n].next) : q <= y
      /\ SlotAt(c, q \div eps, q % eps) = s
  BY DEF Enters
<1>6. /\ \A y \in VisibleFrom(c, 0) : y < st[n].next => SlotAt(c, y \div eps, y % eps) \in Printed(sh)
      /\ \A i \in 1 .. n - 1 : \A y \in VisibleFrom(st[i].cluster, 0) :
           y < st[i].next => SlotAt(st[i].cluster, y \div eps, y % eps) \in Printed(sh)
  <2>1. n \in DOMAIN st /\ \A i \in 1 .. n - 1 : i \in DOMAIN st
    BY <1>1
  <2> QED BY <2>1 DEF Covers
<1>7. st[n].next \in Nat /\ spc * eps \in Nat
  <2>1. st[n] \in Frame
    BY <1>1, ElementOfSeq
  <2>2. spc * eps \in Nat
    BY VolumeFacts
  <2> QED BY <2>1, <2>2 DEF Frame
<1>8. \A p \in Nat : \A y \in VisibleFrom(c, 0) : y \in Nat /\ (y >= p => y \in VisibleFrom(c, p))
  BY <1>7 DEF VisibleFrom
<1> HIDE DEF n, c, isDir
<1>9. ASSUME NEW i \in DOMAIN st2, NEW y \in VisibleFrom(st2[i].cluster, 0), y < st2[i].next
      PROVE  SlotAt(st2[i].cluster, y \div eps, y % eps) \in Printed(sh2)
  <2>1. CASE i \in 1 .. n - 1
    BY <1>1, <1>5, <1>6, <1>9, <2>1
  <2>2. CASE i = n
    <3>1. y \in VisibleFrom(c, 0) /\ y \in Nat /\ y < q + 1
      BY <1>5, <1>8, <1>9, <2>2
    <3>2. CASE y < st[n].next
      BY <1>1, <1>5, <1>6, <2>2, <3>1, <3>2
    <3>3. CASE y >= st[n].next
      <4>1. q <= y
        BY <1>5, <1>7, <1>8, <3>1, <3>3
      <4>2. y = q
        BY <1>5, <3>1, <4>1
      <4> QED BY <1>1, <1>5, <2>2, <4>2
    <3> QED BY <1>7, <3>1, <3>2, <3>3
  <2>3. CASE i = n + 1
    <3>1. isDir /\ y < 0
      BY <1>1, <1>5, <1>9, <2>3
    <3>2. y \in Nat
      BY <1>7 DEF VisibleFrom
    <3> QED BY <3>1, <3>2
  <2> QED BY <1>1, <1>5, <2>1, <2>2, <2>3
<1> QED BY <1>2, <1>3, <1>4, <1>9 DEF Covers

LEMMA TurnsInTree ==
  ASSUME vol \in Volumes, NEW st \in Seq(Frame), NEW st2 \in Seq(Frame), Turns(st, st2),
         NEW sh, InTree(st, sh)
  PROVE  InTree(st2, sh)
<1> DEFINE n == Len(st)
           c == st[n].cluster
           next == readCurrentFAT(c)
<1>1. /\ n \in Nat \ {0} /\ DOMAIN st = 1 .. n /\ DOMAIN st2 = 1 .. Len(st2)
      /\ c \in On(st) /\ c \in Place
      /\ next # EndOfChain => c \in Clusters /\ vol.fat[c] = next /\ next \in Place
      /\ next \notin Place => next = EndOfChain
      /\ On(st2) \subseteq On(st) \cup ({next} \cap Place)
  BY TurnsFacts
<1>2. /\ Len(st2) = IF next = EndOfChain THEN n - 1 ELSE n
      /\ \A i \in 1 .. n - 1 : st2[i] = st[i]
      /\ next # EndOfChain => st2[n].depth = st[n].depth
  BY DEF Turns
<1> HIDE DEF next, n
<1>3. next \in Clusters => next \in DirClusters
  <2>1. next \in Clusters => c \in Clusters /\ vol.fat[c] = next
    <3>1. EndOfChain \notin Clusters
      BY VolumeFacts DEF Place
    <3> QED BY <1>1, <3>1
  <2>2. c \in Clusters => c \in DirClusters
    <3>1. 0 \notin Clusters
      BY VolumeFacts DEF Clusters, RootClus
    <3> QED BY <1>1, <3>1 DEF InTree
  <2> QED BY <2>1, <2>2, TreeFacts DEF Linked
<1>4. On(st2) \subseteq DirClusters \cup {0}
  BY <1>1, <1>3 DEF InTree, Place
<1>5. ASSUME NEW i \in DOMAIN st2
      PROVE  st2[i].depth = i - 1
  <2>1. st[n].depth = n - 1 /\ \A k \in 1 .. n - 1 : st[k].depth = k - 1
    BY <1>1 DEF InTree
  <2>2. CASE i \in 1 .. n - 1
    BY <1>2, <2>1, <2>2
  <2>3. CASE i = n
    <3>1. next # EndOfChain
      BY <1>1, <1>2, <2>3
    <3> QED BY <1>2, <2>1, <2>3, <3>1
  <2> QED BY <1>1, <1>2, <2>2, <2>3
<1> QED BY <1>4, <1>5 DEF InTree

LEMMA TurnsCovers ==
  ASSUME vol \in Volumes, NEW st \in Seq(Frame), NEW st2 \in Seq(Frame), Turns(st, st2),
         NEW sh, InTree(st, sh), NEW dn, Covers(dn, st, sh)
  PROVE  Covers(dn \cup ({st[Len(st)].cluster} \cap Clusters), st2, sh)
<1> DEFINE n == Len(st)
           c == st[n].cluster
           next == readCurrentFAT(c)
           dn2 == dn \cup ({c} \cap Clusters)
<1>1. /\ n \in Nat \ {0} /\ DOMAIN st = 1 .. n /\ DOMAIN st2 = 1 .. Len(st2)
      /\ c \in On(st) /\ c \in Place
      /\ c \in Clusters => next = vol.fat[c]
      /\ next \notin Place => next = EndOfChain
      /\ On(st) \subseteq On(st2) \cup {c}
      /\ next \in Clusters => next \in On(st2)
  BY TurnsFacts
<1>2. /\ Len(st2) = IF next = EndOfChain THEN n - 1 ELSE n
      /\ \A i \in 1 .. n - 1 : st2[i] = st[i]
      /\ next # EndOfChain => st2[n].next = 0
      /\ VisibleFrom(c, st[n].next) = {}
  BY DEF Turns
<1>3. 0 \notin Clusters /\ RootClus \in Clusters
  BY VolumeFacts DEF Clusters, RootClus
<1> HIDE DEF next, n, c
<1>4. c = 0 \/ c \in Clusters
  BY <1>1 DEF Place
<1>5. dn \cup On(st) \subseteq dn2 \cup On(st2) \cup {0}
  BY <1>1, <1>4
<1>6. dn2 \subseteq DirClusters
  BY <1>1, <1>3 DEF Covers, InTree
<1>7. RootClus \in dn2 \cup On(st2)
  BY <1>3, <1>5 DEF Covers
<1>8. First(Dirs(Printed(sh))) \subseteq dn2 \cup On(st2) \cup {0}
  BY <1>5 DEF Covers
<1>9. \A i \in 1 .. n : \A y \in VisibleFrom(st[i].cluster, 0) :
        y < st[i].next => SlotAt(st[i].cluster, y \div eps, y % eps) \in Printed(sh)
  BY <1>1 DEF Covers
<1>10. spc * eps \in Nat /\ st[n].next \in Nat
  <2>1. st[n] \in Frame
    BY <1>1, ElementOfSeq
  <2>2. spc * eps \in Nat
    BY VolumeFacts
  <2> QED BY <2>1, <2>2 DEF Frame
<1>11. Seen(c) \subseteq Printed(sh)
  <2>1. SUFFICES ASSUME NEW s \in Seen(c) PROVE s \in Printed(sh)
    OBVIOUS
  <2> DEFINE y == s - Base(c)
  <2>2. y \in VisibleFrom(c, 0) /\ y \in Nat /\ SlotAt(c, y \div eps, y % eps) = s
    BY <2>1, SeenVisible
  <2> HIDE DEF y
  <2>3. y < st[n].next
    <3>1. y >= st[n].next => y \in VisibleFrom(c, st[n].next)
      BY <1>10, <2>2 DEF VisibleFrom
    <3> QED BY <1>2, <1>10, <2>2, <3>1
  <2>4. n \in 1 .. n /\ c = st[n].cluster
    BY <1>1 DEF c
  <2> QED BY <1>9, <2>2, <2>3, <2>4
<1>12. ASSUME NEW d \in dn2
       PROVE  Seen(d) \subseteq Printed(sh) /\ (vol.fat[d] \in Clusters => vol.fat[d] \in dn2 \cup On(st2))
  <2>1. CASE d \in dn
    BY <1>3, <1>5, <2>1 DEF Covers
  <2>2. CASE d = c /\ c \in Clusters
    BY <1>1, <1>11, <2>2
  <2> QED BY <2>1, <2>2
<1>13. ASSUME NEW i \in DOMAIN st2, NEW y \in VisibleFrom(st2[i].cluster, 0), y < st2[i].next
       PROVE  SlotAt(st2[i].cluster, y \div eps, y % eps) \in Printed(sh)
  <2>1. CASE i \in 1 .. n - 1
    <3>1. i \in 1 .. n /\ st2[i] = st[i]
      BY <1>1, <1>2, <2>1
    <3> QED BY <1>9, <1>13, <3>1
  <2>2. CASE i = n
    <3>1. y < 0
      BY <1>1, <1>2, <1>13, <2>2
    <3>2. y \in Nat
      BY <1>10 DEF VisibleFrom
    <3> QED BY <3>1, <3>2
  <2> QED BY <1>1, <1>2, <2>1, <2>2
<1>14. Covers(dn2, st2, sh)
  <2> HIDE DEF dn2
  <2> QED BY <1>6, <1>7, <1>8, <1>12, <1>13 DEF Covers
<1> QED BY <1>14 DEF c, n

\* When the stack is empty everything is printed.
LEMMA CoversAll ==
  ASSUME vol \in Volumes, NEW dn, NEW sh, NEW st, st = <<>>, Covers(dn, st, sh), InTree(st, sh)
  PROVE  Printed(sh) = AllSeen
<1>1. On(st) = {} /\ 0 \notin Clusters
  BY VolumeFacts DEF On, Clusters, RootClus
<1>2. RootClus \in dn /\ Linked(dn)
  BY <1>1 DEF Covers, Linked
<1>3. Entered(dn)
  <2>1. UNION {Seen(c) : c \in dn} \subseteq Printed(sh)
    BY DEF Covers
  <2>2. Below(dn) \subseteq First(Dirs(Printed(sh)))
    BY <2>1 DEF Below, First, Dirs
  <2> QED BY <1>1, <2>2 DEF Covers, Entered
<1>4. DirClusters \subseteq dn
  BY <1>2, <1>3, TreeFacts
<1>5. AllSeen \subseteq Printed(sh)
  BY <1>4 DEF AllSeen, Covers
<1> QED BY <1>5 DEF InTree

-----------------------------------------------------------------------------
(* Nothing comes twice in a tree.                                          *)

Once(dn, st, sh) ==
  /\ dn \cap On(st) = {}
  /\ \A i, k \in DOMAIN st : st[i].cluster = st[k].cluster /\ st[i].cluster # 0 => i = k
  /\ \A c \in (dn \cup On(st)) \ {RootClus, 0} :
       (\E b \in dn : vol.fat[b] = c) \/ c \in First(Dirs(Printed(sh)))
  /\ \A s \in Printed(sh) : \A c \in DirClusters : s \in EntrySlots(c) =>
       c \in dn \/ \E i \in DOMAIN st : st[i].cluster = c /\ s - Base(c) < st[i].next
  /\ \A k, l \in DOMAIN sh : sh[k][1] = sh[l][1] => k = l

\* What leads to a cluster of a directory does so alone.
LEMMA OneWay ==
  ASSUME vol \in Volumes, Tree
  PROVE  /\ \A s \in Dirs(AllSeen) : vol.entry[s].first # RootClus
         /\ \A b \in DirClusters : vol.fat[b] # RootClus
         /\ \A s, r \in Dirs(AllSeen) :
              vol.entry[s].first \in DirClusters /\ vol.entry[s].first = vol.entry[r].first => s = r
         /\ \A a, b \in DirClusters : vol.fat[a] \in DirClusters /\ vol.fat[a] = vol.fat[b] => a = b
         /\ \A b \in DirClusters, s \in Dirs(AllSeen) :
              vol.fat[b] \in DirClusters => vol.fat[b] # vol.entry[s].first
<1>1. \A s \in Dirs(AllSeen) :
        <<"entry", s>> \in Ways /\ LeadsTo(<<"entry", s>>) = vol.entry[s].first
  BY DEF Ways, LeadsTo
<1>2. \A b \in DirClusters : <<"link", b>> \in Ways /\ LeadsTo(<<"link", b>>) = vol.fat[b]
  BY DEF Ways, LeadsTo
<1>3. \A x \in Ways :
        /\ LeadsTo(x) # RootClus
        /\ LeadsTo(x) \in DirClusters => \A y \in Ways : LeadsTo(x) = LeadsTo(y) => x = y
  BY DEF Tree
<1>5. \A s \in Dirs(AllSeen) : vol.entry[s].first # RootClus
  BY <1>1, <1>3
<1>6. \A b \in DirClusters : vol.fat[b] # RootClus
  BY <1>2, <1>3
<1>7. ASSUME NEW s \in Dirs(AllSeen), NEW r \in Dirs(AllSeen),
             vol.entry[s].first \in DirClusters, vol.entry[s].first = vol.entry[r].first
      PROVE  s = r
  <2>1. <<"entry", s>> = <<"entry", r>>
    BY <1>1, <1>3, <1>7
  <2> QED BY <2>1
<1>8. ASSUME NEW a \in DirClusters, NEW b \in DirClusters,
             vol.fat[a] \in DirClusters, vol.fat[a] = vol.fat[b]
      PROVE  a = b
  <2>1. <<"link", a>> = <<"link", b>>
    BY <1>2, <1>3, <1>8
  <2> QED BY <2>1
<1>9. ASSUME NEW b \in DirClusters, NEW s \in Dirs(AllSeen), vol.fat[b] \in DirClusters,
             vol.fat[b] = vol.entry[s].first
      PROVE  FALSE
  <2>1. <<"link", b>> = <<"entry", s>>
    BY <1>1, <1>2, <1>3, <1>9
  <2> QED BY <2>1
<1> QED BY <1>5, <1>6, <1>7, <1>8, <1>9

LEMMA EntersOnce ==
  ASSUME vol \in Volumes, NEW st \in Seq(Frame), NEW st2 \in Seq(Frame),
         NEW sh \in Seq(Prints), NEW sh2 \in Seq(Prints), NEW s, NEW q,
         Enters(st, sh, st2, sh2, s, q), InTree(st, sh), NEW dn, Covers(dn, st, sh),
         Tree, spc = 1, Once(dn, st, sh)
  PROVE  Once(dn, st2, sh2)
<1> DEFINE n == Len(st)
           c == st[n].cluster
           f == vol.entry[s].first
           isDir == "dir" \in vol.entry[s].attr
<1>1. /\ Printed(sh2) = Printed(sh) \cup {s}
      /\ On(st2) = On(st) \cup (IF isDir THEN {f} ELSE {})
      /\ n \in Nat \ {0} /\ DOMAIN st = 1 .. n /\ DOMAIN st2 = 1 .. Len(st2)
      /\ DOMAIN sh = 1 .. Len(sh) /\ DOMAIN sh2 = 1 .. Len(sh) + 1 /\ Len(sh) \in Nat
  BY EntersFacts
<1>2. /\ c \in DirClusters /\ s \in Seen(c) /\ s - Base(c) = q /\ q \in Nat
      /\ q \in VisibleFrom(c, st[n].next)
      /\ Len(st2) = IF isDir THEN n + 1 ELSE n
      /\ \A i \in 1 .. n - 1 : st2[i] = st[i]
      /\ st2[n].cluster = c /\ st2[n].next = q + 1 /\ (isDir => st2[n + 1].cluster = f)
      /\ \A k \in 1 .. Len(sh) : sh2[k] = sh[k] /\ sh2[Len(sh) + 1][1] = s
  BY DEF Enters
<1>3. s \in AllSeen /\ InTree(st2, sh2)
  BY EntersInTree
<1>4. s \in EntrySlots(c) /\ c \in Clusters /\ c # 0 /\ 0 \notin DirClusters
  BY <1>2, TreeFacts DEF Seen, Clusters, RootClus
<1>5. st[n].next <= q /\ st[n].next \in Nat
  <2>1. st[n] \in Frame
    BY <1>1, ElementOfSeq
  <2>2. spc * eps \in Nat
    BY VolumeFacts
  <2>3. st[n].next \in Nat
    BY <2>1, <2>2 DEF Frame
  <2> QED BY <1>2, <2>2, <2>3 DEF VisibleFrom
<1> HIDE DEF n, c, f, isDir
<1>6. n \in DOMAIN st /\ st[n].cluster = c /\ c \in On(st)
  <2>1. n \in DOMAIN st /\ st[n].cluster = c
    BY <1>1 DEF c
  <2> QED BY <2>1 DEF On
<1>7. s \notin Printed(sh)
  <2>1. SUFFICES ASSUME s \in Printed(sh) PROVE FALSE
    OBVIOUS
  <2>2. c \notin dn
    BY <1>6 DEF Once
  <2>3. PICK i \in DOMAIN st : st[i].cluster = c /\ s - Base(c) < st[i].next
    BY <1>2, <1>4, <2>1, <2>2 DEF Once
  <2>4. i = n
    BY <1>4, <1>6, <2>3 DEF Once
  <2> QED BY <1>2, <1>5, <2>3, <2>4
<1>8. ASSUME isDir, f # 0
      PROVE  f \in DirClusters /\ f # RootClus /\ f \notin dn \cup On(st)
  <2>1. f \in First(Dirs(AllSeen)) /\ s \in Dirs(AllSeen)
    BY <1>3, <1>8 DEF First, Dirs, f, isDir
  <2>2. f \in DirClusters
    BY <1>1, <1>3, <1>8 DEF InTree
  <2>3. f # RootClus
    BY <2>1, OneWay DEF f
  <2>4. ASSUME f \in dn \cup On(st) PROVE FALSE
    <3>1. (\E b \in dn : vol.fat[b] = f) \/ f \in First(Dirs(Printed(sh)))
      BY <1>8, <2>3, <2>4 DEF Once
    <3>2. ASSUME NEW b \in dn, vol.fat[b] = f PROVE FALSE
      BY <2>1, <2>2, <3>2, OneWay DEF f, Covers
    <3>3. ASSUME f \in First(Dirs(Printed(sh))) PROVE FALSE
      <4>1. PICK r \in Dirs(Printed(sh)) : vol.entry[r].first = f
        BY <3>3 DEF First
      <4>2. r \in Dirs(AllSeen) /\ r \in Printed(sh)
        BY <4>1 DEF InTree, Dirs
      <4>3. r = s
        BY <2>1, <2>2, <4>1, <4>2, OneWay DEF f
      <4> QED BY <1>7, <4>2, <4>3
    <3> QED BY <3>1, <3>2, <3>3
  <2> QED BY <2>2, <2>3, <2>4
<1>9. 0 \notin dn
  BY <1>4 DEF Covers
<1>10. dn \cap On(st2) = {}
  BY <1>1, <1>8, <1>9 DEF Once
<1>11. \A i \in 1 .. n : st2[i].cluster = st[i].cluster
  <2>1. \A i \in 1 .. n : i = n \/ i \in 1 .. n - 1
    BY <1>1
  <2> QED BY <1>2, <1>6, <2>1
<1>12. \A i \in 1 .. n : st[i].cluster \in On(st)
  BY <1>1 DEF On
<1>13. \A i \in DOMAIN st2 : i \in 1 .. n \/ (i = n + 1 /\ isDir /\ st2[i].cluster = f)
  BY <1>1, <1>2
<1>14. ASSUME NEW i \in DOMAIN st2, NEW k \in DOMAIN st2, st2[i].cluster = st2[k].cluster,
              st2[i].cluster # 0
       PROVE  i = k
  <2>1. CASE i \in 1 .. n /\ k \in 1 .. n
    BY <1>1, <1>11, <1>14, <2>1 DEF Once
  <2>2. CASE ~ (i \in 1 .. n) /\ ~ (k \in 1 .. n)
    BY <1>13, <2>2
  <2>3. CASE i \in 1 .. n /\ ~ (k \in 1 .. n)
    BY <1>8, <1>11, <1>12, <1>13, <1>14, <2>3
  <2>4. CASE ~ (i \in 1 .. n) /\ k \in 1 .. n
    BY <1>8, <1>11, <1>12, <1>13, <1>14, <2>4
  <2> QED BY <2>1, <2>2, <2>3, <2>4
<1>15. ASSUME NEW d \in (dn \cup On(st2)) \ {RootClus, 0}
       PROVE  (\E b \in dn : vol.fat[b] = d) \/ d \in First(Dirs(Printed(sh2)))
  <2>1. First(Dirs(Printed(sh))) \subseteq First(Dirs(Printed(sh2)))
    BY <1>1 DEF First, Dirs
  <2>2. CASE d \in dn \cup On(st)
    BY <1>15, <2>1, <2>2 DEF Once
  <2>3. CASE isDir /\ d = f
    <3>1. s \in Dirs(Printed(sh2))
      BY <1>1, <2>3 DEF Dirs, isDir
    <3> QED BY <2>3, <3>1 DEF First, f
  <2> QED BY <1>1, <2>2, <2>3
<1>16. ASSUME NEW r \in Printed(sh2), NEW d \in DirClusters, r \in EntrySlots(d), d \notin dn
       PROVE  \E i \in DOMAIN st2 : st2[i].cluster = d /\ r - Base(d) < st2[i].next
  <2>1. 1 .. n \subseteq DOMAIN st2 /\ n \in 1 .. n
    BY <1>1, <1>2
  <2>2. CASE r = s
    <3>1. d = c
      BY <1>4, <1>16, <2>2, SlotsApart, TreeFacts
    <3>2. q < q + 1
      BY <1>2
    <3> QED BY <1>2, <2>1, <2>2, <3>1, <3>2
  <2>3. CASE r \in Printed(sh)
    <3>1. PICK i \in DOMAIN st : st[i].cluster = d /\ r - Base(d) < st[i].next
      BY <1>16, <2>3 DEF Once
    <3>2. CASE i = n
      <4>1. r - Base(d) \in Int
        <5>1. d \in Clusters
          BY TreeFacts
        <5>2. Base(d) \in Nat /\ r \in Base(d) .. Base(d) + eps - 1
          BY <1>16, <5>1, BaseFacts
        <5> QED BY <5>2
      <4>2. r - Base(d) < q + 1
        BY <1>2, <1>5, <3>1, <3>2, <4>1
      <4> QED BY <1>2, <1>6, <2>1, <3>1, <3>2, <4>2
    <3>3. CASE i # n
      <4>1. i \in 1 .. n - 1
        BY <1>1, <3>1, <3>3
      <4> QED BY <1>1, <1>2, <2>1, <3>1, <4>1
    <3> QED BY <3>2, <3>3
  <2> QED BY <1>1, <2>2, <2>3
<1>17. ASSUME NEW k \in DOMAIN sh2, NEW l \in DOMAIN sh2, sh2[k][1] = sh2[l][1]
       PROVE  k = l
  <2> DEFINE m == Len(sh)
  <2>1. \A j \in DOMAIN sh2 : j = m + 1 \/ j \in DOMAIN sh
    BY <1>1
  <2>2. \A j \in DOMAIN sh : sh2[j][1] = sh[j][1] /\ sh[j][1] \in Printed(sh)
    BY <1>1, <1>2 DEF Printed
  <2>3. sh2[m + 1][1] = s
    <3>1. sh2[Len(sh2)] = sh2[m + 1] /\ Len(sh2) = m + 1
      BY DEF Enters
    <3> QED BY DEF Enters
  <2> HIDE DEF m
  <2>4. CASE k \in DOMAIN sh /\ l \in DOMAIN sh
    BY <1>17, <2>2, <2>4 DEF Once
  <2>5. CASE k = m + 1 /\ l \in DOMAIN sh
    BY <1>7, <1>17, <2>2, <2>3, <2>5
  <2>6. CASE k \in DOMAIN sh /\ l = m + 1
    BY <1>7, <1>17, <2>2, <2>3, <2>6
  <2> QED BY <2>1, <2>4, <2>5, <2>6
<1> QED BY <1>10, <1>14, <1>15, <1>16, <1>17 DEF Once

LEMMA TurnsOnce ==
  ASSUME vol \in Volumes, NEW st \in Seq(Frame), NEW st2 \in Seq(Frame), Turns(st, st2),
         NEW sh, InTree(st, sh), NEW dn, Covers(dn, st, sh), Tree, spc = 1, Once(dn, st, sh)
  PROVE  Once(dn \cup ({st[Len(st)].cluster} \cap Clusters), st2, sh)
<1> DEFINE n == Len(st)
           c == st[n].cluster
           next == readCurrentFAT(c)
           dn2 == dn \cup ({c} \cap Clusters)
<1>1. /\ n \in Nat \ {0} /\ DOMAIN st = 1 .. n /\ DOMAIN st2 = 1 .. Len(st2)
      /\ c \in On(st) /\ c \in Place
      /\ next # EndOfChain => c \in Clusters /\ vol.fat[c] = next /\ next \in Place
      /\ next \notin Place => next = EndOfChain
      /\ On(st) \subseteq On(st2) \cup {c}
      /\ On(st2) \subseteq On(st) \cup ({next} \cap Place)
  BY TurnsFacts
<1>2. /\ Len(st2) = IF next = EndOfChain THEN n - 1 ELSE n
      /\ \A i \in 1 .. n - 1 : st2[i] = st[i]
      /\ next # EndOfChain => st2[n].cluster = next
  BY DEF Turns
<1>3. 0 \notin Clusters /\ EndOfChain \notin Clusters /\ DirClusters \subseteq Clusters
  BY VolumeFacts, TreeFacts DEF Clusters, RootClus, Place
<1> HIDE DEF next, n, c
<1>4. c \in Clusters => c \in DirClusters /\ c \notin dn
  BY <1>1, <1>3 DEF InTree, Once
<1>5. dn2 \subseteq DirClusters
  BY <1>4 DEF Covers
<1>6. ASSUME next # EndOfChain, next # 0
      PROVE  next \in DirClusters /\ next # RootClus /\ next \notin dn \cup On(st)
  <2>1. c \in DirClusters /\ vol.fat[c] = next /\ next \in DirClusters
    BY <1>1, <1>4, <1>6, TreeFacts DEF Linked, Place
  <2>2. next # RootClus
    BY <2>1, OneWay
  <2>3. ASSUME next \in dn \cup On(st) PROVE FALSE
    <3>1. (\E b \in dn : vol.fat[b] = next) \/ next \in First(Dirs(Printed(sh)))
      BY <1>3, <2>1, <2>2, <2>3 DEF Once
    <3>2. ASSUME NEW b \in dn, vol.fat[b] = next PROVE FALSE
      <4>1. b = c
        BY <2>1, <3>2, OneWay DEF Covers
      <4> QED BY <1>1, <1>4, <1>6, <4>1
    <3>3. ASSUME next \in First(Dirs(Printed(sh))) PROVE FALSE
      <4>1. PICK r \in Dirs(AllSeen) : vol.entry[r].first = next
        BY <3>3 DEF First, Dirs, InTree
      <4> QED BY <2>1, <4>1, OneWay
    <3> QED BY <3>1, <3>2, <3>3
  <2> QED BY <2>1, <2>2, <2>3
<1>7. \A i \in 1 .. n - 1 : i \in DOMAIN st /\ st[i].cluster \in On(st) /\ st2[i] = st[i]
  BY <1>1, <1>2 DEF On
<1>8. n \in DOMAIN st /\ st[n].cluster = c
  BY <1>1 DEF c
<1>9. \A i \in DOMAIN st2 : i \in 1 .. n - 1 \/ (i = n /\ next # EndOfChain)
  BY <1>1, <1>2
<1>10. c \in Clusters => c \notin On(st2)
  <2>1. SUFFICES ASSUME c \in Clusters, NEW i \in DOMAIN st2, st2[i].cluster = c PROVE FALSE
    BY DEF On
  <2>2. CASE i \in 1 .. n - 1
    <3>1. st[i].cluster = c /\ i \in DOMAIN st /\ i # n
      BY <1>1, <1>7, <2>1, <2>2
    <3> QED BY <1>3, <1>8, <2>1, <3>1 DEF Once
  <2>3. CASE i = n /\ next # EndOfChain
    <3>1. c = next /\ next # 0
      BY <1>2, <1>3, <2>1, <2>3
    <3> QED BY <1>1, <1>6, <2>3, <3>1
  <2> QED BY <1>9, <2>2, <2>3
<1>11. dn2 \cap On(st2) = {}
  <2>1. next \in Clusters => next \notin dn
    BY <1>3, <1>6
  <2>2. 0 \notin dn2
    BY <1>3, <1>5
  <2> QED BY <1>1, <1>10, <2>1, <2>2 DEF Once, Place
<1>12. ASSUME NEW i \in DOMAIN st2, NEW k \in DOMAIN st2, st2[i].cluster = st2[k].cluster,
              st2[i].cluster # 0
       PROVE  i = k
  <2>1. CASE i \in 1 .. n - 1 /\ k \in 1 .. n - 1
    BY <1>7, <1>12, <2>1 DEF Once
  <2>2. CASE i = n /\ k = n
    BY <2>2
  <2>3. CASE i \in 1 .. n - 1 /\ k = n /\ next # EndOfChain
    BY <1>2, <1>6, <1>7, <1>12, <2>3
  <2>4. CASE i = n /\ k \in 1 .. n - 1 /\ next # EndOfChain
    BY <1>2, <1>6, <1>7, <1>12, <2>4
  <2> QED BY <1>9, <2>1, <2>2, <2>3, <2>4
<1>13. ASSUME NEW d \in (dn2 \cup On(st2)) \ {RootClus, 0}
       PROVE  (\E b \in dn2 : vol.fat[b] = d) \/ d \in First(Dirs(Printed(sh)))
  <2>1. CASE d \in dn \cup On(st)
    BY <1>13, <2>1 DEF Once
  <2>2. CASE d = next /\ next \in Clusters
    <3>1. next # EndOfChain
      BY <1>3, <2>2
    <3> QED BY <1>1, <2>2, <3>1
  <2> QED BY <1>1, <1>13, <2>1, <2>2 DEF Place
<1>14. ASSUME NEW r \in Printed(sh), NEW d \in DirClusters, r \in EntrySlots(d), d \notin dn2
       PROVE  \E i \in DOMAIN st2 : st2[i].cluster = d /\ r - Base(d) < st2[i].next
  <2>1. PICK i \in DOMAIN st : st[i].cluster = d /\ r - Base(d) < st[i].next
    BY <1>14 DEF Once
  <2>2. i # n
    BY <1>3, <1>8, <1>14, <2>1
  <2>3. i \in 1 .. n - 1 /\ i \in DOMAIN st2
    BY <1>1, <1>2, <2>1, <2>2
  <2> QED BY <1>7, <2>1, <2>3
<1>15. Once(dn2, st2, sh)
  <2>1. \A k, l \in DOMAIN sh : sh[k][1] = sh[l][1] => k = l
    BY DEF Once
  <2> HIDE DEF dn2
  <2> QED BY <1>11, <1>12, <1>13, <1>14, <2>1 DEF Once
<1> QED BY <1>15 DEF c, n

-----------------------------------------------------------------------------
(* Every entry comes after and below its directory.                        *)

SlotsOf(C) == UNION {EntrySlots(c) : c \in Chains(C)}

IsParent(sh, i, k) ==
  sh[i][2] = sh[k][2] - 1 /\ \A m \in i + 1 .. k - 1 : sh[m][2] > sh[i][2]

\* The entry whose directory frame f lists.
Opens(sh, k, f) == sh[k][2] = f - 2 /\ \A m \in k + 1 .. Len(sh) : sh[m][2] > f - 2

Nested(st, sh) ==
  /\ \A k \in DOMAIN sh :
       IF sh[k][2] = 0 THEN sh[k][1] \in SlotsOf({RootClus})
       ELSE \E i \in 1 .. k - 1 : /\ IsParent(sh, i, k)
                                  /\ sh[k][1] \in SlotsOf({vol.entry[sh[i][1]].first})
  /\ Len(st) > 0 => st[1].cluster \in Chains({RootClus}) \cup {0}
  /\ \A f \in 2 .. Len(st) : \E k \in DOMAIN sh :
       /\ Opens(sh, k, f)
       /\ st[f].cluster \in Chains({vol.entry[sh[k][1]].first}) \cup {0}

LEMMA EntersNested ==
  ASSUME vol \in Volumes, NEW st \in Seq(Frame), NEW st2 \in Seq(Frame),
         NEW sh \in Seq(Prints), NEW sh2 \in Seq(Prints), NEW s, NEW q,
         Enters(st, sh, st2, sh2, s, q), InTree(st, sh), Nested(st, sh)
  PROVE  Nested(st2, sh2)
<1> DEFINE n == Len(st)
           m == Len(sh)
           c == st[n].cluster
           f == vol.entry[s].first
           isDir == "dir" \in vol.entry[s].attr
<1>1. /\ n \in Nat \ {0} /\ DOMAIN st = 1 .. n
      /\ DOMAIN sh = 1 .. m /\ DOMAIN sh2 = 1 .. m + 1 /\ m \in Nat
  BY EntersFacts
<1>2. /\ c \in DirClusters /\ s \in EntrySlots(c) /\ s \in DOMAIN vol.entry
      /\ Len(st2) = IF isDir THEN n + 1 ELSE n
      /\ \A i \in 1 .. n - 1 : st2[i] = st[i]
      /\ st2[n].cluster = c /\ (isDir => st2[n + 1].cluster = f)
      /\ \A k \in 1 .. m : sh2[k] = sh[k]
      /\ sh2[m + 1][1] = s /\ sh2[m + 1][2] = st[n].depth /\ Len(sh2) = m + 1
  BY DEF Enters, Seen
<1>3. st[n].depth = n - 1 /\ c # 0 /\ f \in Place
  <2>1. n \in DOMAIN st
    BY <1>1
  <2>2. c # 0
    BY <1>2, TreeFacts DEF Clusters, RootClus
  <2> QED BY <1>2, <2>1, <2>2, VolumeFacts DEF InTree
<1>4. \A C : c \in Chains(C) => s \in SlotsOf(C)
  BY <1>2 DEF SlotsOf
<1>5. \A k \in 1 .. m : sh[k][2] \in Nat
  <2>1. \A k \in 1 .. m : sh[k] \in Prints
    BY ElementOfSeq
  <2> QED BY <2>1 DEF Prints
<1>6. f \in Chains({f}) \cup {0}
  BY <1>3, ChainsFacts DEF Place
<1>7. n > 1 => \E k \in 1 .. m : Opens(sh, k, n) /\ c \in Chains({vol.entry[sh[k][1]].first}) \cup {0}
  <2>1. n > 1 => n \in 2 .. n
    BY <1>1
  <2> QED BY <1>1, <2>1 DEF Nested
<1>8. n = 1 => c \in Chains({RootClus})
  BY <1>1, <1>3 DEF Nested
<1>9. st[1].cluster \in Chains({RootClus}) \cup {0}
  BY <1>1 DEF Nested
<1> HIDE DEF n, m, c, f, isDir
<1>10. ASSUME NEW k \in DOMAIN sh2
       PROVE  IF sh2[k][2] = 0 THEN sh2[k][1] \in SlotsOf({RootClus})
              ELSE \E i \in 1 .. k - 1 : /\ IsParent(sh2, i, k)
                                         /\ sh2[k][1] \in SlotsOf({vol.entry[sh2[i][1]].first})
  <2>1. CASE k \in 1 .. m
    <3>1. sh2[k] = sh[k] /\ \A i \in 1 .. k - 1 : sh2[i] = sh[i]
      BY <1>1, <1>2, <2>1
    <3>2. CASE sh[k][2] = 0
      BY <1>1, <2>1, <3>1, <3>2 DEF Nested
    <3>3. CASE sh[k][2] # 0
      <4>1. PICK i \in 1 .. k - 1 : /\ IsParent(sh, i, k)
                                    /\ sh[k][1] \in SlotsOf({vol.entry[sh[i][1]].first})
        BY <1>1, <2>1, <3>3 DEF Nested
      <4>2. \A j \in i + 1 .. k - 1 : j \in 1 .. k - 1
        BY <1>1, <2>1, <4>1
      <4>3. IsParent(sh2, i, k)
        BY <3>1, <4>1, <4>2 DEF IsParent
      <4> QED BY <3>1, <3>3, <4>1, <4>3
    <3> QED BY <3>2, <3>3
  <2>2. CASE k = m + 1 /\ n = 1
    <3>1. sh2[k][2] = 0 /\ sh2[k][1] = s
      BY <1>2, <1>3, <2>2
    <3> QED BY <1>4, <1>8, <2>2, <3>1
  <2>3. CASE k = m + 1 /\ n > 1
    <3>1. PICK i \in 1 .. m : Opens(sh, i, n) /\ c \in Chains({vol.entry[sh[i][1]].first}) \cup {0}
      BY <1>7, <2>3
    <3>2. sh2[k][2] = n - 1 /\ sh2[k][1] = s /\ sh2[i] = sh[i]
      BY <1>2, <1>3, <2>3, <3>1
    <3>3. s \in SlotsOf({vol.entry[sh[i][1]].first})
      BY <1>3, <1>4, <3>1
    <3>4. sh[i][2] = n - 2 /\ \A j \in i + 1 .. m : sh[j][2] > n - 2
      BY <3>1 DEF Opens, m
    <3>5. \A j \in i + 1 .. k - 1 : j \in i + 1 .. m /\ j \in 1 .. m
      BY <1>1, <2>3, <3>1
    <3>6. \A j \in i + 1 .. k - 1 : sh2[j][2] > n - 2
      BY <1>2, <3>4, <3>5
    <3>7. sh2[i][2] = n - 2 /\ n - 2 = (n - 1) - 1
      BY <1>1, <3>2, <3>4
    <3>8. IsParent(sh2, i, k)
      BY <3>2, <3>6, <3>7 DEF IsParent
    <3>9. i \in 1 .. k - 1 /\ sh2[k][2] # 0
      BY <1>1, <2>3, <3>1, <3>2
    <3> QED BY <3>2, <3>3, <3>8, <3>9
  <2>4. k \in 1 .. m \/ (k = m + 1 /\ n = 1) \/ (k = m + 1 /\ n > 1)
    BY <1>1, <1>10
  <2> QED BY <2>1, <2>2, <2>3, <2>4
<1>11. st2[1].cluster \in Chains({RootClus}) \cup {0}
  <2>1. CASE n = 1
    BY <1>2, <1>8, <2>1
  <2>2. CASE n # 1
    <3>1. 1 \in 1 .. n - 1
      BY <1>1, <2>2
    <3> QED BY <1>2, <1>9, <3>1
  <2> QED BY <2>1, <2>2
<1>12. ASSUME NEW g \in 2 .. Len(st2)
       PROVE  \E k \in DOMAIN sh2 : /\ Opens(sh2, k, g)
                                    /\ st2[g].cluster \in Chains({vol.entry[sh2[k][1]].first}) \cup {0}
  <2>1. CASE g \in 2 .. n
    <3>1. PICK k \in 1 .. m : Opens(sh, k, g) /\ st[g].cluster \in Chains({vol.entry[sh[k][1]].first}) \cup {0}
      BY <1>1, <2>1 DEF Nested, n
    <3>2. st2[g].cluster = st[g].cluster
      <4>1. g = n \/ g \in 1 .. n - 1
        BY <1>1, <2>1
      <4> QED BY <1>2, <4>1 DEF c, n
    <3>3. sh[k][2] = g - 2 /\ \A j \in k + 1 .. m : sh[j][2] > g - 2
      BY <3>1 DEF Opens, m
    <3>4. \A j \in k + 1 .. m + 1 : j = m + 1 \/ (j \in k + 1 .. m /\ j \in 1 .. m)
      BY <1>1, <3>1
    <3>5. sh2[m + 1][2] > g - 2
      BY <1>1, <1>2, <1>3, <2>1
    <3>6. sh2[k] = sh[k] /\ \A j \in k + 1 .. m + 1 : sh2[j][2] > g - 2
      BY <1>2, <3>1, <3>3, <3>4, <3>5
    <3>7. Opens(sh2, k, g)
      BY <1>2, <3>3, <3>6 DEF Opens
    <3>8. k \in DOMAIN sh2
      BY <1>1, <3>1
    <3> QED BY <3>1, <3>2, <3>6, <3>7, <3>8
  <2>2. CASE g = n + 1 /\ isDir
    <3>1. m + 1 \in DOMAIN sh2 /\ \A j \in (m + 1) + 1 .. m + 1 : FALSE
      BY <1>1
    <3>2. sh2[m + 1][2] = g - 2
      BY <1>1, <1>2, <1>3, <2>2
    <3>3. Opens(sh2, m + 1, g)
      BY <1>2, <3>1, <3>2 DEF Opens
    <3>4. st2[g].cluster = f /\ vol.entry[sh2[m + 1][1]].first = f
      BY <1>2, <2>2 DEF f
    <3> QED BY <1>6, <3>1, <3>3, <3>4
  <2>3. g \in 2 .. n \/ (g = n + 1 /\ isDir)
    BY <1>1, <1>2, <1>12
  <2> QED BY <2>1, <2>2, <2>3
<1> QED BY <1>10, <1>11, <1>12 DEF Nested

LEMMA TurnsNested ==
  ASSUME vol \in Volumes, NEW st \in Seq(Frame), NEW st2 \in Seq(Frame), Turns(st, st2),
         NEW sh, Nested(st, sh)
  PROVE  Nested(st2, sh)
<1> DEFINE n == Len(st)
           c == st[n].cluster
           next == readCurrentFAT(c)
<1>1. /\ n \in Nat \ {0} /\ DOMAIN st = 1 .. n /\ DOMAIN st2 = 1 .. Len(st2)
      /\ next # EndOfChain => c \in Clusters /\ vol.fat[c] = next /\ next \in Place
  BY TurnsFacts
<1>2. /\ Len(st2) = IF next = EndOfChain THEN n - 1 ELSE n
      /\ \A i \in 1 .. n - 1 : st2[i] = st[i]
      /\ next # EndOfChain => st2[n].cluster = next
  BY DEF Turns
<1>3. 0 \notin Clusters
  BY VolumeFacts DEF Clusters, RootClus
<1> HIDE DEF next
<1>4. \A C : c \in Chains(C) \cup {0} /\ next # EndOfChain => next \in Chains(C) \cup {0}
  BY <1>1, <1>3, ChainsFacts DEF Linked, Place
<1>5. Len(st) > 0 => st[1].cluster \in Chains({RootClus}) \cup {0}
  BY DEF Nested
<1>6. \A f \in 2 .. n : \E k \in DOMAIN sh :
       /\ Opens(sh, k, f)
       /\ st[f].cluster \in Chains({vol.entry[sh[k][1]].first}) \cup {0}
  BY DEF Nested
<1>7. Len(st2) > 0 => st2[1].cluster \in Chains({RootClus}) \cup {0}
  <2>1. CASE n = 1
    BY <1>1, <1>2, <1>4, <1>5, <2>1
  <2>2. CASE n # 1
    <3>1. 1 \in 1 .. n - 1 /\ n > 0
      BY <1>1, <2>2
    <3> QED BY <1>2, <1>5, <3>1
  <2> QED BY <2>1, <2>2
<1> HIDE DEF n
<1>8. ASSUME NEW f \in 2 .. Len(st2)
      PROVE  \E k \in DOMAIN sh : /\ Opens(sh, k, f)
                                  /\ st2[f].cluster \in Chains({vol.entry[sh[k][1]].first}) \cup {0}
  <2>1. CASE f \in 1 .. n - 1
    <3>1. f \in 2 .. n /\ st2[f] = st[f]
      BY <1>1, <1>2, <2>1
    <3> QED BY <1>6, <3>1
  <2>2. CASE f = n
    <3>1. f \in 2 .. n /\ next # EndOfChain
      BY <1>1, <1>2, <2>2
    <3>2. PICK k \in DOMAIN sh : Opens(sh, k, f) /\ c \in Chains({vol.entry[sh[k][1]].first}) \cup {0}
      BY <1>6, <2>2, <3>1
    <3> HIDE DEF c
    <3>3. st2[f].cluster \in Chains({vol.entry[sh[k][1]].first}) \cup {0}
      BY <1>2, <1>4, <2>2, <3>1, <3>2
    <3> QED BY <3>2, <3>3
  <2>3. f \in 1 .. n - 1 \/ f = n
    BY <1>1, <1>2, <1>8
  <2> QED BY <2>1, <2>2, <2>3
<1>9. \A k \in DOMAIN sh :
       IF sh[k][2] = 0 THEN sh[k][1] \in SlotsOf({RootClus})
       ELSE \E i \in 1 .. k - 1 : /\ IsParent(sh, i, k)
                                  /\ sh[k][1] \in SlotsOf({vol.entry[sh[i][1]].first})
  BY DEF Nested
<1> QED BY <1>7, <1>8, <1>9 DEF Nested

-----------------------------------------------------------------------------
(* list.                                                                   *)

Listed == command.name = "list" /\ NoNeighbours(DirClusters)

ListInv ==
  Listed =>
    /\ pc \in {"main", "list", "end", "crash"}
    /\ pc = "main" => stack = <<>> /\ shown = <<>>
    /\ pc = "end" => stack = <<>>
    /\ InTree(stack, shown) /\ Nested(stack, shown)
    /\ pc # "main" => \E dn : /\ Covers(dn, stack, shown)
                              /\ Tree /\ spc = 1 => Once(dn, stack, shown)

\* What the volume says stays, and a step changes what is said of it.
LEMMA SameListing ==
  ASSUME vol' = vol, command' = command, NEW dn
  PROVE  /\ Listed' <=> Listed
         /\ Tree' <=> Tree
         /\ spc' = spc
         /\ InTree(stack, shown)' <=> InTree(stack', shown')
         /\ Nested(stack, shown)' <=> Nested(stack', shown')
         /\ Covers(dn, stack, shown)' <=> Covers(dn, stack', shown')
         /\ Once(dn, stack, shown)' <=> Once(dn, stack', shown')
<1>1. DirClusters' = DirClusters
  BY DEF DirClusters, Level, Chains, First, Dirs, Seen, EntrySlots, Base, findFirstSector, eps, spc
<1>2. AllSeen' = AllSeen
  BY <1>1 DEF AllSeen, Seen, EntrySlots, Base, findFirstSector, eps, spc
<1>3. Listed' <=> Listed
  BY <1>1 DEF Listed, NoNeighbours, EntrySlots, Base, findFirstSector, eps, spc
<1>4. Tree' <=> Tree
  BY <1>1, <1>2 DEF Tree, Ways, LeadsTo, Dirs
<1>5. InTree(stack, shown)' <=> InTree(stack', shown')
  BY <1>1, <1>2 DEF InTree, On, Printed
<1>6. Nested(stack, shown)' <=> Nested(stack', shown')
  BY DEF Nested, SlotsOf, Chains, IsParent, Opens, EntrySlots, Base, findFirstSector, eps, spc
<1>7. Covers(dn, stack, shown)' <=> Covers(dn, stack', shown')
  BY <1>1 DEF Covers, On, Printed, First, Dirs, Seen, EntrySlots, Base, VisibleFrom, Visible,
              readEntry, SlotAt, findFirstSector, LastSlot, Sectors, eps, spc
<1>8. Once(dn, stack, shown)' <=> Once(dn, stack', shown')
  BY <1>1 DEF Once, On, Printed, First, Dirs, EntrySlots, Base, findFirstSector, eps, spc
<1>9. spc' = spc
  BY DEF spc
<1> QED BY <1>3, <1>4, <1>5, <1>6, <1>7, <1>8, <1>9

LEMMA ListInit == Init => ListInv
<1> SUFFICES ASSUME Init, Listed PROVE
      /\ pc \in {"main", "list", "end", "crash"}
      /\ stack = <<>> /\ shown = <<>> /\ pc = "main"
      /\ InTree(stack, shown) /\ Nested(stack, shown)
  BY DEF ListInv
<1>1. pc = "main" /\ stack = <<>> /\ shown = <<>>
  BY DEF Init
<1>2. InTree(stack, shown)
  BY <1>1 DEF InTree, On, Printed
<1>3. Nested(stack, shown)
  BY <1>1 DEF Nested
<1> QED BY <1>1, <1>2, <1>3

\* The one call there is at first.
LEMMA MainListInv == TypeInv /\ ListInv /\ Main => ListInv'
<1> SUFFICES ASSUME TypeInv, ListInv, Main, Listed' PROVE ListInv'
  BY DEF ListInv
<1>1. vol \in Volumes /\ vol' = vol /\ command' = command /\ shown' = shown /\ pc = "main"
  BY DEF TypeInv, Main
<1>2. Listed /\ pc' = "list"
  BY <1>1, SameListing DEF Main, Listed
<1>3. stack' = <<[cluster |-> RootClus, next |-> 0, depth |-> 0, calls |-> 1]>> /\ shown' = <<>>
  BY <1>1, <1>2 DEF Main, Listed, ListInv
<1>4. RootClus \in DirClusters /\ RootClus \in Clusters
  BY <1>1, TreeFacts, VolumeFacts
<1>5. /\ DOMAIN stack' = {1} /\ Len(stack') = 1 /\ stack'[1].cluster = RootClus
      /\ stack'[1].next = 0 /\ stack'[1].depth = 0
      /\ On(stack') = {RootClus} /\ Printed(shown') = {} /\ DOMAIN shown' = {}
  BY <1>3 DEF On, Printed
<1>6. InTree(stack', shown')
  BY <1>4, <1>5 DEF InTree
<1>7. Nested(stack', shown')
  <2>1. RootClus \in Chains({RootClus})
    BY <1>1, <1>4, ChainsFacts
  <2> QED BY <1>5, <2>1 DEF Nested
<1>8. Covers({}, stack', shown')
  <2>1. \A y \in VisibleFrom(RootClus, 0) : ~ (y < 0)
    <3>1. spc * eps \in Nat
      BY <1>1, VolumeFacts
    <3> QED BY <3>1 DEF VisibleFrom
  <2> QED BY <1>5, <2>1 DEF Covers, First, Dirs
<1>9. Once({}, stack', shown')
  BY <1>5 DEF Once
<1> HIDE DEF Listed
<1>10. InTree(stack, shown)' /\ Nested(stack, shown)'
  BY <1>1, <1>6, <1>7, SameListing
<1>11. Covers({}, stack, shown)' /\ Once({}, stack, shown)'
  BY <1>1, <1>8, <1>9, SameListing
<1> QED BY <1>2, <1>10, <1>11 DEF ListInv

LEMMA ListEntryInv == TypeInv /\ ListInv /\ ListEntry => ListInv'
<1> SUFFICES ASSUME TypeInv, ListInv, ListEntry, Listed' PROVE ListInv'
  BY DEF ListInv
<1>1. /\ vol \in Volumes /\ vol' = vol /\ command' = command /\ pc = "list"
      /\ stack \in Seq(Frame) /\ shown \in Seq(Prints) /\ pc' \in {"crash", "list"}
  BY DEF TypeInv, ListEntry, Listing
<1>2. Listed
  BY <1>1, SameListing
<1>3. InTree(stack, shown) /\ Nested(stack, shown)
  BY <1>2 DEF ListInv
<1>4. PICK dn : Covers(dn, stack, shown) /\ (Tree /\ spc = 1 => Once(dn, stack, shown))
  BY <1>1, <1>2 DEF ListInv
<1>5. stack' \in Seq(Frame) /\ shown' \in Seq(Prints)
  BY <1>1, ListEntryTypes, SameVolume DEF TypeInv
<1>6. PICK s, q : Enters(stack, shown, stack', shown', s, q)
  BY <1>2, <1>3, ListEntryEnters DEF Listed, InTree
<1>7. InTree(stack', shown') /\ Nested(stack', shown')
  BY <1>1, <1>3, <1>5, <1>6, EntersInTree, EntersNested
<1>8. Covers(dn, stack', shown')
  BY <1>1, <1>3, <1>4, <1>5, <1>6, EntersCovers
<1>9. Tree /\ spc = 1 => Once(dn, stack', shown')
  BY <1>1, <1>3, <1>4, <1>5, <1>6, EntersOnce
<1>10. InTree(stack, shown)' /\ Nested(stack, shown)'
  BY <1>1, <1>7, SameListing
<1>11. Covers(dn, stack, shown)' /\ (Tree' /\ spc' = 1 => Once(dn, stack, shown)')
  BY <1>1, <1>8, <1>9, SameListing
<1> QED BY <1>1, <1>10, <1>11 DEF ListInv

LEMMA ListNextInv == TypeInv /\ ListInv /\ ListNextCluster => ListInv'
<1> SUFFICES ASSUME TypeInv, ListInv, ListNextCluster, Listed' PROVE ListInv'
  BY DEF ListInv
<1>1. /\ vol \in Volumes /\ vol' = vol /\ command' = command /\ pc = "list"
      /\ pc' \in {"crash", "list"} /\ stack \in Seq(Frame)
  BY DEF TypeInv, ListNextCluster, Listing
<1>2. Listed
  BY <1>1, SameListing
<1>3. InTree(stack, shown) /\ Nested(stack, shown)
  BY <1>2 DEF ListInv
<1>4. PICK dn : Covers(dn, stack, shown) /\ (Tree /\ spc = 1 => Once(dn, stack, shown))
  BY <1>1, <1>2 DEF ListInv
<1>5. stack' \in Seq(Frame)
  BY <1>1, ListOtherTypes, SameVolume DEF TypeInv
<1>6. Turns(stack, stack') /\ shown' = shown
  BY ListNextTurns
<1> DEFINE dn2 == dn \cup ({stack[Len(stack)].cluster} \cap Clusters)
<1>7. InTree(stack', shown') /\ Nested(stack', shown')
  BY <1>1, <1>3, <1>5, <1>6, TurnsInTree, TurnsNested
<1>8. Covers(dn2, stack', shown')
  BY <1>1, <1>3, <1>4, <1>5, <1>6, TurnsCovers
<1>9. Tree /\ spc = 1 => Once(dn2, stack', shown')
  BY <1>1, <1>3, <1>4, <1>5, <1>6, TurnsOnce
<1>10. InTree(stack, shown)' /\ Nested(stack, shown)'
  BY <1>1, <1>7, SameListing
<1>11. PICK d : d = dn2
  OBVIOUS
<1> HIDE DEF dn2
<1>12. Covers(d, stack, shown)' /\ (Tree' /\ spc' = 1 => Once(d, stack, shown)')
  BY <1>1, <1>8, <1>9, <1>11, SameListing
<1> QED BY <1>1, <1>10, <1>12 DEF ListInv

LEMMA ListNext == TypeInv /\ ListInv /\ [Next]_vars => ListInv'
<1> SUFFICES ASSUME TypeInv, ListInv, [Next]_vars, Listed' PROVE ListInv'
  BY DEF ListInv
<1>1. vol' = vol /\ command' = command
  BY VolumeKept
<1>2. Listed
  BY <1>1, SameListing
<1>3. pc \in {"main", "list", "end", "crash"}
  BY <1>2 DEF ListInv
<1>4. CASE Main
  BY <1>4, MainListInv
<1>5. CASE ListEntry
  BY <1>5, ListEntryInv
<1>6. CASE ListNextCluster
  BY <1>6, ListNextInv
<1>7. CASE Found \/ ProbeNext \/ NotFound \/ GetEnd \/ Fetch
  BY <1>3, <1>7 DEF Found, ProbeNext, NotFound, GetEnd, Fetch, Searching
<1>8. CASE ListEnd \/ UNCHANGED vars
  <2>1. /\ stack' = stack /\ shown' = shown
        /\ pc' = pc \/ (pc = "list" /\ pc' = "end" /\ stack = <<>>)
    BY <1>8 DEF ListEnd, vars
  <2>2. /\ InTree(stack, shown) /\ Nested(stack, shown)
        /\ pc = "main" => stack = <<>> /\ shown = <<>>
        /\ pc = "end" => stack = <<>>
    BY <1>2 DEF ListInv
  <2>3. InTree(stack, shown)' /\ Nested(stack, shown)'
    BY <1>1, <2>1, <2>2, SameListing
  <2>4. ASSUME pc' # "main"
        PROVE  \E dn : Covers(dn, stack, shown)' /\ (Tree' /\ spc' = 1 => Once(dn, stack, shown)')
    <3>1. PICK dn : Covers(dn, stack, shown) /\ (Tree /\ spc = 1 => Once(dn, stack, shown))
      BY <1>2, <2>1, <2>4 DEF ListInv
    <3> QED BY <1>1, <2>1, <3>1, SameListing
  <2> QED BY <1>3, <2>1, <2>2, <2>3, <2>4 DEF ListInv
<1> QED BY <1>4, <1>5, <1>6, <1>7, <1>8 DEF Next, Step, Over

LEMMA ListImplied == TypeInv /\ ListInv => ListExact
<1> SUFFICES ASSUME TypeInv, ListInv, pc = "end", Listed
             PROVE  /\ {shown[k][1] : k \in DOMAIN shown} = AllSeen
                    /\ spc = 1 /\ Tree => Len(shown) = Cardinality(AllSeen)
                    /\ \A k \in DOMAIN shown :
                         shown[k][1] \in UNION {EntrySlots(c) : c \in
                           Chains(IF shown[k][2] = 0 THEN {RootClus}
                                  ELSE {vol.entry[shown[Parent(k)][1]].first})}
  BY DEF ListExact, Listed
<1>1. vol \in Volumes /\ shown \in Seq(Prints) /\ DOMAIN shown = 1 .. Len(shown) /\ Len(shown) \in Nat
  BY DEF TypeInv
<1>2. stack = <<>> /\ InTree(stack, shown) /\ Nested(stack, shown)
  BY DEF ListInv
<1>3. PICK dn : Covers(dn, stack, shown) /\ (Tree /\ spc = 1 => Once(dn, stack, shown))
  BY DEF ListInv
<1>4. Printed(shown) = AllSeen
  BY <1>1, <1>2, <1>3, CoversAll
<1>5. ASSUME spc = 1, Tree
      PROVE  Len(shown) = Cardinality(AllSeen)
  <2> DEFINE n == Len(shown)
             g == [k \in 1 .. n |-> shown[k][1]]
  <2>1. \A k, l \in 1 .. n : shown[k][1] = shown[l][1] => k = l
    BY <1>1, <1>3, <1>5 DEF Once
  <2>2. g \in [1 .. n -> AllSeen] /\ \A x \in AllSeen : \E k \in 1 .. n : g[k] = x
    BY <1>1, <1>4 DEF Printed
  <2>3. g \in Bijection(1 .. n, AllSeen)
    <3>1. \A k, l \in 1 .. n : g[k] = g[l] => k = l
      BY <2>1
    <3> HIDE DEF g, n
    <3> QED BY <2>2, <3>1 DEF Bijection, Injection, Surjection, IsInjective
  <2>4. IsFiniteSet(1 .. n) /\ Cardinality(1 .. n) = n
    <3>1. 1 \in Int /\ n \in Int /\ (1 > n => n = 0)
      BY <1>1
    <3> HIDE DEF n
    <3>2. IsFiniteSet(1 .. n) /\ Cardinality(1 .. n) = IF 1 > n THEN 0 ELSE n - 1 + 1
      BY <3>1, FS_Interval
    <3> QED BY <3>1, <3>2
  <2>5. ExistsBijection(1 .. n, AllSeen)
    BY <2>3 DEF ExistsBijection
  <2> HIDE DEF n
  <2> QED BY <2>4, <2>5, FS_Bijection DEF n
<1>6. ASSUME NEW k \in DOMAIN shown
      PROVE  shown[k][1] \in SlotsOf(IF shown[k][2] = 0 THEN {RootClus}
                                     ELSE {vol.entry[shown[Parent(k)][1]].first})
  <2>1. CASE shown[k][2] = 0
    BY <1>2, <2>1 DEF Nested
  <2>2. CASE shown[k][2] # 0
    <3>1. PICK i \in 1 .. k - 1 : /\ IsParent(shown, i, k)
                                  /\ shown[k][1] \in SlotsOf({vol.entry[shown[i][1]].first})
      BY <1>2, <2>2 DEF Nested
    <3>2. Parent(k) = CHOOSE j \in 1 .. k - 1 : IsParent(shown, j, k)
      BY DEF Parent, IsParent
    <3>3. Parent(k) \in 1 .. k - 1 /\ IsParent(shown, Parent(k), k)
      BY <3>1, <3>2
    <3>4. \A j, l \in 1 .. k - 1 : IsParent(shown, j, k) /\ IsParent(shown, l, k) => ~ (j < l)
      <4>1. SUFFICES ASSUME NEW j \in 1 .. k - 1, NEW l \in 1 .. k - 1, j < l,
                            IsParent(shown, j, k), IsParent(shown, l, k)
                     PROVE  FALSE
        OBVIOUS
      <4>2. l \in j + 1 .. k - 1 /\ l \in 1 .. Len(shown)
        BY <1>1, <4>1
      <4>3. shown[l][2] > shown[j][2] /\ shown[l][2] = shown[j][2]
        BY <4>1, <4>2 DEF IsParent
      <4>4. shown[l][2] \in Nat
        <5>1. shown[l] \in Prints
          BY <1>1, <4>2, ElementOfSeq
        <5> QED BY <5>1 DEF Prints
      <4> QED BY <4>3, <4>4
    <3>5. Parent(k) = i
      <4>1. ~ (Parent(k) < i) /\ ~ (i < Parent(k)) /\ i \in Int /\ Parent(k) \in Int
        BY <3>1, <3>3, <3>4
      <4> QED BY <4>1
    <3> QED BY <2>2, <3>1, <3>5
  <2> QED BY <2>1, <2>2
<1> QED BY <1>4, <1>5, <1>6 DEF Printed, SlotsOf

(***************************************************************************)
(* ListExact.  list prints the entries it can see in the clusters of all   *)
(* directories and no others, each below the entry of its directory, and   *)
(* none twice where the directories form a tree and a cluster is a sector  *)
(* (lines 365-443).                                                        *)
(***************************************************************************)
THEOREM ListedExactly == Spec => []ListExact
<1>1. Spec => []TypeInv
  BY TypeInit, TypeNext, PTL DEF Spec
<1>2. Spec => []ListInv
  BY <1>1, ListInit, ListNext, PTL DEF Spec
<1> QED BY <1>1, <1>2, ListImplied, PTL
=============================================================================
