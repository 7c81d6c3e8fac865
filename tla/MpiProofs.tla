------------------------------ MODULE MpiProofs ------------------------------
(***************************************************************************)
(* The MPI programs for any number of processes and data of any size.  The *)
(* relay race by an invariant that says where each baton can be; the       *)
(* others by an annotation of each call, Ready before it and Gave for what *)
(* is given for it, which SpmdProofs shows to be kept in any interleaving. *)
(***************************************************************************)
EXTENDS Mpi, FiniteSetTheorems, SequenceTheorems, NaturalsInduction, WellFoundedInduction, TLAPS

-----------------------------------------------------------------------------
(* Numbers.                                                                *)

LEMMA LeastNumber ==
  ASSUME NEW T, T \subseteq Nat, T # {}
  PROVE  \E x \in T : \A y \in T : x <= y
<1> DEFINE Less == {p \in Nat \X Nat : p[1] < p[2]}
<1>1. IsWellFoundedOn(Less, Nat)
  BY NatLessThanWellFounded DEF OpToRel
<1>2. PICK x \in T : \A y \in T : ~ (<<y, x>> \in Less)
  BY <1>1, WFMin
<1>3. \A y \in T : ~ (y < x)
  BY <1>2
<1>4. QED
  BY <1>3

\* A product of numbers does not get smaller as its first factor grows.
LEMMA Grows ==
  ASSUME NEW a \in Nat, NEW b \in Nat, NEW c \in Nat, a <= b
  PROVE  a * c \in Nat /\ b * c \in Nat /\ a * c <= b * c
<1>1. PICK d \in Nat : b = a + d
  <2>1. b - a \in Nat /\ b = a + (b - a)
    OBVIOUS
  <2> QED BY <2>1
<1>2. b * c = a * c + d * c
  BY <1>1
<1>3. \A x, y \in Nat : x * y \in Nat
  OBVIOUS
<1> QED BY <1>2, <1>3

\* Part q of n parts of some size has its elements within all of them.
LEMMA InPart ==
  ASSUME NEW n \in Nat, NEW size \in Nat, NEW q \in 0 .. n - 1, NEW j \in 0 .. size - 1
  PROVE  /\ q * size + j \in 0 .. n * size - 1
         /\ (q * size + j) \div size = q /\ (q * size + j) % size = j
<1>1. q * size \in Nat /\ (q + 1) * size <= n * size /\ n * size \in Nat
  BY Grows
<1>2. (q + 1) * size = q * size + size
  OBVIOUS
<1>3. (q * size + j) \div size = q /\ (q * size + j) % size = j
  BY <1>1
<1> QED BY <1>1, <1>2, <1>3

\* Every element is in one of the parts.
LEMMA PartOf ==
  ASSUME NEW n \in Nat, NEW size \in Nat, NEW i \in 0 .. n * size - 1
  PROVE  \E q \in 0 .. n - 1, r \in 0 .. size - 1 :
           i = q * size + r /\ i \div size = q /\ i % size = r
<1>1. n * size \in Nat /\ i \in Nat /\ size # 0
  BY Grows
<1>2. PICK q \in Nat : q = i \div size
  BY <1>1
<1>3. PICK r \in 0 .. size - 1 : r = i % size
  BY <1>1
<1>4. i = q * size + r
  BY <1>1, <1>2, <1>3
<1>5. q < n
  <2>1. SUFFICES ASSUME n <= q PROVE FALSE
    BY <1>2
  <2>2. n * size <= q * size
    BY <2>1, Grows
  <2> QED BY <1>1, <1>4, <2>2
<1> QED BY <1>2, <1>3, <1>4, <1>5

-----------------------------------------------------------------------------
(* The relay race: the baton of each team is at its start, under way, with *)
(* a runner or back.                                                       *)

Sent(k) == IF k = 1 THEN pc[0] # "odd" ELSE pc[0] \notin {"odd", "even"}

Carried(k) == {m \in net : m.tag = k}

Had(k) == {p \in Relay!Rank \ {0} : Tag[p] = k}

Holding(k) == {p \in Had(k) : pc[p] = "pass"}

\* The runners of a team before r; all of them if the baton goes to 0.
Before(k, r) == {p \in Relay!Runners(k) : r = 0 \/ p < r}

\* Where the baton of a team can be.
AtStart(k) == ~ Sent(k) /\ stop[k] = 0 /\ Carried(k) = {} /\ Had(k) = {}

OnItsWay(k) ==
  /\ Sent(k) /\ stop[k] = 0 /\ Holding(k) = {}
  /\ \E m \in Relay!Message :
       /\ Carried(k) = {m}
       /\ m.dst \in Relay!Runners(k) \cup {0}
       /\ Had(k) = Before(k, m.dst)

WithRunner(k) ==
  /\ Sent(k) /\ stop[k] = 0 /\ Carried(k) = {}
  /\ \E p \in Relay!Runners(k) : Had(k) = Before(k, p) \cup {p} /\ Holding(k) = {p}

Back(k) ==
  Sent(k) /\ stop[k] > 0 /\ Carried(k) = {} /\ Had(k) = Relay!Runners(k) /\ Holding(k) = {}

BatonSomewhere(k) == AtStart(k) \/ OnItsWay(k) \/ WithRunner(k) \/ Back(k)

Batons == \A k \in Relay!Team : BatonSomewhere(k)

RunnersPc ==
  \A p \in Relay!Rank \ {0} :
    /\ pc[p] \in {"recv", "pass", "finalize"}
    /\ pc[p] = "recv" <=> Tag[p] = 0

\* Process 0 has as many times as batons it has received.
Times ==
  /\ pc[0] \in {"odd", "even", "first", "second", "judge", "finalize"}
  /\ pc[0] \in {"odd", "even", "first"} => stop[1] = 0 /\ stop[2] = 0
  /\ pc[0] = "second" => (stop[1] = 0 /\ stop[2] > 0) \/ (stop[1] > 0 /\ stop[2] = 0)
  /\ pc[0] \in {"judge", "finalize"} => stop[1] > 0 /\ stop[2] > 0
  /\ now >= 1

RaceInv == Relay!TypeOK /\ RunnersPc /\ Times /\ Batons

-----------------------------------------------------------------------------
(* The ranks of a team.                                                    *)

LEMMA RankFacts ==
  /\ Relay!Rank \subseteq Nat /\ 0 \in Relay!Rank /\ 1 \in Relay!Rank /\ 2 \in Relay!Rank
  /\ Relay!Runners(1) \cap Relay!Runners(2) = {}
  /\ \A k \in Relay!Team : Relay!Runners(k) \subseteq Relay!Rank \ {0}
  BY MpiAssumption DEF Relay!Rank, Relay!Runners, Relay!Team

\* The first runner of a team has nobody before it.
LEMMA FirstRunner ==
  ASSUME NEW k \in Relay!Team
  PROVE  k \in Relay!Runners(k) /\ Before(k, k) = {}
  BY MpiAssumption DEF Relay!Rank, Relay!Runners, Relay!Team, Before

\* Those before the next runner are those before p, and p.
LEMMA NextRunner ==
  ASSUME NEW k \in Relay!Team, NEW p \in Relay!Runners(k)
  PROVE  /\ Relay!NextRank(p) \in Relay!Runners(k) \cup {0} /\ Relay!NextRank(p) \in Relay!Rank
         /\ Before(k, Relay!NextRank(p)) = Before(k, p) \cup {p}
<1>1. /\ p \in Nat /\ p > 0 /\ p <= Racers - 1 /\ Racers \in Nat /\ p \in Relay!Rank
      /\ p % 2 = k % 2 /\ (p + 2) % 2 = p % 2 /\ (p + 1) % 2 # p % 2
  BY MpiAssumption DEF Relay!Runners, Relay!Rank
<1>2. \A r \in Relay!Runners(k) : r \in Nat /\ r <= Racers - 1 /\ r # 0 /\ r # p + 1
  BY <1>1 DEF Relay!Runners, Relay!Rank
<1>3. CASE p + 2 <= Racers - 1
  <2>1. Relay!NextRank(p) = p + 2 /\ p + 2 \in Relay!Runners(k)
    BY <1>1, <1>3 DEF Relay!NextRank, Relay!Runners, Relay!Rank
  <2>2. \A r \in Relay!Runners(k) : r < p + 2 <=> r < p \/ r = p
    BY <1>1, <1>2
  <2>3. QED
    BY <1>1, <2>1, <2>2 DEF Before, Relay!Runners
<1>4. CASE ~ (p + 2 <= Racers - 1)
  <2>1. Relay!NextRank(p) = 0 /\ 0 \in Relay!Rank
    BY <1>1, <1>4 DEF Relay!NextRank, Relay!Rank
  <2>2. \A r \in Relay!Runners(k) : r < p \/ r = p
    BY <1>1, <1>2, <1>4
  <2>3. QED
    BY <1>1, <2>1, <2>2 DEF Before
<1>5. QED
  BY <1>3, <1>4

-----------------------------------------------------------------------------
(* The steps.                                                              *)

LEMMA RaceInit ==
  ASSUME Relay!Init
  PROVE  RaceInv
<1>1. Relay!TypeOK
  BY RankFacts DEF Relay!Init, Relay!TypeOK, Relay!Label, Relay!Team
<1>2. RunnersPc /\ Times
  BY RankFacts DEF Relay!Init, RunnersPc, Times, Relay!Team
<1>3. Batons
  BY RankFacts DEF Relay!Init, Batons, BatonSomewhere, AtStart, Sent, Carried, Had, Relay!Team
<1>4. QED
  BY <1>1, <1>2, <1>3 DEF RaceInv

\* What a step leaves alone of a team.
SameBaton(k) ==
  /\ Sent(k)' = Sent(k) /\ stop'[k] = stop[k]
  /\ Carried(k)' = Carried(k) /\ Had(k)' = Had(k) /\ Holding(k)' = Holding(k)

LEMMA SameBatonKeeps ==
  ASSUME NEW k \in Relay!Team, BatonSomewhere(k), SameBaton(k)
  PROVE  BatonSomewhere(k)'
  BY DEF BatonSomewhere, SameBaton, AtStart, OnItsWay, WithRunner, Back, Relay!Message,
         Relay!Runners, Before

\* Process 0 gives a team its baton.
LEMMA StartKeeps ==
  ASSUME RaceInv, Relay!SendOdd \/ Relay!SendEven
  PROVE  RaceInv'
<1>1. PICK k \in Relay!Team, label \in {"even", "first"} :
        /\ k = 1 => pc[0] = "odd" /\ label = "even"
        /\ k = 2 => pc[0] = "even" /\ label = "first"
        /\ net' = net \cup {[src |-> 0, dst |-> k, tag |-> k]}
        /\ \E wait \in {{}, {[src |-> 0, dst |-> k, tag |-> k]}} :
             pending' = [pending EXCEPT ![0] = wait]
        /\ pc' = [pc EXCEPT ![0] = label]
        /\ UNCHANGED <<Tag, stop, now, winner>>
  BY DEF Relay!SendOdd, Relay!SendEven, Relay!Send, Relay!At, Relay!Team
<1> DEFINE m == [src |-> 0, dst |-> k, tag |-> k]
<1>2. Relay!TypeOK /\ RunnersPc /\ Times /\ \A l \in Relay!Team : BatonSomewhere(l)
  BY DEF RaceInv, Batons
<1>3. m \in Relay!Message /\ m.dst = k /\ m.tag = k /\ k \in Relay!Runners(k) /\ Before(k, k) = {}
  BY RankFacts, FirstRunner DEF Relay!Message, Relay!Team
<1>4. Relay!TypeOK'
  BY <1>1, <1>2, <1>3, RankFacts DEF Relay!TypeOK, Relay!Label
<1>5. pc'[0] = label /\ \A p \in Relay!Rank \ {0} : pc'[p] = pc[p]
  BY <1>1, <1>2, RankFacts DEF Relay!TypeOK
<1>6. RunnersPc'
  BY <1>1, <1>2, <1>5 DEF RunnersPc
<1>7. Times'
  BY <1>1, <1>2, <1>5 DEF Times, Relay!Team
<1>8. AtStart(k)
  BY <1>1, <1>2 DEF BatonSomewhere, OnItsWay, WithRunner, Back, Sent, Relay!Team
<1>9. Sent(k)' /\ \A l \in Relay!Team : l # k => Sent(l)' = Sent(l)
  BY <1>1, <1>5 DEF Sent, Relay!Team
<1>10. /\ \A l \in Relay!Team : Had(l)' = Had(l) /\ Holding(l)' = Holding(l)
  BY <1>1, <1>5 DEF Had, Holding
<1>11. Carried(k)' = {m} /\ \A l \in Relay!Team : l # k => Carried(l)' = Carried(l)
  BY <1>1, <1>3, <1>8 DEF AtStart, Carried
<1>12. OnItsWay(k)'
  <2>1. Holding(k) = {} /\ Had(k) = {}
    BY <1>8 DEF AtStart, Holding
  <2>2. /\ stop'[k] = 0 /\ Holding(k)' = {} /\ Had(k)' = Before(k, m.dst)
        /\ Before(k, m.dst)' = Before(k, m.dst) /\ Relay!Runners(k)' = Relay!Runners(k)
    BY <1>1, <1>3, <1>8, <1>10, <2>1 DEF AtStart, Before, Relay!Runners
  <2>3. QED
    BY <1>3, <1>9, <1>11, <2>2 DEF OnItsWay
<1>13. ASSUME NEW l \in Relay!Team, l # k PROVE BatonSomewhere(l)'
  BY <1>1, <1>2, <1>9, <1>10, <1>11, <1>13, SameBatonKeeps DEF SameBaton
<1>14. QED
  BY <1>4, <1>6, <1>7, <1>12, <1>13 DEF RaceInv, Batons, BatonSomewhere

\* Process 0 gets the baton of a team back.
LEMMA FinishKeeps ==
  ASSUME RaceInv, Relay!Finish("first", "second") \/ Relay!Finish("second", "judge")
  PROVE  RaceInv'
<1>1. PICK m \in net, label \in {"second", "judge"} :
        /\ m.dst = 0
        /\ label = "second" => pc[0] = "first"
        /\ label = "judge" => pc[0] = "second"
        /\ net' = net \ {m}
        /\ pc' = [pc EXCEPT ![0] = label]
        /\ stop' = [stop EXCEPT ![m.tag] = now]
        /\ now' \in {now, now + 1}
        /\ UNCHANGED <<pending, Tag, winner>>
  BY DEF Relay!Finish, Relay!Receive, Relay!At
<1> DEFINE k == m.tag
<1>2. Relay!TypeOK /\ RunnersPc /\ Times /\ \A l \in Relay!Team : BatonSomewhere(l)
  BY DEF RaceInv, Batons
<1>3. m \in Relay!Message /\ k \in Relay!Team /\ m \in Carried(k)
  BY <1>1, <1>2 DEF Relay!TypeOK, Relay!Message, Carried
<1>4. Relay!TypeOK'
  BY <1>1, <1>2, <1>3, RankFacts DEF Relay!TypeOK, Relay!Label
<1>5. /\ pc'[0] = label /\ \A p \in Relay!Rank \ {0} : pc'[p] = pc[p]
      /\ stop'[k] = now /\ \A l \in Relay!Team : l # k => stop'[l] = stop[l]
  BY <1>1, <1>2, <1>3, RankFacts DEF Relay!TypeOK
<1>6. RunnersPc'
  BY <1>1, <1>2, <1>5 DEF RunnersPc
<1>7. OnItsWay(k) /\ Carried(k) = {m}
  BY <1>2, <1>3 DEF BatonSomewhere, AtStart, OnItsWay, WithRunner, Back
<1>8. stop[k] = 0 /\ Sent(k)
  BY <1>7 DEF OnItsWay
<1>9. Times'
  <2>1. now \in Nat /\ now >= 1 /\ \A l \in Relay!Team : stop[l] \in Nat
    BY <1>2 DEF Relay!TypeOK, Times
  <2>2. now' >= 1
    BY <1>1, <2>1
  <2>3. CASE k = 1
    BY <1>1, <1>2, <1>5, <1>8, <2>1, <2>2, <2>3 DEF Times, Relay!Team
  <2>4. CASE k = 2
    BY <1>1, <1>2, <1>5, <1>8, <2>1, <2>2, <2>4 DEF Times, Relay!Team
  <2>5. QED
    BY <1>3, <2>3, <2>4 DEF Relay!Team
<1>10. \A l \in Relay!Team : Sent(l)' = Sent(l) /\ Had(l)' = Had(l) /\ Holding(l)' = Holding(l)
  BY <1>1, <1>5 DEF Sent, Had, Holding
<1>11. Carried(k)' = {} /\ \A l \in Relay!Team : l # k => Carried(l)' = Carried(l)
  BY <1>1, <1>7 DEF Carried
<1>12. Back(k)'
  <2>1. Had(k) = Relay!Runners(k) /\ Holding(k) = {} /\ Relay!Runners(k)' = Relay!Runners(k)
    BY <1>1, <1>7 DEF OnItsWay, Before, Relay!Runners
  <2>2. stop'[k] > 0
    BY <1>2, <1>5 DEF Relay!TypeOK, Times
  <2>3. QED
    BY <1>3, <1>8, <1>10, <1>11, <2>1, <2>2 DEF Back
<1>13. ASSUME NEW l \in Relay!Team, l # k PROVE BatonSomewhere(l)'
  BY <1>2, <1>5, <1>10, <1>11, <1>13, SameBatonKeeps DEF SameBaton
<1>14. QED
  BY <1>4, <1>6, <1>9, <1>12, <1>13 DEF RaceInv, Batons, BatonSomewhere

LEMMA JudgeKeeps ==
  ASSUME RaceInv, Relay!Judge
  PROVE  RaceInv'
<1>1. Relay!TypeOK /\ RunnersPc /\ Times /\ \A l \in Relay!Team : BatonSomewhere(l)
  BY DEF RaceInv, Batons
<1>2. /\ pc[0] = "judge" /\ pc' = [pc EXCEPT ![0] = "finalize"]
      /\ winner' \in {"odd", "even"} /\ UNCHANGED <<net, pending, Tag, stop, now>>
  BY DEF Relay!Judge, Relay!At
<1>3. pc'[0] = "finalize" /\ \A p \in Relay!Rank \ {0} : pc'[p] = pc[p]
  BY <1>1, <1>2, RankFacts DEF Relay!TypeOK
<1>4. Relay!TypeOK'
  BY <1>1, <1>2, RankFacts DEF Relay!TypeOK, Relay!Label
<1>5. RunnersPc' /\ Times'
  BY <1>1, <1>2, <1>3 DEF RunnersPc, Times
<1>6. \A l \in Relay!Team : SameBaton(l)
  BY <1>2, <1>3 DEF SameBaton, Sent, Had, Holding, Carried
<1>7. QED
  BY <1>1, <1>4, <1>5, <1>6, SameBatonKeeps DEF RaceInv, Batons

\* A runner gets the baton of its team.
LEMMA TakeKeeps ==
  ASSUME RaceInv, NEW p \in Relay!Rank \ {0}, Relay!Take(p)
  PROVE  RaceInv'
<1>1. PICK m \in net :
        /\ m.dst = p /\ pc[p] = "recv"
        /\ net' = net \ {m}
        /\ pc' = [pc EXCEPT ![p] = "pass"]
        /\ Tag' = [Tag EXCEPT ![p] = m.tag]
        /\ UNCHANGED <<pending, stop, now, winner>>
  BY DEF Relay!Take, Relay!Receive, Relay!At
<1> DEFINE k == m.tag
<1>2. Relay!TypeOK /\ RunnersPc /\ Times /\ \A l \in Relay!Team : BatonSomewhere(l)
  BY DEF RaceInv, Batons
<1>3. m \in Relay!Message /\ k \in Relay!Team /\ m \in Carried(k)
  BY <1>1, <1>2 DEF Relay!TypeOK, Relay!Message, Carried
<1>4. Relay!TypeOK'
  BY <1>1, <1>2, <1>3, RankFacts DEF Relay!TypeOK, Relay!Label
<1>5. /\ pc'[p] = "pass" /\ \A r \in Relay!Rank : r # p => pc'[r] = pc[r]
      /\ Tag'[p] = k /\ \A r \in Relay!Rank : r # p => Tag'[r] = Tag[r]
      /\ Tag[p] = 0 /\ p # 0 /\ 0 \in Relay!Rank
  BY <1>1, <1>2, RankFacts DEF Relay!TypeOK, RunnersPc
<1>6. RunnersPc'
  BY <1>2, <1>3, <1>5 DEF RunnersPc, Relay!Team
<1>7. Times'
  BY <1>1, <1>2, <1>5 DEF Times
<1>8. OnItsWay(k) /\ Carried(k) = {m}
  BY <1>2, <1>3 DEF BatonSomewhere, AtStart, OnItsWay, WithRunner, Back
<1>9. p \in Relay!Runners(k) /\ Had(k) = Before(k, p) /\ Holding(k) = {}
  BY <1>1, <1>5, <1>8 DEF OnItsWay
<1>10. /\ Had(k)' = Had(k) \cup {p}
       /\ \A l \in Relay!Team : l # k => Had(l)' = Had(l)
  BY <1>3, <1>5 DEF Had, Relay!Team
<1>11. /\ Holding(k)' = Holding(k) \cup {p}
       /\ \A l \in Relay!Team : l # k => Holding(l)' = Holding(l)
  <2>1. \A l \in Relay!Team : p \notin Had(l)
    BY <1>5 DEF Had, Relay!Team
  <2>2. \A l \in Relay!Team : Holding(l)' = {r \in Had(l)' : pc'[r] = "pass"}
    BY DEF Holding
  <2>3. \A l \in Relay!Team : \A r \in Had(l) : pc'[r] = pc[r]
    BY <1>5, <2>1 DEF Had
  <2>4. QED
    BY <1>3, <1>5, <1>10, <2>2, <2>3 DEF Holding
<1>12. Carried(k)' = {} /\ \A l \in Relay!Team : l # k => Carried(l)' = Carried(l)
  BY <1>1, <1>8 DEF Carried
<1>13. \A l \in Relay!Team : Sent(l)' = Sent(l)
  BY <1>5 DEF Sent
<1>14. WithRunner(k)'
  <2>1. Sent(k)' /\ stop'[k] = 0
    BY <1>1, <1>3, <1>8, <1>13 DEF OnItsWay
  <2>2. Relay!Runners(k)' = Relay!Runners(k) /\ Before(k, p)' = Before(k, p)
    BY DEF Relay!Runners, Before
  <2>3. QED
    BY <1>9, <1>10, <1>11, <1>12, <2>1, <2>2 DEF WithRunner
<1>15. ASSUME NEW l \in Relay!Team, l # k PROVE BatonSomewhere(l)'
  BY <1>1, <1>2, <1>10, <1>11, <1>12, <1>13, <1>15, SameBatonKeeps DEF SameBaton
<1>16. QED
  BY <1>4, <1>6, <1>7, <1>14, <1>15 DEF RaceInv, Batons, BatonSomewhere

\* A runner passes the baton to the next, or back to process 0.
LEMMA PassKeeps ==
  ASSUME RaceInv, NEW p \in Relay!Rank \ {0}, Relay!Pass(p)
  PROVE  RaceInv'
<1>0. Relay!TypeOK /\ RunnersPc /\ Times /\ \A l \in Relay!Team : BatonSomewhere(l)
  BY DEF RaceInv, Batons
<1>1. PICK k \in Relay!Team : Tag[p] = k
  BY <1>0 DEF Relay!Pass, Relay!At, RunnersPc, Relay!TypeOK
<1> DEFINE m == [src |-> p, dst |-> Relay!NextRank(p), tag |-> k]
<1>2. /\ pc[p] = "pass"
      /\ net' = net \cup {m}
      /\ \E wait \in {{}, {m}} : pending' = [pending EXCEPT ![p] = wait]
      /\ pc' = [pc EXCEPT ![p] = "finalize"]
      /\ UNCHANGED <<Tag, stop, now, winner>>
  BY <1>1 DEF Relay!Pass, Relay!Send, Relay!At
<1>3. k \in Relay!Team /\ p \in Had(k) /\ p \in Holding(k)
  BY <1>1, <1>2 DEF Had, Holding
<1>4. WithRunner(k) /\ Holding(k) = {p} /\ p \in Relay!Runners(k)
      /\ Had(k) = Before(k, p) \cup {p}
  BY <1>0, <1>3 DEF BatonSomewhere, AtStart, OnItsWay, WithRunner, Back
<1>5. /\ Relay!NextRank(p) \in Relay!Runners(k) \cup {0} /\ Relay!NextRank(p) \in Relay!Rank
      /\ Had(k) = Before(k, Relay!NextRank(p))
  BY <1>3, <1>4, NextRunner
<1>6. m \in Relay!Message /\ m.dst = Relay!NextRank(p) /\ m.tag = k
  BY <1>3, <1>5 DEF Relay!Message
<1>7. Relay!TypeOK'
  BY <1>2, <1>0, <1>6, RankFacts DEF Relay!TypeOK, Relay!Label
<1>8. /\ pc'[p] = "finalize" /\ \A r \in Relay!Rank : r # p => pc'[r] = pc[r]
      /\ p # 0 /\ 0 \in Relay!Rank
  BY <1>2, <1>0, RankFacts DEF Relay!TypeOK
<1>9. RunnersPc' /\ Times'
  BY <1>2, <1>0, <1>8 DEF RunnersPc, Times
<1>10. \A l \in Relay!Team : Sent(l)' = Sent(l) /\ Had(l)' = Had(l)
  BY <1>2, <1>8 DEF Sent, Had
<1>11. Holding(k)' = {} /\ \A l \in Relay!Team : l # k => Holding(l)' = Holding(l)
  <2>1. \A l \in Relay!Team : Holding(l)' = {r \in Had(l) : pc'[r] = "pass"}
    BY <1>10 DEF Holding
  <2>2. \A l \in Relay!Team : l # k => p \notin Had(l)
    BY <1>1 DEF Had
  <2>3. \A l \in Relay!Team : \A r \in Had(l) : r \in Relay!Rank
    BY DEF Had
  <2>4. Holding(k)' = {}
    <3>1. \A q \in Had(k) : pc'[q] # "pass"
      BY <1>4, <1>8, <2>3 DEF Holding
    <3>2. QED
      BY <1>3, <2>1, <3>1
  <2>5. \A l \in Relay!Team : l # k => Holding(l)' = Holding(l)
    BY <1>8, <2>1, <2>2, <2>3 DEF Holding
  <2>6. QED
    BY <2>4, <2>5
<1>12. Carried(k)' = {m} /\ \A l \in Relay!Team : l # k => Carried(l)' = Carried(l)
  BY <1>2, <1>4, <1>6 DEF WithRunner, Carried
<1>13. OnItsWay(k)'
  <2>1. Sent(k)' /\ stop'[k] = 0
    BY <1>2, <1>3, <1>4, <1>10 DEF WithRunner
  <2>2. Relay!Runners(k)' = Relay!Runners(k) /\ Before(k, m.dst)' = Before(k, m.dst)
    BY <1>2 DEF Relay!Runners, Before
  <2>3. Had(k)' = Before(k, m.dst) /\ m.dst \in Relay!Runners(k) \cup {0}
    BY <1>3, <1>5, <1>6, <1>10
  <2>4. QED
    BY <1>6, <1>11, <1>12, <2>1, <2>2, <2>3 DEF OnItsWay
<1>14. ASSUME NEW l \in Relay!Team, l # k PROVE BatonSomewhere(l)'
  BY <1>2, <1>0, <1>10, <1>11, <1>12, <1>14, SameBatonKeeps DEF SameBaton
<1>15. QED
  BY <1>2, <1>7, <1>9, <1>13, <1>14 DEF RaceInv, Batons, BatonSomewhere

-----------------------------------------------------------------------------
(* What follows for the race.                                              *)

LEMMA RaceNext ==
  ASSUME RaceInv, Relay!Step
  PROVE  RaceInv'
<1>1. PICK p \in Relay!Rank : Relay!Process(p)
  BY DEF Relay!Step
<1>2. CASE p = 0
  BY <1>1, <1>2, StartKeeps, FinishKeeps, JudgeKeeps DEF Relay!Process
<1>3. CASE p # 0
  BY <1>1, <1>3, TakeKeeps, PassKeeps DEF Relay!Process
<1>4. QED
  BY <1>2, <1>3

LEMMA RaceStutter ==
  ASSUME RaceInv, UNCHANGED relay
  PROVE  RaceInv'
<1>1. \A l \in Relay!Team : SameBaton(l)
  BY DEF relay, SameBaton, Sent, Had, Holding, Carried
<1>2. Relay!TypeOK' /\ RunnersPc' /\ Times'
  BY DEF relay, RaceInv, Relay!TypeOK, RunnersPc, Times
<1>3. QED
  BY <1>1, <1>2, SameBatonKeeps DEF RaceInv, Batons

LEMMA OneBaton ==
  ASSUME RaceInv, NEW k \in Relay!Team
  PROVE  (IF Sent(k) THEN 0 ELSE 1) + (IF stop[k] > 0 THEN 1 ELSE 0)
           + Cardinality(Carried(k)) + Cardinality(Holding(k)) = 1
<1>1. BatonSomewhere(k) /\ stop[k] \in Nat
  BY DEF RaceInv, Batons, Relay!TypeOK
<1>2. Cardinality({}) = 0 /\ \A x : Cardinality({x}) = 1
  BY FS_EmptySet, FS_Singleton
<1>3. CASE AtStart(k)
  <2>1. Holding(k) = {}
    BY <1>3 DEF AtStart, Holding
  <2>2. QED
    BY <1>2, <1>3, <2>1 DEF AtStart
<1>4. CASE OnItsWay(k)
  <2>1. Cardinality(Carried(k)) = 1 /\ Cardinality(Holding(k)) = 0
    BY <1>2, <1>4 DEF OnItsWay
  <2>2. QED
    BY <1>4, <2>1 DEF OnItsWay
<1>5. CASE WithRunner(k)
  <2>1. Cardinality(Carried(k)) = 0 /\ Cardinality(Holding(k)) = 1
    BY <1>2, <1>5 DEF WithRunner
  <2>2. QED
    BY <1>5, <2>1 DEF WithRunner
<1>6. CASE Back(k)
  BY <1>1, <1>2, <1>6 DEF Back
<1>7. QED
  BY <1>1, <1>3, <1>4, <1>5, <1>6 DEF BatonSomewhere

\* The runners that had the baton come before the one that has it next.
LEMMA InOrder ==
  ASSUME RaceInv, NEW k \in Relay!Team
  PROVE  /\ Had(k) \subseteq Relay!Runners(k)
         /\ \A p \in Had(k), r \in Relay!Runners(k) :
              r < p => r \in Had(k) /\ pc[r] = "finalize"
<1>1. BatonSomewhere(k) /\ RunnersPc
  BY DEF RaceInv, Batons
<1>2. Relay!Runners(k) \subseteq Nat \ {0}
  BY RankFacts
<1>3. \A r \in Had(k) : r \notin Holding(k) => pc[r] = "finalize"
  BY <1>1 DEF RunnersPc, Had, Holding, Relay!Team
<1>4. CASE AtStart(k)
  BY <1>4 DEF AtStart
<1>5. CASE OnItsWay(k)
  <2>1. PICK m \in Relay!Message :
          m.dst \in Relay!Runners(k) \cup {0} /\ Had(k) = Before(k, m.dst) /\ Holding(k) = {}
    BY <1>5 DEF OnItsWay
  <2>2. ASSUME NEW p \in Had(k), NEW r \in Relay!Runners(k), r < p PROVE r \in Had(k)
    <3>1. m.dst \in Nat /\ p \in Nat /\ r \in Nat
      BY <1>2, <2>1 DEF Before
    <3>2. QED
      BY <2>1, <2>2, <3>1 DEF Before
  <2>3. Had(k) \subseteq Relay!Runners(k)
    BY <2>1 DEF Before
  <2>4. QED
    BY <1>3, <2>1, <2>2, <2>3
<1>6. CASE WithRunner(k)
  <2>1. PICK b \in Relay!Runners(k) : Had(k) = Before(k, b) \cup {b} /\ Holding(k) = {b}
    BY <1>6 DEF WithRunner
  <2>2. ASSUME NEW p \in Had(k), NEW r \in Relay!Runners(k), r < p
        PROVE  r \in Had(k) /\ r # b
    <3>1. b \in Nat /\ b # 0 /\ p \in Nat /\ r \in Nat /\ p <= b
      BY <1>2, <2>1 DEF Before
    <3>2. QED
      BY <2>1, <2>2, <3>1 DEF Before
  <2>3. Had(k) \subseteq Relay!Runners(k)
    BY <2>1 DEF Before
  <2>4. QED
    BY <1>3, <2>1, <2>2, <2>3
<1>7. CASE Back(k)
  BY <1>3, <1>7 DEF Back
<1>8. QED
  BY <1>1, <1>4, <1>5, <1>6, <1>7 DEF BatonSomewhere

LEMMA RaceKeeps ==
  ASSUME RaceInv
  PROVE  Relay!BatonKept /\ Relay!BothTimed
<1>1. Relay!BatonKept
  <2>1. ASSUME NEW k \in Relay!Team
        PROVE  /\ Had(k) \subseteq Relay!Runners(k)
               /\ \A p \in Had(k), r \in Relay!Runners(k) :
                    r < p => r \in Had(k) /\ pc[r] = "finalize"
               /\ (IF Sent(k) THEN 0 ELSE 1) + (IF stop[k] > 0 THEN 1 ELSE 0)
                    + Cardinality(Carried(k)) + Cardinality(Holding(k)) = 1
    BY <2>1, OneBaton, InOrder
  <2>2. \A S : Relay!Cardinality(S) = Cardinality(S)
    BY DEF Relay!Cardinality, Cardinality
  <2>3. QED
    BY <2>1, <2>2 DEF Relay!BatonKept, Had, Sent, Carried, Holding
<1>2. Relay!BothTimed
  <2>1. ASSUME pc[0] \in {"judge", "finalize"}
        PROVE  /\ \A k \in Relay!Team : stop[k] > 0
               /\ \A k \in Relay!Team : \A p \in Relay!Runners(k) :
                    Tag[p] = k /\ pc[p] = "finalize"
    <3>1. stop[1] > 0 /\ stop[2] > 0
      BY <2>1 DEF RaceInv, Times
    <3>2. ASSUME NEW k \in Relay!Team PROVE Back(k)
      BY <2>1, <3>1 DEF RaceInv, Batons, BatonSomewhere, AtStart, OnItsWay, WithRunner,
         Relay!Team
    <3>3. ASSUME NEW k \in Relay!Team, NEW p \in Relay!Runners(k)
          PROVE  Tag[p] = k /\ pc[p] = "finalize"
      <4>1. p \in Had(k) /\ p \notin Holding(k)
        BY <3>2, <3>3 DEF Back
      <4>2. QED
        BY <2>1, <4>1 DEF RaceInv, RunnersPc, Had, Holding, Relay!Team
    <3>4. QED
      BY <3>1, <3>3 DEF Relay!Team
  <2>2. QED
    BY <2>1 DEF Relay!BothTimed
<1>3. QED
  BY <1>1, <1>2

\* What a process has computed, and the next thing.
LEMMA AppendedTo ==
  ASSUME NEW S, NEW m \in Seq(S), NEW x \in S, NEW t \in Seq(S),
         Len(t) = Len(m) + 1, t[Len(t)] = x, \A i \in 1 .. Len(m) : t[i] = m[i]
  PROVE  Append(m, x) = t
<1> DEFINE s == Append(m, x)
<1>1. /\ s \in Seq(S) /\ Len(s) = Len(m) + 1 /\ s[Len(m) + 1] = x /\ Len(m) \in Nat
      /\ \A i \in 1 .. Len(m) : s[i] = m[i]
  BY AppendProperties
<1> HIDE DEF s
<1>2. \A i \in 1 .. Len(s) : s[i] = t[i]
  BY <1>1
<1>3. s = t
  BY <1>1, <1>2, SeqEqual
<1> QED BY <1>3 DEF s

LEMMA Appended ==
  /\ \A x : Append(<<>>, x) = <<x>>
  /\ \A a, x : Append(<<a>>, x) = <<a, x>>
  /\ \A a, b, x : Append(<<a, b>>, x) = <<a, b, x>>
  /\ \A a, b, c, x : Append(<<a, b, c>>, x) = <<a, b, c, x>>
<1>1. ASSUME NEW x PROVE Append(<<>>, x) = <<x>>
  <2> DEFINE m == <<>>
             t == <<x>>
  <2>1. m \in Seq({x}) /\ t \in Seq({x}) /\ Len(m) = 0 /\ Len(t) = 1
    OBVIOUS
  <2>2. t[1] = x
    OBVIOUS
  <2>3. 1 .. 0 = {}
    OBVIOUS
  <2> HIDE DEF m, t
  <2>4. Len(t) = Len(m) + 1 /\ t[Len(t)] = x /\ \A i \in 1 .. Len(m) : t[i] = m[i]
    BY <2>1, <2>2, <2>3
  <2>5. Append(m, x) = t
    BY <2>1, <2>4, AppendedTo
  <2> QED BY <2>5 DEF m, t
<1>2. ASSUME NEW a, NEW x PROVE Append(<<a>>, x) = <<a, x>>
  <2> DEFINE m == <<a>>
             t == <<a, x>>
  <2>1. m \in Seq({a, x}) /\ t \in Seq({a, x}) /\ Len(m) = 1 /\ Len(t) = 2
    OBVIOUS
  <2>2. t[2] = x /\ t[1] = m[1]
    OBVIOUS
  <2>3. \A i \in 1 .. 1 : i = 1
    OBVIOUS
  <2> HIDE DEF m, t
  <2>4. Len(t) = Len(m) + 1 /\ t[Len(t)] = x /\ \A i \in 1 .. Len(m) : t[i] = m[i]
    BY <2>1, <2>2, <2>3
  <2>5. Append(m, x) = t
    BY <2>1, <2>4, AppendedTo
  <2> QED BY <2>5 DEF m, t
<1>3. ASSUME NEW a, NEW b, NEW x PROVE Append(<<a, b>>, x) = <<a, b, x>>
  <2> DEFINE m == <<a, b>>
             t == <<a, b, x>>
  <2>1. m \in Seq({a, b, x}) /\ t \in Seq({a, b, x}) /\ Len(m) = 2 /\ Len(t) = 3
    OBVIOUS
  <2>2. t[3] = x /\ t[1] = m[1] /\ t[2] = m[2]
    OBVIOUS
  <2>3. \A i \in 1 .. 2 : i = 1 \/ i = 2
    OBVIOUS
  <2> HIDE DEF m, t
  <2>4. Len(t) = Len(m) + 1 /\ t[Len(t)] = x /\ \A i \in 1 .. Len(m) : t[i] = m[i]
    BY <2>1, <2>2, <2>3
  <2>5. Append(m, x) = t
    BY <2>1, <2>4, AppendedTo
  <2> QED BY <2>5 DEF m, t
<1>4. ASSUME NEW a, NEW b, NEW c, NEW x PROVE Append(<<a, b, c>>, x) = <<a, b, c, x>>
  <2> DEFINE m == <<a, b, c>>
             t == <<a, b, c, x>>
  <2>1. m \in Seq({a, b, c, x}) /\ t \in Seq({a, b, c, x}) /\ Len(m) = 3 /\ Len(t) = 4
    OBVIOUS
  <2>2. t[4] = x /\ t[1] = m[1] /\ t[2] = m[2] /\ t[3] = m[3]
    OBVIOUS
  <2>3. \A i \in 1 .. 3 : i = 1 \/ i = 2 \/ i = 3
    OBVIOUS
  <2> HIDE DEF m, t
  <2>4. Len(t) = Len(m) + 1 /\ t[Len(t)] = x /\ \A i \in 1 .. Len(m) : t[i] = m[i]
    BY <2>1, <2>2, <2>3
  <2>5. Append(m, x) = t
    BY <2>1, <2>4, AppendedTo
  <2> QED BY <2>5 DEF m, t
<1> QED BY <1>1, <1>2, <1>3, <1>4

-----------------------------------------------------------------------------
(* The second maximum.                                                     *)

\* m is the maximum of S.
Top(S, m) == m \in S /\ \A x \in S : x <= m

LEMMA MaxIs ==
  ASSUME NEW S \in SUBSET Int, NEW m, Top(S, m)
  PROVE  Second!Max(S) = m
<1>1. Second!Max(S) = CHOOSE x \in S : \A y \in S : x >= y
  BY DEF Second!Max
<1>2. \A x \in S : (\A y \in S : x >= y) <=> x = m
  BY DEF Top
<1> QED BY <1>1, <1>2 DEF Top

\* The maximum of base and the first n values of f.
TopOf(f, n, base, m) == Top({f[i] : i \in 0 .. n - 1} \cup {base}, m)

\* Finitely many integers have a maximum.
LEMMA HasTop ==
  ASSUME NEW n \in Nat, NEW f, \A i \in 0 .. n - 1 : f[i] \in Int, NEW base \in Int
  PROVE  \E m \in Int : TopOf(f, n, base, m)
<1> DEFINE Image(l) == {f[i] : i \in 0 .. l - 1} \cup {base}
           Bad == {l \in 0 .. n : ~ \E m \in Int : Top(Image(l), m)}
<1>1. SUFFICES Bad = {}
  <2>1. ASSUME Bad = {} PROVE \E m \in Int : Top(Image(n), m)
    <3>1. n \in 0 .. n
      OBVIOUS
    <3>2. n \notin Bad
      <4> HIDE DEF Bad
      <4> QED BY <2>1
    <3> HIDE DEF Image
    <3> QED BY <3>1, <3>2
  <2> HIDE DEF Bad
  <2> QED BY <2>1 DEF TopOf
<1>2. SUFFICES ASSUME Bad # {} PROVE FALSE
  OBVIOUS
<1>3. Bad \subseteq Nat
  OBVIOUS
<1>4. PICK l \in Bad : \A y \in Bad : l <= y
  <2> HIDE DEF Bad
  <2> QED BY <1>2, <1>3, LeastNumber
<1>5. CASE l = 0
  <2>1. Image(0) = {base}
    OBVIOUS
  <2>2. Top(Image(0), base)
    BY <2>1 DEF Top
  <2> QED BY <1>4, <1>5, <2>2
<1>6. CASE l # 0
  <2>1. l \in 0 .. n /\ l - 1 \in 0 .. n - 1 /\ l - 1 \notin Bad
    <3>1. l \in 0 .. n
      OBVIOUS
    <3> HIDE DEF Bad
    <3> QED BY <1>4, <1>6, <3>1
  <2>2. PICK m \in Int : Top(Image(l - 1), m)
    BY <2>1
  <2>3. Image(l) = Image(l - 1) \cup {f[l - 1]} /\ f[l - 1] \in Int
    BY <2>1
  <2>4. Image(l - 1) \subseteq Int
    BY <2>1
  <2> HIDE DEF Image
  <2>5. \E k \in Int : Top(Image(l), k)
    <3>1. CASE m <= f[l - 1]
      <4>1. Top(Image(l), f[l - 1])
        BY <2>2, <2>3, <2>4, <3>1 DEF Top
      <4> QED BY <2>3, <4>1
    <3>2. CASE ~ (m <= f[l - 1])
      <4>1. Top(Image(l), m)
        BY <2>2, <2>3, <2>4, <3>2 DEF Top
      <4> QED BY <4>1
    <3> QED BY <3>1, <3>2
  <2> QED BY <2>5
<1> QED BY <1>5, <1>6

\* The part of a process, and what it is to be its local maximum.
SecondPart(e, p) == [i \in Second!Local |-> e[p * Second!local_size + i]]

LocalTop(e, p, x) == Top({e[p * Second!local_size + i] : i \in Second!Local} \cup {-1}, x)

\* The elements that are scattered, their maximum, and the array without it.
Looked       == 0 .. Second!local_size * Processes - 1
First(d)     == Second!Max({d[i] : i \in Looked} \cup {-1})
Rest(d)      == [i \in Looked |-> IF d[i] = First(d) THEN -1 ELSE d[i]]
Runner_up(d) == Second!Second({d[i] : i \in Looked})

SecondReady(k, p, d, m) ==
  /\ k = 2 => m = <<SecondPart(d, p)>>
  /\ k = 3 => m = <<SecondPart(Rest(d), p)>>
  /\ k = 4 => m = <<SecondPart(Rest(d), p), Runner_up(d)>>

SecondGave(k, p, d, x) ==
  /\ k = 1 /\ p = 0 => x = d
  /\ k = 2 => LocalTop(d, p, x)
  /\ k = 3 => LocalTop(Rest(d), p, x)

S2 == INSTANCE SpmdProofs WITH
  num_procs <- Processes, Stages <- Second!Stages, Kind <- Second!Kind,
  Input <- Second!Input, Give <- Second!Give, Take <- Second!Take,
  Overruns <- Second!Overruns, Ready <- SecondReady, Gave <- SecondGave

LEMMA SecondSizes ==
  /\ Second!local_size \in Nat
  /\ Looked = 0 .. Processes * Second!local_size - 1 /\ Looked \subseteq 0 .. ArrayLength - 1
<1>1. Second!local_size \in Nat
  BY MpiAssumption DEF Second!local_size
<1>2. ASSUME NEW n \in Nat, n = Second!local_size
      PROVE  n * Processes = Processes * n /\ n * Processes <= ArrayLength /\ n * Processes \in Nat
  BY <1>2, MpiAssumption DEF Second!local_size
<1>3. /\ Second!local_size * Processes = Processes * Second!local_size
      /\ Second!local_size * Processes <= ArrayLength
      /\ Second!local_size * Processes \in Nat
  BY <1>1, <1>2
<1>4. Looked = 0 .. Processes * Second!local_size - 1
  BY <1>3 DEF Looked
<1>5. Looked \subseteq 0 .. ArrayLength - 1
  BY <1>3, MpiAssumption DEF Looked
<1> QED BY <1>1, <1>4, <1>5

LEMMA LocalMax ==
  ASSUME NEW e, \A i \in Looked : e[i] \in Int, NEW p \in S2!Rank
  PROVE  LocalTop(e, p, Second!find_local_max(SecondPart(e, p)))
<1> DEFINE a == SecondPart(e, p)
<1>1. DOMAIN a = 0 .. Second!local_size - 1 /\ \A i \in DOMAIN a : a[i] \in Int
  <2>1. ASSUME NEW i \in Second!Local PROVE p * Second!local_size + i \in Looked
    BY InPart, SecondSizes, MpiAssumption DEF S2!Rank, Second!Local
  <2> QED BY <2>1 DEF SecondPart, Second!Local
<1>2. {a[i] : i \in DOMAIN a} = {e[p * Second!local_size + i] : i \in Second!Local}
  BY DEF SecondPart
<1> HIDE DEF a
<1>3. PICK m \in Int : TopOf(a, Second!local_size, -1, m)
  <2>1. \A i \in 0 .. Second!local_size - 1 : a[i] \in Int
    BY <1>1
  <2>2. Second!local_size \in Nat /\ -1 \in Int
    BY SecondSizes
  <2> QED BY <2>1, <2>2, HasTop
<1>4. {a[i] : i \in DOMAIN a} \cup {-1} \in SUBSET Int
  BY <1>1
<1>5. Second!find_local_max(a) = m
  <2>1. Top({a[i] : i \in DOMAIN a} \cup {-1}, m)
    BY <1>1, <1>3 DEF TopOf
  <2> QED BY <1>4, <2>1, MaxIs DEF Second!find_local_max
<1> QED BY <1>1, <1>2, <1>3, <1>5 DEF LocalTop, TopOf, a

\* The maximum of the local maxima is the maximum.
LEMMA GlobalMax ==
  ASSUME NEW e, \A i \in Looked : e[i] \in Int, NEW g, DOMAIN g = S2!Rank,
         \A q \in S2!Rank : LocalTop(e, q, g[q])
  PROVE  Second!global_max(g) = Second!Max({e[i] : i \in Looked} \cup {-1})
<1> DEFINE all   == {e[i] : i \in Looked} \cup {-1}
           given_ == {g[q] : q \in DOMAIN g}
<1>1. S2!Rank = 0 .. Processes - 1 /\ 0 \in S2!Rank
  BY MpiAssumption DEF S2!Rank
<1>2. all \in SUBSET Int
  OBVIOUS
<1>3. ASSUME NEW q \in S2!Rank PROVE g[q] \in all
  <2>1. ASSUME NEW i \in Second!Local PROVE q * Second!local_size + i \in Looked
    BY InPart, SecondSizes, MpiAssumption, <1>1 DEF Second!Local
  <2> QED BY <2>1 DEF LocalTop, Top
<1>4. PICK m \in Int : TopOf(g, Processes, g[0], m)
  <2>1. \A q \in 0 .. Processes - 1 : g[q] \in Int
    BY <1>1, <1>2, <1>3
  <2>2. g[0] \in Int /\ Processes \in Nat
    BY <1>1, <2>1, MpiAssumption
  <2> QED BY <2>1, <2>2, HasTop
<1>5. Top(given_, m)
  <2>1. given_ = {g[q] : q \in 0 .. Processes - 1} \cup {g[0]}
    BY <1>1
  <2> HIDE DEF given_
  <2> QED BY <1>4, <2>1 DEF TopOf
<1>6. Second!global_max(g) = m
  <2>1. given_ \in SUBSET Int
    BY <1>2, <1>3
  <2> QED BY <1>5, <2>1, MaxIs DEF Second!global_max
<1>7. Top(all, m)
  <2>1. m \in all
    BY <1>3, <1>5 DEF Top
  <2>2. ASSUME NEW i \in Looked PROVE e[i] <= m
    <3>1. PICK q \in 0 .. Processes - 1, r \in 0 .. Second!local_size - 1 :
            i = q * Second!local_size + r
      <4>1. i \in 0 .. Processes * Second!local_size - 1
        BY SecondSizes
      <4>2. Processes \in Nat /\ Second!local_size \in Nat
        BY SecondSizes, MpiAssumption
      <4>3. \E q \in 0 .. Processes - 1, r \in 0 .. Second!local_size - 1 :
              i = q * Second!local_size + r /\ i \div Second!local_size = q
              /\ i % Second!local_size = r
        BY <4>1, <4>2, PartOf
      <4> QED BY <4>3
    <3>2. e[i] <= g[q]
      BY <1>1, <3>1 DEF LocalTop, Top, Second!Local
    <3>3. g[q] <= m /\ g[q] \in Int /\ e[i] \in Int
      BY <1>1, <1>2, <1>3, <1>5 DEF Top
    <3> QED BY <3>2, <3>3
  <2>3. -1 <= m
    <3>1. -1 <= g[0] /\ g[0] <= m /\ g[0] \in Int
      BY <1>1, <1>2, <1>3, <1>5 DEF LocalTop, Top
    <3> QED BY <3>1
  <2> QED BY <2>1, <2>2, <2>3 DEF Top
<1>8. Second!Max(all) = m
  BY <1>2, <1>7, MaxIs
<1> QED BY <1>6, <1>8

\* What is left without the maximum.
LEMMA RestSet ==
  ASSUME NEW d
  PROVE  {Rest(d)[i] : i \in Looked} \cup {-1} = ({d[i] : i \in Looked} \ {First(d)}) \cup {-1}
  BY DEF Rest

LEMMA SecondAnnotated == S2!Annotated
<1> USE DEF Second!Stages
<1>1. ASSUME NEW d \in Second!Input
      PROVE  /\ \A i \in Looked : d[i] \in Int
             /\ \A i \in Looked : Rest(d)[i] \in Int
  <2>1. \A i \in Looked : d[i] \in Int
    <3>1. d \in [0 .. ArrayLength - 1 -> Values] /\ Values \subseteq Int
      BY MpiAssumption DEF Second!Input
    <3> QED BY <3>1, SecondSizes
  <2> QED BY <2>1 DEF Rest
<1>2. ASSUME NEW p \in S2!Rank, NEW i \in Second!Local
      PROVE  p * Second!local_size + i \in Looked
  BY InPart, SecondSizes, MpiAssumption DEF S2!Rank, Second!Local
<1>3. \A p \in S2!Rank, d \in Second!Input : SecondReady(1, p, d, <<>>)
  BY DEF SecondReady
<1>4. ASSUME NEW k \in 1 .. 3, NEW p \in S2!Rank, NEW d \in Second!Input, NEW m,
             SecondReady(k, p, d, m)
      PROVE  SecondGave(k, p, d, Second!Give(k, p, d, m))
  <2>1. CASE k = 1
    BY <2>1 DEF SecondGave, Second!Give
  <2>2. CASE k = 2
    <3>1. Second!Give(k, p, d, m) = Second!find_local_max(SecondPart(d, p))
      BY <1>4, <2>2 DEF SecondReady, Second!Give
    <3> QED BY <1>1, <2>2, <3>1, LocalMax DEF SecondGave
  <2>3. CASE k = 3
    <3>1. Second!Give(k, p, d, m) = Second!find_local_max(SecondPart(Rest(d), p))
      BY <1>4, <2>3 DEF SecondReady, Second!Give
    <3> QED BY <1>1, <2>3, <3>1, LocalMax DEF SecondGave
  <2> QED BY <2>1, <2>2, <2>3
<1>5. ASSUME NEW k \in 1 .. 3, NEW p \in S2!Rank, NEW d \in Second!Input, NEW m, NEW g,
             SecondReady(k, p, d, m),
             DOMAIN g \subseteq S2!Rank, S2!Enough(k, p, DOMAIN g),
             \A q \in DOMAIN g : SecondGave(k, q, d, g[q]),
             NEW after \in Second!Take(k, p, m, g)
      PROVE  SecondReady(k + 1, p, d, after)
  <2>1. CASE k = 1
    <3>1. g[0] = d
      BY <1>5, <2>1 DEF S2!Enough, Second!Kind, SecondGave
    <3>2. after = <<[i \in Second!Local |-> g[0][p * Second!local_size + i]]>>
      BY <2>1 DEF Second!Take
    <3> QED BY <2>1, <3>1, <3>2 DEF SecondReady, SecondPart
  <2>2. CASE k = 2
    <3>1. DOMAIN g = S2!Rank /\ \A q \in S2!Rank : LocalTop(d, q, g[q])
      BY <1>5, <2>2 DEF S2!Enough, Second!Kind, SecondGave
    <3>2. Second!global_max(g) = First(d)
      BY <1>1, <3>1, GlobalMax DEF First
    <3>3. m = <<SecondPart(d, p)>>
      BY <1>5, <2>2 DEF SecondReady
    <3>4. after = <<[i \in Second!Local |->
                       IF m[1][i] = Second!global_max(g) THEN -1 ELSE m[1][i]]>>
      BY <2>2 DEF Second!Take, Second!Clear
    <3>5. \A i \in Second!Local : m[1][i] = d[p * Second!local_size + i]
      BY <3>3 DEF SecondPart
    <3>6. \A i \in Second!Local : SecondPart(Rest(d), p)[i] =
             IF m[1][i] = Second!global_max(g) THEN -1 ELSE m[1][i]
      BY <1>2, <3>2, <3>5 DEF SecondPart, Rest
    <3>7. after = <<SecondPart(Rest(d), p)>>
      BY <3>4, <3>6 DEF SecondPart
    <3> QED BY <2>2, <3>7 DEF SecondReady
  <2>3. CASE k = 3
    <3>1. DOMAIN g = S2!Rank /\ \A q \in S2!Rank : LocalTop(Rest(d), q, g[q])
      BY <1>5, <2>3 DEF S2!Enough, Second!Kind, SecondGave
    <3>2. Second!global_max(g) = Second!Max({Rest(d)[i] : i \in Looked} \cup {-1})
      BY <1>1, <3>1, GlobalMax
    <3>4. Second!global_max(g) = Runner_up(d)
      BY <3>2, RestSet DEF Runner_up, Second!Second, First
    <3>5. after = Append(m, Second!global_max(g)) /\ m = <<SecondPart(Rest(d), p)>>
      BY <1>5, <2>3 DEF Second!Take, SecondReady
    <3>6. after = <<SecondPart(Rest(d), p), Runner_up(d)>>
      BY <3>4, <3>5, Appended
    <3> QED BY <2>3, <3>6 DEF SecondReady
  <2> QED BY <2>1, <2>2, <2>3
<1> QED BY <1>3, <1>4, <1>5 DEF S2!Annotated

LEMMA SecondValues ==
  ASSUME NEW d \in Second!Input
  PROVE  /\ \A p \in S2!Rank : SecondPart(d, p) \in [Second!Local -> Values \cup {-1}]
         /\ \A p \in S2!Rank : SecondPart(Rest(d), p) \in [Second!Local -> Values \cup {-1}]
         /\ Runner_up(d) \in Values \cup {-1}
<1>1. \A i \in Looked : d[i] \in Values
  BY SecondSizes DEF Second!Input
<1>2. \A i \in Looked : Rest(d)[i] \in Values \cup {-1}
  BY <1>1 DEF Rest
<1>3. ASSUME NEW p \in S2!Rank, NEW i \in Second!Local
      PROVE  p * Second!local_size + i \in Looked
  BY InPart, SecondSizes, MpiAssumption DEF S2!Rank, Second!Local
<1>4. Runner_up(d) \in Values \cup {-1}
  <2>1. PICK n \in Nat : Looked = 0 .. n - 1
    <3>1. Processes * Second!local_size \in Nat
      BY SecondSizes, MpiAssumption
    <3> QED BY <3>1, SecondSizes
  <2>2. \A i \in 0 .. n - 1 : Rest(d)[i] \in Int
    <3>1. Values \cup {-1} \subseteq Int
      BY MpiAssumption
    <3> QED BY <1>2, <2>1, <3>1
  <2>3. PICK m \in Int : TopOf(Rest(d), n, -1, m)
    <3>1. -1 \in Int
      OBVIOUS
    <3> QED BY <2>2, <3>1, HasTop
  <2>4. Top({Rest(d)[i] : i \in Looked} \cup {-1}, m)
    BY <2>1, <2>3 DEF TopOf
  <2>5. {Rest(d)[i] : i \in Looked} \cup {-1} \in SUBSET Int
    BY <2>1, <2>2
  <2>6. Runner_up(d) = m
    <3>1. Second!Max({Rest(d)[i] : i \in Looked} \cup {-1}) = m
      BY <2>4, <2>5, MaxIs
    <3> QED BY <3>1, RestSet DEF Runner_up, Second!Second, First
  <2> QED BY <1>2, <2>4, <2>6 DEF Top
<1> QED BY <1>1, <1>2, <1>3, <1>4 DEF SecondPart

LEMMA SecondProps ==
  ASSUME S2!Types, S2!DataOK
  PROVE  Second!TypeOK /\ Second!SecondRight
<1> USE DEF Second!Stages
<1>1. Second!Rank = S2!Rank /\ 0 \in S2!Rank
  BY MpiAssumption DEF Second!Rank, S2!Rank
<1>2. Second!StageOK
  <2>1. S2!StageOK
    BY DEF S2!Types
  <2> QED BY <1>1, <2>1 DEF Second!StageOK, S2!StageOK, Second!Done, S2!Done
<1>3. input \in Second!Input /\ \A p \in S2!Rank : SecondReady(stage[p], p, input, mem[p])
  BY DEF S2!DataOK
<1>4. ASSUME NEW p \in S2!Rank, stage[p] > 1
      PROVE  mem[p][1] \in [Second!Local -> Values \cup {-1}]
  <2>1. stage[p] \in {2, 3, 4}
    BY <1>1, <1>2, <1>4 DEF Second!StageOK
  <2>2. mem[p][1] = SecondPart(input, p) \/ mem[p][1] = SecondPart(Rest(input), p)
    BY <1>3, <2>1 DEF SecondReady
  <2> QED BY <1>3, <2>2, SecondValues
<1>5. ASSUME NEW p \in S2!Rank, Second!Done(p)
      PROVE  mem[p][2] = Runner_up(input)
  <2>1. stage[p] = 4
    BY <1>1, <1>2, <1>5 DEF Second!StageOK, Second!Done
  <2> QED BY <1>3, <2>1 DEF SecondReady
<1>6. Second!TypeOK
  BY <1>1, <1>2, <1>3, <1>4, <1>5, SecondValues DEF Second!TypeOK
<1>7. Second!SecondRight
  <2>1. ASSUME ArrayLength % Processes = 0 PROVE Looked = 0 .. ArrayLength - 1
    BY <2>1, MpiAssumption DEF Looked, Second!local_size
  <2> QED BY <1>1, <1>5, <2>1 DEF Second!SecondRight, Second!SecondDocumented, Runner_up
<1> QED BY <1>2, <1>6, <1>7

LEMMA SecondInit ==
  ASSUME Second!Init
  PROVE  S2!Types /\ S2!DataOK
<1>1. S2!Init /\ Second!Stages \in Nat
  BY DEF Second!Init, S2!Init, Second!Rank, S2!Rank, Second!Stages
<1> QED BY <1>1, SecondAnnotated, S2!InitTypes, S2!InitData

LEMMA SecondNext ==
  ASSUME S2!Types, S2!DataOK, Second!Step \/ UNCHANGED spmd
  PROVE  S2!Types' /\ S2!DataOK'
<1>1. Second!Stages \in Nat
  BY DEF Second!Stages
<1>2. ASSUME NEW p PROVE (Second!Enter(p) => S2!Enter(p)) /\ (Second!Return(p) => S2!Return(p))
  BY DEF Second!Enter, S2!Enter, Second!Return, S2!Return, Second!Entered, S2!Entered,
     Second!Completes, S2!Completes, Second!Rank, S2!Rank
<1>3. Second!Step => S2!Step
  BY <1>2 DEF Second!Step, S2!Step, Second!Rank, S2!Rank
<1>4. UNCHANGED spmd => UNCHANGED S2!spmd
  BY DEF spmd, S2!spmd
<1> QED BY <1>1, <1>3, <1>4, SecondAnnotated, S2!StepData

-----------------------------------------------------------------------------
(* The search for a zero.                                                  *)

\* m is the minimum of S.
Bottom(S, m) == m \in S /\ \A x \in S : m <= x

\* A part of the vector, where it is one.
SearchPart(d, p, a) ==
  /\ a \in [Search!Local -> {0, 1}]
  /\ \A i \in Search!Local :
       LET j == Search!IntsPerDouble * Search!chunk_size * p + i
       IN  j \in Search!Index => a[i] = d[j]

SearchReady(k, p, d, m) ==
  /\ k = 2 => \E a : m = <<a>> /\ SearchPart(d, p, a)
  /\ k = 3 => /\ m[2] \in Search!Index \cup {-1}
              /\ p = 0 /\ m[2] >= 0 => Bottom(Search!Zeros(d), m[2])

\* A process that finds a zero places it where its part should begin.
SearchGave(k, p, d, x) ==
  /\ k = 1 /\ p = 0 => x = d
  /\ k = 2 => \/ x = -1
              \/ /\ x \in Int /\ p * Search!chunk_size <= x
                 /\ p = 0 => x < Search!chunk_size /\ Bottom(Search!Zeros(d), x)

S3 == INSTANCE SpmdProofs WITH
  num_procs <- Processes, Stages <- Search!Stages, Kind <- Search!Kind,
  Input <- Search!Input, Give <- Search!Give, Take <- Search!Take,
  Overruns <- Search!Overruns, Ready <- SearchReady, Gave <- SearchGave

LEMMA MinIs ==
  ASSUME NEW S \in SUBSET Int, NEW m, Bottom(S, m)
  PROVE  Search!Min(S) = m
<1>1. Search!Min(S) = CHOOSE x \in S : \A y \in S : x <= y
  BY DEF Search!Min
<1>2. \A x \in S : (\A y \in S : x <= y) <=> x = m
  BY DEF Bottom
<1> QED BY <1>1, <1>2 DEF Bottom

LEMMA SearchSizes ==
  /\ Search!chunk_size \in Nat /\ Search!chunk_size <= VectorLength
  BY MpiAssumption DEF Search!chunk_size

LEMMA SearchFinds ==
  ASSUME NEW d \in Search!Input, NEW p \in S3!Rank, NEW a, SearchPart(d, p, a)
  PROVE  SearchGave(2, p, d, Search!search_zero(a, p))
<1> DEFINE cs == Search!chunk_size
           zeros == Search!Zeros(a)
<1>1. p \in Nat /\ cs \in Nat /\ p * cs \in Nat
  BY SearchSizes DEF S3!Rank
<1>2. zeros = {i \in 0 .. cs - 1 : a[i] = 0}
  BY DEF SearchPart, Search!Zeros, Search!Local
<1>3. CASE zeros = {}
  BY <1>3 DEF Search!search_zero, SearchGave
<1>4. CASE zeros # {}
  <2>1. zeros \subseteq Nat
    BY <1>2
  <2> HIDE DEF zeros
  <2>2. PICK i \in zeros : Bottom(zeros, i)
    BY <1>4, <2>1, LeastNumber DEF Bottom
  <2>3. Search!search_zero(a, p) = i + p * cs
    <3>1. Search!Min(zeros) = i
      <4>1. zeros \in SUBSET Int
        BY <2>1
      <4> QED BY <2>2, <4>1, MinIs
    <3> QED BY <1>4, <3>1 DEF Search!search_zero, zeros
  <2>4. i \in 0 .. cs - 1 /\ a[i] = 0
    BY <1>2
  <2>5. ASSUME p = 0
        PROVE  i < cs /\ Bottom(Search!Zeros(d), i)
    <3>1. \A j \in Search!Local : j \in Search!Index /\ a[j] = d[j]
      <4>1. ASSUME NEW j \in Search!Local
            PROVE  j \in Search!Index /\ Search!IntsPerDouble * cs * p + j = j
        BY <1>1, <2>5, SearchSizes, MpiAssumption DEF Search!Local, Search!Index,
           Search!IntsPerDouble
      <4> QED BY <4>1 DEF SearchPart
    <3>2. Search!Zeros(d) = {j \in 0 .. VectorLength - 1 : d[j] = 0}
      BY DEF Search!Zeros, Search!Input, Search!Index
    <3>3. i \in Search!Zeros(d)
      BY <2>4, <3>1, <3>2 DEF Search!Local, Search!Index
    <3>4. ASSUME NEW j \in Search!Zeros(d) PROVE i <= j
      <4>1. CASE j < cs
        <5>1. j \in zeros
          <6>1. j \in Search!Local /\ d[j] = 0
            BY <1>1, <3>2, <4>1 DEF Search!Local
          <6> QED BY <1>2, <3>1, <6>1 DEF Search!Local
        <5> QED BY <2>2, <5>1 DEF Bottom
      <4>2. CASE ~ (j < cs)
        BY <1>1, <2>4, <3>2, <4>2
      <4> QED BY <4>1, <4>2
    <3> QED BY <2>4, <3>3, <3>4, <1>1 DEF Bottom
  <2>6. i + p * cs \in Int /\ p * cs <= i + p * cs /\ (p = 0 => i + p * cs = i)
    BY <1>1, <2>4
  <2> QED BY <2>3, <2>5, <2>6 DEF SearchGave
<1> QED BY <1>3, <1>4

LEMMA SearchReduces ==
  ASSUME NEW d \in Search!Input, NEW g, DOMAIN g = S3!Rank,
         \A q \in S3!Rank : SearchGave(2, q, d, g[q])
  PROVE  /\ Search!Min({g[q] : q \in DOMAIN g}) \in Search!Index \cup {-1}
         /\ Search!Min({g[q] : q \in DOMAIN g}) >= 0 =>
              Bottom(Search!Zeros(d), Search!Min({g[q] : q \in DOMAIN g}))
<1> DEFINE all == {g[q] : q \in DOMAIN g}
           cs  == Search!chunk_size
<1>1. S3!Rank = 0 .. Processes - 1 /\ 0 \in S3!Rank /\ cs \in Nat /\ cs <= VectorLength
  BY SearchSizes, MpiAssumption DEF S3!Rank
<1>2. ASSUME NEW q \in S3!Rank PROVE q * cs \in Nat /\ (q # 0 => cs <= q * cs)
  <2>1. q * cs \in Nat
    BY <1>1
  <2>2. CASE q # 0
    <3>1. 1 * cs <= q * cs
      BY <1>1, <2>2, Grows
    <3> QED BY <1>1, <2>1, <3>1
  <2> QED BY <2>1, <2>2
<1>3. \A q \in S3!Rank : g[q] \in Int /\ g[q] >= -1
  BY <1>2 DEF SearchGave
<1>4. all \in SUBSET Int
  BY <1>3
<1>5. CASE \E q \in S3!Rank : g[q] = -1
  <2>1. Bottom(all, -1)
    BY <1>3, <1>5 DEF Bottom
  <2>2. Search!Min(all) = -1
    BY <1>4, <2>1, MinIs
  <2> QED BY <2>2
<1>6. CASE \A q \in S3!Rank : g[q] # -1
  <2>1. /\ 0 <= g[0] /\ g[0] < cs /\ Bottom(Search!Zeros(d), g[0])
        /\ \A q \in S3!Rank : q * cs <= g[q]
    BY <1>1, <1>2, <1>6 DEF SearchGave
  <2>2. \A q \in S3!Rank : g[0] <= g[q]
    BY <1>1, <1>2, <1>3, <2>1
  <2>3. Bottom(all, g[0])
    BY <1>1, <2>2 DEF Bottom
  <2>4. Search!Min(all) = g[0]
    BY <1>4, <2>3, MinIs
  <2>5. g[0] \in Search!Index
    BY <1>1, <1>3, <2>1, MpiAssumption DEF Search!Index
  <2> QED BY <2>1, <2>4, <2>5
<1> QED BY <1>5, <1>6

LEMMA SearchAnnotated == S3!Annotated
<1> USE DEF Search!Stages
<1>1. \A p \in S3!Rank, d \in Search!Input : SearchReady(1, p, d, <<>>)
  BY DEF SearchReady
<1>2. ASSUME NEW k \in 1 .. 2, NEW p \in S3!Rank, NEW d \in Search!Input, NEW m,
             SearchReady(k, p, d, m)
      PROVE  SearchGave(k, p, d, Search!Give(k, p, d, m))
  <2>1. CASE k = 1
    BY <2>1 DEF SearchGave, Search!Give
  <2>2. CASE k = 2
    <3>1. PICK a : m = <<a>> /\ SearchPart(d, p, a)
      BY <1>2, <2>2 DEF SearchReady
    <3>2. Search!Give(k, p, d, m) = Search!search_zero(a, p)
      BY <2>2, <3>1 DEF Search!Give
    <3> QED BY <2>2, <3>1, <3>2, SearchFinds
  <2> QED BY <2>1, <2>2
<1>3. ASSUME NEW k \in 1 .. 2, NEW p \in S3!Rank, NEW d \in Search!Input, NEW m, NEW g,
             SearchReady(k, p, d, m),
             DOMAIN g \subseteq S3!Rank, S3!Enough(k, p, DOMAIN g),
             \A q \in DOMAIN g : SearchGave(k, q, d, g[q]),
             NEW after \in Search!Take(k, p, m, g)
      PROVE  SearchReady(k + 1, p, d, after)
  <2>1. CASE k = 1
    <3>1. g[0] = d
      BY <1>3, <2>1 DEF S3!Enough, Search!Kind, SearchGave
    <3>2. PICK a \in [Search!Local -> {0, 1}] :
            /\ after = <<a>>
            /\ \A i \in Search!Local :
                 LET j == Search!IntsPerDouble * Search!chunk_size * p + i
                 IN  j \in Search!Index => a[i] = g[0][j]
      BY <2>1 DEF Search!Take
    <3>3. SearchPart(d, p, a)
      BY <3>1, <3>2 DEF SearchPart
    <3> QED BY <2>1, <3>2, <3>3 DEF SearchReady
  <2>2. CASE k = 2
    <3>1. PICK a : m = <<a>>
      BY <1>3, <2>2 DEF SearchReady
    <3>2. after = <<a, IF p = 0 THEN Search!Min({g[q] : q \in DOMAIN g}) ELSE -1>>
      BY <2>2, <3>1, Appended DEF Search!Take
    <3>3. CASE p = 0
      <4>1. DOMAIN g = S3!Rank /\ \A q \in S3!Rank : SearchGave(2, q, d, g[q])
        BY <1>3, <2>2, <3>3 DEF S3!Enough, Search!Kind
      <4>2. after[2] = Search!Min({g[q] : q \in DOMAIN g})
        BY <3>2, <3>3
      <4> QED BY <2>2, <4>1, <4>2, SearchReduces DEF SearchReady
    <3>4. CASE p # 0
      BY <2>2, <3>2, <3>4 DEF SearchReady
    <3> QED BY <3>3, <3>4
  <2> QED BY <2>1, <2>2
<1> QED BY <1>1, <1>2, <1>3 DEF S3!Annotated

LEMMA SearchProps ==
  ASSUME S3!Types, S3!DataOK
  PROVE  Search!TypeOK /\ Search!IndexRight
<1> USE DEF Search!Stages
<1>1. Search!Rank = S3!Rank /\ 0 \in S3!Rank
  BY MpiAssumption DEF Search!Rank, S3!Rank
<1>2. Search!StageOK
  <2>1. S3!StageOK
    BY DEF S3!Types
  <2> QED BY <1>1, <2>1 DEF Search!StageOK, S3!StageOK, Search!Done, S3!Done
<1>3. input \in Search!Input /\ \A p \in S3!Rank : SearchReady(stage[p], p, input, mem[p])
  BY DEF S3!DataOK
<1>4. ASSUME NEW p \in S3!Rank, Search!Done(p)
      PROVE  /\ mem[p][2] \in Search!Index \cup {-1}
             /\ p = 0 /\ mem[p][2] >= 0 => Bottom(Search!Zeros(input), mem[p][2])
  <2>1. stage[p] = 3
    BY <1>1, <1>2, <1>4 DEF Search!StageOK, Search!Done
  <2> QED BY <1>3, <2>1 DEF SearchReady
<1>5. Search!TypeOK
  BY <1>1, <1>2, <1>4 DEF Search!TypeOK
<1>6. Search!IndexRight
  <2>1. SUFFICES ASSUME Search!Done(0), mem[0][2] >= 0
        PROVE  Search!Zeros(input) # {} /\ mem[0][2] = Search!Min(Search!Zeros(input))
    BY DEF Search!IndexRight
  <2>2. Bottom(Search!Zeros(input), mem[0][2])
    BY <1>1, <1>4, <2>1
  <2>3. Search!Zeros(input) \in SUBSET Int
    BY <1>3 DEF Search!Zeros, Search!Input, Search!Index
  <2> QED BY <2>2, <2>3, MinIs DEF Bottom
<1> QED BY <1>2, <1>5, <1>6

LEMMA SearchInit ==
  ASSUME Search!Init
  PROVE  S3!Types /\ S3!DataOK
<1>1. S3!Init /\ Search!Stages \in Nat
  BY DEF Search!Init, S3!Init, Search!Rank, S3!Rank, Search!Stages
<1> QED BY <1>1, SearchAnnotated, S3!InitTypes, S3!InitData

LEMMA SearchNext ==
  ASSUME S3!Types, S3!DataOK, Search!Step \/ UNCHANGED spmd
  PROVE  S3!Types' /\ S3!DataOK'
<1>1. Search!Stages \in Nat
  BY DEF Search!Stages
<1>2. ASSUME NEW p PROVE (Search!Enter(p) => S3!Enter(p)) /\ (Search!Return(p) => S3!Return(p))
  BY DEF Search!Enter, S3!Enter, Search!Return, S3!Return, Search!Entered, S3!Entered,
     Search!Completes, S3!Completes, Search!Rank, S3!Rank
<1>3. Search!Step => S3!Step
  BY <1>2 DEF Search!Step, S3!Step, Search!Rank, S3!Rank
<1>4. UNCHANGED spmd => UNCHANGED S3!spmd
  BY DEF spmd, S3!spmd
<1> QED BY <1>1, <1>3, <1>4, SearchAnnotated, S3!StepData

-----------------------------------------------------------------------------
(* The product, with an order the number of processes divides.             *)

\* The rows and the elements of the vector a process gets, the vector put
\* together, and its results.
EvenRows(p)    == [i \in 0 .. Even!nlocal * EvenOrder - 1 |-> p * (Even!nlocal * EvenOrder) + i]
EvenVector(p)  == [i \in 0 .. Even!nlocal - 1 |-> p * Even!nlocal + i]
EvenVec(j)     == IF j < Even!Filled THEN j ELSE Even!Junk
EvenElement(i) == {<<i * EvenOrder + j, EvenVec(j)>> : j \in 0 .. EvenOrder - 1}
EvenResult(p)  == [i \in Even!Local |-> EvenElement(p * Even!nlocal + i)]

EvenReady(k, p, d, m) ==
  /\ k = 1 => m = <<>>
  /\ k = 2 => m = <<EvenRows(p)>>
  /\ k = 3 => m = <<EvenRows(p), EvenVector(p)>>
  /\ k = 4 => m = <<EvenRows(p), EvenVector(p), EvenResult(p)>>
  /\ k = 5 /\ p = 0 => \A i \in 0 .. Even!Filled - 1 : m[4][i] = EvenElement(i)

EvenGave(k, p, d, x) ==
  /\ k = 1 /\ p = 0 => x = d.matrix
  /\ k = 2 /\ p = 0 => x = d.vector
  /\ k = 3 => x = EvenVector(p)
  /\ k = 4 => x = EvenResult(p)

S4 == INSTANCE SpmdProofs WITH
  num_procs <- Processes, Stages <- Even!Stages, Kind <- Even!Kind,
  Input <- Even!Input, Give <- Even!Give, Take <- Even!Take,
  Overruns <- Even!Overruns, Ready <- EvenReady, Gave <- EvenGave

LEMMA Distributes ==
  ASSUME NEW a \in Nat, NEW b \in Nat, NEW c \in Nat, NEW d \in Nat, NEW e \in Nat
  PROVE  (a * b + c) * d + e = a * (b * d) + (c * d + e)
<1>1. (a * b + c) * d = (a * b) * d + c * d /\ (a * b) * d = a * (b * d)
  OBVIOUS
<1> QED BY <1>1

LEMMA EvenSizes ==
  /\ Even!nlocal \in Nat /\ Processes * Even!nlocal = Even!Filled
  /\ Even!Filled \in Nat /\ Even!Filled <= EvenOrder
<1>1. Even!nlocal \in Nat
  BY MpiAssumption DEF Even!nlocal
<1>2. ASSUME NEW n \in Nat, n = Even!nlocal
      PROVE  Processes * n = n * Processes /\ n * Processes <= EvenOrder /\ n * Processes \in Nat
  BY <1>2, MpiAssumption DEF Even!nlocal
<1> QED BY <1>1, <1>2 DEF Even!Filled

LEMMA EvenProduct ==
  ASSUME NEW p \in S4!Rank, NEW fb, \A j \in 0 .. EvenOrder - 1 : fb[j] = EvenVec(j)
  PROVE  Even!Product(EvenRows(p), fb) = EvenResult(p)
<1>1. ASSUME NEW i \in Even!Local, NEW j \in 0 .. EvenOrder - 1
      PROVE  EvenRows(p)[i * EvenOrder + j] = (p * Even!nlocal + i) * EvenOrder + j
  <2>1. i * EvenOrder + j \in 0 .. Even!nlocal * EvenOrder - 1
    BY InPart, EvenSizes, MpiAssumption DEF Even!Local
  <2>2. EvenRows(p)[i * EvenOrder + j] = p * (Even!nlocal * EvenOrder) + (i * EvenOrder + j)
    BY <2>1 DEF EvenRows
  <2>3. p \in Nat /\ i \in Nat /\ j \in Nat /\ Even!nlocal \in Nat /\ EvenOrder \in Nat
    BY EvenSizes, MpiAssumption DEF S4!Rank, Even!Local
  <2> QED BY <2>2, <2>3, Distributes
<1>2. ASSUME NEW i \in Even!Local
      PROVE  {<<EvenRows(p)[i * EvenOrder + j], fb[j]>> : j \in 0 .. EvenOrder - 1} =
               EvenElement(p * Even!nlocal + i)
  BY <1>1 DEF EvenElement
<1> QED BY <1>2 DEF Even!Product, EvenResult

\* The parts together, of which element i of all is part of one.
LEMMA EvenTogether ==
  ASSUME NEW g, NEW unset, NEW i \in 0 .. Even!Filled - 1
  PROVE  \E q \in S4!Rank, r \in Even!Local :
           i = q * Even!nlocal + r /\ Even!Together(g, unset)[i] = g[q][r]
<1>1. i \in 0 .. Processes * Even!nlocal - 1
  BY EvenSizes
<1>2. Even!nlocal \in Nat /\ Processes \in Nat
  BY EvenSizes, MpiAssumption
<1>3. PICK q \in 0 .. Processes - 1, r \in 0 .. Even!nlocal - 1 :
        i = q * Even!nlocal + r /\ i \div Even!nlocal = q /\ i % Even!nlocal = r
  BY <1>1, <1>2, PartOf
<1>4. i < Even!Filled /\ i \in 0 .. EvenOrder - 1
  BY EvenSizes, MpiAssumption
<1>5. Even!Together(g, unset)[i] = g[q][r]
  BY <1>3, <1>4 DEF Even!Together
<1> QED BY <1>3, <1>5 DEF S4!Rank, Even!Local

LEMMA EvenAnnotated == S4!Annotated
<1> USE DEF Even!Stages
<1>1. \A p \in S4!Rank, d \in Even!Input : EvenReady(1, p, d, <<>>)
  BY DEF EvenReady
<1>2. ASSUME NEW k \in 1 .. 4, NEW p \in S4!Rank, NEW d \in Even!Input, NEW m,
             EvenReady(k, p, d, m)
      PROVE  EvenGave(k, p, d, Even!Give(k, p, d, m))
  BY <1>2 DEF EvenReady, EvenGave, Even!Give
<1>3. ASSUME NEW k \in 1 .. 4, NEW p \in S4!Rank, NEW d \in Even!Input, NEW m, NEW g,
             EvenReady(k, p, d, m),
             DOMAIN g \subseteq S4!Rank, S4!Enough(k, p, DOMAIN g),
             \A q \in DOMAIN g : EvenGave(k, q, d, g[q]),
             NEW after \in Even!Take(k, p, m, g)
      PROVE  EvenReady(k + 1, p, d, after)
  <2>1. /\ d.matrix = [i \in 0 .. EvenOrder * EvenOrder - 1 |-> i]
        /\ d.vector = [j \in 0 .. EvenOrder - 1 |-> j]
    BY DEF Even!Input
  <2>2. CASE k = 1
    <3>1. g[0] = d.matrix
      BY <1>3, <2>2 DEF S4!Enough, Even!Kind, EvenGave
    <3>2. after = Append(m, Even!Part(g[0], p, Even!nlocal * EvenOrder)) /\ m = <<>>
      BY <1>3, <2>2 DEF Even!Take, EvenReady
    <3>3. ASSUME NEW i \in 0 .. Even!nlocal * EvenOrder - 1
          PROVE  p * (Even!nlocal * EvenOrder) + i \in 0 .. EvenOrder * EvenOrder - 1
      <4>1. Even!nlocal * EvenOrder \in Nat /\ Processes \in Nat
        BY EvenSizes, MpiAssumption
      <4>2. p * (Even!nlocal * EvenOrder) + i
              \in 0 .. Processes * (Even!nlocal * EvenOrder) - 1
        BY <4>1, InPart DEF S4!Rank
      <4>3. /\ Processes * (Even!nlocal * EvenOrder) = Even!Filled * EvenOrder
            /\ Even!Filled * EvenOrder <= EvenOrder * EvenOrder
            /\ Even!Filled * EvenOrder \in Nat /\ EvenOrder * EvenOrder \in Nat
        <5>1. \A a, b, c \in Nat : a * (b * c) = (a * b) * c
          OBVIOUS
        <5> QED BY <5>1, EvenSizes, Grows, MpiAssumption
      <4> QED BY <4>2, <4>3
    <3>4. Even!Part(g[0], p, Even!nlocal * EvenOrder) = EvenRows(p)
      BY <2>1, <3>1, <3>3 DEF Even!Part, EvenRows
    <3>5. after = <<EvenRows(p)>>
      BY <3>2, <3>4, Appended
    <3> QED BY <2>2, <3>5 DEF EvenReady
  <2>3. CASE k = 2
    <3>1. g[0] = d.vector
      BY <1>3, <2>3 DEF S4!Enough, Even!Kind, EvenGave
    <3>2. after = Append(m, Even!Part(g[0], p, Even!nlocal)) /\ m = <<EvenRows(p)>>
      BY <1>3, <2>3 DEF Even!Take, EvenReady
    <3>3. ASSUME NEW i \in 0 .. Even!nlocal - 1
          PROVE  p * Even!nlocal + i \in 0 .. EvenOrder - 1
      <4>1. p * Even!nlocal + i \in 0 .. Processes * Even!nlocal - 1
        BY EvenSizes, MpiAssumption, InPart DEF S4!Rank
      <4> QED BY <4>1, EvenSizes, MpiAssumption
    <3>4. Even!Part(g[0], p, Even!nlocal) = EvenVector(p)
      BY <2>1, <3>1, <3>3 DEF Even!Part, EvenVector
    <3>5. after = <<EvenRows(p), EvenVector(p)>>
      BY <3>2, <3>4, Appended
    <3> QED BY <2>3, <3>5 DEF EvenReady
  <2>4. CASE k = 3
    <3>1. DOMAIN g = S4!Rank /\ \A q \in S4!Rank : g[q] = EvenVector(q)
      BY <1>3, <2>4 DEF S4!Enough, Even!Kind, EvenGave
    <3>2. /\ after = Append(m, Even!Product(m[1], Even!Together(g, Even!Junk)))
          /\ m = <<EvenRows(p), EvenVector(p)>>
      BY <1>3, <2>4 DEF Even!Take, EvenReady
    <3>3. ASSUME NEW i \in 0 .. EvenOrder - 1
          PROVE  Even!Together(g, Even!Junk)[i] = EvenVec(i)
      <4>1. CASE i < Even!Filled
        <5>1. i \in 0 .. Even!Filled - 1
          BY <4>1, EvenSizes
        <5>2. PICK q \in S4!Rank, r \in Even!Local :
                i = q * Even!nlocal + r /\ Even!Together(g, Even!Junk)[i] = g[q][r]
          BY <5>1, EvenTogether
        <5> QED BY <3>1, <4>1, <5>2 DEF EvenVector, EvenVec, Even!Local
      <4>2. CASE ~ (i < Even!Filled)
        BY <4>2 DEF Even!Together, EvenVec
      <4> QED BY <4>1, <4>2
    <3>4. Even!Product(EvenRows(p), Even!Together(g, Even!Junk)) = EvenResult(p)
      BY <3>3, EvenProduct
    <3>5. after = <<EvenRows(p), EvenVector(p), EvenResult(p)>>
      BY <3>2, <3>4, Appended
    <3> QED BY <2>4, <3>5 DEF EvenReady
  <2>5. CASE k = 4
    <3>1. SUFFICES ASSUME p = 0, NEW i \in 0 .. Even!Filled - 1
          PROVE  after[4][i] = EvenElement(i)
      BY <2>5 DEF EvenReady
    <3>2. DOMAIN g = S4!Rank /\ \A q \in S4!Rank : g[q] = EvenResult(q)
      BY <1>3, <2>5, <3>1 DEF S4!Enough, Even!Kind, EvenGave
    <3>3. /\ after = Append(m, Even!Together(g, {<<Even!Junk, Even!Junk>>}))
          /\ m = <<EvenRows(p), EvenVector(p), EvenResult(p)>>
      BY <1>3, <2>5, <3>1 DEF Even!Take, EvenReady
    <3>4. after[4] = Even!Together(g, {<<Even!Junk, Even!Junk>>})
      BY <3>3, Appended
    <3>5. PICK q \in S4!Rank, r \in Even!Local :
            /\ i = q * Even!nlocal + r
            /\ Even!Together(g, {<<Even!Junk, Even!Junk>>})[i] = g[q][r]
      BY EvenTogether
    <3> QED BY <3>2, <3>4, <3>5 DEF EvenResult
  <2> QED BY <2>2, <2>3, <2>4, <2>5
<1> QED BY <1>1, <1>2, <1>3 DEF S4!Annotated

LEMMA EvenProps ==
  ASSUME S4!Types, S4!DataOK
  PROVE  Even!StageOK /\ Even!ProductRight
<1> USE DEF Even!Stages
<1>1. Even!Rank = S4!Rank /\ 0 \in S4!Rank
  BY MpiAssumption DEF Even!Rank, S4!Rank
<1>2. Even!StageOK
  <2>1. S4!StageOK
    BY DEF S4!Types
  <2> QED BY <1>1, <2>1 DEF Even!StageOK, S4!StageOK, Even!Done, S4!Done
<1>3. ASSUME NEW p \in S4!Rank, Even!Done(p) PROVE EvenReady(5, p, input, mem[p])
  <2>1. stage[p] = 5
    BY <1>1, <1>2, <1>3 DEF Even!StageOK, Even!Done
  <2> QED BY <2>1 DEF S4!DataOK
<1>4. Even!ProductRight
  BY <1>1, <1>3 DEF EvenReady, EvenElement, EvenVec, Even!ProductRight
<1> QED BY <1>2, <1>4

LEMMA EvenInit ==
  ASSUME Even!Init
  PROVE  S4!Types /\ S4!DataOK
<1>1. S4!Init /\ Even!Stages \in Nat
  BY DEF Even!Init, S4!Init, Even!Rank, S4!Rank, Even!Stages
<1> QED BY <1>1, EvenAnnotated, S4!InitTypes, S4!InitData

LEMMA EvenNext ==
  ASSUME S4!Types, S4!DataOK, Even!Step \/ UNCHANGED spmd
  PROVE  S4!Types' /\ S4!DataOK'
<1>1. Even!Stages \in Nat
  BY DEF Even!Stages
<1>2. ASSUME NEW p PROVE (Even!Enter(p) => S4!Enter(p)) /\ (Even!Return(p) => S4!Return(p))
  BY DEF Even!Enter, S4!Enter, Even!Return, S4!Return, Even!Entered, S4!Entered,
     Even!Completes, S4!Completes, Even!Rank, S4!Rank
<1>3. Even!Step => S4!Step
  BY <1>2 DEF Even!Step, S4!Step, Even!Rank, S4!Rank
<1>4. UNCHANGED spmd => UNCHANGED S4!spmd
  BY DEF spmd, S4!spmd
<1> QED BY <1>1, <1>3, <1>4, EvenAnnotated, S4!StepData

-----------------------------------------------------------------------------
(* The product, with an order the number of processes does not divide.     *)

\* The rows and the elements of the vector a process gets, the vector put
\* together, and its results.
UnevenRows(p)    == [i \in 0 .. Uneven!nlocal * UnevenOrder - 1 |-> p * (Uneven!nlocal * UnevenOrder) + i]
UnevenVector(p)  == [i \in 0 .. Uneven!nlocal - 1 |-> p * Uneven!nlocal + i]
UnevenVec(j)     == IF j < Uneven!Filled THEN j ELSE Uneven!Junk
UnevenElement(i) == {<<i * UnevenOrder + j, UnevenVec(j)>> : j \in 0 .. UnevenOrder - 1}
UnevenResult(p)  == [i \in Uneven!Local |-> UnevenElement(p * Uneven!nlocal + i)]

UnevenReady(k, p, d, m) ==
  /\ k = 1 => m = <<>>
  /\ k = 2 => m = <<UnevenRows(p)>>
  /\ k = 3 => m = <<UnevenRows(p), UnevenVector(p)>>
  /\ k = 4 => m = <<UnevenRows(p), UnevenVector(p), UnevenResult(p)>>
  /\ k = 5 /\ p = 0 => \A i \in 0 .. Uneven!Filled - 1 : m[4][i] = UnevenElement(i)

UnevenGave(k, p, d, x) ==
  /\ k = 1 /\ p = 0 => x = d.matrix
  /\ k = 2 /\ p = 0 => x = d.vector
  /\ k = 3 => x = UnevenVector(p)
  /\ k = 4 => x = UnevenResult(p)

S5 == INSTANCE SpmdProofs WITH
  num_procs <- Processes, Stages <- Uneven!Stages, Kind <- Uneven!Kind,
  Input <- Uneven!Input, Give <- Uneven!Give, Take <- Uneven!Take,
  Overruns <- Uneven!Overruns, Ready <- UnevenReady, Gave <- UnevenGave

LEMMA UnevenSizes ==
  /\ Uneven!nlocal \in Nat /\ Processes * Uneven!nlocal = Uneven!Filled
  /\ Uneven!Filled \in Nat /\ Uneven!Filled <= UnevenOrder
<1>1. Uneven!nlocal \in Nat
  BY MpiAssumption DEF Uneven!nlocal
<1>2. ASSUME NEW n \in Nat, n = Uneven!nlocal
      PROVE  Processes * n = n * Processes /\ n * Processes <= UnevenOrder /\ n * Processes \in Nat
  BY <1>2, MpiAssumption DEF Uneven!nlocal
<1> QED BY <1>1, <1>2 DEF Uneven!Filled

LEMMA UnevenProduct ==
  ASSUME NEW p \in S5!Rank, NEW fb, \A j \in 0 .. UnevenOrder - 1 : fb[j] = UnevenVec(j)
  PROVE  Uneven!Product(UnevenRows(p), fb) = UnevenResult(p)
<1>1. ASSUME NEW i \in Uneven!Local, NEW j \in 0 .. UnevenOrder - 1
      PROVE  UnevenRows(p)[i * UnevenOrder + j] = (p * Uneven!nlocal + i) * UnevenOrder + j
  <2>1. i * UnevenOrder + j \in 0 .. Uneven!nlocal * UnevenOrder - 1
    BY InPart, UnevenSizes, MpiAssumption DEF Uneven!Local
  <2>2. UnevenRows(p)[i * UnevenOrder + j] = p * (Uneven!nlocal * UnevenOrder) + (i * UnevenOrder + j)
    BY <2>1 DEF UnevenRows
  <2>3. p \in Nat /\ i \in Nat /\ j \in Nat /\ Uneven!nlocal \in Nat /\ UnevenOrder \in Nat
    BY UnevenSizes, MpiAssumption DEF S5!Rank, Uneven!Local
  <2> QED BY <2>2, <2>3, Distributes
<1>2. ASSUME NEW i \in Uneven!Local
      PROVE  {<<UnevenRows(p)[i * UnevenOrder + j], fb[j]>> : j \in 0 .. UnevenOrder - 1} =
               UnevenElement(p * Uneven!nlocal + i)
  BY <1>1 DEF UnevenElement
<1> QED BY <1>2 DEF Uneven!Product, UnevenResult

\* The parts together, of which element i of all is part of one.
LEMMA UnevenTogether ==
  ASSUME NEW g, NEW unset, NEW i \in 0 .. Uneven!Filled - 1
  PROVE  \E q \in S5!Rank, r \in Uneven!Local :
           i = q * Uneven!nlocal + r /\ Uneven!Together(g, unset)[i] = g[q][r]
<1>1. i \in 0 .. Processes * Uneven!nlocal - 1
  BY UnevenSizes
<1>2. Uneven!nlocal \in Nat /\ Processes \in Nat
  BY UnevenSizes, MpiAssumption
<1>3. PICK q \in 0 .. Processes - 1, r \in 0 .. Uneven!nlocal - 1 :
        i = q * Uneven!nlocal + r /\ i \div Uneven!nlocal = q /\ i % Uneven!nlocal = r
  BY <1>1, <1>2, PartOf
<1>4. i < Uneven!Filled /\ i \in 0 .. UnevenOrder - 1
  BY UnevenSizes, MpiAssumption
<1>5. Uneven!Together(g, unset)[i] = g[q][r]
  BY <1>3, <1>4 DEF Uneven!Together
<1> QED BY <1>3, <1>5 DEF S5!Rank, Uneven!Local

LEMMA UnevenAnnotated == S5!Annotated
<1> USE DEF Uneven!Stages
<1>1. \A p \in S5!Rank, d \in Uneven!Input : UnevenReady(1, p, d, <<>>)
  BY DEF UnevenReady
<1>2. ASSUME NEW k \in 1 .. 4, NEW p \in S5!Rank, NEW d \in Uneven!Input, NEW m,
             UnevenReady(k, p, d, m)
      PROVE  UnevenGave(k, p, d, Uneven!Give(k, p, d, m))
  BY <1>2 DEF UnevenReady, UnevenGave, Uneven!Give
<1>3. ASSUME NEW k \in 1 .. 4, NEW p \in S5!Rank, NEW d \in Uneven!Input, NEW m, NEW g,
             UnevenReady(k, p, d, m),
             DOMAIN g \subseteq S5!Rank, S5!Enough(k, p, DOMAIN g),
             \A q \in DOMAIN g : UnevenGave(k, q, d, g[q]),
             NEW after \in Uneven!Take(k, p, m, g)
      PROVE  UnevenReady(k + 1, p, d, after)
  <2>1. /\ d.matrix = [i \in 0 .. UnevenOrder * UnevenOrder - 1 |-> i]
        /\ d.vector = [j \in 0 .. UnevenOrder - 1 |-> j]
    BY DEF Uneven!Input
  <2>2. CASE k = 1
    <3>1. g[0] = d.matrix
      BY <1>3, <2>2 DEF S5!Enough, Uneven!Kind, UnevenGave
    <3>2. after = Append(m, Uneven!Part(g[0], p, Uneven!nlocal * UnevenOrder)) /\ m = <<>>
      BY <1>3, <2>2 DEF Uneven!Take, UnevenReady
    <3>3. ASSUME NEW i \in 0 .. Uneven!nlocal * UnevenOrder - 1
          PROVE  p * (Uneven!nlocal * UnevenOrder) + i \in 0 .. UnevenOrder * UnevenOrder - 1
      <4>1. Uneven!nlocal * UnevenOrder \in Nat /\ Processes \in Nat
        BY UnevenSizes, MpiAssumption
      <4>2. p * (Uneven!nlocal * UnevenOrder) + i
              \in 0 .. Processes * (Uneven!nlocal * UnevenOrder) - 1
        BY <4>1, InPart DEF S5!Rank
      <4>3. /\ Processes * (Uneven!nlocal * UnevenOrder) = Uneven!Filled * UnevenOrder
            /\ Uneven!Filled * UnevenOrder <= UnevenOrder * UnevenOrder
            /\ Uneven!Filled * UnevenOrder \in Nat /\ UnevenOrder * UnevenOrder \in Nat
        <5>1. \A a, b, c \in Nat : a * (b * c) = (a * b) * c
          OBVIOUS
        <5> QED BY <5>1, UnevenSizes, Grows, MpiAssumption
      <4> QED BY <4>2, <4>3
    <3>4. Uneven!Part(g[0], p, Uneven!nlocal * UnevenOrder) = UnevenRows(p)
      BY <2>1, <3>1, <3>3 DEF Uneven!Part, UnevenRows
    <3>5. after = <<UnevenRows(p)>>
      BY <3>2, <3>4, Appended
    <3> QED BY <2>2, <3>5 DEF UnevenReady
  <2>3. CASE k = 2
    <3>1. g[0] = d.vector
      BY <1>3, <2>3 DEF S5!Enough, Uneven!Kind, UnevenGave
    <3>2. after = Append(m, Uneven!Part(g[0], p, Uneven!nlocal)) /\ m = <<UnevenRows(p)>>
      BY <1>3, <2>3 DEF Uneven!Take, UnevenReady
    <3>3. ASSUME NEW i \in 0 .. Uneven!nlocal - 1
          PROVE  p * Uneven!nlocal + i \in 0 .. UnevenOrder - 1
      <4>1. p * Uneven!nlocal + i \in 0 .. Processes * Uneven!nlocal - 1
        BY UnevenSizes, MpiAssumption, InPart DEF S5!Rank
      <4> QED BY <4>1, UnevenSizes, MpiAssumption
    <3>4. Uneven!Part(g[0], p, Uneven!nlocal) = UnevenVector(p)
      BY <2>1, <3>1, <3>3 DEF Uneven!Part, UnevenVector
    <3>5. after = <<UnevenRows(p), UnevenVector(p)>>
      BY <3>2, <3>4, Appended
    <3> QED BY <2>3, <3>5 DEF UnevenReady
  <2>4. CASE k = 3
    <3>1. DOMAIN g = S5!Rank /\ \A q \in S5!Rank : g[q] = UnevenVector(q)
      BY <1>3, <2>4 DEF S5!Enough, Uneven!Kind, UnevenGave
    <3>2. /\ after = Append(m, Uneven!Product(m[1], Uneven!Together(g, Uneven!Junk)))
          /\ m = <<UnevenRows(p), UnevenVector(p)>>
      BY <1>3, <2>4 DEF Uneven!Take, UnevenReady
    <3>3. ASSUME NEW i \in 0 .. UnevenOrder - 1
          PROVE  Uneven!Together(g, Uneven!Junk)[i] = UnevenVec(i)
      <4>1. CASE i < Uneven!Filled
        <5>1. i \in 0 .. Uneven!Filled - 1
          BY <4>1, UnevenSizes
        <5>2. PICK q \in S5!Rank, r \in Uneven!Local :
                i = q * Uneven!nlocal + r /\ Uneven!Together(g, Uneven!Junk)[i] = g[q][r]
          BY <5>1, UnevenTogether
        <5> QED BY <3>1, <4>1, <5>2 DEF UnevenVector, UnevenVec, Uneven!Local
      <4>2. CASE ~ (i < Uneven!Filled)
        BY <4>2 DEF Uneven!Together, UnevenVec
      <4> QED BY <4>1, <4>2
    <3>4. Uneven!Product(UnevenRows(p), Uneven!Together(g, Uneven!Junk)) = UnevenResult(p)
      BY <3>3, UnevenProduct
    <3>5. after = <<UnevenRows(p), UnevenVector(p), UnevenResult(p)>>
      BY <3>2, <3>4, Appended
    <3> QED BY <2>4, <3>5 DEF UnevenReady
  <2>5. CASE k = 4
    <3>1. SUFFICES ASSUME p = 0, NEW i \in 0 .. Uneven!Filled - 1
          PROVE  after[4][i] = UnevenElement(i)
      BY <2>5 DEF UnevenReady
    <3>2. DOMAIN g = S5!Rank /\ \A q \in S5!Rank : g[q] = UnevenResult(q)
      BY <1>3, <2>5, <3>1 DEF S5!Enough, Uneven!Kind, UnevenGave
    <3>3. /\ after = Append(m, Uneven!Together(g, {<<Uneven!Junk, Uneven!Junk>>}))
          /\ m = <<UnevenRows(p), UnevenVector(p), UnevenResult(p)>>
      BY <1>3, <2>5, <3>1 DEF Uneven!Take, UnevenReady
    <3>4. after[4] = Uneven!Together(g, {<<Uneven!Junk, Uneven!Junk>>})
      BY <3>3, Appended
    <3>5. PICK q \in S5!Rank, r \in Uneven!Local :
            /\ i = q * Uneven!nlocal + r
            /\ Uneven!Together(g, {<<Uneven!Junk, Uneven!Junk>>})[i] = g[q][r]
      BY UnevenTogether
    <3> QED BY <3>2, <3>4, <3>5 DEF UnevenResult
  <2> QED BY <2>2, <2>3, <2>4, <2>5
<1> QED BY <1>1, <1>2, <1>3 DEF S5!Annotated

LEMMA UnevenProps ==
  ASSUME S5!Types, S5!DataOK
  PROVE  Uneven!StageOK /\ Uneven!ProductRight
<1> USE DEF Uneven!Stages
<1>1. Uneven!Rank = S5!Rank /\ 0 \in S5!Rank
  BY MpiAssumption DEF Uneven!Rank, S5!Rank
<1>2. Uneven!StageOK
  <2>1. S5!StageOK
    BY DEF S5!Types
  <2> QED BY <1>1, <2>1 DEF Uneven!StageOK, S5!StageOK, Uneven!Done, S5!Done
<1>3. ASSUME NEW p \in S5!Rank, Uneven!Done(p) PROVE UnevenReady(5, p, input, mem[p])
  <2>1. stage[p] = 5
    BY <1>1, <1>2, <1>3 DEF Uneven!StageOK, Uneven!Done
  <2> QED BY <2>1 DEF S5!DataOK
<1>4. Uneven!ProductRight
  BY <1>1, <1>3 DEF UnevenReady, UnevenElement, UnevenVec, Uneven!ProductRight
<1> QED BY <1>2, <1>4

LEMMA UnevenInit ==
  ASSUME Uneven!Init
  PROVE  S5!Types /\ S5!DataOK
<1>1. S5!Init /\ Uneven!Stages \in Nat
  BY DEF Uneven!Init, S5!Init, Uneven!Rank, S5!Rank, Uneven!Stages
<1> QED BY <1>1, UnevenAnnotated, S5!InitTypes, S5!InitData

LEMMA UnevenNext ==
  ASSUME S5!Types, S5!DataOK, Uneven!Step \/ UNCHANGED spmd
  PROVE  S5!Types' /\ S5!DataOK'
<1>1. Uneven!Stages \in Nat
  BY DEF Uneven!Stages
<1>2. ASSUME NEW p PROVE (Uneven!Enter(p) => S5!Enter(p)) /\ (Uneven!Return(p) => S5!Return(p))
  BY DEF Uneven!Enter, S5!Enter, Uneven!Return, S5!Return, Uneven!Entered, S5!Entered,
     Uneven!Completes, S5!Completes, Uneven!Rank, S5!Rank
<1>3. Uneven!Step => S5!Step
  BY <1>2 DEF Uneven!Step, S5!Step, Uneven!Rank, S5!Rank
<1>4. UNCHANGED spmd => UNCHANGED S5!spmd
  BY DEF spmd, S5!spmd
<1> QED BY <1>1, <1>3, <1>4, UnevenAnnotated, S5!StepData

-----------------------------------------------------------------------------
(* The tour of the collective calls.                                       *)

\* 1 + ... + n, and 0 + ... + (n - 1).
Triangle(n) == (n * (n + 1)) \div 2
Below(n)    == (n * (n - 1)) \div 2

LEMMA TriangleStep ==
  ASSUME NEW n \in Nat
  PROVE  /\ Triangle(n) \in Nat /\ Triangle(n + 1) = Triangle(n) + (n + 1)
         /\ Below(n) \in Nat /\ Below(n + 1) = Below(n) + n
<1>1. (n + 1) * ((n + 1) + 1) = n * (n + 1) + 2 * (n + 1)
  OBVIOUS
<1>2. (n + 1) * ((n + 1) - 1) = n * (n - 1) + 2 * n
  OBVIOUS
<1>3. n * (n + 1) \in Nat /\ n * (n - 1) \in Nat
  <2>1. CASE n = 0
    BY <2>1
  <2>2. CASE n # 0
    <3>1. n - 1 \in Nat /\ n + 1 \in Nat
      BY <2>2
    <3>2. \A a, b \in Nat : a * b \in Nat
      OBVIOUS
    <3> QED BY <3>1, <3>2
  <2> QED BY <2>1, <2>2
<1>4. \A x \in Nat : x \div 2 \in Nat /\ (x + 2 * (n + 1)) \div 2 = x \div 2 + (n + 1)
                     /\ (x + 2 * n) \div 2 = x \div 2 + n
  OBVIOUS
<1> QED BY <1>1, <1>2, <1>3, <1>4 DEF Triangle, Below

LEMMA TriangleGrows ==
  ASSUME NEW a \in Nat, NEW b \in Nat, a <= b
  PROVE  Triangle(a) <= Triangle(b)
<1>1. PICK x \in Nat, y \in Nat : x = a * (a + 1) /\ y = b * (b + 1) /\ x <= y
  <2>1. a * (a + 1) <= b * (a + 1) /\ a * (a + 1) \in Nat /\ b * (a + 1) \in Nat
    BY Grows
  <2>2. (a + 1) * b <= (b + 1) * b /\ (b + 1) * b \in Nat
    BY Grows
  <2>3. (a + 1) * b = b * (a + 1) /\ (b + 1) * b = b * (b + 1)
    OBVIOUS
  <2> QED BY <2>1, <2>2, <2>3
<1>2. x \div 2 <= y \div 2
  BY <1>1
<1> QED BY <1>1, <1>2 DEF Triangle

\* f sums up s.
Sums(f, s, n) == f[0] = 0 /\ \A i \in 1 .. n : f[i] = f[i - 1] + s[i - 1]

LEMMA SameSums ==
  ASSUME NEW n \in Nat, NEW f, NEW h, NEW s, Sums(f, s, n), Sums(h, s, n)
  PROVE  \A i \in 0 .. n : f[i] = h[i]
<1> DEFINE Bad == {i \in 0 .. n : f[i] # h[i]}
<1>1. SUFFICES ASSUME Bad # {} PROVE FALSE
  OBVIOUS
<1>2. Bad \subseteq Nat
  OBVIOUS
<1>3. PICK i \in Bad : \A j \in Bad : i <= j
  <2> HIDE DEF Bad
  <2> QED BY <1>1, <1>2, LeastNumber
<1>4. i \in 1 .. n /\ f[i] # h[i]
  BY DEF Sums
<1>5. i - 1 \in 0 .. n /\ i - 1 \notin Bad
  <2> HIDE DEF Bad
  <2> QED BY <1>3, <1>4
<1>6. f[i - 1] = h[i - 1]
  BY <1>5
<1> QED BY <1>4, <1>6 DEF Sums

LEMMA Elements ==
  \A i \in 0 .. Tourists : Tour!total_elements[i] = Triangle(i)
<1> DEFINE step(f) == [i \in 0 .. Tourists |->
                         IF i = 0 THEN 0 ELSE f[i - 1] + Tour!receiveCounts(i - 1)]
           h == [i \in 0 .. Tourists |-> Triangle(i)]
           s == [i \in 0 .. Tourists - 1 |-> i + 1]
<1>1. h[0] = 0 /\ \A i \in 1 .. Tourists : h[i] = h[i - 1] + s[i - 1]
  <2>1. Triangle(0) = 0
    BY DEF Triangle
  <2>2. ASSUME NEW i \in 1 .. Tourists PROVE Triangle(i) = Triangle(i - 1) + i
    <3>1. i - 1 \in Nat /\ (i - 1) + 1 = i
      OBVIOUS
    <3> QED BY <3>1, TriangleStep
  <2> QED BY <2>1, <2>2, MpiAssumption
<1>2. h = step(h)
  <2>1. \A i \in 1 .. Tourists : s[i - 1] = Tour!receiveCounts(i - 1)
    BY MpiAssumption DEF Tour!receiveCounts
  <2>2. h = [i \in 0 .. Tourists |-> h[i]]
    OBVIOUS
  <2> HIDE DEF h, s
  <2>3. \A i \in 0 .. Tourists : i # 0 => i \in 1 .. Tourists
    OBVIOUS
  <2>4. \A i \in 0 .. Tourists : h[i] = step(h)[i]
    BY <1>1, <2>1, <2>3
  <2> QED BY <2>2, <2>4
<1>3. Tour!total_elements = step(Tour!total_elements)
  <2>1. Tour!total_elements = CHOOSE f : f = step(f)
    BY DEF Tour!total_elements
  <2> QED BY <1>2, <2>1
<1>4. /\ Tour!total_elements[0] = 0
      /\ \A i \in 1 .. Tourists :
           Tour!total_elements[i] = Tour!total_elements[i - 1] + s[i - 1]
  BY <1>3, MpiAssumption DEF Tour!receiveCounts
<1>5. \A i \in 0 .. Tourists : Tour!total_elements[i] = h[i]
  <2> HIDE DEF s, h
  <2>1. Tourists \in Nat
    BY MpiAssumption
  <2>2. Sums(h, s, Tourists) /\ Sums(Tour!total_elements, s, Tourists)
    BY <1>1, <1>4 DEF Sums
  <2> QED BY <2>1, <2>2, SameSums
<1> QED BY <1>5

\* What process 0 has gathered: the part of each process where it belongs.
Gathered(b) ==
  \A q \in 0 .. Tourists - 1, i \in 0 .. Tourists - 1 : \A x :
    i <= q /\ x = Triangle(q) + i => b[x] = 10 * q + i

Sum(p) == Tourists * (p + 1) + Below(Tourists)

TourReady(k, p, d, m) ==
  /\ k = 1 => m = <<>>
  /\ k = 2 => m = <<2 * p>>
  /\ k = 3 => \E b : m = <<2 * p, b>> /\ (p = 0 => Gathered(b))
  /\ k = 4 => \E b : m = <<2 * p, b, Sum(p)>> /\ (p = 0 => Gathered(b))

TourGave(k, p, d, x) ==
  /\ k = 1 /\ p = 0 => x = d
  /\ k = 2 => x = [i \in 0 .. p |-> p * 10 + i]
  /\ k = 3 => x = [i \in 0 .. Tourists - 1 |-> p + i + 1]

S6 == INSTANCE SpmdProofs WITH
  num_procs <- Tourists, Stages <- Tour!Stages, Kind <- Tour!Kind,
  Input <- Tour!Input, Give <- Tour!Give, Take <- Tour!Take,
  Overruns <- Tour!Overruns, Ready <- TourReady, Gave <- TourGave

\* The last process whose part begins at an element or before.
Whose(x) == Tour!Max({r \in 0 .. Tourists - 1 : Tour!displs2(r) <= x})

\* The elements of the part of process q lie between those of the parts around it.
LEMMA WhoseElement ==
  ASSUME NEW q \in 0 .. Tourists - 1, NEW i \in 0 .. q
  PROVE  /\ Triangle(q) + i \in 0 .. Tour!displs2(Tourists) - 1
         /\ Whose(Triangle(q) + i) = q
<1> DEFINE S == {r \in 0 .. Tourists - 1 : Tour!displs2(r) <= Triangle(q) + i}
<1>1. Tourists \in Nat /\ q \in Nat /\ q + 1 \in Nat
  BY MpiAssumption
<1>2. \A r \in 0 .. Tourists : Tour!displs2(r) = Triangle(r) /\ Triangle(r) \in Nat
  BY <1>1, Elements, TriangleStep DEF Tour!displs2
<1>3. Triangle(q + 1) = Triangle(q) + (q + 1) /\ Triangle(q) \in Nat
  BY <1>1, TriangleStep
<1>4. ASSUME NEW r \in 0 .. Tourists, r > q PROVE Triangle(q) + i < Triangle(r)
  <2>1. q + 1 <= r /\ r \in Nat
    BY <1>1, <1>4
  <2>2. Triangle(q + 1) <= Triangle(r)
    BY <1>1, <2>1, TriangleGrows
  <2> QED BY <1>2, <1>3, <2>2
<1>5. q \in S
  BY <1>1, <1>2, <1>3
<1>6. \A r \in S : r <= q
  BY <1>1, <1>2, <1>3, <1>4
<1>7. S \in SUBSET Int
  OBVIOUS
<1> HIDE DEF S
<1>8. Tour!Max(S) = q
  <2>1. Second!Max(S) = q
    BY <1>5, <1>6, <1>7, MaxIs DEF Top
  <2> QED BY <2>1 DEF Tour!Max, Second!Max
<1>9. Triangle(q) + i \in 0 .. Tour!displs2(Tourists) - 1
  BY <1>1, <1>2, <1>3, <1>4
<1> QED BY <1>8, <1>9 DEF S, Whose

LEMMA TourGathers ==
  ASSUME NEW g, \A q \in 0 .. Tourists - 1 : g[q] = [i \in 0 .. q |-> q * 10 + i]
  PROVE  Gathered(Tour!receiveBuffer2(g))
<1>1. SUFFICES ASSUME NEW q \in 0 .. Tourists - 1, NEW i \in 0 .. q,
                      NEW x, x = Triangle(q) + i
      PROVE  Tour!receiveBuffer2(g)[x] = 10 * q + i
  BY MpiAssumption DEF Gathered
<1>2. x \in 0 .. Tour!displs2(Tourists) - 1 /\ Whose(x) = q
  BY <1>1, WhoseElement
<1>3. Tour!receiveBuffer2(g)[x] = g[Whose(x)][x - Tour!displs2(Whose(x))]
  BY <1>2 DEF Tour!receiveBuffer2, Whose
<1>4. x - Tour!displs2(q) = i
  <2>1. Tour!displs2(q) = Triangle(q) /\ Triangle(q) \in Nat
    BY Elements, TriangleStep, MpiAssumption DEF Tour!displs2
  <2> QED BY <1>1, <2>1
<1>5. g[q][i] = q * 10 + i
  OBVIOUS
<1> QED BY <1>2, <1>3, <1>4, <1>5

LEMMA TourReduces ==
  ASSUME NEW p \in 0 .. Tourists - 1, NEW g,
         \A q \in 0 .. Tourists - 1 : g[q] = [i \in 0 .. Tourists - 1 |-> q + i + 1]
  PROVE  Tour!Reduced(g, p) = Sum(p)
<1> DEFINE step(f) == [n \in 0 .. Tourists |-> IF n = 0 THEN 0 ELSE f[n - 1] + g[n - 1][p]]
           h == [n \in 0 .. Tourists |-> n * (p + 1) + Below(n)]
           s == [q \in 0 .. Tourists - 1 |-> g[q][p]]
           sum == CHOOSE f : f = step(f)
<1>1. Tourists \in Nat
  BY MpiAssumption
<1>2. h[0] = 0 /\ \A n \in 1 .. Tourists : h[n] = h[n - 1] + s[n - 1]
  <2>1. 0 * (p + 1) + Below(0) = 0
    BY DEF Below
  <2>2. ASSUME NEW n \in 1 .. Tourists
        PROVE  n * (p + 1) + Below(n) = ((n - 1) * (p + 1) + Below(n - 1)) + g[n - 1][p]
    <3>1. n - 1 \in 0 .. Tourists - 1 /\ n - 1 \in Nat /\ (n - 1) + 1 = n /\ p \in Nat
      BY <1>1
    <3>2. Below(n) = Below(n - 1) + (n - 1) /\ Below(n - 1) \in Nat
      BY <3>1, TriangleStep
    <3>3. g[n - 1][p] = (n - 1) + p + 1
      BY <3>1
    <3>4. n * (p + 1) = (n - 1) * (p + 1) + (p + 1) /\ (n - 1) * (p + 1) \in Nat
      BY <3>1
    <3> QED BY <3>1, <3>2, <3>3, <3>4
  <2> QED BY <1>1, <2>1, <2>2
<1>3. h = step(h)
  <2>1. \A n \in 1 .. Tourists : s[n - 1] = g[n - 1][p]
    BY <1>1
  <2>2. h = [n \in 0 .. Tourists |-> h[n]]
    OBVIOUS
  <2> HIDE DEF h, s
  <2>3. \A n \in 0 .. Tourists : n # 0 => n \in 1 .. Tourists
    OBVIOUS
  <2>4. \A n \in 0 .. Tourists : h[n] = step(h)[n]
    BY <1>2, <2>1, <2>3
  <2> QED BY <2>2, <2>4
<1>4. sum = step(sum)
  <2> HIDE DEF h, step
  <2> QED BY <1>3
<1>5. sum[0] = 0 /\ \A n \in 1 .. Tourists : sum[n] = sum[n - 1] + s[n - 1]
  <2> HIDE DEF sum
  <2> QED BY <1>1, <1>4
<1>6. sum[Tourists] = h[Tourists]
  <2> HIDE DEF sum, h, s
  <2>1. \A n \in 0 .. Tourists : sum[n] = h[n]
    <3>1. Sums(sum, s, Tourists) /\ Sums(h, s, Tourists)
      BY <1>2, <1>5 DEF Sums
    <3> QED BY <1>1, <3>1, SameSums
  <2> QED BY <1>1, <2>1
<1>7. Tour!Reduced(g, p) = sum[Tourists]
  BY DEF Tour!Reduced
<1> HIDE DEF sum
<1> QED BY <1>1, <1>6, <1>7 DEF Sum

LEMMA TourAnnotated == S6!Annotated
<1> USE DEF Tour!Stages
<1>1. S6!Rank = 0 .. Tourists - 1 /\ Tourists \in Nat
  BY MpiAssumption DEF S6!Rank
<1>2. \A p \in S6!Rank, d \in Tour!Input : TourReady(1, p, d, <<>>)
  BY DEF TourReady
<1>3. ASSUME NEW k \in 1 .. 3, NEW p \in S6!Rank, NEW d \in Tour!Input, NEW m,
             TourReady(k, p, d, m)
      PROVE  TourGave(k, p, d, Tour!Give(k, p, d, m))
  BY DEF TourGave, Tour!Give
<1>4. ASSUME NEW k \in 1 .. 3, NEW p \in S6!Rank, NEW d \in Tour!Input, NEW m, NEW g,
             TourReady(k, p, d, m),
             DOMAIN g \subseteq S6!Rank, S6!Enough(k, p, DOMAIN g),
             \A q \in DOMAIN g : TourGave(k, q, d, g[q]),
             NEW after \in Tour!Take(k, p, m, g)
      PROVE  TourReady(k + 1, p, d, after)
  <2>1. CASE k = 1
    <3>1. g[0] = d
      BY <1>4, <2>1 DEF S6!Enough, Tour!Kind, TourGave
    <3>2. after = <<g[0][p * 2]>>
      BY <2>1 DEF Tour!Take, Tour!displs, Tour!stride
    <3>3. p * 2 \in 0 .. Tourists * 2 - 1 /\ p * 2 = 2 * p
      BY <1>1
    <3>4. d[p * 2] = p * 2
      BY <3>3 DEF Tour!Input, Tour!stride
    <3> QED BY <2>1, <3>1, <3>2, <3>3, <3>4 DEF TourReady
  <2>2. CASE k = 2
    <3>1. after = Append(m, IF p = 0 THEN Tour!receiveBuffer2(g) ELSE <<>>) /\ m = <<2 * p>>
      BY <1>4, <2>2 DEF Tour!Take, TourReady
    <3>2. after = <<2 * p, IF p = 0 THEN Tour!receiveBuffer2(g) ELSE <<>> >>
      BY <3>1, Appended
    <3>3. ASSUME p = 0 PROVE Gathered(Tour!receiveBuffer2(g))
      <4>1. \A q \in 0 .. Tourists - 1 : g[q] = [i \in 0 .. q |-> q * 10 + i]
        BY <1>1, <1>4, <2>2, <3>3 DEF S6!Enough, Tour!Kind, TourGave
      <4> QED BY <4>1, TourGathers
    <3> QED BY <2>2, <3>2, <3>3 DEF TourReady
  <2>3. CASE k = 3
    <3>1. PICK b : m = <<2 * p, b>> /\ (p = 0 => Gathered(b))
      BY <1>4, <2>3 DEF TourReady
    <3>2. after = <<2 * p, b, Tour!Reduced(g, p)>>
      BY <2>3, <3>1, Appended DEF Tour!Take
    <3>3. \A q \in 0 .. Tourists - 1 : g[q] = [i \in 0 .. Tourists - 1 |-> q + i + 1]
      BY <1>1, <1>4, <2>3 DEF S6!Enough, Tour!Kind, TourGave
    <3>4. Tour!Reduced(g, p) = Sum(p)
      BY <1>1, <3>3, TourReduces
    <3> QED BY <2>3, <3>1, <3>2, <3>4 DEF TourReady
  <2> QED BY <2>1, <2>2, <2>3
<1> QED BY <1>2, <1>3, <1>4 DEF S6!Annotated

LEMMA TourProps ==
  ASSUME S6!Types, S6!DataOK
  PROVE  Tour!StageOK /\ Tour!Delivered
<1> USE DEF Tour!Stages
<1>1. Tour!Rank = S6!Rank /\ 0 \in S6!Rank
  BY MpiAssumption DEF Tour!Rank, S6!Rank
<1>2. Tour!StageOK
  <2>1. S6!StageOK
    BY DEF S6!Types
  <2> QED BY <1>1, <2>1 DEF Tour!StageOK, S6!StageOK, Tour!Done, S6!Done
<1>3. ASSUME NEW p \in S6!Rank, Tour!Done(p) PROVE TourReady(4, p, input, mem[p])
  <2>1. stage[p] = 4
    BY <1>1, <1>2, <1>3 DEF Tour!StageOK, Tour!Done
  <2> QED BY <2>1 DEF S6!DataOK
<1>4. Tour!Delivered
  <2>1. ASSUME NEW p \in S6!Rank, Tour!Done(p)
        PROVE  /\ mem[p][1] = 2 * p
               /\ mem[p][3] = Tourists * (p + 1) + (Tourists * (Tourists - 1)) \div 2
               /\ p = 0 => Gathered(mem[p][2])
    <3>1. PICK b : mem[p] = <<2 * p, b, Sum(p)>> /\ (p = 0 => Gathered(b))
      BY <1>3, <2>1 DEF TourReady
    <3>2. mem[p][1] = 2 * p /\ mem[p][2] = b /\ mem[p][3] = Sum(p)
      BY <3>1
    <3> QED BY <3>1, <3>2 DEF Sum, Below
  <2>2. ASSUME Tour!Done(0), NEW p \in S6!Rank, NEW i \in 0 .. Tourists - 1, i <= p
        PROVE  mem[0][2][(p * (p + 1)) \div 2 + i] = 10 * p + i
    <3>1. Gathered(mem[0][2])
      BY <1>1, <2>1, <2>2
    <3> QED BY <2>2, <3>1 DEF Gathered, Triangle, S6!Rank
  <2> QED BY <1>1, <2>1, <2>2 DEF Tour!Delivered
<1> QED BY <1>2, <1>4

LEMMA TourInit ==
  ASSUME Tour!Init
  PROVE  S6!Types /\ S6!DataOK
<1>1. S6!Init /\ Tour!Stages \in Nat
  BY DEF Tour!Init, S6!Init, Tour!Rank, S6!Rank, Tour!Stages
<1> QED BY <1>1, TourAnnotated, S6!InitTypes, S6!InitData

LEMMA TourNext ==
  ASSUME S6!Types, S6!DataOK, Tour!Step \/ UNCHANGED spmd
  PROVE  S6!Types' /\ S6!DataOK'
<1>1. Tour!Stages \in Nat
  BY DEF Tour!Stages
<1>2. ASSUME NEW p PROVE (Tour!Enter(p) => S6!Enter(p)) /\ (Tour!Return(p) => S6!Return(p))
  BY DEF Tour!Enter, S6!Enter, Tour!Return, S6!Return, Tour!Entered, S6!Entered,
     Tour!Completes, S6!Completes, Tour!Rank, S6!Rank
<1>3. Tour!Step => S6!Step
  BY <1>2 DEF Tour!Step, S6!Step, Tour!Rank, S6!Rank
<1>4. UNCHANGED spmd => UNCHANGED S6!spmd
  BY DEF spmd, S6!spmd
<1> QED BY <1>1, <1>3, <1>4, TourAnnotated, S6!StepData

-----------------------------------------------------------------------------
(* Whichever program is run.                                               *)

MpiInv ==
  /\ program \in {"relay race", "second max", "vector search", "even product",
                  "uneven product", "tour"}
  /\ program = "relay race" => RaceInv
  /\ program = "second max" => S2!Types /\ S2!DataOK
  /\ program = "vector search" => S3!Types /\ S3!DataOK
  /\ program = "even product" => S4!Types /\ S4!DataOK
  /\ program = "uneven product" => S5!Types /\ S5!DataOK
  /\ program = "tour" => S6!Types /\ S6!DataOK

LEMMA MpiInit == Init => MpiInv
  BY RaceInit, SecondInit, SearchInit, EvenInit, UnevenInit, TourInit DEF Init, MpiInv

LEMMA MpiNext == MpiInv /\ [Next]_vars => MpiInv'
<1>1. SUFFICES ASSUME MpiInv, [Next]_vars PROVE MpiInv'
  OBVIOUS
<1>2. /\ program' = program
      /\ program = "relay race" => Relay!Step \/ UNCHANGED relay
      /\ program = "second max" => Second!Step \/ UNCHANGED spmd
      /\ program = "vector search" => Search!Step \/ UNCHANGED spmd
      /\ program = "even product" => Even!Step \/ UNCHANGED spmd
      /\ program = "uneven product" => Uneven!Step \/ UNCHANGED spmd
      /\ program = "tour" => Tour!Step \/ UNCHANGED spmd
  BY <1>1 DEF Next, Step, vars
<1>3. CASE program = "relay race"
  BY <1>1, <1>2, <1>3, RaceNext, RaceStutter DEF MpiInv
<1>4. CASE program = "second max"
  BY <1>1, <1>2, <1>4, SecondNext DEF MpiInv
<1>5. CASE program = "vector search"
  BY <1>1, <1>2, <1>5, SearchNext DEF MpiInv
<1>6. CASE program = "even product"
  BY <1>1, <1>2, <1>6, EvenNext DEF MpiInv
<1>7. CASE program = "uneven product"
  BY <1>1, <1>2, <1>7, UnevenNext DEF MpiInv
<1>8. CASE program = "tour"
  BY <1>1, <1>2, <1>8, TourNext DEF MpiInv
<1> QED BY <1>1, <1>3, <1>4, <1>5, <1>6, <1>7, <1>8 DEF MpiInv

THEOREM MpiInvariant == Spec => []MpiInv
  BY MpiInit, MpiNext, PTL DEF Spec

(***************************************************************************)
(* The variables of whichever program is run keep their types, for any     *)
(* number of processes, lengths and values.                                *)
(***************************************************************************)
THEOREM TypeCorrect == Spec => []TypeOK
<1>1. MpiInv => TypeOK
  BY SecondProps, SearchProps, EvenProps, UnevenProps, TourProps
  DEF MpiInv, TypeOK, RaceInv
<1> QED BY <1>1, MpiInvariant, PTL

(***************************************************************************)
(* Each team of the race has one baton, which its runners get in order     *)
(* (replay_race.c:85-88, 132-137), for any number of processes.            *)
(***************************************************************************)
THEOREM BatonStays == Spec => []BatonKept
<1>1. MpiInv => BatonKept
  BY RaceKeeps DEF MpiInv, BatonKept
<1> QED BY <1>1, MpiInvariant, PTL

(***************************************************************************)
(* Process 0 has both times when it compares them, none of them the        *)
(* variable that was not set, and every runner has run                     *)
(* (replay_race.c:91-118).                                                 *)
(***************************************************************************)
THEOREM TimesComplete == Spec => []BothTimed
<1>1. MpiInv => BothTimed
  BY RaceKeeps DEF MpiInv, BothTimed
<1> QED BY <1>1, MpiInvariant, PTL

(***************************************************************************)
(* What process 0 prints is the second largest value of the array, for any *)
(* array whose length the number of processes divides                      *)
(* (econd_max_finder.c:47-68).                                             *)
(***************************************************************************)
THEOREM SecondFound == Spec => []SecondRight
<1>1. MpiInv => SecondRight
  BY SecondProps DEF MpiInv, SecondRight
<1> QED BY <1>1, MpiInvariant, PTL

(***************************************************************************)
(* An index the search prints is that of the first zero, for any vector    *)
(* and any number of processes, whatever is behind the vector              *)
(* (parallel_search.c:10-15, 43-55).                                       *)
(***************************************************************************)
THEOREM IndexFound == Spec => []IndexRight
<1>1. MpiInv => IndexRight
  BY SearchProps DEF MpiInv, IndexRight
<1> QED BY <1>1, MpiInvariant, PTL

(***************************************************************************)
(* Every element of the product that is computed is the sum over its whole *)
(* row, each element with that of the vector in its column, as far as the  *)
(* vector was distributed: all of it, and all elements, if the number of   *)
(* processes divides the order (parallel_matrix_mult.c:25-42, 86-103).     *)
(***************************************************************************)
THEOREM ProductFound == Spec => []ProductRight
<1>1. MpiInv => ProductRight
  BY EvenProps, UnevenProps DEF MpiInv, ProductRight
<1> QED BY <1>1, MpiInvariant, PTL

(***************************************************************************)
(* Each collective call of the tour delivers what README.md:90-92          *)
(* promises, to any number of processes (A2Q2.c).                          *)
(***************************************************************************)
THEOREM TourDelivers == Spec => []Delivered
<1>1. MpiInv => Delivered
  BY TourProps DEF MpiInv, Delivered
<1> QED BY <1>1, MpiInvariant, PTL
=============================================================================
